# Soteo: a TLA+ model of the campaign cluster

Soteo runs a game as a *campaign*: one campaign server, several shard servers (each simulates one shard of the
world) and clients. This directory holds TLA+ modules that model parts of it, TLC configurations that check them, and
proofs of the main results. Source paths are relative to the repository.

## Inventory

### Components

| Component | State | Operations | Talks to |
|---|---|---|---|
| Campaign server main (`CampaignServerMain.cs`) | where `InitAsync` stands, the local-init barrier, the snapshot file | start, load, unpause after 15 s, end the session after 60 s, save | everything on the campaign server |
| Campaign persistence (`CampaignSnapshotManager.cs`, the consistency validator) | the promises of the shards' answers, a mutex | create a snapshot (attempts, timeout, retries), replicate one | trackers, users, shards by packets |
| Trackers and deployment (`PlayerCharacterTracker*.cs`, spawn and recall handlers) | the shard each player character is deployed on | deploy, take a recall notice, snapshot, replicate | players and shards by packets |
| Users (`UserRepository.cs`) | who exists, who is connected | connect, disconnect, wait, snapshot | the handshake |
| Campaign state (`SynchronizedCampaignStateRepository.cs` and its puppet) | paused flag, users; changed flag, requesters | pause, unpause, tick (broadcast), receive | shards and clients by packets, `SceneTreePauser` |
| Web sockets (`WebSocketFrom*.cs`) | peers, user of each peer, handshakes in progress; client status | accept, hand-shake, poll, send, relay, close | packet handlers |
| Entity manager (`EntityManager.cs`) | entities, weakly held removed entities, dead puppets | spawn, respawn, remove, snapshot, replicate, apply delta | units, projectiles, nodes |
| Shard persistence (`ShardPersistenceSnapshotManager.cs`) | none of its own | create, replicate | entity manager, tick |
| Shard synchronization (`ShardSynchronizationServer.cs`, `...Client.cs`) | last snapshot, requesters; client tick, ring of deltas, buffer history | tick, answer requests; process, receive, fast-forward, desynchronize | WebRTC, entity manager |
| WebRTC (`WebRtcFromGameplayToGameplayCommunicator.cs`) | peer connections, peers announced, packet queue, pings | connect, poll, signal, send, handle what was queued | the above |
| Packet chunks (`PacketChunker.cs`, `PacketChunkCollector.cs`) | groups of chunks with a deadline | split, collect, clean up | WebRTC |
| Units (`Unit.cs`, `Abilities/`, `Statuses/`, `Projectile.cs`) | stats, command, cast in progress, statuses | commands, ticks, damage, death | entity manager, inventories |
| Inventories (`Inventory.cs`, `EquipmentInventory.cs`, `CrossInventoryHelper.cs`) | stacks in slots | add, put, remove, move, equip, unequip | units, puppets |
| Puppets (`UnitPuppet.cs`, `ProjectilePuppet.cs`) | what a client shows, its own copy of an inventory | replicate, apply delta, desync timer | synchronization client |
| Deltas (`Dto/Deltas/`) | none | between two snapshots, apply | synchronization |

Everything in one process runs on one thread; concurrency is between processes, and between a continuation after an
`await` and the packets handled meanwhile.

### What is hard

* One character, several processes: its tracker is on the campaign server, its entity on a shard, and its spawn
  request, recall notice or snapshot in a web socket between them.
* A snapshot of the cluster is not taken at one moment: trackers are copied first, each shard answers later, and the
  pause that should make this harmless is published a tick after the requests.
* Web sockets break: what was under way is lost, packets for a disconnected shard are dropped silently.
* A save has a timeout, attempts and a retry delay; late answers exist. A load has a timeout and an acknowledgement.
* The cluster can be restarted, or crash, at any moment, also while the file is being written.
* Removed entities live on as weak references, can be respawned, and are part of snapshots.
* Clients follow a shard at their own pace through a ring of deltas; pausing, waiting and fast-forwarding interact.
* A client changes its own copy of an inventory ahead of the server, by the operations the server will run, while
  deltas for an older state arrive; commands replace each other, merges leave remainders that have to go back.
* Chunks are lost or late, groups time out at one moment and are removed at another; what arrives between two physics
  steps is queued, and what arrives in a step is not.

`PROJECT.json` lists each hazard at its line with the properties that watch it.

### What makes each component correct

* Persistence and deployment: a character is in one world at most, the one its tracker names; an answer is never
  taken for one of another attempt; a resumed session is exactly the saved one; loading and saving come to an end.
* Campaign state: every shard and client eventually has the last published value.
* Handshake and users: one peer per user, no packet handled on behalf of nobody, a replaced connection stays replaced.
* Startup: nobody plays before every shard is ready; every process that cannot start says so.
* Synchronization: one snapshot per tick, deltas without gaps, the client shows what the server had at its tick.
* Deltas: applied to the earlier state, once or twice, a delta gives the later one.
* Inventories: items are neither lost nor duplicated, stacks keep their bounds, blocked slots stay empty, and a client
  comes to show what the server has.
* Transport: a packet that comes out is the one that was split, and comes out once, exactly when its chunks came in
  time; what is queued is handled before the units tick; listeners know of no connection that is gone.

## Modules

| Module | Models | Needs |
|---|---|---|
| `CampaignPersistence` | campaign server, shards and the sockets between them: load, play, deploy, recall, die, save, crash | |
| `CampaignPersistenceInv` | its inductive invariant | `CampaignPersistence` |
| `CharacterDeployment` | the abstract life cycle of a deployment | |
| `CampaignPersistenceRefinement` | the mapping from the first to the third | both |
| `CampaignPersistenceProofs` | proofs of type correctness, the invariant and what follows from it | `CampaignPersistenceInv`, TLAPS |
| `CampaignPersistenceRefinementProofs` | proof of the refinement | the two above |
| `MCCampaignPersistence` | symmetry for TLC | `CampaignPersistenceRefinement` |
| `WorldReplica` | what a client is promised to see: one snapshot after another, each as it was made, and never back | |
| `ShardSync` | a shard server and its clients: snapshots, deltas, the ring, the client's own time; implements `WorldReplica` | `WorldReplica` |
| `ShardSyncProofs` | proofs that a tick has one snapshot, that no delta is missing, about a client's own time, that it shows its tick, of type correctness, and of the refinement | `ShardSync`, TLAPS |
| `Deltas` | deltas of values, lists, dictionaries, units and shards, as operators | |
| `DeltasProofs` | proofs that they are exact | `Deltas`, TLAPS |
| `ItemStacks` | operations on an inventory and an equipment inventory, as operators | |
| `Inventories` | one character's inventory on the server and at the client, commands and deltas between them | `ItemStacks`, `Deltas` |
| `InventoriesProofs` | proofs of type correctness, of what holds of both copies and that items are conserved | `Inventories`, TLAPS |
| `MCInventories` | items, slots and what a character owns first, for TLC | `Inventories` |
| `PacketDelivery` | what packet handlers are promised: whole packets, none twice, reliable ones in order | |
| `Transport` | data channels, chunks, the packet queue, the frames of a gameplay process; implements `PacketDelivery` | `PacketDelivery` |
| `TransportProofs` | proofs of type correctness, of connections, groups, the order of packets, what they are restored to, and the refinement | `Transport`, TLAPS |
| `MCTransport` | lengths of packets for TLC | `Transport` |
| `Combat` | units that attack, sacrifice, recall, bleed, die and come back; projectiles; what a restart keeps of them | |
| `CombatProofs` | proofs of type correctness, earned effects and frozen removed units | `Combat`, TLAPS |
| `MCCombat` | use times and cooldowns for TLC | `Combat` |
| `CampaignConnections` | web sockets, handshake, users, the initialization of a session, the campaign state on every node | |
| `MCCampaignConnections` | symmetry for TLC | `CampaignConnections` |
| `CampaignConnectionsProofs` | proofs of its invariants | `CampaignConnections`, TLAPS |

### CampaignPersistence

**State.** `phase` is the point `InitAsync` has reached (waiting, loading, ready, running, collecting the shards'
answers, waiting to retry, writing, ended, or failed). `tracker` is `PlayerCharacterTrackerRepository`;
`statePaused`, `stateChanged` and `stateRequesters` are the fields of `SynchronizedCampaignStateRepository`;
`loaded`, `answered` and `answers` are the completed promises of `CampaignSnapshotManager`; `attempt` is its loop
counter and `cut` its copy of the trackers. `entities` gives the status of each character in each shard's
`EntityManager`: not there, in the world, in the world after a respawn (with two subscriptions to `Removed`), or
removed and still reachable through a weak reference. `paused` is `SceneTree.Paused`. `toShard` and `toCampaign` are
the packets in each web socket, `connected` the sockets that are open, `disk` the snapshot file.

**Actions.** One per handler, timer or continuation. `LoadSnapshot`, `FinishLoading`, `LoadTimeout`,
`StartNewCampaign`, `LoadTornSnapshot` are the outcomes of `TryLoadSnapshotAsync`; `Unpause`, `EndSession` the two
ends of a session (`EndSession` pauses *and* starts the first attempt, because no `await` separates them);
`PublishState` is the repository's tick; `FinishAttempt`, `CollectTimeout`, `Retry`, `GiveUp`, `WriteSnapshot` are
`CreateSnapshotAsync` and what follows it; `Deploy`, `ReceiveRecalled`, `ReceiveShardSnapshot`, `ReceiveReplicated`
the campaign server's handlers; `ReceiveSpawn`, `ReceiveSnapshotRequest`, `ReceiveState`, `ReceiveReplicate` and
`ReplicateThrows` the shard's; `Recall`, `Die`, `Collect` what happens in a world and to its garbage. The environment
loses connections (`Disconnect`, `Reconnect`), stops the cluster anywhere (`Restart`) and kills the campaign server
while it writes (`CrashWhileWriting`).

**Abstractions.** Entities other than player characters, positions, stats and items are left out: a snapshot says only
which characters are in a world, and which are removed from it. A character has one controlling player, so a respawn
never fails on its owner. The wait for the shards to connect precedes the model's first state, and the barrier on their
local initialization, which changes none of this state, is left to `CampaignConnections`. A socket that is closing
counts as closed. A broken connection loses everything under way in it; a whole connection is first-in first-out. A
shard that is restarted alone while the campaign server goes on is left to `CampaignConnections` too: sessions are
started as a whole (`Docs/Overview.md`).

### ShardSync

**State.** `session` stands for the paused flag the shard has received, `tick` is `CurrentTickRepository`, `prev` and
`requesters` are the fields of `ShardSynchronizationServer`; `world` counts the changes made to the shard's world and
`made` remembers the world in the snapshot of each tick (it is the only variable the code does not have).
`connected` and `noticed` are the open connections and those the server has been told of, `toClient` and `toServer` the
packets under way. `state` and `sync` are `State` and `_syncData` of each `ShardSynchronizationClient`; `view` is what
its puppets show: a world, and the next one while they interpolate.

**Actions.** `UnpausedTick` and `PausedTick` are the server's physics frame, the first with the tick that passes at its
end; `PeerConnected` and `ReceiveSnapshotRequest` its handlers. `ReceiveSnapshot` and `ReceiveDelta` are the client's.
A client's frame, `Process`, is one of `LoseSnapshot` (the deltas have outrun its snapshot), `FallBehind` (the ring has
wrapped), `WaitFrame` (its deltas have not come) and `AdvanceFrame` (apply deltas, write the buffer history, perhaps
fast-forward). `Connect`, `Disconnect`, `ChangeWorld`, `StartSession` and `EndSession` are what others do.

**Abstractions.** A delta is the pair of worlds it was made between. Applied to another world it gives `Mixed`, a view
that is neither: fields that did not change in between keep old values, and entities spawned or removed in between
are missed. A delta between equal worlds changes nothing, so to miss it does no harm, in the code or in the model.
Client time is counted in fractions of a tick; the frame length is any number of them up to a bound, which stands for a
client that stutters or was suspended. How far a view has moved towards the next world (the weight of a partial delta)
is not modelled. Packets of one connection keep their order (the channel is reliable and
ordered); a connection opens together with its channel. Server load, ping and latency, shown by the debug screen only,
are left out.

**Before tick 0.** Ticks are those of the code: a new campaign starts with tick 0 and a resumed one with the tick it
saved (`FirstTicks`). The snapshot made while a new campaign is still paused is therefore of tick −1, and every client
that joins before the start follows from there. `Tick % 1 > 0` (`IsBetweenTicks`) is false for a negative time, because
C#'s remainder has the sign of its dividend: between −1 and 0 a client applies no part of the delta of tick 0 and shows
the paused snapshot until it has passed tick 0. No comment, document or test speaks of the interpolation, so this is
described and not reported: `ViewIsExact` and `WorldReplica` say that a client stands still there, and is on its way
to the next snapshot between any two later ticks. A frame that passes from before tick 0 to after it is like any other.
The cast of the time to a second rounds toward 0 as well (`Second`), so that the time before tick 0 belongs to second 0.

### CampaignConnections

This module and `CampaignPersistence` model the same cluster from two sides: here sockets, users and the start of a
session in detail, and of the snapshot only that each shard gets its part; there what the snapshot holds, and of the
sockets only that they are connected or not. The campaign state is in both.

**State.** `peers` and `userOf` are `_wsPeers` and `_userIdsByWsPeerId` of the campaign server's communicator,
`waiting` the handshakes that await the initialization, `users` is `UserRepository`, `localDone` the completed tasks of
`_shardServerLocalInitDoneTcs`; `isPaused`, `isChanged` and `requesters` are the fields of
`SynchronizedCampaignStateRepository`. `status` and `socket` belong to the communicator of each node; `known` is its
copy of the campaign state, and `initial`, `reported` and `ready` say how far `ServerInitAsync` or `ClientInitializer`
has come. `owner`, `token`, `isOpen`, `toServer` and `toNode` are the sockets.

**Actions.** A node's `Connect`, `AuthFails`, `Accept`, `SendHandshake`, `NoticeClosed` are the steps of its `Poll` and
of its request for a token; `ReceiveAck`, `ReceiveInitial`, `ReceiveState`, `ReceiveInitialized` handle packets. The
campaign server polls: `ReceiveHandshake`, `ReceiveLocalDone`, `DropPeer`. `LoadSnapshot`, `StartNewCampaign`,
`Initialize`, `InitFails`, `Unpause` and `Pause` are the parts of `InitAsync` between its awaits; `Initialize` also runs
the handshakes that waited, in order, each up to the point where it throws (`Enter`). `Tick` publishes the state.
`Close` breaks a connection; `Restart` ends a process and starts it again. A client may log in as any player, so two
clients can be one user.

**Abstractions.** One packet is handled in a step. What follows an `await` is an action of its own, also where the
runtime runs it inside the call that completes the task. A packet that is refused closes its socket, which `Close`
covers. A token is valid. The order in which a dictionary lists the receivers of a broadcast is left open: when one of
them throws, any of the others may have been served. The same state is not put under way twice in a row, because its
receiver ignores it.

### Deltas

A list is a sequence, a dictionary a function on its keys. `DeltaBetween`, `ListBetween`, `DictionaryBetween` and
`...FromNew` are the factories of `Delta`, `ListDelta` and `DictionaryDelta`, `ApplyDelta`, `MutateList` and
`MutateDictionary` apply them; `UnitBetween`, `ShardBetween`, `MutateUnit` and `MutateShard` compose them as
`UnitSnapshot`, `ShardSnapshot`, `UnitPuppet` and `EntityManager` do. A unit has one field of each kind: a value
(for position, azimuth and flags), a dictionary (stats, abilities, statuses, equipment) and a list (items, controlling
players). Interpolated values, which exist between two ticks only, are any values (`PartlyMutated`).

### ItemStacks and Inventories

**State.** `server` is the inventory and the equipment inventory of one unit on its shard server; `command` is the
command the unit will execute, when it is one about items. `synchronized` and `displayed` are the two copies of
`UnitPuppet`, `desync` is its `_inventoryDesyncTimeRemaining`. `commands` are under way to the server, `deferred` wait
there for the physics step, `deltas` are those the client has not applied. `commandThrew` and `diverged` are history:
an operation has thrown on the server, or on the client's display, in the middle of its changes.

**Actions.** `MoveInventoryItemStack`, `EquipFromHud`, `UnequipFromHud` are the player's operations: each changes
the display, keeps it apart for a while and sends a command. `ReceiveCommand`, `DeferCommand`, `HandleDeferred` and
`ReplaceCommand` bring commands to the unit, the later of which replaces the earlier; `Tick` executes it, by the same
operators, and makes the delta of the tick. `ApplyFullDelta`, `ApplyPartialDelta` (between two ticks), `ReplicateSnapshot`
and `Process` are the puppet's. `ItemStacks` has the operations themselves: `PutAt`, `AddOutcomes`, `Moved`,
`EquipmentPutAt`, `Equipped`, `UnequipOutcomes`, with the remainders that go back and the exception of a complete merge.
The loop of `Add` over the slots is the one function that gives what is left after each slot (`AddLoops`). A character
starts with what it owns (`Owned`), however that is distributed, and has finitely many equipment slots.

**Abstractions.** One unit, whose player is its only one. Other commands only take the place of one about items. Ticks
in which nothing about items changes make no delta. A pause refuses commands and is a choice of `SetCommand`. The
movement to other units' inventories does not exist in the code.

### Transport

**State.** `reliable` and `unreliable` are what is under way from each peer, `connections` and `connectedPeerIds` the
dictionary of peer connections and the peers that listeners were told of, `groups` and `nextCleanup` the fields of
`PacketChunkCollector`, `packetQueue` the packets that wait for the physics step. `step`, `toPoll`, `reading` and
`didPoll` say what the communicator is doing: Godot calls `PhysicsProcess` any number of times and then `Process`, and
the first of them in a frame polls. `sent`, `announced`, `arrivals` and `handled` are history: what was sent, which
connection listeners know of, when each chunk arrived and what the packet handlers got.

**Actions.** A peer's `Send` (whole or split by `SplitIntoChunks`), `Establish`, `PeerCloses`; `CreateConnection` for a
peer's offer or the player's order, which replaces an old connection; `PassTime`. Of the frame: `PhysicsProcess`,
`Process`, `PollPeer` (visits one connection of the copied dictionary), `ReceiveReliable`, `ReceiveUnreliable`
(`HandlePacket`: the collector, then the queue or the handlers), `EndPoll`, `HandleQueued`.

**Abstractions.** The bytes of a packet are its positions, so that what is joined from them shows what it was made of.
Signalling (SDP, ICE) is `Establish`; pings and bandwidth are left out. What the network does during a frame after its
poll is not read in this frame and happens before the next one. A process step that begins after a physics step has
polled does nothing. In a physics step a packet that arrives is handled before those that were queued since the last
one, although the channel keeps their order; `OvertakenWithinStep` says that this never goes beyond the step, so that no
tick falls in between.

### Combat

**State.** `units` gives for each player character whether it is in the world, removed from it but still an object, or
no object; `isDead`, its current health, `AbilitySlotStates` (the cooldowns), `AbilityUseProgress`, its bleeding (source,
remaining time, countdown of its tick) and the command in `_commands`, which holds one at most. `projectiles` are the
projectile entities, `toTick` and `ticking` say how far a physics frame has come, `left` and `iterations` are
`remainingDeltaTime` and `iterations` of `ExecuteCommands`. `work`, `rest` and `effect` are history: what a unit has been
doing without a break and for how long, the time since each ability took effect, and the effect of the last step.

**Actions.** Between frames: `SetCommand` with any order that `InputHandler` sends for the attack (repeated), the
sacrifice and the recall, or with another command; `Spawn` (a new unit, or the removed one that is still reachable);
`Collect` (garbage collection of a removed unit nothing refers to); `Restart` (the world is saved and loaded). A frame
is `StartFrame`, then in any order the ticks of the units and `TickProjectile` for each projectile. The tick of a unit
is `BeginTick` (statuses, cooldowns), one `ExecuteCommand` for each iteration of `ExecuteCommands` (`LoseTarget`, `GiveUp`,
`Approach` or `Use`, which may end in `TriggerAbilityEffect`), and `EndTick`. `HealthChanged` and `BleedingAdded` are
what an effect does to a unit, and where the code looks whether it is removed.

**What a restart forgets.** A snapshot of a unit has no command, so a use in progress goes on only if nothing is
ordered before; a snapshot of a projectile does not say whether it has hit, so one saved in the frame of its hit hits
again; a removed unit in a snapshot stops it from being loaded, because its statuses refer to the unit itself. All three
are in the model.

**Abstractions.** Where units are is open: whether a target is in range, and how much of a tick is left on arrival.
One fact about geometry is assumed, in `Use`: a use that was broken off because the target left 1.5 times the range, or
the angle, does not begin again within the same tick. All units are enemies of each other, which adds
orders and leaves none out. Health is counted in units that make a cost, a hit, a bleeding tick or a lifesteal one; the
drain of `VampireStatus` takes any part of what is above the stable health. The twofold subscription to a second removal
(`LostRecall`) is left to `CampaignPersistence`, and so is who may deploy whom: a dead character is not deployed. The
heal, the projectile burst, mana, other stats and movement as an order of its own are left out: a command other than
the three abilities only takes their place.

## Runs

| Run | Checks | Bounds |
|---|---|---|
| `OneCharacter` | types, no second copy, no spawn of a present character, answers belong to their attempt, own recall only, exact resume, the refinement, loading and saving come to an end | 2 shards, 1 character, 2 attempts, 1 restart, 2 deployments, 1 death, 1 lost connection |
| `Follow` | types, no gap between deltas, the view is that of its tick, client time is sound, the refinement of `WorldReplica` (one snapshot per tick, what is shown is exact and only moves on), a snapshot arrives | 1 client that connects twice, ticks up to 6 of a new campaign (from the snapshot of tick −1) or of one resumed at tick 3, 2 changes, ring of 3 deltas, buffer history of 2 seconds of 3 steps, 2 steps per tick, frames of up to 4 steps |
| `Startup` | types, one connection for a user, nobody starts early, presence of players, reports find their tasks, the known state is fresh | 2 shards, 2 clients, 1 player, 4 attempts to connect, 1 failure |
| `Inventory` | types, items are conserved, equipment fits, stacks within their maximum, the display and the deltas are those of the server, the copy never goes back, the display settles | 5 items of 3 kinds in 4 + 3 slots, 6 things a character may own first, 2 operations, a display kept apart for 1 frame |
| `Transport` | types, packets handled as sent and once, exactly when in time, listeners know of present connections, overtaken packets wait for no tick, the refinement of `PacketDelivery`, what is queued is handled | a shard server, 1 peer that connects twice, 2 packets of one or three chunks, 3 time units with a timeout of 1 and a cleanup every 3 |
| `Combat` | types and the agreement of health, death and presence, effects are earned, removed units stay as they are, a recall settles | 2 units of health 2, a tick of 2, use times of 3, cooldowns of 3, 2 and 0, bleeding for 2, projectiles that fly for up to 2 frames |

The bounds are chosen for the shortest histories in which something can go wrong: a second deployment is what a stale
notice could clear; two attempts are what a late answer could confuse; one restart makes a saved file be loaded; two
shards are needed for a second copy. Characters meet only in the snapshot, whose two halves list each character by
itself. What the first run shows on this instance, the theorems show for all values of the constants, except where
said below; among them the invariant and the refinement, for any number of characters.

`Follow` scales the constants of the code down and keeps their order: a fast-forward needs a larger buffer than it
leaves (`MinSafe < MinToFastForward`, 1 and 1.2 ticks in the code), the ring holds more than that buffer, and within six
ticks the ring wraps, the history fills and a fast-forward happens. A second is longer than a tick, as that of the code
(20 ticks) is: `SyncAssumption` says so, because the time before tick 0 must not reach a second before the first. The
run starts a new campaign or resumes one at tick 3; only the first has a time before tick 0. Clients share nothing but the server's requesters and
last snapshot, so one client that comes back stands for two.

`Startup` has two shards because the barrier must hold the quicker one back, two clients that log in as the same player
because a second login replaces the first, and one failure anywhere: a broken connection, or a shard or client that is
restarted. Four attempts are what the four nodes need; a node that lost its connection takes the attempt of another.

`Inventory` has a potion of which two make a stack and which is drunk from a slot that both the hat and the sword
block: full, partial and single stacks, merges with and without a remainder, refusals of a blocked and of a blocking
stack all occur within two operations, which is what an operation on the display needs to meet the deltas of another.
`MCInventories` also checks the operators of `Deltas` on all short lists and dictionaries.

`Transport` needs three chunks for a group that loses one, gets two in the wrong order, or gets the last one after its
timeout, and two packets to overtake each other or to share the collector; its cleanup comes at a time when one group
may have timed out and the other has not. One peer that comes back stands for two, except for the sender of a group,
whose id the sender chooses at random. `MCTransport` checks the chunks of every packet up to 20 bytes.

`Combat` makes a use longer than a tick and the attack end in the middle of one, so that progress is carried over, broken
off and resumed; a health of 2 makes one hit a wound that forbids the sacrifice and two a death, and the bleeding of a
hit kills by itself. `MaxFlight` bounds how long a projectile is under way, and with it how often a restart can make the
same one hit. `CombatAssumption` says that two shots of a unit are never of the same age, which needs that the attack's
use time and cooldown together make at least two ticks (20 a second): the attack speed of the code stays below that.
With two units an attacker has one target, so that a change of the target in the middle of a use, which `SetCommand`
ignores, does not occur in this run; the theorem `EarnedEffects` covers it for any number of units.

**Fairness.** `OneCharacter`: the campaign server's timers fire and its continuations run: weak fairness on
`InitAsync`'s own steps, which the process's event loop gives. Nothing is assumed of shards, players or sockets: both
properties must hold when every shard is silent, because the code gives each wait a timeout. `Follow` assumes that the
session ends, that the physics frames of the shard go on while it is paused (`callWhenPaused: true`) and that what is
sent over an open, reliable channel arrives. `Inventory` assumes that commands on the reliable channel arrive, that the
server makes physics steps, in which it handles packets and ticks units, and that the client renders frames and applies
the deltas it has; the player need not act. `Transport` assumes that a poll comes to its end, and strong fairness of
the physics step: it is made at a fixed rate, but only between other steps of the same thread. Nothing is assumed of
the network. `Combat` assumes that frames follow each other and that in each of them every unit and every projectile in
the world ticks, which is Godot's physics loop while the shard is not paused. Players may order what they like at any
rate: a recall settles in spite of them.

### Disagreements with the code's own statements

Six runs are expected to be violated; each shows a way in which the code does not do what a comment or document of
the repository says.

* `LostRecall`: a respawned entity is subscribed twice to its own removal; its next recall throws before the notice is
  sent, and the character stays deployed nowhere.
* `RemovedBlocksSave`: the validator rejects the removed entities that `EntityManager` includes on purpose: a cluster
  at rest with one of them can not be saved.
* `SavedWhilePlaying`: the snapshot requests are sent before the pause is published.
* `FastForward`: a client that fast-forwards skips the deltas of the ticks it passes. `ViewIsExact` therefore speaks of
  clients that have not fast-forwarded yet.
* `Refused`: a player whose socket closes while its handshake waits for the initialization is mapped to that socket
  afterwards. No later login of this player succeeds. A broadcast throws at this user as well: the campaign state stays
  marked as changed and reaches only the users before it, in every tick anew (`Tick`, `Throws`). The run assumes that
  every process goes on with its frames, that sockets stay open unless they break, and that timers fire.
* `EquipMerge`: a stack put into an equipment slot that takes all of it leaves a remainder of 0, which `ItemStack`
  refuses: the merge the comment describes throws after the slot was changed. On the server nothing is lost, because the
  stack was taken out of the inventory before (`ItemsConserved`). At the client the display stays changed without a
  command having been sent, and deltas are applied to it that were not made for it, until the next operation or
  snapshot: `diverged` marks such a display, and the properties of the display leave it out.

`NotStuckInTransit` is also broken by a save that falls between a recall and its notice, because the validator takes a
removed entity for a present one (line 31): the resumed campaign has a tracker whose character no world holds; by a death (`Unit.Die` tells nobody) and by a spawn request for a shard whose
connection is down, which the model contains too. A crash while the file is written leaves a file on which every later
start fails (`CrashWhileWriting`, `LoadTornSnapshot`).

## Proofs

TLAPS checks, for any set of shards, characters and clients and any bounds:

| Theorem | Says |
|---|---|
| `TypeCorrect` | `TypeOK` is invariant |
| `InductiveInvariant` | `IInv` is invariant |
| `NoSecondCopy` | `LiveWhereTracked`: a character is in one world at most, its tracker's |
| `SpawnNeverThrows` | `SpawnFindsNoEntity` |
| `OwnRecallOnly` | `RecallClearsOwnDeployment` |
| `AnswersAreCurrent` | `AnswersMatchRequests`: no attempt to save takes the answer to an earlier one for its own |
| `SessionsResumeTheFile` | `ResumeIsExact`: a session starts from exactly what the last save wrote |
| `DeploymentRefinement` | the cluster implements `CharacterDeployment` |
| `SnapshotsAreUnique` | `OneSnapshotPerTick`: a shard makes one snapshot for a tick, and never replaces it |
| `NoDeltaIsMissing` | `NoGap`: the next delta a client gets is one it can store, or has |
| `ClientTimeAdvances` | `ClientTimeIsSound`: a client's time never goes back nor passes its deltas, and a fast-forward leaves the buffer |
| `ClientsShowTheirTick` | `ViewIsExact`: a synchronized client that has not fast-forwarded shows the snapshot of its tick, from tick 0 on it is on its way to the next one between two ticks, and before that it stands still |
| `ReplicaRefinement` | `ShardSync` implements `WorldReplica` |
| `TypesAreCorrect` (in `ShardSyncProofs`) | `TypeOK` of `ShardSync` is invariant |
| `TypeCorrect` (in `CampaignConnectionsProofs`) | `TypeOK` of `CampaignConnections` |
| `ConnectedNodesAreMapped` | `OneConnectionPerUser`: a node that holds itself connected is the one its user is mapped to |
| `BarrierHolds` | `NobodyStartsEarly`: no node is initialized before every shard has reported |
| `PresenceFollowsSockets` | `PresenceIsExact`: a player is connected exactly while a socket is mapped to it |
| `ReportsComeOnce` | `ReportFindsItsTask`: a report under way finds its task there and not completed |
| `NodesLearnTheState` | `StateIsFresh`: no node misses a change of the campaign state |
| `ListExact`, `DictionaryExact`, `ShardExact` | a delta applied to the earlier list, dictionary or shard gives the later one |
| `ListAppliedTwice`, `DictionaryAppliedTwice` | also when it has been applied before, with any interpolation weight |
| `TypesAreCorrect` (in `InventoriesProofs`) | `TypeOK` of `Inventories` is invariant |
| `ItemsAreConserved` | `ItemsConserved`: no item is lost or made, on the server or in a copy of the client |
| `EquipmentAlwaysFits` | `AllEquipmentFits`: equipped stacks are where they belong and none is blocked, in every copy |
| `StacksStayWithinMaximum` | `StacksWithinMaximum`: no operation makes a stack beyond its maximum |
| `DisplayShowsSynchronized` | `DisplayIsSynchronized`: a display that is not kept apart is the synchronized copy |
| `DeltasAlwaysLeadToServer` | `DeltasLeadToServer`: the deltas under way lead from the client's copy to the server's state |
| `SynchronizedAdvances` | `SynchronizedNeverGoesBack`: each change of the client's copy makes it a later state of the server |
| `TypeCorrect` (in `CombatProofs`) | `TypeOK` of `Combat`: with the types, health, death and presence of a unit agree |
| `EarnedEffects` | `EffectsAreEarned`: an effect had its whole use time without a break, its cooldown but a tick, and did not kill its user |
| `RemovedUnitsAreFrozen` | `FrozenWhileRemoved`: what hits a unit that is out of the world changes nothing of it |
| `TypeCorrect` (in `TransportProofs`) | `TypeOK` of `Transport`: with the types, no complete group is kept |
| `ListenersAreUpToDate` | `AnnouncedIsPresent`: listeners know of no connection that is gone |
| `GroupsAreCleanedUp` | `StaleGroupsAreCleanedUp`: a group that timed out is gone within a cleanup interval |
| `OvertakenPacketsWaitForNoTick` | `OvertakenWithinStep`: a packet is overtaken within a physics step at most |
| `ChunksJoined` | the chunks of a packet, joined, are the packet, whatever its length and the sizes of chunks |
| `PacketsAreHandledAsSent` | `HandledAsSent`: handlers get packets as they were sent, and none twice |
| `PacketsAreRestoredInTime` | `RestoredInTime`: a packet whose chunks all arrived is received exactly when they came within the timeout |
| `DeliveryRefinement` | `Transport` implements `PacketDelivery` |

`LiveWhereTracked` is not inductive: nothing in it says that the spawn request under way is not for a character that is
elsewhere, or that the notice under way is not about a later deployment. `IInv` treats a deployment as a *token*: while
a tracker names a shard, at most one of these exists, all of it on that shard: a spawn request, an entity in the world,
a recall notice. Loading is the one step that makes many tokens at once, so `IInv` also says what a session starts from
(empty worlds, nothing under way), that nobody plays before the load is over, and that the file passed both halves of
the validator. With it, every action either leaves the tokens alone, moves one, or drops one; the lemmas are grouped
that way (`NoNewToken` for the many quiet steps; `DeployStep`, `SpawnStep`, `RecallStep`, `RecalledStep`, `LoadStep`,
`ReplicateStep` for those that move one). The assumptions are `ShardsAssumption` and `BoundsAssumption`.

`AnswersMatchRequests` is inductive with the types: an attempt begins only where nothing is awaited, and from there one
request becomes one answer, which the campaign server takes once (`BeginMatched`, `AnswerMatched`, `AnswerTaken`).
`ResumeIsExact` rests on `IInv` and `LoadsTheFile`: while a session loads, the snapshots under way are the file's, and a
shard whose acknowledgement is under way or counted has the file's characters in its world. `IInv` supplies that a
snapshot finds an empty world and that no recall, spawn or death comes between (`ReplicatesTheFile`); a shard whose
replication throws acknowledges nothing, so that nothing is claimed of it.

`OneSnapshotPerTick` rests on `LastSnapshotIsKept`: the server's last snapshot is the one of the tick before the
current one, or no snapshot was ever made, and none exists for the current tick or later. `NoGap` needs an invariant of
the whole queue (`QueueOK`): deltas are in the order of their ticks, and behind every snapshot there is a delta for each
tick passed since. A client that has a snapshot has the deltas from the next one it expects on its way (`DeltasAreSent`),
which is what taking a snapshot from such a queue gives it; before the first snapshot of all, nobody has one and nothing
is under way. `ClientTimeIsSound` rests on `TimeInv`: a synchronized client has deltas later than its snapshot. A
fast-forward takes the least entry of the history, which exists since numbers are well-founded (`LeastNumber`) and
all entries are at least `MinToFastForward`; it is at most what was just written for the second the client is in.

`ViewIsExact` needs that the ring still holds what a frame reads. `ViewInv` says that every delta under way and every
snapshot a client keeps is of snapshots that were made, and that the ring holds the deltas of the last `RingLength`
ticks since the client's snapshot, which ticks have places of their own (`PlacesDiffer`). A frame that does not find
itself behind the ring (`BehindRing`) then reads only such deltas. `ApplyPassed` applies them one by one; that this
leads from the snapshot of the first tick to that of the last is shown without induction, from the least tick at which
it would not (`PassedExact`), and `AppliedExact` adds the part of the next delta from tick 0 on; a frame that ends before
tick 0 applies nothing. The least tick of a shard is −1 in all of these proofs, because a new campaign may start with
tick 0 (`FirstTicks`). The assumption of all four is `SyncAssumption`.

The six theorems about `CampaignConnections` share one inductive invariant, `IInv` of `CampaignConnectionsProofs`. It
says that an open socket is the one its node has and names a user of that node (`LinksOK`); that a socket is mapped to
the user of its token, no two to the same user, and none to a player before the session is initialized (`MapOK`); that
only a socket that is mapped has anything under way to its node (`ChannelsOK`), which is why an acknowledgement never
comes for a socket that has been replaced; and that a shard's part of the snapshot, the shard's having it, its report
and the completed task follow each other and never coexist (`ReportsOK`), which is why a report finds its task. The
hardest step is `Initialize`, which goes through any number of waiting handshakes: `EntryOK` says what handshakes make
of the map and the channels, `EnterSound` that one more keeps it, and `EnterAllSound` that a queue of them does, from
the least place at which it would not (`LeastNumber`; that the recursive function of `EnterAll` exists is shown the same
way, in `EntriesExist`). `SameNews` makes sure that no handshake hides a state or a part of the snapshot that is under
way. The assumption is `ConnectionsAssumption`.

The theorems about deltas need no assumption but that lists are sequences and dictionaries functions. Those about
inventories rest on `ItemsAssumption`, `NoStackAssumption` and `InventoriesAssumption`, and on the inductive invariant
`IInv` of `InventoriesProofs`: the types, `HoldingsAreSound` (in every copy and in every state a delta leads to,
equipment fits and stacks keep their maximum), the relation of the display and that of the deltas. The parts need each
other: what the server holds stays sound by the lemmas about each operation (`MovedSound`, `EquippedSound`,
`UnequipSound`), and what the client's copy becomes is sound because the delta leads to a state the server was in
(`WithDeltaExact`); this uses the theorems about deltas, and `ListAppliedTwice` where a client has applied half a delta.

`EffectsAreEarned` is about one moment, and rests on what `CombatInv` says of every unit at any other: its progress is
that of its present command and has been worked for at that command's target (`ProgressIsWork`); a cooldown that is over
had its time, where the tick a unit still owes in this frame counts as not yet rested (`CooldownIsRest`, `Owed`); and a
unit in its turn is in the world and has the whole tick before its first iteration (`TurnIsOrderly`). The lemmas first
say what each operation on a unit keeps (`HealthChangedSound`, `StatusesProcessedSound`, `UseGoesOnInv`,
`CooldownBeginsInv`), then what each action does with them. The assumption is `CombatAssumption`.

`OvertakenWithinStep` relates the queue and what was handled, and both grow from the channels. `OrderOK` of
`TransportProofs` therefore says that nothing under way on a reliable channel comes before what was received or is ahead
of it (`NotBefore`), and that between physics steps nothing queued comes before what was handled: a step that ends has
emptied the queue. A packet that is restored has the id of its last chunk (`PacketsReceived`), so that its place among
the others is that of the chunk. Groups need that no cleanup is further away than the interval. The assumption is
`TransportAssumption`.

For `TypeOK` of `ShardSync`, `TypeInv` says that a client that is not synchronized has no time and that its ring holds
deltas only; that time is bounded by the ticks made so far comes from `TimeInv`. A frame of a client leaves its ring, its
history and its view within their types however many deltas it applies: `PassedTyped` takes the least tick at which that
would fail, as `PassedExact` does for the values.

`ReplicaRefinement` maps a client to the time it shows: that of its snapshot while it is still waiting for deltas, its own
tick from then on, and none when it is desynchronized or has fast-forwarded; after a fast-forward what it shows is the
finding of `FastForward`, and it is lost to the abstract specification until it connects again (but for the time it has
a new snapshot and waits for deltas). `FollowersSee` takes from
`SyncInv` and `TypeInv` that this time is one that was made and that the view is exactly the two snapshots around it.
An unpaused tick makes a new last snapshot, a paused one only the first of all (`ServerMakes`); a frame moves the time on
or lets the client be lost (`FramesGoOn`); a snapshot starts with a whole tick (`SnapshotStarts`); every other step
changes nothing that is shown. `OneSnapshotPerTick` is part of what `WorldReplica` allows, and `StaleGroupsAreCleanedUp`
is part of what the proofs about `Transport` rest on: both are proved, and no run checks them by themselves.

`ItemsConserved` is part of `IInv` of `InventoriesProofs` (`Whole`). The items of a kind in some slots are a set of
pairs of a slot and a number, so that what an operation does to one slot is a union of disjoint finite sets (`CountSet`,
`ItemsSet`, `EquipmentSet`) and needs no induction over the slots. Merging, swapping, equipping and unequipping then each
move a number of items between two slots (`PutAtCount`, `MovedCount`, `EquippedCount`, `UnequipCount`). Only the loop of
`Add` goes through all slots: `FilledCount` takes the least slot at which the inventory and what is left would not add
up. What the client has is whole because it is always a state that the server was in, or one the display made of such
a state by the same operations.

`HandledAsSent` and `RestoredInTime` rest on `DeliveryInv`: a packet that was received has nothing under way and no
group; of one that was not, the group holds what has arrived since it was opened, or the first chunk came so long ago
that the packet can not be in time any more (`PacketOK`). Nothing is under way twice (`ChannelsOK`). The collector only
counts the chunks of a group. When they are as many as the last index says, they are all of the packet's, because none
is there twice: `Pigeonhole`. A sequence of `n` different chunks whose indexes are `0..n - 1`, sorted, is the sequence
in which they were split (`Increasing`, `ChunksSorted`), and that, joined, is the packet (`ChunksJoined`, by the least
number of chunks whose bodies would not join). `HandleDelivery` then goes through the ways a chunk may come: whole, ignored,
into a group, completing one, after a cleanup or not. For the refinement, `HandledStep` adds that a packet is accepted
when it was not received before, and that no reliable packet of the same peer received before is a later one, which is
what `OrderOK` says of its chunk.

Only model-checked are the six liveness properties (`LoadSettles`, `SaveSettles`, `SnapshotArrives`, `DisplaySettles`,
`QueuedIsHandled`, `RecallSettles`): they rest on fairness, and the prover knows nothing of ENABLED. Every invariant
and every action property that a passing run checks is proved, and so are the three refinements. What a recursive function
computes is proved without induction, from the least number at which it would be wrong.

## Plan

In this order; 1 to 6 and 8 to 10 are done, and of 7 all but movement, mana, the heal and the projectile burst.

1. Persistence and deployment, the abstract deployment, the refinement, their proofs.
2. Shard synchronization: server, client, ring of deltas, pausing, fast-forward; theorems: one snapshot per tick,
   contiguous deltas, the ring holds what is read from it.
3. Handshake, users and the client status machine; theorem: one peer per user.
4. Startup of a session: connect, load, local-init barrier, their timeouts.
5. Inventories and their copies at the client; theorems: equipment fits, capacity, the copy follows the server.
6. Packet chunks and the packet queue; deltas as pure functions, with their theorems.
7. Units: commands, casting, statuses, death; projectiles.
8. Proofs of `AnswersMatchRequests` and `ResumeIsExact`.
9. Proofs of the remaining invariants: `ItemsConserved`, `HandledAsSent`, `RestoredInTime`, `TypeOK` of `ShardSync`; the
   abstract delivery of packets and its refinement.
10. An abstract specification of what a client sees of a shard, and its refinement by `ShardSync`.

## Not modelled

Serializers (byte layout), the authentication server (a web application on framework services), user interface and
input, mathematics and extension methods, configuration, logging, assets, migrations and vendored code keep no state
that the properties above could be about, or are not this program's own logic. Parts that are planned are marked so in
`PROJECT.json`.
