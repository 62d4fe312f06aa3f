---------------------------- MODULE Inventories -----------------------------
(***************************************************************************)
(* The inventory of one player character on its shard server and on the    *)
(* client of its player.                                                   *)
(*                                                                         *)
(* The player moves, equips and unequips stacks. The client changes the    *)
(* inventory it displays at once and sends a command; for a while it keeps *)
(* the deltas of the server away from what it displays, and then takes     *)
(* over the copy that it kept synchronized all along (UnitPuppet). The     *)
(* server keeps one command for a unit: a later one replaces it.           *)
(*                                                                         *)
(* Commands travel on the reliable channel, and may overtake each other in *)
(* the server (Transport); deltas reach the unit in the order of their     *)
(* ticks (ShardSync). The fields "from" and "to" of a delta are history:   *)
(* the states it was made between.                                         *)
(***************************************************************************)
EXTENDS ItemStacks, Deltas

CONSTANTS
    NumSlots,          \* slots of the inventory of a character
    InitialHoldings,   \* what the character may own when it is spawned
    Owned,             \* Owned[i]: how many items i that is
    DesyncTime,        \* how long the display is kept apart, in frames (0.5 s)
    MaxOperations,     \* bound: what the player does
    NoCommand          \* the unit has nothing to do

AllHoldings ==
    [items : [1..NumSlots -> SlotContents], equipment : [EquipmentSlots -> SlotContents]]

IsCommand(c) ==
    \/ c.type = "MoveItemStack" /\ c \in [type : {"MoveItemStack"}, from : 1..NumSlots, to : 1..NumSlots]
    \/ c.type = "Equip" /\ c \in [type : {"Equip"}, from : 1..NumSlots]
    \/ c.type = "Unequip" /\ c \in [type : {"Unequip"}, equipmentSlot : EquipmentSlots, to : 0..NumSlots]

\* The items of a kind in some slots, one by one, and how many they are.
CountAt(stack, item) ==
    IF stack # NoStack /\ stack.item = item THEN stack.count ELSE 0

UnitsIn(slots, item) == UNION {{s} \X (1..CountAt(slots[s], item)) : s \in DOMAIN slots}

CountIn(slots, item) == Cardinality(UnitsIn(slots, item))

CountHeld(holdings, item) == CountIn(holdings.items, item) + CountIn(holdings.equipment, item)

ASSUME InventoriesAssumption ==
    /\ NumSlots \in Nat
    /\ DesyncTime \in Nat \ {0}
    /\ MaxOperations \in Nat
    /\ InitialHoldings \subseteq {h \in AllHoldings :
           EquipmentFits(h.equipment) /\ WithinMaximum(h.items) /\ WithinMaximum(h.equipment)}
    /\ \A h \in InitialHoldings, i \in Items : CountHeld(h, i) = Owned[i]

VARIABLES
    server,            \* Unit.Inventory and EquipmentInventory
    command,           \* the command the unit will execute, or NoCommand
    commandThrew,      \* history: a command threw
    commands,          \* commands on their way to the server
    deferred,          \* commands that wait for the physics step (_packetQueue)
    deltas,            \* deltas the client has not applied
    synchronized,      \* UnitPuppet._alwaysSynchronized(Equipment)Inventory
    displayed,         \* UnitPuppet.Inventory and EquipmentInventory
    desync,            \* UnitPuppet._inventoryDesyncTimeRemaining
    diverged,          \* history: an operation on the display threw
    operations         \* bound: operations of the player so far

serverVars == <<server, command, commandThrew>>
clientVars == <<synchronized, displayed, desync, diverged>>
vars == <<serverVars, commands, deferred, deltas, clientVars, operations>>

Init ==
    /\ server \in InitialHoldings
    /\ synchronized = server
    /\ displayed = server
    /\ command = NoCommand
    /\ commandThrew = FALSE
    /\ commands = <<>>
    /\ deferred = <<>>
    /\ deltas = <<>>
    /\ desync = 0
    /\ diverged = FALSE
    /\ operations = 0

----------------------------------------------------------------------------
(* The player, at the client (Hud). *)

\* DesyncInventory, the change of the display and the command to the server.
Operate(holdings, order) ==
    /\ displayed' = holdings
    /\ desync' = DesyncTime
    /\ commands' = Append(commands, order)
    /\ operations' = operations + 1
    /\ UNCHANGED <<serverVars, deferred, deltas, synchronized, diverged>>

MoveInventoryItemStack(from, to) ==
    /\ operations < MaxOperations
    /\ CanMove(displayed, from, to)
    /\ Operate(Moved(displayed, from, to), [type |-> "MoveItemStack", from |-> from, to |-> to])

\* An exception of the helper leaves Hud.Equip before the display is kept
\* apart and before a command is sent.
EquipFromHud(from, to) ==
    /\ operations < MaxOperations
    /\ CanEquip(displayed, from, to)
    /\ LET equipped == Equipped(displayed, from)
       IN  IF equipped.threw
           THEN /\ displayed' = equipped.holdings
                /\ diverged' = TRUE
                /\ operations' = operations + 1
                /\ UNCHANGED <<serverVars, commands, deferred, deltas, synchronized, desync>>
           ELSE Operate(equipped.holdings, [type |-> "Equip", from |-> from])

UnequipFromHud(from, to) ==
    /\ operations < MaxOperations
    /\ CanUnequip(displayed, from, to)
    /\ \E holdings \in UnequipOutcomes(displayed, from, to) :
          Operate(holdings, [type |-> "Unequip", equipmentSlot |-> from, to |-> to])

----------------------------------------------------------------------------
(* The shard server. *)

\* CommandPacketHandler and Unit.SetCommand: the new command replaces the one
\* that waits, unless the campaign is paused.
SetCommand(order) == command' \in {order, command}

\* A command arrives in a physics step and is handled at once.
ReceiveCommand ==
    /\ commands # <<>>
    /\ SetCommand(Head(commands))
    /\ commands' = Tail(commands)
    /\ UNCHANGED <<server, commandThrew, deferred, deltas, clientVars, operations>>

\* It arrives between two physics steps and waits for the next one, which
\* handles it after what arrives in that step, and before the units tick.
DeferCommand ==
    /\ commands # <<>>
    /\ deferred' = Append(deferred, Head(commands))
    /\ commands' = Tail(commands)
    /\ UNCHANGED <<serverVars, deltas, clientVars, operations>>

HandleDeferred ==
    /\ deferred # <<>>
    /\ SetCommand(Head(deferred))
    /\ deferred' = Tail(deferred)
    /\ UNCHANGED <<server, commandThrew, commands, deltas, clientVars, operations>>

\* The player orders something else (to move, to use an ability, to stop).
ReplaceCommand ==
    /\ command # NoCommand
    /\ command' = NoCommand
    /\ UNCHANGED <<server, commandThrew, commands, deferred, deltas, clientVars, operations>>

\* What the unit's command makes of what it holds.
ExecutionOutcomes ==
    CASE command.type = "MoveItemStack" /\ CanMove(server, command.from, command.to) ->
            {[holdings |-> Moved(server, command.from, command.to), threw |-> FALSE]}
      [] command.type = "Equip" /\ CanEquip(server, command.from, NoSlot) ->
            {Equipped(server, command.from)}
      [] command.type = "Unequip" /\ CanUnequip(server, command.equipmentSlot, command.to) ->
            {[holdings |-> h, threw |-> FALSE] :
                h \in UnequipOutcomes(server, command.equipmentSlot, command.to)}
      [] OTHER -> {[holdings |-> server, threw |-> FALSE]}

HoldingsDelta(from, to) ==
    [items     |-> ListBetween(from.items, to.items),
     equipment |-> DictionaryBetween(from.equipment, to.equipment),
     from      |-> from,
     to        |-> to]

\* A tick of the unit, and the delta the shard makes after it when something
\* has changed. The command leaves the queue before it is executed.
Tick ==
    /\ command # NoCommand
    /\ deferred = <<>>
    /\ \E outcome \in ExecutionOutcomes :
        /\ server' = outcome.holdings
        /\ commandThrew' = (commandThrew \/ outcome.threw)
        /\ command' = NoCommand
        /\ deltas' = IF server' = server THEN deltas
                     ELSE Append(deltas, HoldingsDelta(server, server'))
        /\ UNCHANGED <<commands, deferred, clientVars, operations>>

----------------------------------------------------------------------------
(* The client. *)

\* Faulty variant: the equipment of a delta is not applied.
WithItemsOf(holdings, delta) ==
    [holdings EXCEPT !.items = MutateList(delta.items, holdings.items)]
WithDelta(holdings, delta) ==
    [items     |-> MutateList(delta.items, holdings.items),
     equipment |-> MutateDictionary(delta.equipment, holdings.equipment)]

\* UnitPuppet.ApplyDelta.
\* Faulty variant: the display waits for the end of a time that has not begun.
TakeDeltaAside(delta) ==
    /\ synchronized' = WithDelta(synchronized, delta)
    /\ displayed' = displayed
TakeDelta(delta) ==
    /\ synchronized' = WithDelta(synchronized, delta)
    /\ displayed' = IF desync = 0 THEN WithDelta(displayed, delta) ELSE displayed

ApplyFullDelta ==
    /\ deltas # <<>>
    /\ TakeDelta(Head(deltas))
    /\ deltas' = Tail(deltas)
    /\ UNCHANGED <<serverVars, commands, deferred, desync, diverged, operations>>

\* Between two ticks the client applies the delta of the later one with a
\* weight below 1, which items ignore, and applies it again at the full tick.
ApplyPartialDelta ==
    /\ deltas # <<>>
    /\ TakeDelta(Head(deltas))
    /\ UNCHANGED <<serverVars, commands, deferred, deltas, desync, diverged, operations>>

\* UnitPuppet.ReplicateSnapshot, when the client has fallen behind.
\* Faulty variant: the deltas before the snapshot are kept.
ReplicateOverDeltas ==
    /\ deltas # <<>>
    /\ synchronized' = server
    /\ displayed' = IF desync = 0 THEN server ELSE displayed
    /\ diverged' = (diverged /\ desync > 0)
    /\ UNCHANGED <<serverVars, commands, deferred, deltas, desync, operations>>
ReplicateSnapshot ==
    /\ deltas # <<>>
    /\ synchronized' = server
    /\ displayed' = IF desync = 0 THEN server ELSE displayed
    /\ diverged' = (diverged /\ desync > 0)
    /\ deltas' = <<>>
    /\ UNCHANGED <<serverVars, commands, deferred, desync, operations>>

\* A frame of the puppet: when the time is over the display takes the
\* synchronized copy.
\* Faulty variant: the time runs out and nothing is copied.
ProcessTime ==
    /\ desync > 0
    /\ desync' = desync - 1
    /\ diverged' = (diverged /\ desync' > 0)
    /\ UNCHANGED <<serverVars, commands, deferred, deltas, synchronized, displayed, operations>>
Process ==
    /\ desync > 0
    /\ desync' = desync - 1
    /\ displayed' = IF desync' = 0 THEN synchronized ELSE displayed
    /\ diverged' = (diverged /\ desync' > 0)
    /\ UNCHANGED <<serverVars, commands, deferred, deltas, synchronized, operations>>

----------------------------------------------------------------------------

Player ==
    \/ \E from, to \in 1..NumSlots : MoveInventoryItemStack(from, to)
    \/ \E from \in 1..NumSlots, to \in EquipmentSlots \cup {NoSlot} :
          EquipFromHud(from, to)
    \/ \E from \in EquipmentSlots, to \in 0..NumSlots :
          UnequipFromHud(from, to)

Next ==
    \/ Player
    \/ ReceiveCommand
    \/ DeferCommand
    \/ HandleDeferred
    \/ ReplaceCommand
    \/ Tick
    \/ ApplyFullDelta
    \/ ApplyPartialDelta
    \/ ReplicateSnapshot
    \/ Process

Spec == Init /\ [][Next]_vars

\* The network delivers what is sent on the reliable channel, the server makes
\* physics steps, in which packets are handled and units tick, and
\* the client renders frames and applies what it has; the player need not act.
Fairness ==
    /\ WF_vars(ReceiveCommand)
    /\ WF_vars(HandleDeferred)
    /\ WF_vars(Tick)
    /\ WF_vars(ApplyFullDelta)
    /\ WF_vars(Process)

FairSpec == Spec /\ Fairness

----------------------------------------------------------------------------
(* What must hold. *)

\* A display that an exception left behind takes deltas that were not made
\* for it: it is left out here, and MergeReturns is about it.
Copies == {server, synchronized} \cup (IF diverged THEN {} ELSE {displayed})

TypeOK ==
    /\ {server, synchronized, displayed} \subseteq AllHoldings
    /\ command = NoCommand \/ IsCommand(command)
    /\ \A queue \in {commands, deferred} : \A k \in DOMAIN queue : IsCommand(queue[k])
    /\ \A k \in DOMAIN deltas :
          /\ {deltas[k].from, deltas[k].to} \subseteq AllHoldings
          /\ deltas[k] = HoldingsDelta(deltas[k].from, deltas[k].to)
    /\ desync \in 0..DesyncTime
    /\ operations \in 0..MaxOperations
    /\ {commandThrew, diverged} \subseteq BOOLEAN

\* No order of commands, refusals, merges, exceptions, lost or replaced
\* commands and deltas creates or destroys an item, on the server or in
\* either copy of the client (CrossInventoryHelper.cs, Unit.cs:504-518,
\* UnitPuppet.cs:98-158).
ItemsConserved ==
    \A holdings \in Copies, i \in Items : CountHeld(holdings, i) = Owned[i]

\* Equipped stacks fit and none is blocked, on the server and at the client.
\* UnequipOutcomes relies on it: a remainder that goes back to the slot it came
\* from is not refused (CrossInventoryHelper.cs:61-65).
AllEquipmentFits == \A holdings \in Copies : EquipmentFits(holdings.equipment)

\* Add puts a remainder of any size into one slot (Inventory.cs:57), and
\* equipping moves a whole stack (EquipmentInventory.cs:48): still, from stacks
\* within the maximum, no sequence of operations makes a larger one, not even
\* in a display that an exception left behind.
StacksWithinMaximum ==
    \A holdings \in {server, synchronized, displayed} :
        WithinMaximum(holdings.items) /\ WithinMaximum(holdings.equipment)

\* While the display is not kept apart it is the synchronized copy, unless an
\* operation of the player on it threw in the middle (UnitPuppet.cs:112-116,
\* 213-224; Hud.cs:359-369).
DisplayIsSynchronized == desync = 0 /\ ~ diverged => displayed = synchronized

\* The deltas under way lead from the synchronized copy, before or in the
\* middle of the first one, to what the server has now.
DeltasLeadToServer ==
    IF deltas = <<>> THEN synchronized = server
    ELSE /\ synchronized \in {deltas[1].from, deltas[1].to}
         /\ deltas[Len(deltas)].to = server
         /\ \A k \in 1..(Len(deltas) - 1) : deltas[k].to = deltas[k + 1].from

\* A frame of the client never changes the copy it keeps synchronized, and
\* whatever changes this copy makes it a state the server was in, not
\* an earlier one than it was in.
SynchronizedNeverGoesBack ==
    [][synchronized' # synchronized =>
          \/ deltas # <<>> /\ synchronized' = deltas[1].to
          \/ synchronized' = server]_vars

\* When the player is done, the display comes to show what the server has,
\* whatever became of the commands: unless an operation threw at the client.
DisplaySettles == <>[](diverged \/ displayed = server)

\* EquipmentInventory.PutAt merges a stack that fits: "If the slot contains a
\* stack that can be fully or partially merged with the put stack, it's merged
\* and a remainder is returned" (EquipmentInventory.cs:28-32).
MergeReturns == ~ commandThrew /\ ~ diverged
=============================================================================
