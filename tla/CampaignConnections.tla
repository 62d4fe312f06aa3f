------------------------ MODULE CampaignConnections ------------------------
(***************************************************************************)
(* How shard servers and players connect to the campaign server, how a     *)
(* session is initialized, and how the campaign state reaches everybody.   *)
(*                                                                         *)
(* A node is the process of a shard server or of a client.  It gets a      *)
(* token from the authentication server, opens a web socket and sends a    *)
(* handshake.  The campaign server maps the socket to the user, in place   *)
(* of an older one, and acknowledges; the handshake of a player waits      *)
(* until the session is initialized.  The session is initialized when all  *)
(* shards have connected, have their part of the last snapshot and the     *)
(* campaign state, and have said so.  The campaign state is sent to        *)
(* whoever connects, and to all when it changes.                           *)
(*                                                                         *)
(* What a saved session holds, and the play and the save that follow, are  *)
(* in CampaignPersistence.                                                 *)
(***************************************************************************)
EXTENDS Integers, Sequences, SequencesExt

CONSTANTS
  Shards, Clients, Players,
  None,            \* no node, no user or no value
  MaxConnections,  \* bound: attempts to connect
  MaxFailures      \* bound: times that something breaks

ASSUME ConnectionsAssumption ==
  /\ Shards \intersect (Clients \union Players) = {}
  /\ None \notin Shards \union Clients \union Players \union BOOLEAN
  /\ MaxConnections \in Nat /\ MaxFailures \in Nat

Nodes == Shards \union Clients
Users == Shards \union Players
Peers == 1..MaxConnections

VARIABLES
  (* the campaign server *)
  phase,       \* where CampaignServerMain.InitAsync stands
  peers,       \* _wsPeers: the sockets the server knows
  userOf,      \* _userIdsByWsPeerId: the user each socket is mapped to
  waiting,     \* sockets whose handshake waits for initialization, in order
  users,       \* UserRepository: unknown, connected or disconnected
  localDone,   \* completed tasks in _shardServerLocalInitDoneTcs
  isPaused,    \* SynchronizedCampaignStateRepository: Value,
  isChanged,   \*   _isChanged
  requesters,  \*   and _valueRequesterIds
  (* the nodes *)
  status,      \* Status of the web socket communicator
  socket,      \* the socket it has: NoSocket, or one of Peers
  known,       \* the value in its SynchronizedCampaignStatePuppetRepository
  initial,     \* shards that have their part of the last snapshot
  reported,    \* shards that have sent ShardServerLocalInitDonePacket
  ready,       \* nodes that are initialized
  (* the sockets *)
  owner,       \* the node that opened each socket,
  token,       \*   and the user its token names
  isOpen,      \* sockets that are open
  toServer,    \* packets under way in each socket,
  toNode,      \*   and the other way
  attempts,    \* attempts to connect
  failures     \* times that something broke

userVars == <<peers, userOf, waiting, users>>
stateVars == <<isPaused, isChanged, requesters>>
linkVars == <<status, socket>>
loadVars == <<known, initial, reported, ready>>
originVars == <<owner, token, attempts, failures>>
netVars == <<originVars, isOpen, toServer, toNode>>
vars == <<phase, localDone, userVars, stateVars, linkVars, loadVars, netVars>>

-----------------------------------------------------------------------------
NoSocket == 0

Packet(type) == [type |-> type]
State(value) == [type |-> "State", isPaused |-> value]

Initialized == phase \in {"ready", "playing", "ended"}

Init ==
  /\ phase = "connecting"
  /\ peers = {}
  /\ userOf = [p \in Peers |-> None]
  /\ waiting = <<>>
  /\ users = [u \in Users |-> "unknown"]
  /\ localDone = {}
  /\ isPaused = TRUE
  /\ isChanged = FALSE
  /\ requesters = {}
  /\ status = [n \in Nodes |-> "Disconnected"]
  /\ socket = [n \in Nodes |-> NoSocket]
  /\ known = [n \in Nodes |-> None]
  /\ initial = {}
  /\ reported = {}
  /\ ready = {}
  /\ owner = [p \in Peers |-> None]
  /\ token = [p \in Peers |-> None]
  /\ isOpen = {}
  /\ toServer = [p \in Peers |-> <<>>]
  /\ toNode = [p \in Peers |-> <<>>]
  /\ attempts = 0
  /\ failures = 0

-----------------------------------------------------------------------------
(***************************************************************************)
(* A node connects.                                                        *)
(***************************************************************************)

(* ConnectAsShardServer, in every frame while disconnected, and            *)
(* ConnectAsPlayer, when the player logs in.                               *)
Connect(n) ==
  /\ attempts < MaxConnections
  /\ status[n] = "Disconnected"
  /\ status' = [status EXCEPT ![n] = "Connecting"]
  /\ attempts' = attempts + 1
  /\ UNCHANGED <<phase, localDone, userVars, stateVars, socket, loadVars, owner, token,
                 isOpen, toServer, toNode, failures>>

(* The authentication server gives no token.                               *)
AuthFails(n) ==
  /\ status[n] = "Connecting" /\ socket[n] = NoSocket
  /\ status' = [status EXCEPT ![n] = "Disconnected"]
  /\ UNCHANGED <<phase, localDone, userVars, stateVars, socket, loadVars, netVars>>

(* A shard server gets a token for itself, a client for any player.        *)
Tokens(n) == IF n \in Shards THEN {n} ELSE Players

(* The token has come, and AcceptNewConnections takes the connection.      *)
Accept(n) ==
  /\ status[n] = "Connecting" /\ socket[n] = NoSocket
  /\ \E p \in Peers, u \in Tokens(n) :
       /\ owner[p] = None /\ \A q \in 1..p - 1 : owner[q] # None
       /\ peers' = peers \union {p}
       /\ owner' = [owner EXCEPT ![p] = n]
       /\ token' = [token EXCEPT ![p] = u]
       /\ isOpen' = isOpen \union {p}
       /\ socket' = [socket EXCEPT ![n] = p]
  /\ UNCHANGED <<phase, localDone, userOf, waiting, users, stateVars, status, loadVars,
                 toServer, toNode, attempts, failures>>

(* Poll: the socket is open.                                               *)
SendHandshake(n) ==
  /\ status[n] = "Connecting" /\ socket[n] \in isOpen
  /\ status' = [status EXCEPT ![n] = "Handshake"]
  /\ toServer' = [toServer EXCEPT ![socket[n]] = Append(@, Packet("Handshake"))]
  /\ UNCHANGED <<phase, localDone, userVars, stateVars, socket, loadVars, originVars,
                 isOpen, toNode>>

(* Poll: the socket was closed.  A status of Connecting is left as it is.  *)
NoticeClosed(n) ==
  /\ status[n] \in {"Handshake", "Connected"} /\ socket[n] \notin isOpen
  /\ status' = [status EXCEPT ![n] = "Disconnected"]
  /\ socket' = [socket EXCEPT ![n] = NoSocket]
  /\ UNCHANGED <<phase, localDone, userVars, stateVars, loadVars, netVars>>

(* What is under way in sockets that are closed is lost.                   *)
Emptied(channels, P) == [p \in Peers |-> IF p \in P THEN <<>> ELSE channels[p]]

Break(P) ==
  /\ failures < MaxFailures
  /\ failures' = failures + 1
  /\ UNCHANGED <<owner, token, attempts>>
  /\ isOpen' = isOpen \ P
  /\ toServer' = Emptied(toServer, P)
  /\ toNode' = Emptied(toNode, P)

(* A connection breaks.                                                    *)
Close(p) ==
  /\ p \in isOpen
  /\ Break({p})
  /\ UNCHANGED <<phase, localDone, userVars, stateVars, linkVars, loadVars>>

(* A process ends, and is started again.                                   *)
Restart(n) ==
  /\ status[n] # "Disconnected"
  /\ status' = [status EXCEPT ![n] = "Disconnected"]
  /\ socket' = [socket EXCEPT ![n] = NoSocket]
  /\ known' = [known EXCEPT ![n] = None]
  /\ initial' = initial \ {n}
  /\ reported' = reported \ {n}
  /\ ready' = ready \ {n}
  /\ Break({socket[n]})
  /\ UNCHANGED <<phase, localDone, userVars, stateVars>>

-----------------------------------------------------------------------------
(***************************************************************************)
(* The campaign server polls its sockets.                                  *)
(***************************************************************************)

(* The part of HandleHandshakePacketAsync after its await, as a function   *)
(* of the state it changes: an older socket of the user is closed and      *)
(* unmapped, the new one is mapped and acknowledged.  An access to a       *)
(* socket that the server has dropped throws, and ends it there.           *)
Entry == [userOf |-> userOf, users |-> users, requesters |-> requesters,
          isOpen |-> isOpen, toNode |-> toNode]

Older(s, p) == {q \in Peers : s.userOf[q] = token[p]}

\* Faulty variant: the older socket is left open.
StillOpen(s, p) == s.isOpen
OpenAfter(s, p) == s.isOpen \ Older(s, p)

Enter(s, p) ==
  IF Older(s, p) \ peers # {} THEN s
  ELSE LET open == OpenAfter(s, p)
           kept == Emptied(s.toNode, Peers \ open)
       IN  [userOf |-> [q \in Peers |-> IF q = p THEN token[p]
                                        ELSE IF q \in Older(s, p) THEN None
                                        ELSE s.userOf[q]],
            users |-> [s.users EXCEPT ![token[p]] = "connected"],
            requesters |-> s.requesters \union {token[p]},
            isOpen |-> open,
            toNode |-> IF p \in open THEN [kept EXCEPT ![p] = Append(@, Packet("Ack"))]
                       ELSE kept]

Entered(s) ==
  /\ userOf' = s.userOf
  /\ users' = s.users
  /\ requesters' = s.requesters
  /\ isOpen' = s.isOpen
  /\ toNode' = s.toNode

FromNode(p, type) ==
  /\ p \in peers \intersect isOpen
  /\ toServer[p] # <<>>
  /\ Head(toServer[p]).type = type

\* Faulty variant: nobody waits.
NobodyMustWait(p) == FALSE
MustWait(p) == token[p] \in Players /\ ~Initialized

ReceiveHandshake(p) ==
  /\ FromNode(p, "Handshake")
  /\ IF MustWait(p)
     THEN /\ waiting' = Append(waiting, p)
          /\ UNCHANGED <<userOf, users, requesters, isOpen, toNode>>
     ELSE /\ Entered(Enter(Entry, p))
          /\ UNCHANGED waiting
  /\ toServer' = Emptied([toServer EXCEPT ![p] = Tail(@)], Peers \ isOpen')
  /\ UNCHANGED <<phase, localDone, peers, isPaused, isChanged, linkVars, loadVars,
                 originVars>>

\* Faulty variant: a socket that was replaced takes its user with it.
FormerUser(p) == token[p]
MappedUser(p) == userOf[p]

(* PollWsPeer: the socket was closed.                                      *)
DropPeer(p) ==
  /\ p \in peers \ isOpen
  /\ peers' = peers \ {p}
  /\ userOf' = [userOf EXCEPT ![p] = None]
  /\ users' = [u \in Users |-> IF u = MappedUser(p) THEN "disconnected" ELSE users[u]]
  /\ UNCHANGED <<phase, localDone, waiting, stateVars, linkVars, loadVars, netVars>>

(* ReceiveShardServerInitAwaitingCampaignServerInitPacket.                 *)
ReceiveLocalDone(p) ==
  /\ FromNode(p, "LocalDone")
  /\ toServer' = [toServer EXCEPT ![p] = Tail(@)]
  /\ localDone' = localDone \union {userOf[p]}
  /\ UNCHANGED <<phase, userVars, stateVars, linkVars, loadVars, originVars, isOpen, toNode>>

-----------------------------------------------------------------------------
(***************************************************************************)
(* The campaign server initializes the session, InitAsync, and publishes   *)
(* its state.                                                              *)
(***************************************************************************)

(* SendTo a set of users: those without a socket in the map are skipped,   *)
(* and what is sent into a socket that was closed is lost.  A node ignores *)
(* a state that is the one before it, so a packet is not put under way     *)
(* twice in a row.                                                         *)
Sent(U, packet) ==
  [p \in Peers |->
    IF userOf[p] \in U /\ p \in isOpen /\ (toNode[p] = <<>> \/ Last(toNode[p]) # packet)
    THEN Append(toNode[p], packet) ELSE toNode[p]]

AllConnected == \A s \in Shards : users[s] = "connected"

(* TryLoadSnapshotAsync.  The users of a loaded snapshot replace those     *)
(* there are, and are disconnected.  The wait for the shards' answers that *)
(* follows is in CampaignPersistence.                                      *)
SendInitial ==
  /\ phase = "connecting"
  /\ AllConnected
  /\ phase' = "waiting"
  /\ toNode' = Sent(Shards, Packet("Initial"))
  /\ UNCHANGED <<localDone, peers, userOf, waiting, stateVars, linkVars, loadVars,
                 originVars, isOpen, toServer>>

LoadSnapshot == SendInitial /\ users' = [u \in Users |-> "disconnected"]
StartNewCampaign == SendInitial /\ UNCHANGED users

\* Faulty variant: the first shard opens the barrier.
AnyLocalDone == localDone # {}
AllLocalDone == localDone = Shards

(* The handshakes that wait go on, in the order they came.                 *)
EnterAll(s, queue) ==
  LET entered[i \in 0..Len(queue)] ==
        IF i = 0 THEN s ELSE Enter(entered[i - 1], queue[i])
  IN  entered[Len(queue)]

(* WaitForShardServersLocalInit is over: the shards are told, and nobody   *)
(* waits any longer.                                                       *)
Initialize ==
  /\ phase = "waiting"
  /\ AllLocalDone
  /\ phase' = "ready"
  /\ LET told == [Entry EXCEPT !.toNode = Sent(Shards, Packet("Initialized"))]
     IN  Entered(EnterAll(told, waiting))
  /\ waiting' = <<>>
  /\ toServer' = Emptied(toServer, Peers \ isOpen')
  /\ UNCHANGED <<localDone, peers, isPaused, isChanged, linkVars, loadVars, originVars>>

(* The shards have 30 seconds to connect, and as many to load.             *)
InitFails ==
  /\ \/ phase = "connecting" /\ ~AllConnected
     \/ phase = "waiting" /\ ~AllLocalDone
  /\ phase' = "failed"
  /\ UNCHANGED <<localDone, userVars, stateVars, linkVars, loadVars, netVars>>

SetPaused(value) ==
  /\ isPaused' = value
  /\ isChanged' = TRUE
  /\ UNCHANGED <<localDone, userVars, requesters, linkVars, loadVars, netVars>>

Unpause == phase = "ready" /\ phase' = "playing" /\ SetPaused(FALSE)
Pause == phase = "playing" /\ phase' = "ended" /\ SetPaused(TRUE)

(* SynchronizedCampaignStateRepository.Tick: a change goes to all in the   *)
(* map, or else the value to those who have connected.  A receiver whose   *)
(* socket the server has dropped ends the loop with an exception, before   *)
(* the flags are reset; the order of the loop is not defined.              *)

\* Faulty variant: a change is sent only to those who have just connected.
NewFirst == IF requesters # {} THEN requesters ELSE Users
Receivers == IF isChanged THEN Users ELSE requesters

Throws == \E p \in Peers \ peers : userOf[p] \in Receivers

Tick ==
  /\ isChanged \/ requesters # {}
  /\ IF Throws
     THEN /\ \E U \in SUBSET Receivers : toNode' = Sent(U, State(isPaused))
          /\ UNCHANGED <<isChanged, requesters>>
     ELSE /\ toNode' = Sent(Receivers, State(isPaused))
          /\ isChanged' = FALSE
          /\ requesters' = {}
  /\ UNCHANGED <<phase, localDone, userVars, isPaused, linkVars, loadVars, originVars,
                 isOpen, toServer>>

-----------------------------------------------------------------------------
(***************************************************************************)
(* A node handles the first packet from the campaign server.               *)
(***************************************************************************)
FromServer(n, type) ==
  /\ status[n] \in {"Handshake", "Connected"} /\ socket[n] \in isOpen
  /\ toNode[socket[n]] # <<>>
  /\ Head(toNode[socket[n]]).type = type
  /\ toNode' = [toNode EXCEPT ![socket[n]] = Tail(@)]

ReceiveAck(n) ==
  /\ FromServer(n, "Ack")
  /\ status' = [status EXCEPT ![n] = "Connected"]
  /\ UNCHANGED <<phase, localDone, userVars, stateVars, socket, loadVars, originVars,
                 isOpen, toServer>>

\* Faulty variants: whoever has the campaign state reports; a shard reports
\* again with every change of it.
AnyReport(n) == known'[n] # None
EveryReport(n) == n \in initial' /\ known'[n] # None
FirstReport(n) == n \in initial' /\ known'[n] # None /\ n \notin reported

(* ServerInitAsync: a shard that has both its part of the snapshot and the *)
(* campaign state reports, once.                                           *)
Report(n) ==
  IF FirstReport(n)
  THEN /\ reported' = reported \union {n}
       /\ toServer' = [toServer EXCEPT ![socket[n]] = Append(@, Packet("LocalDone"))]
  ELSE UNCHANGED <<reported, toServer>>

ReceiveInitial(n) ==
  /\ FromServer(n, "Initial")
  /\ initial' = initial \union {n}
  /\ UNCHANGED known
  /\ Report(n)
  /\ UNCHANGED <<phase, localDone, userVars, stateVars, linkVars, ready, originVars, isOpen>>

(* A client is initialized with the first state it gets.                   *)
ReceiveState(n) ==
  /\ FromServer(n, "State")
  /\ known' = [known EXCEPT ![n] = Head(toNode[socket[n]]).isPaused]
  /\ ready' = ready \union ({n} \intersect Clients)
  /\ UNCHANGED initial
  /\ Report(n)
  /\ UNCHANGED <<phase, localDone, userVars, stateVars, linkVars, originVars, isOpen>>

(* A shard that was restarted since it reported still waits for its part   *)
(* of the snapshot, and for good.                                          *)
ReceiveInitialized(n) ==
  /\ FromServer(n, "Initialized")
  /\ ready' = ready \union ({n} \intersect reported)
  /\ UNCHANGED <<phase, localDone, userVars, stateVars, linkVars, known, initial, reported,
                 originVars, isOpen, toServer>>

-----------------------------------------------------------------------------
InitStep ==
  LoadSnapshot \/ StartNewCampaign \/ Initialize \/ InitFails \/ Unpause \/ Pause

PollPeer(p) == ReceiveHandshake(p) \/ ReceiveLocalDone(p) \/ DropPeer(p)

PollSocket(n) ==
  \/ SendHandshake(n) \/ NoticeClosed(n)
  \/ ReceiveAck(n) \/ ReceiveInitial(n) \/ ReceiveState(n) \/ ReceiveInitialized(n)

Next ==
  \/ InitStep
  \/ Tick
  \/ \E p \in Peers : PollPeer(p) \/ Close(p)
  \/ \E n \in Nodes : Connect(n) \/ AuthFails(n) \/ Accept(n) \/ Restart(n) \/ PollSocket(n)

Spec == Init /\ [][Next]_vars

(* Every process goes on with its frames, and the timers fire.             *)
Fairness ==
  /\ WF_vars(InitStep) /\ WF_vars(Tick)
  /\ \A p \in Peers : WF_vars(PollPeer(p))
  /\ \A n \in Nodes : WF_vars(PollSocket(n))

FairSpec == Spec /\ Fairness

-----------------------------------------------------------------------------
Statuses == {"Disconnected", "Connecting", "Handshake", "Connected"}
Phases == {"connecting", "waiting", "ready", "playing", "ended", "failed"}
Packets ==
  {Packet(t) : t \in {"Ack", "Initial", "Initialized", "Handshake", "LocalDone"}}
    \union {State(v) : v \in BOOLEAN}

(* What is under way in a channel.                                         *)
Has(channel, type) == \E i \in DOMAIN channel : channel[i].type = type

Once(channel, type) ==
  \A i, j \in DOMAIN channel : channel[i].type = type /\ channel[j].type = type => i = j

LastStateIs(channel, value) ==
  \E i \in DOMAIN channel :
    /\ channel[i] = State(value)
    /\ \A j \in DOMAIN channel : channel[j].type = "State" => j <= i

(* Every variable has its type: the map, the users, the sockets and the    *)
(* packets of WebSocketFromCampaignServerToGameplayCommunicator, the       *)
(* repositories, and what each node has received.                          *)
TypeOK ==
  /\ phase \in Phases
  /\ peers \subseteq Peers /\ isOpen \subseteq Peers
  /\ userOf \in [Peers -> Users \union {None}]
  /\ waiting \in Seq(Peers)
  /\ users \in [Users -> {"unknown", "connected", "disconnected"}]
  /\ {localDone, initial, reported} \subseteq SUBSET Shards
  /\ ready \subseteq Nodes /\ requesters \subseteq Users
  /\ isPaused \in BOOLEAN /\ isChanged \in BOOLEAN
  /\ status \in [Nodes -> Statuses]
  /\ socket \in [Nodes -> Peers \union {NoSocket}]
  /\ known \in [Nodes -> BOOLEAN \union {None}]
  /\ owner \in [Peers -> Nodes \union {None}]
  /\ token \in [Peers -> Users \union {None}]
  /\ toServer \in [Peers -> Seq(Packets)] /\ toNode \in [Peers -> Seq(Packets)]
  /\ attempts \in 0..MaxConnections

(* A node that holds itself connected is the one the campaign server sends *)
(* to for its user (HandleHandshakePacketAsync): a login elsewhere, one    *)
(* that had to wait, or a broken connection that the server has not yet    *)
(* noticed leave no second one.                                            *)
OneConnectionPerUser ==
  \A n \in Nodes : status[n] = "Connected" /\ socket[n] \in isOpen
                     => userOf[socket[n]] = token[socket[n]]

(* Nobody is initialized before every shard has reported that it has its   *)
(* part of the snapshot and the campaign state: not a shard that was       *)
(* quicker, and not a client that connected early (CampaignServerMain's    *)
(* barrier and the wait in HandleHandshakePacketAsync).                    *)
NobodyStartsEarly == ready # {} => localDone = Shards

(* A player is connected in UserRepository exactly while a socket is       *)
(* mapped to it, whatever becomes of the sockets it had before.            *)
PresenceIsExact ==
  \A u \in Players : users[u] = "connected" <=> \E p \in Peers : userOf[p] = u

(* ReceiveShardServerInitAwaitingCampaignServerInitPacket throws when the  *)
(* task does not exist yet, or was completed before: a report under way    *)
(* finds its task there and not completed, whichever shards were restarted *)
(* or lost their connection.                                               *)
ReportFindsItsTask ==
  \A p \in Peers : Has(toServer[p], "LocalDone") => /\ Once(toServer[p], "LocalDone")
                                                   /\ phase # "connecting"
                                                   /\ userOf[p] \in Shards \ localDone

(* The state that a node knows, or the last one under way to it, is the    *)
(* one of the campaign server, unless a Tick is due that sends it: no      *)
(* change is missed by a node that connects or connects again around it    *)
(* (SynchronizedCampaignStateRepository.Tick).                             *)
StateIsFresh ==
  \A p \in isOpen :
    userOf[p] # None =>
      \/ isChanged \/ userOf[p] \in requesters
      \/ LastStateIs(toNode[p], isPaused)
      \/ ~Has(toNode[p], "State") /\ known[owner[p]] = isPaused

(* Docs/Overview.md has it that when "initialization is considered         *)
(* complete", "client connections are allowed": from then on, the          *)
(* handshake of a client over an open socket is acknowledged.              *)
ConnectionsAreAllowed ==
  \A n \in Clients :
    Initialized /\ status[n] = "Handshake" /\ socket[n] \in isOpen
      ~> status[n] = "Connected" \/ socket[n] \notin isOpen
=============================================================================
