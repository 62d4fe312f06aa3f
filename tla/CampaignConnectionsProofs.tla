-------------------- MODULE CampaignConnectionsProofs --------------------
(***************************************************************************)
(* Proofs that the campaign server sends to the connection a node holds,   *)
(* that presence is exact, that nobody starts before every shard has       *)
(* reported, that each report finds its task, and that no change of the    *)
(* campaign state is missed.                                               *)
(***************************************************************************)
EXTENDS CampaignConnections, WellFoundedInduction, TLAPS

(* An open socket is the one its node has, and names a user of that node.  *)
(* Only players wait.                                                      *)
LinksOK ==
  /\ \A n \in Nodes : socket[n] # NoSocket => owner[socket[n]] = n
  /\ \A p \in isOpen : owner[p] \in Nodes /\ socket[owner[p]] = p
  /\ \A p \in Peers : /\ owner[p] = None => token[p] = None
                      /\ owner[p] # None => token[p] \in Tokens(owner[p])
  /\ \A i \in DOMAIN waiting : token[waiting[i]] \in Players

(* A socket is mapped to the user of its token, no two to the same, and    *)
(* none to a player before the session is initialized.                     *)
MapOK ==
  /\ \A p \in Peers : userOf[p] \in {None, token[p]}
  /\ \A p, q \in Peers : userOf[p] = userOf[q] /\ userOf[p] # None => p = q
  /\ PresenceIsExact
  /\ \A p \in Peers : userOf[p] \in Players => Initialized

(* Only a socket that is mapped is sent anything, and only to its user.    *)
ChannelsOK ==
  /\ \A p \in Peers \ isOpen : toServer[p] = <<>> /\ toNode[p] = <<>>
  /\ \A p \in Peers : toNode[p] # <<>> => userOf[p] = token[p]
  /\ OneConnectionPerUser
  /\ \A p \in Peers : /\ Has(toServer[p], "LocalDone") => userOf[p] \in Shards
                      /\ Has(toNode[p], "Initial") => token[p] \in Shards

(* Nobody is told to start before the barrier is open.                     *)
BarrierOK ==
  /\ NobodyStartsEarly
  /\ Initialized => localDone = Shards
  /\ \A p \in Peers : Has(toNode[p], "Initialized") => localDone = Shards

(* A shard gets its part of the snapshot once, and then reports once.      *)
ReportsOK ==
  /\ phase = "connecting" =>
       /\ initial = {} /\ reported = {} /\ localDone = {}
       /\ \A p \in Peers : ~Has(toNode[p], "Initial")
  /\ \A p \in Peers : Once(toNode[p], "Initial") /\ Once(toServer[p], "LocalDone")
  /\ \A p \in Peers : Has(toNode[p], "Initial") => token[p] \notin initial \union reported \union localDone
  /\ \A p \in Peers : Has(toServer[p], "LocalDone") => token[p] \in reported \ localDone
  /\ initial \intersect localDone \subseteq reported

IInv == TypeOK /\ LinksOK /\ MapOK /\ ChannelsOK /\ BarrierOK /\ ReportsOK /\ StateIsFresh

(* ---------------------------- the channels ----------------------------- *)

LEMMA PacketTypes ==
  /\ \A t : Packet(t).type = t
  /\ \A v : State(v).type = "State" /\ State(v).isPaused = v
  /\ \A t \in {"Ack", "Initial", "Initialized", "Handshake", "LocalDone"} : Packet(t) \in Packets
  /\ \A v \in BOOLEAN : State(v) \in Packets
BY DEF Packet, State, Packets

LEMMA EmptyChannel ==
  /\ <<>> \in Seq(Packets)
  /\ \A t : ~Has(<<>>, t) /\ Once(<<>>, t)
BY DEF Has, Once

(* What a packet at the end of a channel adds to it.                       *)
LEMMA Appended ==
  ASSUME NEW s \in Seq(Packets), NEW e \in Packets
  PROVE  /\ Append(s, e) \in Seq(Packets) /\ Append(s, e) # <<>>
         /\ \A t : Has(Append(s, e), t) <=> Has(s, t) \/ e.type = t
         /\ \A t : Once(s, t) /\ (e.type # t \/ ~Has(s, t)) => Once(Append(s, e), t)
         /\ \A v : e = State(v) => LastStateIs(Append(s, e), v)
         /\ \A v : e.type # "State" /\ LastStateIs(s, v) => LastStateIs(Append(s, e), v)
<1> DEFINE r == Append(s, e)
           n == Len(s)
<1>1. /\ r \in Seq(Packets) /\ r # <<>> /\ n \in Nat
      /\ DOMAIN s = 1..n /\ DOMAIN r = 1..n + 1
      /\ \A i \in 1..n : r[i] = s[i]
      /\ r[n + 1] = e
  OBVIOUS
<1> HIDE DEF r, n
<1>2. \A t : Has(r, t) <=> Has(s, t) \/ e.type = t
  BY <1>1 DEF Has
<1>3. \A t : Once(s, t) /\ (e.type # t \/ ~Has(s, t)) => Once(r, t)
  BY <1>1 DEF Has, Once
<1>4. \A v : e = State(v) => LastStateIs(r, v)
  BY <1>1 DEF LastStateIs
<1>5. \A v : e.type # "State" /\ LastStateIs(s, v) => LastStateIs(r, v)
  BY <1>1 DEF LastStateIs
<1> QED BY <1>1, <1>2, <1>3, <1>4, <1>5 DEF r

(* What is left of a channel when its first packet is taken.               *)
LEMMA Taken ==
  ASSUME NEW s \in Seq(Packets), s # <<>>
  PROVE  /\ Tail(s) \in Seq(Packets) /\ Head(s) \in Packets
         /\ Has(s, Head(s).type)
         /\ \A t : Has(Tail(s), t) => Has(s, t)
         /\ \A t : Has(s, t) /\ Head(s).type # t => Has(Tail(s), t)
         /\ \A t : Once(s, t) => Once(Tail(s), t)
         /\ Once(s, Head(s).type) => ~Has(Tail(s), Head(s).type)
         /\ \A v : LastStateIs(s, v) => \/ LastStateIs(Tail(s), v)
                                        \/ ~Has(Tail(s), "State") /\ Head(s) = State(v)
<1> DEFINE r == Tail(s)
           n == Len(s)
           e == Head(s)
<1>1. /\ r \in Seq(Packets) /\ n \in Nat /\ n >= 1 /\ e \in Packets
      /\ DOMAIN s = 1..n /\ DOMAIN r = 1..n - 1
      /\ \A i \in 1..n - 1 : r[i] = s[i + 1]
      /\ s[1] = e
  OBVIOUS
<1> HIDE DEF r, n, e
<1>2. \A t : Has(r, t) => Has(s, t)
  BY <1>1 DEF Has
<1>3. ASSUME NEW t, Has(s, t), e.type # t PROVE Has(r, t)
  <2>1. PICK i \in 1..n : s[i].type = t
    BY <1>1, <1>3 DEF Has
  <2>2. i - 1 \in 1..n - 1 /\ r[i - 1] = s[i]
    BY <1>1, <1>3, <2>1
  <2> QED BY <1>1, <2>1, <2>2 DEF Has
<1>4. ASSUME NEW t, Once(s, t) PROVE Once(r, t)
  <2> SUFFICES ASSUME NEW i \in 1..n - 1, NEW j \in 1..n - 1, r[i].type = t, r[j].type = t
               PROVE  i = j
    BY <1>1 DEF Once
  <2>1. i + 1 \in 1..n /\ j + 1 \in 1..n /\ s[i + 1].type = t /\ s[j + 1].type = t
    BY <1>1
  <2>2. i + 1 = j + 1
    BY <1>1, <1>4, <2>1 DEF Once
  <2> QED BY <1>1, <2>2
<1>5. ASSUME Once(s, e.type) PROVE ~Has(r, e.type)
  <2> SUFFICES ASSUME NEW i \in 1..n - 1, r[i].type = e.type PROVE FALSE
    BY <1>1 DEF Has
  <2>1. i + 1 \in 1..n /\ 1 \in 1..n /\ s[i + 1].type = e.type /\ s[1].type = e.type
    BY <1>1
  <2>2. i + 1 = 1
    BY <1>1, <1>5, <2>1 DEF Once
  <2> QED BY <1>1, <2>2
<1>6. ASSUME NEW v, LastStateIs(s, v)
      PROVE  LastStateIs(r, v) \/ (~Has(r, "State") /\ e = State(v))
  <2>1. PICK i \in 1..n : s[i] = State(v) /\ \A j \in 1..n : s[j].type = "State" => j <= i
    BY <1>1, <1>6 DEF LastStateIs
  <2>2. \A j \in 1..n - 1 : r[j].type = "State" => j + 1 <= i
    BY <1>1, <2>1
  <2>3. CASE i = 1
    BY <1>1, <2>1, <2>2, <2>3 DEF Has
  <2>4. CASE i # 1
    <3>1. i - 1 \in 1..n - 1 /\ r[i - 1] = State(v) /\ \A j \in 1..n - 1 : r[j].type = "State" => j <= i - 1
      BY <1>1, <2>1, <2>2, <2>4
    <3> QED BY <1>1, <3>1 DEF LastStateIs
  <2> QED BY <2>3, <2>4
<1>7. Has(s, e.type)
  BY <1>1 DEF Has
<1> QED BY <1>1, <1>2, <1>3, <1>4, <1>5, <1>6, <1>7 DEF r, e

(* The last packet of a channel, when it is a state, is its last state.    *)
LEMMA LastPacket ==
  ASSUME NEW s \in Seq(Packets), s # <<>>, NEW v, Last(s) = State(v)
  PROVE  LastStateIs(s, v)
<1>1. /\ Len(s) \in DOMAIN s /\ s[Len(s)] = State(v)
      /\ \A j \in DOMAIN s : j <= Len(s)
  BY DEF Last
<1> QED BY <1>1 DEF LastStateIs

(* What is sent to users is put at the end of the channels of the open     *)
(* sockets that are mapped to them.                                        *)
LEMMA SentSound ==
  ASSUME TypeOK, NEW U, None \notin U, NEW e \in Packets
  PROVE  /\ Sent(U, e) \in [Peers -> Seq(Packets)]
         /\ \A p \in Peers : \/ Sent(U, e)[p] = toNode[p]
                             \/ /\ p \in isOpen /\ userOf[p] \in U
                                /\ Sent(U, e)[p] = Append(toNode[p], e)
         /\ \A p \in isOpen : userOf[p] \in U =>
              \/ Sent(U, e)[p] = Append(toNode[p], e)
              \/ /\ toNode[p] # <<>> /\ Last(toNode[p]) = e
                 /\ Sent(U, e)[p] = toNode[p]
<1>1. toNode \in [Peers -> Seq(Packets)] /\ isOpen \subseteq Peers
  BY DEF TypeOK
<1>2. \A p \in Peers : Append(toNode[p], e) \in Seq(Packets)
  BY <1>1
<1> QED BY <1>1, <1>2 DEF Sent

(* --------------------------- the handshakes ---------------------------- *)

(* What a node learns from a channel, apart from acknowledgements.         *)
SameNews(x, y) ==
  /\ \A t \in {"Initial", "State"} : Has(y, t) <=> Has(x, t)
  /\ Once(x, "Initial") => Once(y, "Initial")
  /\ \A v : LastStateIs(x, v) => LastStateIs(y, v)

PresenceOf(s) ==
  \A u \in Players : s.users[u] = "connected" <=> \E p \in Peers : s.userOf[p] = u

(* What handshakes of users U make of the map and the channels.            *)
EntryOK(s, U) ==
  /\ s.userOf \in [Peers -> Users \union {None}]
  /\ s.users \in [Users -> {"unknown", "connected", "disconnected"}]
  /\ requesters \subseteq s.requesters /\ s.requesters \subseteq Users
  /\ s.isOpen \subseteq isOpen
  /\ s.toNode \in [Peers -> Seq(Packets)]
  /\ \A p \in Peers : s.userOf[p] \in {None, token[p]}
  /\ \A p \in Peers : \/ s.userOf[p] \in {None, userOf[p]}
                      \/ s.userOf[p] \in U \intersect s.requesters
  /\ \A p, q \in Peers : s.userOf[p] = s.userOf[q] /\ s.userOf[p] # None => p = q
  /\ PresenceOf(s)
  /\ \A p \in s.isOpen : /\ userOf[p] # None => s.userOf[p] = userOf[p]
                         /\ SameNews(toNode[p], s.toNode[p])
  /\ \A p \in Peers : p \notin s.isOpen => s.toNode[p] = <<>>
  /\ \A p \in Peers : s.toNode[p] # <<>> => s.userOf[p] = token[p]
  /\ \A p \in Peers : Has(s.toNode[p], "Initialized") => localDone = Shards

LEMMA SameNewsKept ==
  ASSUME NEW x, NEW y \in Seq(Packets), SameNews(x, y), NEW e \in Packets,
         e.type \notin {"Initial", "State"}
  PROVE  SameNews(x, Append(y, e))
BY Appended DEF SameNews

LEMMA EntryFields ==
  /\ Entry.userOf = userOf /\ Entry.users = users /\ Entry.requesters = requesters
  /\ Entry.isOpen = isOpen /\ Entry.toNode = toNode
BY DEF Entry

LEMMA EntryStarts == ASSUME IInv, NEW U PROVE EntryOK(Entry, U)
<1>1. \A p \in Peers : SameNews(toNode[p], toNode[p])
  BY DEF SameNews
<1>2. PresenceOf(Entry)
  BY EntryFields DEF PresenceOf, IInv, MapOK, PresenceIsExact
<1> QED BY <1>1, <1>2, EntryFields DEF EntryOK, IInv, TypeOK, MapOK, ChannelsOK, BarrierOK

LEMMA EnterSound ==
  ASSUME IInv, NEW U, U \subseteq Users, NEW s, EntryOK(s, U), NEW p \in Peers, token[p] \in U
  PROVE  EntryOK(Enter(s, p), U)
<1> DEFINE old == Older(s, p)
           open == s.isOpen \ old
           kept == Emptied(s.toNode, Peers \ open)
           next == IF p \in open THEN [kept EXCEPT ![p] = Append(@, Packet("Ack"))] ELSE kept
           r == Enter(s, p)
<1> SUFFICES ASSUME ~(Older(s, p) \ peers # {}) PROVE EntryOK(r, U)
  BY DEF Enter
<1>1. /\ r.userOf = [q \in Peers |-> IF q = p THEN token[p] ELSE IF q \in old THEN None ELSE s.userOf[q]]
      /\ r.users = [s.users EXCEPT ![token[p]] = "connected"]
      /\ r.requesters = s.requesters \union {token[p]}
      /\ r.isOpen = open
      /\ r.toNode = next
  BY DEF Enter, OpenAfter
<1>2. /\ s.userOf \in [Peers -> Users \union {None}]
      /\ s.users \in [Users -> {"unknown", "connected", "disconnected"}]
      /\ requesters \subseteq s.requesters /\ s.requesters \subseteq Users
      /\ s.isOpen \subseteq isOpen /\ isOpen \subseteq Peers
      /\ s.toNode \in [Peers -> Seq(Packets)]
      /\ token[p] \in Users /\ None \notin Users
  BY ConnectionsAssumption DEF EntryOK, IInv, TypeOK, Users
<1>3. old \subseteq Peers /\ \A q \in Peers : q \in old <=> s.userOf[q] = token[p]
  BY DEF Older
<1>4. Packet("Ack") \in Packets /\ Packet("Ack").type = "Ack"
  BY PacketTypes
<1>5. /\ next \in [Peers -> Seq(Packets)]
      /\ \A q \in Peers : q \notin open => next[q] = <<>>
      /\ \A q \in open : q # p => next[q] = s.toNode[q]
      /\ p \in open => next[p] = Append(s.toNode[p], Packet("Ack"))
  <2>1. /\ kept \in [Peers -> Seq(Packets)]
        /\ \A q \in Peers : q \notin open => kept[q] = <<>>
        /\ \A q \in open : kept[q] = s.toNode[q]
    BY <1>2, EmptyChannel DEF Emptied
  <2>2. open \subseteq Peers
    BY <1>2
  <2> HIDE DEF kept, open
  <2> QED BY <1>4, <2>1, <2>2
<1> HIDE DEF next, r
<1>6. /\ r.userOf \in [Peers -> Users \union {None}]
      /\ \A q \in Peers : r.userOf[q] = IF q = p THEN token[p] ELSE IF q \in old THEN None ELSE s.userOf[q]
  BY <1>1, <1>2
<1>7. \A q \in Peers : /\ r.userOf[q] \in {None, token[q]}
                       /\ \/ r.userOf[q] \in {None, userOf[q]}
                          \/ r.userOf[q] \in U \intersect r.requesters
  BY <1>1, <1>6 DEF EntryOK
<1>8. \A q, o \in Peers : r.userOf[q] = r.userOf[o] /\ r.userOf[q] # None => q = o
  BY <1>3, <1>6 DEF EntryOK
<1>9. PresenceOf(r)
  <2>1. ASSUME NEW u \in Players, u = token[p]
        PROVE  r.users[u] = "connected" /\ \E q \in Peers : r.userOf[q] = u
    BY <1>1, <1>2, <1>6, <2>1
  <2>2. ASSUME NEW u \in Players, u # token[p]
        PROVE  r.users[u] = "connected" <=> \E q \in Peers : r.userOf[q] = u
    <3>1. r.users[u] = s.users[u] /\ u \in Users
      BY <1>1, <1>2, <2>2 DEF Users
    <3>2. \A q \in Peers : r.userOf[q] = u <=> s.userOf[q] = u
      <4> SUFFICES ASSUME NEW q \in Peers PROVE r.userOf[q] = u <=> s.userOf[q] = u
        OBVIOUS
      <4>1. s.userOf[p] \in {None, token[p]} /\ u # None
        BY <1>2, <3>1 DEF EntryOK
      <4> QED BY <1>3, <1>6, <2>2, <4>1
    <3> QED BY <3>1, <3>2 DEF EntryOK, PresenceOf
  <2> QED BY <2>1, <2>2 DEF PresenceOf
<1>10. \A q \in open : userOf[q] # None => r.userOf[q] = userOf[q]
  <2> SUFFICES ASSUME NEW q \in open, userOf[q] # None PROVE r.userOf[q] = userOf[q]
    OBVIOUS
  <2>1. q \in Peers /\ q \in s.isOpen /\ q \notin old /\ s.userOf[q] = userOf[q]
    BY <1>2 DEF EntryOK
  <2>2. userOf[q] = token[q]
    BY <2>1 DEF IInv, MapOK
  <2> QED BY <1>6, <2>1, <2>2
<1>11. \A q \in open : SameNews(toNode[q], r.toNode[q])
  <2> SUFFICES ASSUME NEW q \in open PROVE SameNews(toNode[q], r.toNode[q])
    OBVIOUS
  <2>1. q \in Peers /\ s.toNode[q] \in Seq(Packets) /\ SameNews(toNode[q], s.toNode[q])
    BY <1>2 DEF EntryOK
  <2>2. SameNews(toNode[q], Append(s.toNode[q], Packet("Ack")))
    BY <1>4, <2>1, SameNewsKept
  <2> QED BY <1>1, <1>5, <2>1, <2>2
<1>12. \A q \in Peers : r.toNode[q] # <<>> => r.userOf[q] = token[q]
  BY <1>1, <1>2, <1>5, <1>6 DEF EntryOK
<1>13. \A q \in Peers : Has(r.toNode[q], "Initialized") => localDone = Shards
  <2> SUFFICES ASSUME NEW q \in Peers, Has(r.toNode[q], "Initialized") PROVE localDone = Shards
    OBVIOUS
  <2>1. ~Has(<<>>, "Initialized") /\ s.toNode[q] \in Seq(Packets)
    BY <1>2, EmptyChannel
  <2>2. Has(s.toNode[q], "Initialized")
    <3>1. Has(Append(s.toNode[q], Packet("Ack")), "Initialized") => Has(s.toNode[q], "Initialized")
      BY <1>4, <2>1, Appended
    <3>2. r.toNode[q] \in {<<>>, s.toNode[q], Append(s.toNode[q], Packet("Ack"))}
      BY <1>1, <1>5
    <3> QED BY <2>1, <3>1, <3>2
  <2> QED BY <2>2 DEF EntryOK
<1>14. /\ r.users \in [Users -> {"unknown", "connected", "disconnected"}]
       /\ requesters \subseteq r.requesters /\ r.requesters \subseteq Users
       /\ r.isOpen \subseteq isOpen
  BY <1>1, <1>2
<1> HIDE DEF old, open
<1> QED BY <1>1, <1>5, <1>6, <1>7, <1>8, <1>9, <1>10, <1>11, <1>12, <1>13, <1>14 DEF EntryOK

(* ------------------------- the waiting players ------------------------- *)

Below == OpToRel(<, Nat)

LEMMA BelowIsWellFounded == IsWellFoundedOn(Below, Nat)
BY NatLessThanWellFounded DEF Below

(* A set of numbers has a least one.                                       *)
LEMMA LeastNumber ==
  ASSUME NEW S \in SUBSET Nat, S # {}
  PROVE  \E x \in S : \A y \in S : x <= y
<1>1. PICK x \in S : \A y \in S : ~(<<y, x>> \in Below)
  BY BelowIsWellFounded, WFMin
<1>2. ASSUME NEW y \in S PROVE x <= y
  <2>1. x \in Nat /\ y \in Nat /\ <<y, x>> \in Nat \X Nat
    OBVIOUS
  <2>2. <<y, x>>[1] = y /\ <<y, x>>[2] = x
    OBVIOUS
  <2>3. y < x => <<y, x>> \in Below
    BY <2>1, <2>2 DEF Below, OpToRel
  <2> QED BY <1>1, <2>1, <2>3
<1> QED BY <1>2

(* The steps of EnterAll, up to the handshake n.                           *)
EntriesOf(s, queue, n, f) ==
  f = [i \in 0..n |-> IF i = 0 THEN s ELSE Enter(f[i - 1], queue[i])]

LEMMA EntriesExist ==
  ASSUME NEW s, NEW queue, NEW m \in Nat
  PROVE  \E f : EntriesOf(s, queue, m, f)
<1> DEFINE Wrong == {n \in Nat : ~ \E f : EntriesOf(s, queue, n, f)}
<1> SUFFICES ASSUME Wrong # {} PROVE FALSE
  OBVIOUS
<1>1. PICK n \in Wrong : \A y \in Wrong : n <= y
  <2>1. Wrong \in SUBSET Nat
    OBVIOUS
  <2> HIDE DEF Wrong
  <2> QED BY <2>1, LeastNumber
<1>2. n \in Nat /\ ~ \E f : EntriesOf(s, queue, n, f)
  BY <1>1
<1>3. CASE n = 0
  <2> DEFINE g == [i \in 0..0 |-> s]
  <2>1. g = [i \in 0..0 |-> IF i = 0 THEN s ELSE Enter(g[i - 1], queue[i])]
    BY SMT
  <2> HIDE DEF g
  <2> QED BY <1>2, <1>3, <2>1 DEF EntriesOf
<1>4. CASE n # 0
  <2>1. n - 1 \in Nat /\ n - 1 \notin Wrong
    <3> HIDE DEF Wrong
    <3> QED BY <1>1, <1>2, <1>4
  <2>2. PICK f : EntriesOf(s, queue, n - 1, f)
    BY <2>1
  <2> DEFINE step(x, i) == Enter(x, queue[i])
             g == [i \in 0..n |-> IF i = n THEN step(f[n - 1], n) ELSE f[i]]
  <2>3. f = [i \in 0..n - 1 |-> IF i = 0 THEN s ELSE step(f[i - 1], i)]
    BY <2>2 DEF EntriesOf
  <2> HIDE DEF step
  <2>4. \A i \in 0..n - 1 : f[i] = IF i = 0 THEN s ELSE step(f[i - 1], i)
    BY <2>3
  <2>5. \A i \in 0..n : g[i] = IF i = 0 THEN s ELSE step(g[i - 1], i)
    <3> SUFFICES ASSUME NEW i \in 0..n PROVE g[i] = IF i = 0 THEN s ELSE step(g[i - 1], i)
      OBVIOUS
    <3>1. CASE i = 0
      BY <1>2, <1>4, <2>4, <3>1
    <3>2. CASE i # 0 /\ i # n
      <4>1. i \in 0..n - 1 /\ i - 1 \in 0..n /\ i - 1 # n
        BY <1>2, <3>2
      <4>2. g[i] = f[i] /\ g[i - 1] = f[i - 1]
        BY <3>2, <4>1
      <4> HIDE DEF g
      <4> QED BY <2>4, <3>2, <4>1, <4>2
    <3>3. CASE i # 0 /\ i = n
      <4>1. i - 1 \in 0..n /\ i - 1 # n
        BY <1>2, <3>3
      <4>2. g[i] = step(f[n - 1], n) /\ g[i - 1] = f[i - 1]
        BY <3>3, <4>1
      <4> HIDE DEF g
      <4> QED BY <3>3, <4>2
    <3> QED BY <3>1, <3>2, <3>3
  <2>6. g = [i \in 0..n |-> g[i]]
    OBVIOUS
  <2>7. [i \in 0..n |-> g[i]] = [i \in 0..n |-> IF i = 0 THEN s ELSE step(g[i - 1], i)]
    <3> HIDE DEF g
    <3> QED BY <2>5
  <2>8. EntriesOf(s, queue, n, g)
    <3> HIDE DEF g
    <3> QED BY <2>6, <2>7 DEF EntriesOf, step
  <2> QED BY <1>2, <2>8
<1> QED BY <1>3, <1>4

(* A queue of handshakes does to the map and the channels what each does.  *)
LEMMA EnterAllSound ==
  ASSUME IInv, NEW U, U \subseteq Users, NEW s, EntryOK(s, U),
         NEW queue \in Seq(Peers), \A i \in DOMAIN queue : token[queue[i]] \in U
  PROVE  EntryOK(EnterAll(s, queue), U)
<1> DEFINE m == Len(queue)
           f == CHOOSE g : EntriesOf(s, queue, m, g)
<1>1. m \in Nat /\ DOMAIN queue = 1..m /\ \A i \in 1..m : queue[i] \in Peers
  OBVIOUS
<1>2. EntriesOf(s, queue, m, f)
  <2> HIDE DEF m
  <2> QED BY <1>1, EntriesExist
<1>3. EnterAll(s, queue) = f[m]
  BY DEF EnterAll, EntriesOf
<1>4. \A i \in 0..m : f[i] = IF i = 0 THEN s ELSE Enter(f[i - 1], queue[i])
  <2> HIDE DEF m, f
  <2> QED BY <1>2 DEF EntriesOf
<1> HIDE DEF m, f
<1> DEFINE Wrong == {i \in 0..m : ~EntryOK(f[i], U)}
<1> SUFFICES ASSUME Wrong # {} PROVE FALSE
  BY <1>1, <1>3
<1>5. PICK i \in Wrong : \A y \in Wrong : i <= y
  <2>1. Wrong \in SUBSET Nat
    BY <1>1
  <2> HIDE DEF Wrong
  <2> QED BY <2>1, LeastNumber
<1>6. i \in 0..m /\ ~EntryOK(f[i], U)
  BY <1>5
<1>7. i # 0
  BY <1>1, <1>4, <1>6
<1>8. i - 1 \in 0..m /\ i \in 1..m /\ i - 1 \notin Wrong
  <2> HIDE DEF Wrong
  <2> QED BY <1>1, <1>5, <1>6, <1>7
<1>9. EntryOK(f[i - 1], U) /\ queue[i] \in Peers /\ token[queue[i]] \in U
  BY <1>1, <1>8
<1>10. f[i] = Enter(f[i - 1], queue[i])
  BY <1>4, <1>6, <1>7
<1> QED BY <1>6, <1>9, <1>10, EnterSound

(* ------------------------------ the types ------------------------------ *)

LEMMA ConstantsApart ==
  /\ None \notin Users /\ None \notin Nodes /\ None \notin BOOLEAN
  /\ \A n \in Clients : n \notin Shards
  /\ \A u \in Players : u \notin Shards
  /\ NoSocket \notin Peers
  /\ Shards \subseteq Users /\ Players \subseteq Users
  /\ Shards \subseteq Nodes /\ Clients \subseteq Nodes
  /\ \A n \in Nodes : Tokens(n) \subseteq Users
BY ConnectionsAssumption DEF Users, Nodes, NoSocket, Peers, Tokens

LEMMA EmptiedChannels ==
  ASSUME NEW channels \in [Peers -> Seq(Packets)], NEW P
  PROVE  /\ Emptied(channels, P) \in [Peers -> Seq(Packets)]
         /\ \A p \in Peers : Emptied(channels, P)[p] = IF p \in P THEN <<>> ELSE channels[p]
BY EmptyChannel DEF Emptied

LEMMA TypeOfInit == Init => TypeOK
<1> SUFFICES ASSUME Init PROVE TypeOK
  OBVIOUS
<1>1. <<>> \in Seq(Packets) /\ <<>> \in Seq(Peers)
  OBVIOUS
<1>2. /\ toServer \in [Peers -> Seq(Packets)] /\ toNode \in [Peers -> Seq(Packets)]
      /\ waiting \in Seq(Peers)
  BY <1>1, EmptyChannel DEF Init
<1>3. /\ userOf \in [Peers -> Users \union {None}]
      /\ users \in [Users -> {"unknown", "connected", "disconnected"}]
      /\ owner \in [Peers -> Nodes \union {None}]
      /\ token \in [Peers -> Users \union {None}]
      /\ socket \in [Nodes -> Peers \union {NoSocket}]
      /\ known \in [Nodes -> BOOLEAN \union {None}]
      /\ status \in [Nodes -> Statuses]
  BY DEF Init, Statuses
<1>4. /\ phase \in Phases
      /\ localDone = {} /\ initial = {} /\ reported = {}
      /\ isPaused \in BOOLEAN /\ isChanged \in BOOLEAN
  BY DEF Init, Phases
<1>5. attempts \in 0..MaxConnections
  BY ConnectionsAssumption DEF Init
<1> QED BY <1>2, <1>3, <1>4, <1>5 DEF Init, TypeOK

(* The first packet of a channel is taken, and others are put into one.    *)
LEMMA TakenFrom ==
  ASSUME NEW channels \in [Peers -> Seq(Packets)], NEW p \in Peers, channels[p] # <<>>
  PROVE  [channels EXCEPT ![p] = Tail(@)] \in [Peers -> Seq(Packets)]
<1>1. Tail(channels[p]) \in Seq(Packets)
  BY Taken
<1> QED BY <1>1

LEMMA PutInto ==
  ASSUME NEW channels \in [Peers -> Seq(Packets)], NEW p \in Peers, NEW e \in Packets
  PROVE  [channels EXCEPT ![p] = Append(@, e)] \in [Peers -> Seq(Packets)]
<1>1. Append(channels[p], e) \in Seq(Packets)
  BY Appended
<1> QED BY <1>1

(* A node handles a packet from a socket that is mapped to its user.       *)
LEMMA HandledPacket ==
  ASSUME IInv, NEW n \in Nodes, NEW type, FromServer(n, type)
  PROVE  /\ socket[n] \in Peers /\ socket[n] \in isOpen
         /\ owner[socket[n]] = n /\ token[socket[n]] \in Tokens(n)
         /\ userOf[socket[n]] = token[socket[n]]
         /\ toNode[socket[n]] # <<>> /\ toNode[socket[n]] \in Seq(Packets)
         /\ Has(toNode[socket[n]], type)
         /\ Head(toNode[socket[n]]).type = type
         /\ toNode' = [toNode EXCEPT ![socket[n]] = Tail(@)]
         /\ toNode' \in [Peers -> Seq(Packets)]
<1>1. /\ socket[n] \in isOpen /\ toNode[socket[n]] # <<>>
      /\ Head(toNode[socket[n]]).type = type
      /\ toNode' = [toNode EXCEPT ![socket[n]] = Tail(@)]
  BY DEF FromServer
<1>2. socket[n] \in Peers /\ toNode \in [Peers -> Seq(Packets)] /\ socket[n] # NoSocket
  BY <1>1, ConstantsApart DEF IInv, TypeOK
<1>3. owner[socket[n]] = n /\ owner[socket[n]] # None
  BY <1>2, ConstantsApart DEF IInv, LinksOK
<1>4. token[socket[n]] \in Tokens(n) /\ userOf[socket[n]] = token[socket[n]]
  BY <1>1, <1>2, <1>3 DEF IInv, LinksOK, ChannelsOK
<1>5. Has(toNode[socket[n]], type)
  BY <1>1, <1>2, Taken
<1> QED BY <1>1, <1>2, <1>3, <1>4, <1>5, TakenFrom

(* Only shards get a part of the snapshot.                                 *)
LEMMA InitialAtShard ==
  ASSUME IInv, NEW n \in Nodes, FromServer(n, "Initial")
  PROVE  n \in Shards /\ token[socket[n]] = n
<1>1. token[socket[n]] \in Shards /\ token[socket[n]] \in Tokens(n)
  BY HandledPacket DEF IInv, ChannelsOK
<1> QED BY <1>1, ConstantsApart DEF Tokens

LEMMA TypeOfReport ==
  ASSUME IInv, NEW n \in Nodes, socket[n] \in Peers, initial' \subseteq Shards, Report(n)
  PROVE  reported' \subseteq Shards /\ toServer' \in [Peers -> Seq(Packets)]
<1>1. reported \subseteq Shards /\ toServer \in [Peers -> Seq(Packets)]
  BY DEF IInv, TypeOK
<1>2. Packet("LocalDone") \in Packets
  BY PacketTypes
<1>3. CASE FirstReport(n)
  <2>1. n \in Shards
    BY <1>3 DEF FirstReport
  <2>2. [toServer EXCEPT ![socket[n]] = Append(@, Packet("LocalDone"))] \in [Peers -> Seq(Packets)]
    BY <1>1, <1>2, PutInto
  <2> QED BY <1>1, <1>3, <2>1, <2>2 DEF Report
<1>4. CASE ~FirstReport(n)
  BY <1>1, <1>4 DEF Report
<1> QED BY <1>3, <1>4

(* The server's part of a handshake, and of all that waited.               *)
LEMMA OpenSocket ==
  ASSUME IInv, NEW p \in isOpen
  PROVE  /\ p \in Peers /\ owner[p] \in Nodes /\ socket[owner[p]] = p
         /\ token[p] \in Tokens(owner[p]) /\ token[p] \in Users
<1>1. p \in Peers /\ owner[p] \in Nodes /\ socket[owner[p]] = p
  BY DEF IInv, TypeOK, LinksOK
<1> QED BY <1>1, ConstantsApart DEF IInv, LinksOK

LEMMA HandshakeEntry ==
  ASSUME IInv, NEW p \in Peers, ReceiveHandshake(p), ~MustWait(p)
  PROVE  \E s : EntryOK(s, {token[p]}) /\ Entered(s)
<1>1. token[p] \in Users
  BY OpenSocket DEF ReceiveHandshake, FromNode
<1>2. EntryOK(Enter(Entry, p), {token[p]})
  BY <1>1, EntryStarts, EnterSound
<1>3. Entered(Enter(Entry, p))
  BY DEF ReceiveHandshake
<1> QED BY <1>2, <1>3

LEMMA InitializeEntry ==
  ASSUME IInv, Initialize
  PROVE  \E s : EntryOK(s, Players) /\ Entered(s)
<1> DEFINE sent == Sent(Shards, Packet("Initialized"))
           told == [Entry EXCEPT !.toNode = sent]
<1>1. localDone = Shards /\ Entered(EnterAll(told, waiting))
  BY DEF Initialize, AllLocalDone
<1>2. /\ told.userOf = userOf /\ told.users = users /\ told.requesters = requesters
      /\ told.isOpen = isOpen /\ told.toNode = sent
  BY DEF Entry
<1>3. /\ Packet("Initialized") \in Packets /\ Packet("Initialized").type = "Initialized"
      /\ TypeOK
  BY PacketTypes DEF IInv
<1>4. /\ sent \in [Peers -> Seq(Packets)]
      /\ \A p \in Peers : \/ sent[p] = toNode[p]
                          \/ /\ p \in isOpen /\ userOf[p] \in Shards
                             /\ sent[p] = Append(toNode[p], Packet("Initialized"))
  BY <1>3, SentSound, ConstantsApart
<1> HIDE DEF sent, told
<1>5. \A p \in Peers : SameNews(toNode[p], sent[p])
  <2> SUFFICES ASSUME NEW p \in Peers PROVE SameNews(toNode[p], sent[p])
    OBVIOUS
  <2>1. SameNews(toNode[p], toNode[p]) /\ toNode[p] \in Seq(Packets)
    BY <1>3 DEF SameNews, TypeOK
  <2>2. SameNews(toNode[p], Append(toNode[p], Packet("Initialized")))
    BY <1>3, <2>1, SameNewsKept
  <2> QED BY <1>4, <2>1, <2>2
<1>6. \A p \in Peers : /\ p \notin isOpen => sent[p] = <<>>
                      /\ sent[p] # <<>> => userOf[p] = token[p]
  BY <1>4, ConstantsApart DEF IInv, ChannelsOK, MapOK
<1>7. EntryOK(Entry, Players)
  BY EntryStarts
<1>8. PresenceOf(told)
  BY <1>2, <1>7, EntryFields DEF EntryOK, PresenceOf
<1>9. EntryOK(told, Players)
  BY <1>1, <1>2, <1>4, <1>5, <1>6, <1>7, <1>8, EntryFields DEF EntryOK, IInv, TypeOK
<1>10. waiting \in Seq(Peers) /\ \A i \in DOMAIN waiting : token[waiting[i]] \in Players
  BY DEF IInv, TypeOK, LinksOK
<1>11. EntryOK(EnterAll(told, waiting), Players)
  BY <1>9, <1>10, EnterAllSound, ConstantsApart
<1> QED BY <1>1, <1>11

LEMMA TypeOfEntry ==
  ASSUME IInv, NEW s, NEW U, EntryOK(s, U), Entered(s),
         UNCHANGED <<localDone, peers, isPaused, isChanged, linkVars, loadVars, originVars>>,
         phase' \in Phases, waiting' \in Seq(Peers), toServer' \in [Peers -> Seq(Packets)]
  PROVE  TypeOK'
BY DEF IInv, TypeOK, EntryOK, Entered, linkVars, loadVars, originVars

LEMMA TypeNext == IInv /\ [Next]_vars => TypeOK'
<1> SUFFICES ASSUME IInv, [Next]_vars PROVE TypeOK'
  OBVIOUS
<1> USE DEF IInv
<1>1. CASE UNCHANGED vars
  BY <1>1 DEF vars, userVars, stateVars, linkVars, loadVars, originVars, netVars, TypeOK
<1>2. CASE InitStep
  <2>1. CASE SendInitial /\ (users' = users \/ users' = [u \in Users |-> "disconnected"])
    <3>1. toNode' \in [Peers -> Seq(Packets)]
      BY <2>1, SentSound, PacketTypes, ConstantsApart DEF SendInitial
    <3> QED BY <2>1, <3>1
       DEF SendInitial, TypeOK, Phases, stateVars, linkVars, loadVars, originVars
  <2>2. CASE Initialize
    <3>1. toServer' \in [Peers -> Seq(Packets)]
      <4>1. toServer \in [Peers -> Seq(Packets)] /\ toServer' = Emptied(toServer, Peers \ isOpen')
        BY <2>2 DEF Initialize, TypeOK
      <4> QED BY <4>1, EmptiedChannels
    <3>2. waiting' = <<>> /\ phase' \in Phases /\ <<>> \in Seq(Peers)
      BY <2>2 DEF Initialize, Phases
    <3> QED BY <2>2, <3>1, <3>2, InitializeEntry, TypeOfEntry DEF Initialize
  <2>3. CASE InitFails
    BY <2>3 DEF InitFails, TypeOK, Phases, userVars, stateVars, linkVars, loadVars, originVars, netVars
  <2>4. CASE Unpause \/ Pause
    BY <2>4 DEF Unpause, Pause, SetPaused, TypeOK, Phases, userVars, linkVars, loadVars, originVars, netVars
  <2> QED BY <1>2, <2>1, <2>2, <2>3, <2>4 DEF InitStep, LoadSnapshot, StartNewCampaign
<1>3. CASE Tick
  <2>1. toNode' \in [Peers -> Seq(Packets)]
    <3>1. State(isPaused) \in Packets /\ None \notin Receivers
      BY PacketTypes, ConstantsApart DEF TypeOK, Receivers
    <3>2. PICK U \in SUBSET Receivers : toNode' = Sent(U, State(isPaused))
      BY <1>3 DEF Tick
    <3> QED BY <3>1, <3>2, SentSound
  <2>2. requesters' \subseteq Users /\ isChanged' \in BOOLEAN
    BY <1>3 DEF Tick, TypeOK
  <2> QED BY <1>3, <2>1, <2>2 DEF Tick, TypeOK, userVars, linkVars, loadVars, originVars
<1>4. ASSUME NEW p \in Peers, PollPeer(p) \/ Close(p) PROVE TypeOK'
  <2>1. CASE ReceiveHandshake(p)
    <3>1. [toServer EXCEPT ![p] = Tail(@)] \in [Peers -> Seq(Packets)]
      BY <2>1, TakenFrom DEF ReceiveHandshake, FromNode, TypeOK
    <3>2. toServer' \in [Peers -> Seq(Packets)]
      BY <2>1, <3>1, EmptiedChannels DEF ReceiveHandshake
    <3>3. CASE MustWait(p)
      <4>1. Append(waiting, p) \in Seq(Peers)
        BY DEF TypeOK
      <4> QED BY <2>1, <3>2, <3>3, <4>1 DEF ReceiveHandshake, TypeOK, linkVars, loadVars, originVars
    <3>4. CASE ~MustWait(p)
      <4>1. waiting' \in Seq(Peers) /\ phase' \in Phases
        BY <2>1, <3>4 DEF ReceiveHandshake, TypeOK
      <4> QED BY <2>1, <3>2, <3>4, <4>1, HandshakeEntry, TypeOfEntry DEF ReceiveHandshake
    <3> QED BY <3>3, <3>4
  <2>2. CASE ReceiveLocalDone(p)
    <3>1. toServer' \in [Peers -> Seq(Packets)]
      BY <2>2, TakenFrom DEF ReceiveLocalDone, FromNode, TypeOK
    <3>2. Has(toServer[p], "LocalDone")
      BY <2>2, Taken DEF ReceiveLocalDone, FromNode, TypeOK
    <3>3. userOf[p] \in Shards
      BY <3>2 DEF ChannelsOK
    <3> QED BY <2>2, <3>1, <3>3 DEF ReceiveLocalDone, TypeOK, userVars, stateVars, linkVars, loadVars, originVars
  <2>3. CASE DropPeer(p)
    BY <2>3, ConstantsApart DEF DropPeer, TypeOK, stateVars, linkVars, loadVars, originVars, netVars
  <2>4. CASE Close(p)
    <3>1. toServer' \in [Peers -> Seq(Packets)] /\ toNode' \in [Peers -> Seq(Packets)]
      BY <2>4, EmptiedChannels DEF Close, Break, TypeOK
    <3> QED BY <2>4, <3>1 DEF Close, Break, TypeOK, userVars, stateVars, linkVars, loadVars
  <2> QED BY <1>4, <2>1, <2>2, <2>3, <2>4 DEF PollPeer
<1>5. ASSUME NEW n \in Nodes, Connect(n) \/ AuthFails(n) \/ Accept(n) \/ Restart(n) \/ PollSocket(n)
      PROVE  TypeOK'
  <2>1. CASE Connect(n) \/ AuthFails(n) \/ NoticeClosed(n)
    <3>1. /\ status' \in [Nodes -> Statuses] /\ socket' \in [Nodes -> Peers \union {NoSocket}]
          /\ UNCHANGED <<phase, localDone, userVars, stateVars, loadVars, owner, token,
                         isOpen, toServer, toNode>>
      BY <2>1 DEF Connect, AuthFails, NoticeClosed, TypeOK, Statuses, originVars, netVars
    <3>2. attempts' \in 0..MaxConnections
      BY <2>1, ConnectionsAssumption DEF Connect, AuthFails, NoticeClosed, TypeOK, originVars, netVars
    <3> QED BY <3>1, <3>2 DEF TypeOK, userVars, stateVars, loadVars
  <2>2. CASE Accept(n)
    BY <2>2, ConstantsApart DEF Accept, TypeOK, stateVars, loadVars
  <2>3. CASE Restart(n)
    <3>1. toServer' \in [Peers -> Seq(Packets)] /\ toNode' \in [Peers -> Seq(Packets)]
      <4>1. \A P : /\ Emptied(toServer, P) \in [Peers -> Seq(Packets)]
                   /\ Emptied(toNode, P) \in [Peers -> Seq(Packets)]
        BY EmptiedChannels DEF TypeOK
      <4> QED BY <2>3, <4>1 DEF Restart, Break
    <3> QED BY <2>3, <3>1 DEF Restart, Break, TypeOK, Statuses, userVars, stateVars
  <2>4. CASE SendHandshake(n)
    <3>1. Packet("Handshake") \in Packets /\ socket[n] \in Peers
      BY <2>4, PacketTypes DEF SendHandshake, TypeOK
    <3>2. toServer' \in [Peers -> Seq(Packets)]
      BY <2>4, <3>1, PutInto DEF SendHandshake, TypeOK
    <3> QED BY <2>4, <3>2 DEF SendHandshake, TypeOK, Statuses, userVars, stateVars, loadVars, originVars
  <2>5. CASE ReceiveAck(n)
    <3>1. toNode' \in [Peers -> Seq(Packets)]
      BY <2>5, HandledPacket DEF ReceiveAck
    <3> QED BY <2>5, <3>1 DEF ReceiveAck, TypeOK, Statuses, userVars, stateVars, loadVars, originVars
  <2>6. CASE ReceiveInitial(n)
    <3>1. toNode' \in [Peers -> Seq(Packets)] /\ socket[n] \in Peers /\ n \in Shards
      BY <2>6, HandledPacket, InitialAtShard DEF ReceiveInitial
    <3>2. reported' \subseteq Shards /\ toServer' \in [Peers -> Seq(Packets)] /\ initial' \subseteq Shards
      BY <2>6, <3>1, TypeOfReport DEF ReceiveInitial, TypeOK
    <3> QED BY <2>6, <3>1, <3>2 DEF ReceiveInitial, TypeOK, userVars, stateVars, linkVars, originVars
  <2>7. CASE ReceiveState(n)
    <3>1. toNode' \in [Peers -> Seq(Packets)] /\ socket[n] \in Peers
      BY <2>7, HandledPacket DEF ReceiveState
    <3>2. reported' \subseteq Shards /\ toServer' \in [Peers -> Seq(Packets)]
      BY <2>7, <3>1, TypeOfReport DEF ReceiveState, TypeOK
    <3>3. Head(toNode[socket[n]]).isPaused \in BOOLEAN
      <4>1. Head(toNode[socket[n]]) \in Packets /\ Head(toNode[socket[n]]).type = "State"
        BY <2>7, HandledPacket, Taken DEF ReceiveState
      <4> QED BY <4>1, PacketTypes DEF Packets
    <3> QED BY <2>7, <3>1, <3>2, <3>3, ConstantsApart
       DEF ReceiveState, TypeOK, userVars, stateVars, linkVars, originVars
  <2>8. CASE ReceiveInitialized(n)
    <3>1. toNode' \in [Peers -> Seq(Packets)]
      BY <2>8, HandledPacket DEF ReceiveInitialized
    <3> QED BY <2>8, <3>1 DEF ReceiveInitialized, TypeOK, userVars, stateVars, linkVars, originVars
  <2> QED BY <1>5, <2>1, <2>2, <2>3, <2>4, <2>5, <2>6, <2>7, <2>8 DEF PollSocket
<1> QED BY <1>1, <1>2, <1>3, <1>4, <1>5 DEF Next

(* --------------------------- links and the map ------------------------- *)

LEMMA LinksFrame ==
  ASSUME IInv, UNCHANGED <<socket, owner, token>>, isOpen' \subseteq isOpen,
         \A i \in DOMAIN waiting' : token[waiting'[i]] \in Players
  PROVE  LinksOK'
BY DEF IInv, LinksOK, Tokens

LEMMA LinksNext == IInv /\ [Next]_vars => LinksOK'
<1> SUFFICES ASSUME IInv, [Next]_vars PROVE LinksOK'
  OBVIOUS
<1>1. TypeOK /\ TypeOK' /\ \A i \in DOMAIN waiting : token[waiting[i]] \in Players
  BY TypeNext DEF IInv, LinksOK
<1>2. CASE UNCHANGED vars
  BY <1>1, <1>2, LinksFrame DEF vars, userVars, linkVars, originVars, netVars
<1>3. CASE InitStep \/ Tick
  <2>1. CASE Initialize
    <3>1. isOpen' \subseteq isOpen
      BY <2>1, InitializeEntry DEF EntryOK, Entered
    <3>2. waiting' = <<>> /\ UNCHANGED <<socket, owner, token>>
      BY <2>1 DEF Initialize, linkVars, originVars
    <3> QED BY <3>1, <3>2, LinksFrame
  <2>2. CASE ~Initialize
    BY <1>1, <1>3, <2>2, LinksFrame
       DEF InitStep, LoadSnapshot, StartNewCampaign, SendInitial, InitFails, Unpause, Pause, SetPaused, Tick,
           userVars, linkVars, originVars, netVars
  <2> QED BY <2>1, <2>2
<1>4. ASSUME NEW p \in Peers, PollPeer(p) \/ Close(p) PROVE LinksOK'
  <2>1. CASE ReceiveHandshake(p)
    <3>1. UNCHANGED <<socket, owner, token>>
      BY <2>1 DEF ReceiveHandshake, linkVars, originVars
    <3>2. isOpen' \subseteq isOpen
      <4>1. CASE MustWait(p)
        BY <2>1, <4>1 DEF ReceiveHandshake
      <4>2. CASE ~MustWait(p)
        BY <2>1, <4>2, HandshakeEntry DEF EntryOK, Entered
      <4> QED BY <4>1, <4>2
    <3>3. \A i \in DOMAIN waiting' : token[waiting'[i]] \in Players
      <4>1. CASE MustWait(p)
        <5>1. waiting' = Append(waiting, p) /\ token[p] \in Players /\ waiting \in Seq(Peers)
          BY <1>1, <2>1, <4>1 DEF ReceiveHandshake, MustWait, TypeOK
        <5> QED BY <1>1, <5>1
      <4>2. CASE ~MustWait(p)
        BY <1>1, <2>1, <4>2 DEF ReceiveHandshake
      <4> QED BY <4>1, <4>2
    <3> QED BY <3>1, <3>2, <3>3, LinksFrame
  <2>2. CASE ReceiveLocalDone(p) \/ DropPeer(p) \/ Close(p)
    BY <1>1, <2>2, LinksFrame
       DEF ReceiveLocalDone, DropPeer, Close, Break, userVars, linkVars, originVars, netVars
  <2> QED BY <1>4, <2>1, <2>2 DEF PollPeer
<1>5. ASSUME NEW n \in Nodes, Connect(n) \/ AuthFails(n) \/ Accept(n) \/ Restart(n) \/ PollSocket(n)
      PROVE  LinksOK'
  <2>1. CASE Accept(n)
    <3>1. PICK p \in Peers, u \in Tokens(n) :
            /\ owner[p] = None /\ socket[n] = NoSocket
            /\ owner' = [owner EXCEPT ![p] = n]
            /\ token' = [token EXCEPT ![p] = u]
            /\ isOpen' = isOpen \union {p}
            /\ socket' = [socket EXCEPT ![n] = p]
            /\ waiting' = waiting
      BY <2>1 DEF Accept
    <3>2. /\ owner' \in [Peers -> Nodes \union {None}] /\ token' \in [Peers -> Users \union {None}]
          /\ socket' \in [Nodes -> Peers \union {NoSocket}] /\ waiting \in Seq(Peers)
          /\ owner'[p] = n /\ token'[p] = u /\ socket'[n] = p /\ n # None
          /\ p \notin isOpen /\ token[p] = None /\ token[p] \notin Players
          /\ \A m \in Nodes : socket[m] # p
      BY <1>1, <3>1, ConstantsApart DEF TypeOK, IInv, LinksOK
    <3>3. \A m \in Nodes : socket'[m] # NoSocket => owner'[socket'[m]] = m
      BY <1>1, <3>1, <3>2 DEF TypeOK, IInv, LinksOK
    <3>4. \A q \in isOpen' : owner'[q] \in Nodes /\ socket'[owner'[q]] = q
      <4> SUFFICES ASSUME NEW q \in isOpen, q # p PROVE owner'[q] \in Nodes /\ socket'[owner'[q]] = q
        BY <3>1, <3>2
      <4>1. q \in Peers /\ owner[q] \in Nodes /\ socket[owner[q]] = q
        BY OpenSocket
      <4>2. owner[q] # n
        BY <3>1, <4>1, ConstantsApart
      <4> QED BY <1>1, <3>1, <4>1, <4>2 DEF TypeOK
    <3>5. \A q \in Peers : /\ owner'[q] = None => token'[q] = None
                           /\ owner'[q] # None => token'[q] \in Tokens(owner'[q])
      BY <1>1, <3>1, <3>2 DEF TypeOK, IInv, LinksOK
    <3>6. \A i \in DOMAIN waiting' : token'[waiting'[i]] \in Players
      BY <1>1, <3>1, <3>2 DEF TypeOK
    <3> QED BY <3>3, <3>4, <3>5, <3>6 DEF LinksOK, Tokens
  <2>2. CASE Restart(n) \/ NoticeClosed(n)
    <3>1. /\ socket' = [socket EXCEPT ![n] = NoSocket] /\ isOpen' \subseteq isOpen
          /\ socket[n] \notin isOpen' /\ UNCHANGED <<owner, token, waiting>>
      BY <2>2 DEF Restart, NoticeClosed, Break, userVars, originVars, netVars
    <3>2. socket \in [Nodes -> Peers \union {NoSocket}]
      BY <1>1 DEF TypeOK
    <3> QED BY <3>1, <3>2 DEF IInv, LinksOK, Tokens
  <2>3. CASE ~(Accept(n) \/ Restart(n) \/ NoticeClosed(n))
    <3>1. UNCHANGED <<socket, owner, token, isOpen, waiting>>
      BY <1>5, <2>3 DEF Connect, AuthFails, PollSocket, SendHandshake, ReceiveAck, ReceiveInitial, ReceiveState,
         ReceiveInitialized, userVars, linkVars, originVars, netVars
    <3> QED BY <1>1, <3>1, LinksFrame
  <2> QED BY <2>1, <2>2, <2>3
<1> QED BY <1>2, <1>3, <1>4, <1>5 DEF Next

LEMMA MapFrame ==
  ASSUME IInv, UNCHANGED <<userOf, users>>, Initialized => Initialized',
         \A p \in Peers : userOf[p] # None => token'[p] = token[p]
  PROVE  MapOK'
BY DEF IInv, MapOK, PresenceIsExact

LEMMA MapOfEntry ==
  ASSUME IInv, NEW s, NEW U, EntryOK(s, U), Entered(s), UNCHANGED token,
         Initialized => Initialized', \A u \in U : u \in Players => Initialized'
  PROVE  MapOK'
<1>1. PresenceIsExact'
  BY DEF EntryOK, PresenceOf, Entered, PresenceIsExact
<1>2. \A p \in Peers : userOf'[p] \in Players => Initialized'
  BY ConstantsApart DEF EntryOK, Entered, IInv, MapOK, Users
<1> QED BY <1>1, <1>2 DEF EntryOK, Entered, MapOK

LEMMA MapNext == IInv /\ [Next]_vars => MapOK'
<1> SUFFICES ASSUME IInv, [Next]_vars PROVE MapOK'
  OBVIOUS
<1>1. TypeOK
  BY DEF IInv
<1>2. CASE UNCHANGED vars
  BY <1>2, MapFrame DEF vars, userVars, originVars, netVars, Initialized
<1>3. CASE InitStep \/ Tick
  <2>1. CASE Initialize
    <3>1. Initialized' /\ UNCHANGED token
      BY <2>1 DEF Initialize, Initialized, originVars
    <3> QED BY <2>1, <3>1, InitializeEntry, MapOfEntry
  <2>2. CASE LoadSnapshot
    <3>1. /\ ~Initialized /\ UNCHANGED <<userOf, token>>
          /\ users' = [u \in Users |-> "disconnected"]
      BY <2>2 DEF LoadSnapshot, SendInitial, Initialized, originVars
    <3>2. \A p \in Peers : userOf[p] \notin Players
      BY <3>1 DEF IInv, MapOK
    <3>3. PresenceIsExact'
      BY <3>1, <3>2, ConstantsApart DEF PresenceIsExact
    <3> QED BY <3>1, <3>2, <3>3 DEF IInv, MapOK
  <2>3. CASE ~Initialize /\ ~LoadSnapshot
    <3>1. UNCHANGED <<userOf, users, token>> /\ (Initialized => Initialized')
      BY <1>3, <2>3
       DEF InitStep, StartNewCampaign, SendInitial, InitFails, Unpause, Pause, SetPaused, Tick,
           Initialized, userVars, linkVars, originVars, netVars
    <3> QED BY <3>1, MapFrame
  <2> QED BY <2>1, <2>2, <2>3
<1>4. ASSUME NEW p \in Peers, PollPeer(p) \/ Close(p) PROVE MapOK'
  <2>1. CASE ReceiveHandshake(p)
    <3>1. UNCHANGED token /\ (Initialized => Initialized')
      BY <2>1 DEF ReceiveHandshake, originVars, Initialized
    <3>2. CASE MustWait(p)
      BY <2>1, <3>1, <3>2, MapFrame DEF ReceiveHandshake
    <3>3. CASE ~MustWait(p)
      <4>1. \A u \in {token[p]} : u \in Players => Initialized'
        BY <3>1, <3>3 DEF MustWait
      <4> QED BY <2>1, <3>1, <3>3, <4>1, HandshakeEntry, MapOfEntry
    <3> QED BY <3>2, <3>3
  <2>2. CASE DropPeer(p)
    <3>1. /\ UNCHANGED <<token, phase>>
          /\ userOf' = [userOf EXCEPT ![p] = None]
          /\ users' = [u \in Users |-> IF u = userOf[p] THEN "disconnected" ELSE users[u]]
      BY <2>2 DEF DropPeer, MappedUser, originVars, netVars
    <3>2. userOf \in [Peers -> Users \union {None}]
      BY <1>1 DEF TypeOK
    <3>3. ASSUME NEW u \in Players PROVE users'[u] = "connected" <=> \E q \in Peers : userOf'[q] = u
      <4>1. u \in Users /\ u # None
        BY ConstantsApart
      <4>2. users[u] = "connected" <=> \E q \in Peers : userOf[q] = u
        BY DEF IInv, MapOK, PresenceIsExact
      <4>3. CASE u = userOf[p]
        <5>1. \A q \in Peers : userOf[q] = u => q = p
          BY <4>1, <4>3 DEF IInv, MapOK
        <5> QED BY <3>1, <3>2, <4>1, <4>3, <5>1
      <4>4. CASE u # userOf[p]
        BY <3>1, <3>2, <4>1, <4>2, <4>4
      <4> QED BY <4>3, <4>4
    <3>4. PresenceIsExact'
      BY <3>3 DEF PresenceIsExact
    <3> QED BY <3>1, <3>2, <3>4, ConstantsApart DEF IInv, MapOK, Initialized
  <2>3. CASE ReceiveLocalDone(p) \/ Close(p)
    BY <1>1, <2>3, MapFrame DEF ReceiveLocalDone, Close, Break, userVars, originVars, Initialized
  <2> QED BY <1>4, <2>1, <2>2, <2>3 DEF PollPeer
<1>5. ASSUME NEW n \in Nodes, Connect(n) \/ AuthFails(n) \/ Accept(n) \/ Restart(n) \/ PollSocket(n)
      PROVE  MapOK'
  <2>1. UNCHANGED <<userOf, users, phase>>
    BY <1>5 DEF Connect, AuthFails, Accept, Restart, PollSocket, SendHandshake, NoticeClosed, ReceiveAck,
       ReceiveInitial, ReceiveState, ReceiveInitialized, userVars
  <2>2. \A q \in Peers : userOf[q] # None => token'[q] = token[q]
    <3>1. CASE Accept(n)
      <4>1. PICK p \in Peers, u \in Tokens(n) : owner[p] = None /\ token' = [token EXCEPT ![p] = u]
        BY <3>1 DEF Accept
      <4>2. userOf[p] = None /\ token \in [Peers -> Users \union {None}]
        BY <1>1, <4>1 DEF IInv, LinksOK, MapOK, TypeOK
      <4> QED BY <4>1, <4>2
    <3>2. CASE ~Accept(n)
      BY <1>5, <3>2 DEF Connect, AuthFails, Restart, Break, PollSocket, SendHandshake, NoticeClosed, ReceiveAck,
         ReceiveInitial, ReceiveState, ReceiveInitialized, originVars, netVars
    <3> QED BY <3>1, <3>2
  <2> QED BY <2>1, <2>2, MapFrame DEF Initialized
<1> QED BY <1>2, <1>3, <1>4, <1>5 DEF Next

(* ----------------------- how the channels change ----------------------- *)

(* A channel loses packets.                                                *)
Shrinks(x, y) ==
  /\ y # <<>> => x # <<>>
  /\ \A t : (Has(y, t) => Has(x, t)) /\ (Once(x, t) => Once(y, t))

LEMMA ShrinksWhen ==
  /\ \A x : Shrinks(x, x) /\ Shrinks(x, <<>>)
  /\ \A x \in Seq(Packets) : x # <<>> => Shrinks(x, Tail(x))
BY EmptyChannel, Taken DEF Shrinks

LEMMA ChannelsShrink ==
  ASSUME NEW channels, NEW channels1, NEW p \in Peers, channels \in [Peers -> Seq(Packets)],
         channels[p] # <<>>, channels1 = [channels EXCEPT ![p] = Tail(@)]
  PROVE  \A q \in Peers : Shrinks(channels[q], channels1[q])
BY ShrinksWhen

(* A node takes a packet from its channel.                                 *)
LEMMA Received ==
  ASSUME IInv, NEW n \in Nodes, NEW type, FromServer(n, type)
  PROVE  /\ \A q \in Peers : Shrinks(toNode[q], toNode'[q])
         /\ \A q \in Peers : q # socket[n] => toNode'[q] = toNode[q]
         /\ type = "Initial" => ~Has(toNode'[socket[n]], "Initial")
         /\ type # "State" => \A v : LastStateIs(toNode[socket[n]], v) => LastStateIs(toNode'[socket[n]], v)
         /\ type # "State" => (Has(toNode'[socket[n]], "State") => Has(toNode[socket[n]], "State"))
         /\ \A v : LastStateIs(toNode[socket[n]], v) =>
              \/ LastStateIs(toNode'[socket[n]], v)
              \/ ~Has(toNode'[socket[n]], "State") /\ Head(toNode[socket[n]]) = State(v)
         /\ type = "State" => Has(toNode[socket[n]], "State")
<1> DEFINE p == socket[n]
           x == toNode[p]
<1>1. /\ p \in Peers /\ x # <<>> /\ x \in Seq(Packets) /\ Head(x).type = type
      /\ toNode' = [toNode EXCEPT ![p] = Tail(@)] /\ Has(x, type)
      /\ toNode \in [Peers -> Seq(Packets)]
  BY HandledPacket DEF IInv, TypeOK
<1>2. toNode'[p] = Tail(x) /\ \A q \in Peers : q # p => toNode'[q] = toNode[q]
  BY <1>1
<1>3. \A q \in Peers : Shrinks(toNode[q], toNode'[q])
  BY <1>1, ChannelsShrink
<1>4. Once(x, "Initial")
  BY <1>1 DEF IInv, ReportsOK
<1> HIDE DEF x, p
<1>5. /\ \A v : LastStateIs(x, v) => \/ LastStateIs(Tail(x), v)
                                     \/ ~Has(Tail(x), "State") /\ Head(x) = State(v)
      /\ Once(x, Head(x).type) => ~Has(Tail(x), Head(x).type)
      /\ \A t : Has(Tail(x), t) => Has(x, t)
  BY <1>1, Taken
<1>6. \A v : Head(x) = State(v) => type = "State"
  BY <1>1, PacketTypes
<1> QED BY <1>1, <1>2, <1>3, <1>4, <1>5, <1>6 DEF x, p

(* Connections are closed.                                                 *)
LEMMA Broken ==
  ASSUME TypeOK, NEW P, Break(P)
  PROVE  /\ isOpen' = isOpen \ P
         /\ \A q \in Peers : /\ q \in P => toServer'[q] = <<>> /\ toNode'[q] = <<>>
                             /\ q \notin P => toServer'[q] = toServer[q] /\ toNode'[q] = toNode[q]
         /\ \A q \in Peers : Shrinks(toNode[q], toNode'[q]) /\ Shrinks(toServer[q], toServer'[q])
<1>1. toServer \in [Peers -> Seq(Packets)] /\ toNode \in [Peers -> Seq(Packets)]
  BY DEF TypeOK
<1>2. isOpen' = isOpen \ P /\ toServer' = Emptied(toServer, P) /\ toNode' = Emptied(toNode, P)
  BY DEF Break
<1>3. \A q \in Peers : /\ q \in P => toServer'[q] = <<>> /\ toNode'[q] = <<>>
                       /\ q \notin P => toServer'[q] = toServer[q] /\ toNode'[q] = toNode[q]
  BY <1>1, <1>2, EmptiedChannels
<1> QED BY <1>2, <1>3, ShrinksWhen

(* -------------------- the connections of each user --------------------- *)

LEMMA ConnectedFrame ==
  ASSUME IInv,
         \A n \in Nodes : status'[n] = "Connected" /\ socket'[n] \in isOpen' =>
           /\ status[n] = "Connected" /\ socket'[n] = socket[n] /\ socket[n] \in isOpen
           /\ userOf'[socket[n]] = userOf[socket[n]] /\ token'[socket[n]] = token[socket[n]]
  PROVE  OneConnectionPerUser'
BY DEF IInv, ChannelsOK, OneConnectionPerUser

LEMMA ConnectedOfEntry ==
  ASSUME IInv, NEW s, NEW U, EntryOK(s, U), Entered(s), UNCHANGED <<token, status, socket>>
  PROVE  OneConnectionPerUser'
<1>1. isOpen' \subseteq isOpen
  BY DEF EntryOK, Entered
<1>2. ASSUME NEW n \in Nodes, status[n] = "Connected", socket[n] \in isOpen'
      PROVE  userOf'[socket[n]] = userOf[socket[n]]
  <2>1. userOf[socket[n]] = token[socket[n]] /\ token[socket[n]] \in Users
    BY <1>1, <1>2, OpenSocket DEF IInv, ChannelsOK, OneConnectionPerUser
  <2>2. userOf[socket[n]] # None
    BY <2>1, ConstantsApart
  <2> QED BY <1>2, <2>2 DEF EntryOK, Entered
<1> QED BY <1>1, <1>2, ConnectedFrame

LEMMA ConnectedNext == IInv /\ [Next]_vars => OneConnectionPerUser'
<1> SUFFICES ASSUME IInv, [Next]_vars PROVE OneConnectionPerUser'
  OBVIOUS
<1>1. TypeOK
  BY DEF IInv
<1>2. CASE UNCHANGED vars
  BY <1>2, ConnectedFrame DEF vars, userVars, linkVars, originVars, netVars
<1>3. CASE InitStep \/ Tick
  <2>1. CASE Initialize
    BY <2>1, InitializeEntry, ConnectedOfEntry DEF Initialize, linkVars, originVars
  <2>2. CASE ~Initialize
    BY <1>3, <2>2, ConnectedFrame
       DEF InitStep, LoadSnapshot, StartNewCampaign, SendInitial, InitFails, Unpause, Pause, SetPaused, Tick,
           userVars, linkVars, originVars, netVars
  <2> QED BY <2>1, <2>2
<1>4. ASSUME NEW p \in Peers, PollPeer(p) \/ Close(p) PROVE OneConnectionPerUser'
  <2>1. CASE ReceiveHandshake(p) /\ ~MustWait(p)
    BY <2>1, HandshakeEntry, ConnectedOfEntry DEF ReceiveHandshake, linkVars, originVars
  <2>2. CASE ReceiveHandshake(p) /\ MustWait(p)
    BY <2>2, ConnectedFrame DEF ReceiveHandshake, linkVars, originVars
  <2>3. CASE DropPeer(p)
    <3>1. /\ UNCHANGED <<token, isOpen, status, socket>> /\ p \notin isOpen
          /\ userOf' = [userOf EXCEPT ![p] = None]
      BY <2>3 DEF DropPeer, linkVars, originVars, netVars
    <3>2. \A q \in isOpen : userOf'[q] = userOf[q]
      BY <1>1, <3>1 DEF TypeOK
    <3> QED BY <3>1, <3>2, ConnectedFrame
  <2>4. CASE ReceiveLocalDone(p) \/ Close(p)
    BY <2>4, ConnectedFrame DEF ReceiveLocalDone, Close, Break, userVars, linkVars, originVars
  <2> QED BY <1>4, <2>1, <2>2, <2>3, <2>4 DEF PollPeer
<1>5. ASSUME NEW n \in Nodes, Connect(n) \/ AuthFails(n) \/ Accept(n) \/ Restart(n) \/ PollSocket(n)
      PROVE  OneConnectionPerUser'
  <2>1. CASE ReceiveAck(n)
    <3>1. /\ status' = [status EXCEPT ![n] = "Connected"]
          /\ UNCHANGED <<userOf, token, isOpen, socket>>
          /\ userOf[socket[n]] = token[socket[n]]
      BY <2>1, HandledPacket DEF ReceiveAck, userVars, originVars
    <3> QED BY <1>1, <3>1 DEF IInv, ChannelsOK, OneConnectionPerUser, TypeOK
  <2>2. CASE Accept(n)
    <3>1. PICK p \in Peers, u \in Tokens(n) :
            /\ owner[p] = None /\ status[n] = "Connecting" /\ UNCHANGED <<status, userOf>>
            /\ token' = [token EXCEPT ![p] = u]
            /\ isOpen' = isOpen \union {p}
            /\ socket' = [socket EXCEPT ![n] = p]
      BY <2>2 DEF Accept
    <3>2. ASSUME NEW m \in Nodes, status'[m] = "Connected", socket'[m] \in isOpen'
          PROVE  /\ status[m] = "Connected" /\ socket'[m] = socket[m] /\ socket[m] \in isOpen
                 /\ userOf'[socket[m]] = userOf[socket[m]] /\ token'[socket[m]] = token[socket[m]]
      <4>1. m # n /\ status[m] = "Connected" /\ socket'[m] = socket[m]
        BY <1>1, <3>1, <3>2 DEF TypeOK
      <4>2. socket[m] # p
        BY <3>1, ConstantsApart DEF IInv, LinksOK
      <4> QED BY <1>1, <3>1, <3>2, <4>1, <4>2 DEF TypeOK
    <3> QED BY <3>2, ConnectedFrame
  <2>3. CASE Restart(n)
    BY <1>1, <2>3, ConnectedFrame DEF Restart, Break, TypeOK, userVars
  <2>4. CASE Connect(n) \/ AuthFails(n) \/ SendHandshake(n) \/ NoticeClosed(n)
    BY <1>1, <2>4, ConnectedFrame DEF Connect, AuthFails, SendHandshake, NoticeClosed, TypeOK,
       userVars, originVars, netVars
  <2>5. CASE ReceiveInitial(n) \/ ReceiveState(n) \/ ReceiveInitialized(n)
    BY <2>5, ConnectedFrame DEF ReceiveInitial, ReceiveState, ReceiveInitialized, userVars, linkVars, originVars
  <2> QED BY <1>5, <2>1, <2>2, <2>3, <2>4, <2>5 DEF PollSocket
<1> QED BY <1>2, <1>3, <1>4, <1>5 DEF Next

(* ------------------- the parts of the snapshot and reports ------------- *)

(* A channel gets no packet of a type.                                     *)
Quiet(x, y, t) == (Has(y, t) => Has(x, t)) /\ (Once(x, t) => Once(y, t))

LEMMA QuietWhen ==
  /\ \A x, y, t : Shrinks(x, y) => Quiet(x, y, t)
  /\ \A x, t : Quiet(x, x, t)
BY DEF Quiet, Shrinks

LEMMA QuietAppend ==
  ASSUME NEW s \in Seq(Packets), NEW e \in Packets, NEW t, e.type # t
  PROVE  Quiet(s, Append(s, e), t)
BY Appended DEF Quiet

(* No channel gets a part of the snapshot or a report, and each keeps its  *)
(* user.                                                                   *)
QuietChannels ==
  /\ \A p \in Peers : Quiet(toNode[p], toNode'[p], "Initial") /\ Quiet(toServer[p], toServer'[p], "LocalDone")
  /\ \A p \in Peers : p \notin isOpen' => toServer'[p] = <<>> /\ toNode'[p] = <<>>
  /\ \A p \in Peers : toNode'[p] # <<>> => userOf'[p] = token'[p]
  /\ \A p \in Peers : Has(toServer'[p], "LocalDone") => userOf'[p] = userOf[p] /\ token'[p] = token[p]
  /\ \A p \in Peers : Has(toNode'[p], "Initial") => token'[p] = token[p]

LEMMA ChannelsQuiet ==
  ASSUME IInv, QuietChannels, OneConnectionPerUser'
  PROVE  ChannelsOK'
BY DEF QuietChannels, Quiet, IInv, ChannelsOK

LEMMA ReportsQuiet ==
  ASSUME IInv, QuietChannels, UNCHANGED <<initial, reported, localDone>>,
         phase' = "connecting" => phase = "connecting"
  PROVE  ReportsOK'
<1>1. \A p \in Peers : Once(toNode'[p], "Initial") /\ Once(toServer'[p], "LocalDone")
  BY DEF QuietChannels, Quiet, IInv, ReportsOK
<1>2. \A p \in Peers : /\ Has(toNode'[p], "Initial") => Has(toNode[p], "Initial") /\ token'[p] = token[p]
                       /\ Has(toServer'[p], "LocalDone") => Has(toServer[p], "LocalDone") /\ token'[p] = token[p]
  BY DEF QuietChannels, Quiet
<1> QED BY <1>1, <1>2 DEF IInv, ReportsOK

(* When no channel changes but those of a socket that is opened.           *)
LEMMA QuietWhenUnchanged ==
  ASSUME IInv, UNCHANGED <<toNode, toServer>>, isOpen \subseteq isOpen',
         \A p \in Peers : toNode[p] # <<>> \/ toServer[p] # <<>> =>
           userOf'[p] = userOf[p] /\ token'[p] = token[p]
  PROVE  QuietChannels
<1>1. \A p \in Peers : Has(toServer[p], "LocalDone") => toServer[p] # <<>>
  BY EmptyChannel
<1>2. \A p \in Peers : Has(toNode[p], "Initial") => toNode[p] # <<>>
  BY EmptyChannel
<1> QED BY <1>1, <1>2, QuietWhen DEF QuietChannels, IInv, ChannelsOK

LEMMA QuietWhenShrunk ==
  ASSUME IInv, \A p \in Peers : Shrinks(toNode[p], toNode'[p]) /\ Shrinks(toServer[p], toServer'[p]),
         \A p \in Peers : p \notin isOpen' => toServer'[p] = <<>> /\ toNode'[p] = <<>>,
         UNCHANGED <<userOf, token>>
  PROVE  QuietChannels
<1>1. \A p \in Peers : Quiet(toNode[p], toNode'[p], "Initial") /\ Quiet(toServer[p], toServer'[p], "LocalDone")
  BY QuietWhen
<1>2. \A p \in Peers : toNode'[p] # <<>> => toNode[p] # <<>>
  BY DEF Shrinks
<1> QED BY <1>1, <1>2 DEF QuietChannels, IInv, ChannelsOK

(* Handshakes are quiet.                                                   *)
LEMMA QuietEntry ==
  ASSUME IInv, NEW s, NEW U, EntryOK(s, U), Entered(s), UNCHANGED token,
         \A p \in Peers : Shrinks(toServer[p], toServer'[p]),
         \A p \in Peers : p \notin isOpen' => toServer'[p] = <<>>
  PROVE  QuietChannels
<1>1. \A p \in Peers : Quiet(toServer[p], toServer'[p], "LocalDone")
  BY QuietWhen
<1>2. \A p \in Peers : Quiet(toNode[p], toNode'[p], "Initial")
  <2> SUFFICES ASSUME NEW p \in Peers PROVE Quiet(toNode[p], toNode'[p], "Initial")
    OBVIOUS
  <2>1. CASE p \in isOpen'
    <3>1. SameNews(toNode[p], toNode'[p])
      BY <2>1 DEF EntryOK, Entered
    <3> QED BY <3>1 DEF SameNews, Quiet
  <2>2. CASE p \notin isOpen'
    BY <2>2, ShrinksWhen, QuietWhen DEF EntryOK, Entered
  <2> QED BY <2>1, <2>2
<1>3. \A p \in Peers : Has(toServer'[p], "LocalDone") => userOf'[p] = userOf[p]
  <2> SUFFICES ASSUME NEW p \in Peers, Has(toServer'[p], "LocalDone") PROVE userOf'[p] = userOf[p]
    OBVIOUS
  <2>1. p \in isOpen'
    BY EmptyChannel
  <2>2. userOf[p] \in Shards
    BY <1>1 DEF Quiet, IInv, ChannelsOK
  <2>3. userOf[p] # None
    BY <2>2, ConstantsApart
  <2> QED BY <2>1, <2>3 DEF EntryOK, Entered
<1>4. \A p \in Peers : /\ p \notin isOpen' => toNode'[p] = <<>>
                       /\ toNode'[p] # <<>> => userOf'[p] = token[p]
  BY DEF EntryOK, Entered
<1> QED BY <1>1, <1>2, <1>3, <1>4 DEF QuietChannels

(* The steps in which nobody gets a part of the snapshot or reports.       *)
LEMMA HandshakeQuiet ==
  ASSUME IInv, NEW p \in Peers, ReceiveHandshake(p)
  PROVE  QuietChannels
<1>1. /\ UNCHANGED token /\ toServer \in [Peers -> Seq(Packets)] /\ toServer[p] # <<>> /\ p \in isOpen
      /\ isOpen \subseteq Peers
  BY DEF ReceiveHandshake, FromNode, originVars, IInv, TypeOK
<1> DEFINE taken == [toServer EXCEPT ![p] = Tail(@)]
<1>2. taken \in [Peers -> Seq(Packets)] /\ \A q \in Peers : Shrinks(toServer[q], taken[q])
  BY <1>1, TakenFrom, ChannelsShrink
<1>3. toServer' = Emptied(taken, Peers \ isOpen')
  BY DEF ReceiveHandshake
<1> HIDE DEF taken
<1>4. \A q \in Peers : toServer'[q] = IF q \in Peers \ isOpen' THEN <<>> ELSE taken[q]
  BY <1>2, <1>3, EmptiedChannels
<1>5. \A q \in Peers : /\ Shrinks(toServer[q], toServer'[q])
                       /\ q \notin isOpen' => toServer'[q] = <<>>
  BY <1>2, <1>4, ShrinksWhen
<1>6. CASE MustWait(p)
  <2>1. UNCHANGED <<userOf, isOpen, toNode>>
    BY <1>6 DEF ReceiveHandshake
  <2>2. \A q \in Peers : q \notin isOpen => toNode[q] = <<>>
    BY DEF IInv, ChannelsOK
  <2> QED BY <1>1, <1>5, <2>1, <2>2, QuietWhenShrunk, ShrinksWhen
<1>7. CASE ~MustWait(p)
  BY <1>1, <1>5, <1>7, HandshakeEntry, QuietEntry
<1> QED BY <1>6, <1>7

LEMMA InitializeQuiet ==
  ASSUME IInv, Initialize
  PROVE  QuietChannels
<1>1. /\ UNCHANGED token /\ toServer \in [Peers -> Seq(Packets)]
      /\ toServer' = Emptied(toServer, Peers \ isOpen')
  BY DEF Initialize, originVars, IInv, TypeOK
<1>2. \A q \in Peers : toServer'[q] = IF q \in Peers \ isOpen' THEN <<>> ELSE toServer[q]
  BY <1>1, EmptiedChannels
<1>3. \A q \in Peers : /\ Shrinks(toServer[q], toServer'[q])
                       /\ q \notin isOpen' => toServer'[q] = <<>>
  BY <1>2, ShrinksWhen
<1> QED BY <1>1, <1>3, InitializeEntry, QuietEntry

LEMMA TickQuiet ==
  ASSUME IInv, Tick
  PROVE  QuietChannels
<1>1. UNCHANGED <<userOf, token, isOpen, toServer>>
  BY DEF Tick, userVars, originVars
<1>2. /\ State(isPaused) \in Packets /\ State(isPaused).type = "State" /\ None \notin Receivers
      /\ toNode \in [Peers -> Seq(Packets)]
  BY PacketTypes, ConstantsApart DEF IInv, TypeOK, Receivers
<1>3. PICK U \in SUBSET Receivers : toNode' = Sent(U, State(isPaused))
  BY DEF Tick
<1>4. \A p \in Peers : \/ toNode'[p] = toNode[p]
                       \/ /\ p \in isOpen /\ userOf[p] \in U
                          /\ toNode'[p] = Append(toNode[p], State(isPaused))
  BY <1>2, <1>3, SentSound DEF IInv
<1>5. \A p \in Peers : Quiet(toNode[p], toNode'[p], "Initial")
  BY <1>2, <1>4, QuietAppend, QuietWhen
<1>6. \A p \in Peers : /\ p \notin isOpen => toNode'[p] = <<>>
                       /\ toNode'[p] # <<>> => userOf[p] = token[p]
  BY <1>2, <1>3, <1>4 DEF IInv, ChannelsOK, MapOK
<1>7. \A p \in Peers : p \notin isOpen => toServer[p] = <<>>
  BY DEF IInv, ChannelsOK
<1> QED BY <1>1, <1>5, <1>6, <1>7, QuietWhen DEF QuietChannels

LEMMA PeerQuiet ==
  ASSUME IInv, NEW p \in Peers, DropPeer(p) \/ Close(p) \/ ReceiveLocalDone(p)
  PROVE  QuietChannels
<1>1. TypeOK
  BY DEF IInv
<1>2. CASE DropPeer(p)
  <2>1. /\ userOf' = [userOf EXCEPT ![p] = None] /\ p \notin isOpen
        /\ UNCHANGED <<token, isOpen, toNode, toServer>>
    BY <1>2 DEF DropPeer, originVars, netVars
  <2>2. \A q \in Peers : q # p => userOf'[q] = userOf[q]
    BY <1>1, <2>1 DEF TypeOK
  <2>3. toNode[p] = <<>> /\ toServer[p] = <<>>
    BY <2>1 DEF IInv, ChannelsOK
  <2> QED BY <2>1, <2>2, <2>3, QuietWhenUnchanged
<1>3. CASE Close(p)
  <2>1. Break({p}) /\ UNCHANGED <<userOf, token>>
    BY <1>3 DEF Close, Break, userVars
  <2>2. \A q \in Peers : q \notin isOpen => toServer[q] = <<>> /\ toNode[q] = <<>>
    BY DEF IInv, ChannelsOK
  <2> QED BY <1>1, <2>1, <2>2, Broken, QuietWhenShrunk
<1>4. CASE ReceiveLocalDone(p)
  <2>1. /\ toServer \in [Peers -> Seq(Packets)] /\ toServer[p] # <<>>
        /\ toServer' = [toServer EXCEPT ![p] = Tail(@)]
        /\ UNCHANGED <<userOf, token, isOpen, toNode>> /\ p \in isOpen
    BY <1>1, <1>4 DEF ReceiveLocalDone, FromNode, userVars, originVars, TypeOK
  <2>2. \A q \in Peers : q \notin isOpen => toServer'[q] = <<>> /\ toNode[q] = <<>>
    BY <2>1 DEF IInv, ChannelsOK
  <2> QED BY <2>1, <2>2, ChannelsShrink, ShrinksWhen, QuietWhenShrunk
<1> QED BY <1>2, <1>3, <1>4

LEMMA NodeQuiet ==
  ASSUME IInv, NEW n \in Nodes,
         \/ Connect(n) \/ AuthFails(n) \/ Accept(n) \/ Restart(n)
         \/ SendHandshake(n) \/ NoticeClosed(n) \/ ReceiveAck(n) \/ ReceiveInitialized(n)
  PROVE  QuietChannels
<1>1. TypeOK
  BY DEF IInv
<1>2. CASE Connect(n) \/ AuthFails(n) \/ NoticeClosed(n)
  BY <1>2, QuietWhenUnchanged DEF Connect, AuthFails, NoticeClosed, userVars, originVars, netVars
<1>3. CASE Accept(n)
  <2>1. PICK p \in Peers, u \in Tokens(n) :
          /\ owner[p] = None /\ UNCHANGED <<userOf, toNode, toServer>>
          /\ token' = [token EXCEPT ![p] = u]
          /\ isOpen' = isOpen \union {p}
    BY <1>3 DEF Accept
  <2>2. p \notin isOpen
    BY <2>1, OpenSocket, ConstantsApart
  <2>3. toNode[p] = <<>> /\ toServer[p] = <<>>
    BY <2>2 DEF IInv, ChannelsOK
  <2>4. \A q \in Peers : q # p => token'[q] = token[q]
    BY <1>1, <2>1 DEF TypeOK
  <2> QED BY <2>1, <2>3, <2>4, QuietWhenUnchanged
<1>4. CASE Restart(n)
  <2>1. Break({socket[n]}) /\ UNCHANGED <<userOf, token>>
    BY <1>4 DEF Restart, Break, userVars
  <2>2. \A q \in Peers : q \notin isOpen => toServer[q] = <<>> /\ toNode[q] = <<>>
    BY DEF IInv, ChannelsOK
  <2> QED BY <1>1, <2>1, <2>2, Broken, QuietWhenShrunk
<1>5. CASE SendHandshake(n)
  <2> DEFINE p == socket[n]
  <2>1. /\ p \in isOpen /\ p \in Peers
        /\ toServer' = [toServer EXCEPT ![p] = Append(@, Packet("Handshake"))]
        /\ UNCHANGED <<userOf, token, isOpen, toNode>>
    BY <1>1, <1>5 DEF SendHandshake, TypeOK, userVars, originVars
  <2> HIDE DEF p
  <2>2. Packet("Handshake") \in Packets /\ Packet("Handshake").type = "Handshake"
    BY PacketTypes
  <2>3. toServer'[p] = Append(toServer[p], Packet("Handshake")) /\ \A q \in Peers : q # p => toServer'[q] = toServer[q]
    BY <1>1, <2>1 DEF TypeOK
  <2>4. \A q \in Peers : Quiet(toServer[q], toServer'[q], "LocalDone")
    BY <1>1, <2>1, <2>2, <2>3, QuietAppend, QuietWhen DEF TypeOK
  <2>5. \A q \in Peers : q \notin isOpen => toServer'[q] = <<>> /\ toNode[q] = <<>>
    BY <2>1, <2>3 DEF IInv, ChannelsOK
  <2> QED BY <2>1, <2>4, <2>5, QuietWhen DEF QuietChannels, IInv, ChannelsOK
<1>6. CASE ReceiveAck(n) \/ ReceiveInitialized(n)
  <2>1. PICK type : FromServer(n, type)
    BY <1>6 DEF ReceiveAck, ReceiveInitialized
  <2>2. UNCHANGED <<userOf, token, isOpen, toServer>>
    BY <1>6 DEF ReceiveAck, ReceiveInitialized, userVars, originVars
  <2>3. \A q \in Peers : Shrinks(toNode[q], toNode'[q])
    BY <2>1, Received
  <2>4. \A q \in Peers : q \notin isOpen => toServer[q] = <<>> /\ toNode'[q] = <<>>
    BY <2>3 DEF IInv, ChannelsOK, Shrinks
  <2> QED BY <2>2, <2>3, <2>4, ShrinksWhen, QuietWhenShrunk
<1> QED BY <1>2, <1>3, <1>4, <1>5, <1>6

(* The parts of the snapshot are sent once, before which nobody had one.   *)
LEMMA SendInitialSound ==
  ASSUME IInv, SendInitial, OneConnectionPerUser'
  PROVE  ChannelsOK' /\ ReportsOK'
<1> DEFINE e == Packet("Initial")
<1>1. /\ phase = "connecting" /\ phase' = "waiting" /\ toNode' = Sent(Shards, e)
      /\ UNCHANGED <<localDone, userOf, token, isOpen, toServer, initial, reported>>
  BY DEF SendInitial, originVars, loadVars
<1>2. /\ TypeOK /\ e \in Packets /\ e.type = "Initial" /\ None \notin Shards
      /\ toNode \in [Peers -> Seq(Packets)]
  BY PacketTypes, ConstantsApart DEF IInv, TypeOK
<1> HIDE DEF e
<1>3. \A p \in Peers : \/ toNode'[p] = toNode[p]
                       \/ /\ p \in isOpen /\ userOf[p] \in Shards
                          /\ toNode'[p] = Append(toNode[p], e)
  BY <1>1, <1>2, SentSound
<1>4. /\ initial = {} /\ reported = {} /\ localDone = {}
      /\ \A p \in Peers : ~Has(toNode[p], "Initial")
  BY <1>1 DEF IInv, ReportsOK
<1>5. \A p \in Peers : userOf[p] \in Shards => userOf[p] = token[p]
  BY <1>2 DEF IInv, MapOK
<1>6. ASSUME NEW p \in Peers
      PROVE  /\ p \notin isOpen => toNode'[p] = <<>>
             /\ toNode'[p] # <<>> => userOf[p] = token[p]
             /\ Has(toNode'[p], "Initial") => token[p] \in Shards
             /\ Once(toNode'[p], "Initial")
  <2>1. CASE toNode'[p] = toNode[p]
    BY <1>4, <2>1 DEF IInv, ChannelsOK, ReportsOK
  <2>2. CASE p \in isOpen /\ userOf[p] \in Shards /\ toNode'[p] = Append(toNode[p], e)
    <3>1. Once(Append(toNode[p], e), "Initial")
      BY <1>2, <1>4, Appended DEF IInv, ReportsOK
    <3> QED BY <1>5, <2>2, <3>1
  <2> QED BY <1>3, <2>1, <2>2
<1>7. ChannelsOK'
  BY <1>1, <1>6 DEF IInv, ChannelsOK
<1>8. ReportsOK'
  BY <1>1, <1>4, <1>6 DEF IInv, ReportsOK
<1> QED BY <1>7, <1>8

(* A shard that has its part of the snapshot reports once.                 *)
LEMMA ReportSound ==
  ASSUME IInv, NEW n \in Nodes, NEW type, FromServer(n, type), Report(n),
         \/ type = "Initial" /\ initial' = initial \union {n}
         \/ type # "Initial" /\ initial' = initial,
         UNCHANGED <<phase, localDone, userOf, token, isOpen>>, OneConnectionPerUser'
  PROVE  ChannelsOK' /\ ReportsOK'
<1> DEFINE p == socket[n]
<1>1. /\ p \in Peers /\ p \in isOpen /\ owner[p] = n /\ token[p] \in Tokens(n)
      /\ userOf[p] = token[p] /\ toNode[p] # <<>> /\ Has(toNode[p], type)
      /\ TypeOK /\ toServer \in [Peers -> Seq(Packets)]
      /\ initial \subseteq Shards /\ reported \subseteq Shards
  BY HandledPacket DEF IInv, TypeOK
<1>2. /\ \A q \in Peers : Shrinks(toNode[q], toNode'[q])
      /\ \A q \in Peers : q # p => toNode'[q] = toNode[q]
      /\ type = "Initial" => ~Has(toNode'[p], "Initial")
  BY Received
<1>3. \A q \in Peers : token[q] \in Shards /\ q \in isOpen => q = socket[token[q]]
  <2> SUFFICES ASSUME NEW q \in isOpen, token[q] \in Shards PROVE q = socket[token[q]]
    OBVIOUS
  <2>1. token[q] \in Tokens(owner[q]) /\ owner[q] \in Nodes /\ socket[owner[q]] = q
    BY OpenSocket
  <2>2. owner[q] = token[q]
    BY <2>1, ConstantsApart DEF Tokens
  <2> QED BY <2>1, <2>2
<1>4. \A q \in Peers : (Has(toNode[q], "Initial") => q \in isOpen) /\ (Has(toServer[q], "LocalDone") => q \in isOpen)
  BY EmptyChannel DEF IInv, ChannelsOK
<1>5. \A q \in Peers : /\ q \notin isOpen => toServer[q] = <<>> /\ toNode'[q] = <<>>
                       /\ toNode'[q] # <<>> => userOf[q] = token[q]
                       /\ Has(toNode'[q], "Initial") => token[q] \in Shards
                       /\ Has(toNode'[q], "Initial") => Has(toNode[q], "Initial")
                       /\ Once(toNode'[q], "Initial")
  BY <1>2 DEF Shrinks, IInv, ChannelsOK, ReportsOK
<1> HIDE DEF p
<1>6. CASE ~FirstReport(n)
  <2>1. UNCHANGED <<reported, toServer>>
    BY <1>6 DEF Report
  <2>2. ChannelsOK'
    BY <1>5, <2>1 DEF IInv, ChannelsOK
  <2>3. CASE type # "Initial"
    BY <1>5, <2>1, <2>2, <2>3 DEF IInv, ReportsOK
  <2>4. CASE type = "Initial"
    <3>1. n \in Shards /\ token[p] = n
      BY <2>4, InitialAtShard DEF p
    <3>2. /\ initial' = initial \union {n} /\ n \notin localDone /\ phase # "connecting"
      BY <1>1, <2>4, <3>1 DEF IInv, ReportsOK
    <3>3. ASSUME NEW q \in Peers, Has(toNode'[q], "Initial") PROVE token[q] # n
      <4>1. q \in isOpen /\ q # p
        BY <1>2, <1>4, <1>5, <2>4, <3>3
      <4> QED BY <1>1, <1>3, <3>1, <4>1
    <3>4. ReportsOK'
      BY <1>5, <2>1, <3>2, <3>3 DEF IInv, ReportsOK
    <3> QED BY <2>2, <3>4
  <2> QED BY <2>2, <2>3, <2>4
<1>7. CASE FirstReport(n)
  <2> DEFINE e == Packet("LocalDone")
  <2>1. /\ n \in initial' /\ n \notin reported /\ reported' = reported \union {n}
        /\ toServer' = [toServer EXCEPT ![p] = Append(@, e)]
    BY <1>7 DEF Report, FirstReport, p
  <2>2. e \in Packets /\ e.type = "LocalDone"
    BY PacketTypes
  <2> HIDE DEF e
  <2>3. toServer'[p] = Append(toServer[p], e) /\ \A q \in Peers : q # p => toServer'[q] = toServer[q]
    BY <1>1, <2>1
  <2>4. n \in Shards /\ token[p] = n
    <3>1. CASE type = "Initial"
      BY <3>1, InitialAtShard DEF p
    <3>2. CASE type # "Initial"
      BY <1>1, <2>1, <3>2, ConstantsApart DEF Tokens
    <3> QED BY <3>1, <3>2
  <2>5. n \notin localDone /\ phase # "connecting"
    <3>1. CASE type = "Initial"
      BY <1>1, <2>4, <3>1 DEF IInv, ReportsOK
    <3>2. CASE type # "Initial"
      BY <2>1, <3>2 DEF IInv, ReportsOK
    <3> QED BY <3>1, <3>2
  <2>6. ASSUME NEW q \in Peers, Has(toNode'[q], "Initial") PROVE token[q] # n
    <3>1. q \in isOpen /\ token[q] \in Shards
      BY <1>4, <1>5, <2>6
    <3>2. CASE type = "Initial"
      BY <1>1, <1>2, <1>3, <2>4, <2>6, <3>1, <3>2
    <3>3. CASE type # "Initial"
      BY <1>5, <2>1, <2>6, <3>3 DEF IInv, ReportsOK
    <3> QED BY <3>2, <3>3
  <2>7. \A q \in Peers : Has(toServer[q], "LocalDone") => token[q] \in reported \ localDone /\ q # p
    BY <2>1, <2>4 DEF IInv, ReportsOK
  <2>8. ASSUME NEW q \in Peers
        PROVE  /\ Has(toServer'[q], "LocalDone") => q = p \/ Has(toServer[q], "LocalDone")
               /\ Once(toServer'[q], "LocalDone")
               /\ q \notin isOpen => toServer'[q] = <<>>
    <3>1. Once(toServer[q], "LocalDone")
      BY DEF IInv, ReportsOK
    <3>2. CASE q # p
      BY <1>5, <2>3, <3>1, <3>2
    <3>3. CASE q = p
      <4>1. toServer[p] \in Seq(Packets) /\ ~Has(toServer[p], "LocalDone")
        BY <1>1, <2>7
      <4>2. Once(Append(toServer[p], e), "LocalDone")
        BY <2>2, <3>1, <3>3, <4>1, Appended
      <4> QED BY <1>1, <2>3, <3>3, <4>2
    <3> QED BY <3>2, <3>3
  <2>9. ChannelsOK'
    BY <1>1, <1>5, <2>4, <2>8 DEF IInv, ChannelsOK
  <2>10. ReportsOK'
    <3>1. \A q \in Peers : Has(toNode'[q], "Initial") => token[q] \notin initial' \union reported' \union localDone
      BY <1>5, <2>1, <2>6 DEF IInv, ReportsOK
    <3>2. \A q \in Peers : Has(toServer'[q], "LocalDone") => token[q] \in reported' \ localDone
      BY <2>1, <2>4, <2>5, <2>7, <2>8
    <3>3. initial' \intersect localDone \subseteq reported'
      BY <2>1 DEF IInv, ReportsOK
    <3> QED BY <1>5, <2>5, <2>8, <3>1, <3>2, <3>3 DEF ReportsOK
  <2> QED BY <2>9, <2>10
<1> QED BY <1>6, <1>7

(* A restarted shard has lost its part of the snapshot and its report.     *)
LEMMA RestartReports ==
  ASSUME IInv, NEW n \in Nodes, Restart(n)
  PROVE  ReportsOK'
<1>1. QuietChannels
  BY NodeQuiet
<1>2. /\ initial' = initial \ {n} /\ reported' = reported \ {n} /\ TypeOK
      /\ Break({socket[n]}) /\ UNCHANGED <<phase, localDone, token>>
  BY DEF Restart, Break, IInv
<1>3. \A p \in Peers : /\ Once(toNode'[p], "Initial") /\ Once(toServer'[p], "LocalDone")
                       /\ Has(toNode'[p], "Initial") => Has(toNode[p], "Initial")
                       /\ Has(toServer'[p], "LocalDone") => Has(toServer[p], "LocalDone")
  BY <1>1 DEF QuietChannels, Quiet, IInv, ReportsOK
<1>4. ASSUME NEW p \in Peers, Has(toServer'[p], "LocalDone") PROVE token[p] # n
  <2> SUFFICES ASSUME token[p] = n PROVE FALSE
    OBVIOUS
  <2>1. p # socket[n] /\ p \in isOpen
    BY <1>2, <1>3, <1>4, Broken, EmptyChannel DEF IInv, ChannelsOK
  <2>2. token[p] \in reported /\ reported \subseteq Shards
    BY <1>2, <1>3, <1>4 DEF IInv, ReportsOK, TypeOK
  <2>3. token[p] \in Tokens(owner[p]) /\ owner[p] \in Nodes /\ socket[owner[p]] = p
    BY <2>1, OpenSocket
  <2>4. owner[p] = n
    BY <2>2, <2>3, ConstantsApart DEF Tokens
  <2> QED BY <2>1, <2>3, <2>4
<1> QED BY <1>2, <1>3, <1>4 DEF IInv, ReportsOK

(* The server takes the report of a shard.                                 *)
LEMMA LocalDoneReports ==
  ASSUME IInv, NEW p \in Peers, ReceiveLocalDone(p)
  PROVE  ReportsOK'
<1>1. QuietChannels
  BY PeerQuiet
<1>2. /\ TypeOK /\ toServer[p] # <<>> /\ toServer[p] \in Seq(Packets) /\ Head(toServer[p]).type = "LocalDone"
      /\ toServer' = [toServer EXCEPT ![p] = Tail(@)] /\ toServer \in [Peers -> Seq(Packets)]
      /\ localDone' = localDone \union {userOf[p]}
      /\ UNCHANGED <<phase, userOf, token, isOpen, initial, reported>>
  BY DEF ReceiveLocalDone, FromNode, IInv, TypeOK, userVars, loadVars, originVars
<1>3. Has(toServer[p], "LocalDone") /\ ~Has(toServer'[p], "LocalDone") /\ p \in isOpen
  <2>1. /\ Once(toServer[p], Head(toServer[p]).type) => ~Has(Tail(toServer[p]), Head(toServer[p]).type)
        /\ Has(toServer[p], Head(toServer[p]).type)
    BY <1>2, Taken
  <2>2. Once(toServer[p], "LocalDone") /\ toServer'[p] = Tail(toServer[p])
    BY <1>2 DEF IInv, ReportsOK
  <2> QED BY <1>2, <2>1, <2>2 DEF ReceiveLocalDone, FromNode
<1>4. /\ userOf[p] = token[p] /\ token[p] \in reported \ localDone /\ token[p] \in Shards
  <2>1. userOf[p] \in Shards /\ token[p] \in reported \ localDone
    BY <1>3 DEF IInv, ChannelsOK, ReportsOK
  <2> QED BY <2>1, ConstantsApart DEF IInv, MapOK
<1>5. \A q \in Peers : /\ Once(toNode'[q], "Initial") /\ Once(toServer'[q], "LocalDone")
                       /\ Has(toNode'[q], "Initial") => Has(toNode[q], "Initial")
                       /\ Has(toServer'[q], "LocalDone") => Has(toServer[q], "LocalDone")
  BY <1>1 DEF QuietChannels, Quiet, IInv, ReportsOK
<1>6. phase # "connecting"
  BY <1>4 DEF IInv, ReportsOK
<1>7. ASSUME NEW q \in Peers, Has(toServer'[q], "LocalDone") PROVE token[q] # token[p]
  <2>1. userOf[q] \in Shards /\ q # p
    BY <1>3, <1>5, <1>7 DEF IInv, ChannelsOK
  <2>2. userOf[q] = token[q]
    BY <2>1, ConstantsApart DEF IInv, MapOK
  <2> QED BY <1>4, <2>1, <2>2, ConstantsApart DEF IInv, MapOK
<1> QED BY <1>2, <1>4, <1>5, <1>6, <1>7 DEF IInv, ReportsOK

LEMMA ChannelsNext == IInv /\ [Next]_vars => ChannelsOK' /\ ReportsOK'
<1> SUFFICES ASSUME IInv, [Next]_vars PROVE ChannelsOK' /\ ReportsOK'
  OBVIOUS
<1>1. OneConnectionPerUser'
  BY ConnectedNext
<1>2. CASE UNCHANGED vars
  <2>1. QuietChannels
    BY <1>2, QuietWhenUnchanged DEF vars, userVars, originVars, netVars
  <2> QED BY <1>1, <1>2, <2>1, ChannelsQuiet, ReportsQuiet DEF vars, loadVars
<1>3. CASE InitStep \/ Tick
  <2>1. CASE SendInitial
    BY <1>1, <2>1, SendInitialSound
  <2>2. CASE ~SendInitial
    <3>1. QuietChannels
      <4>1. CASE InitFails \/ Unpause \/ Pause
        BY <4>1, QuietWhenUnchanged DEF InitFails, Unpause, Pause, SetPaused, userVars, originVars, netVars
      <4> QED BY <1>3, <2>2, <4>1, InitializeQuiet, TickQuiet DEF InitStep, LoadSnapshot, StartNewCampaign
    <3>2. UNCHANGED <<initial, reported, localDone>> /\ (phase' = "connecting" => phase = "connecting")
      BY <1>3, <2>2 DEF InitStep, LoadSnapshot, StartNewCampaign, Initialize, InitFails, Unpause, Pause,
         SetPaused, Tick, loadVars
    <3> QED BY <1>1, <3>1, <3>2, ChannelsQuiet, ReportsQuiet
  <2> QED BY <2>1, <2>2
<1>4. ASSUME NEW p \in Peers, PollPeer(p) \/ Close(p) PROVE ChannelsOK' /\ ReportsOK'
  <2>1. QuietChannels
    BY <1>4, HandshakeQuiet, PeerQuiet DEF PollPeer
  <2>2. CASE ReceiveLocalDone(p)
    BY <1>1, <2>1, <2>2, ChannelsQuiet, LocalDoneReports
  <2>3. CASE ~ReceiveLocalDone(p)
    <3>1. UNCHANGED <<initial, reported, localDone, phase>>
      BY <1>4, <2>3 DEF PollPeer, ReceiveHandshake, DropPeer, Close, loadVars
    <3> QED BY <1>1, <2>1, <3>1, ChannelsQuiet, ReportsQuiet
  <2> QED BY <2>2, <2>3
<1>5. ASSUME NEW n \in Nodes, Connect(n) \/ AuthFails(n) \/ Accept(n) \/ Restart(n) \/ PollSocket(n)
      PROVE  ChannelsOK' /\ ReportsOK'
  <2>1. CASE ReceiveInitial(n)
    BY <1>1, <2>1, ReportSound DEF ReceiveInitial, userVars, originVars
  <2>2. CASE ReceiveState(n)
    BY <1>1, <2>2, ReportSound DEF ReceiveState, userVars, originVars
  <2>3. CASE Restart(n)
    BY <1>1, <2>3, NodeQuiet, ChannelsQuiet, RestartReports
  <2>4. CASE ~(ReceiveInitial(n) \/ ReceiveState(n) \/ Restart(n))
    <3>1. QuietChannels
      BY <1>5, <2>4, NodeQuiet DEF PollSocket
    <3>2. UNCHANGED <<initial, reported, localDone, phase>>
      BY <1>5, <2>4 DEF Connect, AuthFails, Accept, PollSocket, SendHandshake, NoticeClosed, ReceiveAck,
         ReceiveInitialized, loadVars
    <3> QED BY <1>1, <3>1, <3>2, ChannelsQuiet, ReportsQuiet
  <2> QED BY <2>1, <2>2, <2>3, <2>4
<1> QED BY <1>2, <1>3, <1>4, <1>5 DEF Next

(* ----------------------------- the barrier ----------------------------- *)

LEMMA BarrierFrame ==
  ASSUME IInv, localDone = Shards => localDone' = Shards,
         ready' = {} \/ ready' \subseteq ready \/ localDone = Shards,
         Initialized' => Initialized \/ localDone = Shards,
         \A p \in Peers : Has(toNode'[p], "Initialized") =>
           Has(toNode[p], "Initialized") \/ localDone = Shards
  PROVE  BarrierOK'
<1>1. localDone # Shards => ready' = {}
  BY DEF IInv, BarrierOK, NobodyStartsEarly
<1> QED BY <1>1 DEF IInv, BarrierOK, NobodyStartsEarly

LEMMA SentIsNoStart ==
  ASSUME TypeOK, NEW U, None \notin U, NEW e \in Packets, e.type # "Initialized",
         toNode' = Sent(U, e)
  PROVE  \A p \in Peers : Has(toNode'[p], "Initialized") => Has(toNode[p], "Initialized")
<1> SUFFICES ASSUME NEW p \in Peers, Has(toNode'[p], "Initialized") PROVE Has(toNode[p], "Initialized")
  OBVIOUS
<1>1. toNode'[p] = toNode[p] \/ toNode'[p] = Append(toNode[p], e)
  BY SentSound
<1>2. toNode[p] \in Seq(Packets)
  BY DEF TypeOK
<1>3. Has(Append(toNode[p], e), "Initialized") => Has(toNode[p], "Initialized")
  BY <1>2, Appended
<1> QED BY <1>1, <1>3

LEMMA BarrierNext == IInv /\ [Next]_vars => BarrierOK'
<1> SUFFICES ASSUME IInv, [Next]_vars PROVE BarrierOK'
  OBVIOUS
<1>1. TypeOK
  BY DEF IInv
<1>2. CASE UNCHANGED vars
  BY <1>2, BarrierFrame DEF vars, loadVars, netVars, Initialized
<1>3. CASE InitStep \/ Tick
  <2>1. CASE Initialize
    <3>1. localDone = Shards /\ UNCHANGED localDone
      BY <2>1 DEF Initialize, AllLocalDone
    <3> QED BY <3>1, BarrierFrame
  <2>2. CASE ~Initialize
    <3>1. UNCHANGED <<localDone, ready>> /\ (Initialized' => Initialized)
      BY <1>3, <2>2 DEF InitStep, LoadSnapshot, StartNewCampaign, SendInitial, InitFails, Unpause, Pause,
         SetPaused, Tick, loadVars, Initialized
    <3>2. \A p \in Peers : Has(toNode'[p], "Initialized") => Has(toNode[p], "Initialized")
      <4>1. CASE SendInitial
        <5>1. /\ Packet("Initial") \in Packets /\ Packet("Initial").type = "Initial" /\ None \notin Shards
              /\ toNode' = Sent(Shards, Packet("Initial"))
          BY <4>1, PacketTypes, ConstantsApart DEF SendInitial
        <5> QED BY <1>1, <5>1, SentIsNoStart
      <4>2. CASE Tick
        <5>1. /\ State(isPaused) \in Packets /\ State(isPaused).type = "State" /\ None \notin Receivers
              /\ \E U \in SUBSET Receivers : toNode' = Sent(U, State(isPaused))
          BY <1>1, <4>2, PacketTypes, ConstantsApart DEF TypeOK, Receivers, Tick
        <5> QED BY <1>1, <5>1, SentIsNoStart
      <4>3. CASE InitFails \/ Unpause \/ Pause
        BY <4>3 DEF InitFails, Unpause, Pause, SetPaused, netVars
      <4> QED BY <1>3, <2>2, <4>1, <4>2, <4>3 DEF InitStep, LoadSnapshot, StartNewCampaign
    <3> QED BY <3>1, <3>2, BarrierFrame
  <2> QED BY <2>1, <2>2
<1>4. ASSUME NEW p \in Peers, PollPeer(p) \/ Close(p) PROVE BarrierOK'
  <2>1. UNCHANGED <<ready, phase>>
    BY <1>4 DEF PollPeer, ReceiveHandshake, ReceiveLocalDone, DropPeer, Close, loadVars
  <2>2. localDone = Shards => localDone' = Shards
    <3>1. localDone \subseteq localDone' /\ TypeOK'
      BY <1>4, TypeNext DEF PollPeer, ReceiveHandshake, ReceiveLocalDone, DropPeer, Close
    <3> QED BY <3>1 DEF TypeOK
  <2>3. \A q \in Peers : Has(toNode'[q], "Initialized") => Has(toNode[q], "Initialized") \/ localDone = Shards
    <3>1. CASE ReceiveHandshake(p) /\ ~MustWait(p)
      BY <3>1, HandshakeEntry DEF EntryOK, Entered
    <3>2. CASE Close(p)
      BY <1>1, <3>2, Broken DEF Close, Shrinks
    <3>3. CASE (ReceiveHandshake(p) /\ MustWait(p)) \/ ReceiveLocalDone(p) \/ DropPeer(p)
      BY <3>3 DEF ReceiveHandshake, ReceiveLocalDone, DropPeer, netVars
    <3> QED BY <1>4, <3>1, <3>2, <3>3 DEF PollPeer
  <2> QED BY <2>1, <2>2, <2>3, BarrierFrame DEF Initialized
<1>5. ASSUME NEW n \in Nodes, Connect(n) \/ AuthFails(n) \/ Accept(n) \/ Restart(n) \/ PollSocket(n)
      PROVE  BarrierOK'
  <2>1. UNCHANGED <<localDone, phase>>
    BY <1>5 DEF Connect, AuthFails, Accept, Restart, PollSocket, SendHandshake, NoticeClosed, ReceiveAck,
       ReceiveInitial, ReceiveState, ReceiveInitialized
  <2>2. \A q \in Peers : Has(toNode'[q], "Initialized") => Has(toNode[q], "Initialized")
    <3>1. CASE Restart(n)
      BY <1>1, <3>1, Broken DEF Restart, Shrinks
    <3>2. ASSUME NEW type, FromServer(n, type) PROVE \A q \in Peers : Shrinks(toNode[q], toNode'[q])
      BY <3>2, Received
    <3>3. CASE ReceiveAck(n) \/ ReceiveInitial(n) \/ ReceiveState(n) \/ ReceiveInitialized(n)
      BY <3>2, <3>3 DEF ReceiveAck, ReceiveInitial, ReceiveState, ReceiveInitialized, Shrinks
    <3>4. CASE Connect(n) \/ AuthFails(n) \/ Accept(n) \/ SendHandshake(n) \/ NoticeClosed(n)
      BY <3>4 DEF Connect, AuthFails, Accept, SendHandshake, NoticeClosed, netVars
    <3> QED BY <1>5, <3>1, <3>3, <3>4 DEF PollSocket
  <2>3. ready' \subseteq ready \/ localDone = Shards
    <3>1. CASE ReceiveState(n)
      <4>1. CASE n \in Clients
        <5>1. userOf[socket[n]] \in Players /\ socket[n] \in Peers
          <6>1. FromServer(n, "State")
            BY <3>1 DEF ReceiveState
          <6> QED BY <4>1, <6>1, HandledPacket, ConstantsApart DEF Tokens
        <5> QED BY <5>1 DEF IInv, MapOK, BarrierOK
      <4>2. CASE n \notin Clients
        BY <3>1, <4>2 DEF ReceiveState
      <4> QED BY <4>1, <4>2
    <3>2. CASE ReceiveInitialized(n)
      <4>1. FromServer(n, "Initialized")
        BY <3>2 DEF ReceiveInitialized
      <4> QED BY <4>1, HandledPacket DEF IInv, BarrierOK
    <3>3. CASE ~ReceiveState(n) /\ ~ReceiveInitialized(n)
      BY <1>5, <3>3 DEF Connect, AuthFails, Accept, Restart, PollSocket, SendHandshake, NoticeClosed, ReceiveAck,
         ReceiveInitial, loadVars
    <3> QED BY <3>1, <3>2, <3>3
  <2> QED BY <2>1, <2>2, <2>3, BarrierFrame DEF Initialized
<1> QED BY <1>2, <1>3, <1>4, <1>5 DEF Next

(* ----------------------- the state of the campaign --------------------- *)

FreshAt(p) ==
  \/ isChanged \/ userOf[p] \in requesters
  \/ LastStateIs(toNode[p], isPaused)
  \/ ~Has(toNode[p], "State") /\ known[owner[p]] = isPaused

(* What a socket and its node know does not become older.                  *)
NoOlder(p) ==
  /\ p \in isOpen /\ userOf[p] = userOf'[p] /\ owner'[p] = owner[p]
  /\ isPaused' = isPaused /\ isChanged' = isChanged
  /\ userOf[p] \in requesters => userOf[p] \in requesters'
  /\ \A v : LastStateIs(toNode[p], v) => LastStateIs(toNode'[p], v)
  /\ Has(toNode'[p], "State") => Has(toNode[p], "State")
  /\ known'[owner[p]] = known[owner[p]]

LEMMA FreshFrame ==
  ASSUME IInv,
         \A p \in isOpen' : \/ userOf'[p] = None
                            \/ isChanged' \/ userOf'[p] \in requesters'
                            \/ NoOlder(p)
  PROVE  StateIsFresh'
BY DEF NoOlder, IInv, StateIsFresh

(* A handshake makes the user a requester of the state.                    *)
LEMMA FreshEntry ==
  ASSUME IInv, NEW s, NEW U, EntryOK(s, U), Entered(s), UNCHANGED <<isPaused, isChanged, owner, known>>
  PROVE  StateIsFresh'
<1>1. ASSUME NEW p \in isOpen', userOf'[p] # None, userOf'[p] \notin requesters'
      PROVE  NoOlder(p)
  <2>1. /\ p \in isOpen /\ p \in Peers /\ userOf'[p] = userOf[p] /\ SameNews(toNode[p], toNode'[p])
        /\ requesters \subseteq requesters'
    BY <1>1 DEF EntryOK, Entered, IInv, TypeOK
  <2> QED BY <2>1 DEF NoOlder, SameNews
<1> QED BY <1>1, FreshFrame

(* A Tick sends the state to all that wait for it, or keeps them waiting.  *)
LEMMA FreshTick ==
  ASSUME IInv, Tick
  PROVE  StateIsFresh'
<1> DEFINE e == State(isPaused)
<1>1. /\ TypeOK /\ e \in Packets /\ e.type = "State" /\ None \notin Receivers
      /\ UNCHANGED <<userOf, isOpen, owner, known, isPaused>>
  BY PacketTypes, ConstantsApart DEF IInv, TypeOK, Receivers, Tick, userVars, loadVars, originVars
<1>2. PICK U \in SUBSET Receivers : /\ toNode' = Sent(U, e)
                                    /\ Throws => UNCHANGED <<isChanged, requesters>>
                                    /\ ~Throws => U = Receivers /\ isChanged' = FALSE /\ requesters' = {}
  BY DEF Tick
<1>3. ASSUME NEW p \in isOpen, userOf[p] \in U
      PROVE  LastStateIs(toNode'[p], isPaused)
  <2>1. /\ p \in Peers /\ toNode[p] \in Seq(Packets)
    BY <1>1 DEF TypeOK
  <2>2. \/ toNode'[p] = Append(toNode[p], e)
        \/ toNode[p] # <<>> /\ Last(toNode[p]) = e /\ toNode'[p] = toNode[p]
    BY <1>1, <1>2, <1>3, SentSound
  <2>3. LastStateIs(Append(toNode[p], e), isPaused)
    BY <1>1, <2>1, Appended
  <2>4. toNode[p] # <<>> /\ Last(toNode[p]) = e => LastStateIs(toNode[p], isPaused)
    BY <2>1, LastPacket
  <2> QED BY <2>2, <2>3, <2>4
<1>4. ASSUME NEW p \in isOpen, userOf[p] \notin U
      PROVE  toNode'[p] = toNode[p]
  BY <1>1, <1>2, <1>4, SentSound DEF TypeOK
<1>5. ASSUME NEW p \in isOpen, userOf[p] # None, userOf[p] \notin U
      PROVE  (isChanged' \/ userOf[p] \in requesters') \/ NoOlder(p)
  <2>1. userOf[p] \in Users
    BY <1>1, <1>5 DEF TypeOK
  <2>2. CASE Throws
    <3>1. toNode'[p] = toNode[p] /\ UNCHANGED <<isChanged, requesters>>
      BY <1>2, <1>4, <1>5, <2>2
    <3> QED BY <1>1, <1>5, <3>1 DEF NoOlder
  <2>3. CASE ~Throws
    <3>1. ~isChanged /\ userOf[p] \notin requesters
      BY <1>2, <1>5, <2>1, <2>3 DEF Receivers
    <3>2. toNode'[p] = toNode[p] /\ isChanged' = FALSE /\ requesters' = {}
      BY <1>2, <1>4, <1>5, <2>3
    <3>3. isChanged' = isChanged
      BY <1>1, <3>1, <3>2 DEF TypeOK
    <3> QED BY <1>1, <1>5, <3>1, <3>2, <3>3 DEF NoOlder
  <2> QED BY <2>2, <2>3
<1> HIDE DEF e
<1> SUFFICES ASSUME NEW p \in isOpen, userOf[p] # None
             PROVE  \/ isChanged' \/ userOf[p] \in requesters'
                    \/ LastStateIs(toNode'[p], isPaused)
                    \/ ~Has(toNode'[p], "State") /\ known[owner[p]] = isPaused
  BY <1>1 DEF StateIsFresh
<1>6. CASE userOf[p] \in U
  BY <1>3, <1>6
<1>7. CASE userOf[p] \notin U
  BY <1>1, <1>5, <1>7 DEF NoOlder, IInv, StateIsFresh
<1> QED BY <1>6, <1>7

(* A node that takes a state knows it.                                     *)
LEMMA FreshReceive ==
  ASSUME IInv, NEW n \in Nodes, NEW type, FromServer(n, type),
         \/ type = "State" /\ known' = [known EXCEPT ![n] = Head(toNode[socket[n]]).isPaused]
         \/ type # "State" /\ known' = known,
         UNCHANGED <<userOf, owner, isOpen, isPaused, isChanged, requesters>>
  PROVE  StateIsFresh'
<1> DEFINE p == socket[n]
<1>1. /\ p \in isOpen /\ p \in Peers /\ owner[p] = n /\ isOpen \subseteq Peers
      /\ known \in [Nodes -> BOOLEAN \union {None}]
  BY HandledPacket DEF IInv, TypeOK
<1>2. /\ \A q \in Peers : q # p => toNode'[q] = toNode[q]
      /\ type # "State" => \A v : LastStateIs(toNode[p], v) => LastStateIs(toNode'[p], v)
      /\ type # "State" => (Has(toNode'[p], "State") => Has(toNode[p], "State"))
      /\ \A v : LastStateIs(toNode[p], v) =>
           \/ LastStateIs(toNode'[p], v)
           \/ ~Has(toNode'[p], "State") /\ Head(toNode[p]) = State(v)
      /\ type = "State" => Has(toNode[p], "State")
  BY Received
<1> HIDE DEF p
<1> SUFFICES ASSUME NEW q \in isOpen, userOf[q] # None
             PROVE  \/ isChanged \/ userOf[q] \in requesters
                    \/ LastStateIs(toNode'[q], isPaused)
                    \/ ~Has(toNode'[q], "State") /\ known'[owner[q]] = isPaused
  BY DEF StateIsFresh
<1>3. \/ isChanged \/ userOf[q] \in requesters
      \/ LastStateIs(toNode[q], isPaused)
      \/ ~Has(toNode[q], "State") /\ known[owner[q]] = isPaused
  BY DEF IInv, StateIsFresh
<1>4. CASE q # p
  <2>1. owner[q] # n /\ owner[q] \in Nodes
    BY <1>1, <1>4, OpenSocket DEF p
  <2>2. known'[owner[q]] = known[owner[q]]
    <3>1. CASE known' = known
      BY <3>1
    <3>2. CASE known' = [known EXCEPT ![n] = Head(toNode[socket[n]]).isPaused]
      <4> DEFINE v == Head(toNode[socket[n]]).isPaused
      <4> HIDE DEF v
      <4> QED BY <1>1, <2>1, <3>2 DEF v
    <3> QED BY <3>1, <3>2
  <2> QED BY <1>1, <1>2, <1>3, <1>4, <2>2
<1>5. CASE q = p /\ type # "State"
  BY <1>1, <1>2, <1>3, <1>5
<1>6. CASE q = p /\ type = "State"
  <2>1. \A v : Head(toNode[p]) = State(v) => known'[n] = v
    BY <1>1, <1>6, PacketTypes DEF p
  <2> QED BY <1>1, <1>2, <1>3, <1>6, <2>1
<1> QED BY <1>4, <1>5, <1>6

LEMMA FreshNext == IInv /\ [Next]_vars => StateIsFresh'
<1> SUFFICES ASSUME IInv, [Next]_vars PROVE StateIsFresh'
  OBVIOUS
<1>1. TypeOK
  BY DEF IInv
<1>2. ASSUME UNCHANGED <<userOf, owner, isPaused, isChanged, requesters, toNode, known, isOpen>>
      PROVE  StateIsFresh'
  BY <1>2, FreshFrame DEF NoOlder
<1>3. CASE UNCHANGED vars
  BY <1>2, <1>3 DEF vars, userVars, stateVars, loadVars, originVars, netVars
<1>4. CASE InitStep \/ Tick
  <2>1. CASE Initialize
    BY <2>1, InitializeEntry, FreshEntry DEF Initialize, loadVars, originVars
  <2>2. CASE Tick
    BY <2>2, FreshTick
  <2>3. CASE Unpause \/ Pause
    BY <2>3, FreshFrame DEF Unpause, Pause, SetPaused
  <2>4. CASE InitFails
    BY <1>2, <2>4 DEF InitFails, userVars, stateVars, loadVars, originVars, netVars
  <2>5. CASE SendInitial
    <3> DEFINE e == Packet("Initial")
    <3>1. /\ e \in Packets /\ e.type = "Initial" /\ None \notin Shards /\ toNode' = Sent(Shards, e)
          /\ UNCHANGED <<userOf, owner, isPaused, isChanged, requesters, known, isOpen>>
      BY <2>5, PacketTypes, ConstantsApart DEF SendInitial, stateVars, loadVars, originVars
    <3> HIDE DEF e
    <3>2. ASSUME NEW p \in isOpen PROVE NoOlder(p)
      <4>1. p \in Peers /\ toNode[p] \in Seq(Packets)
        BY <1>1 DEF TypeOK
      <4>2. toNode'[p] = toNode[p] \/ toNode'[p] = Append(toNode[p], e)
        BY <1>1, <3>1, <4>1, SentSound
      <4>3. /\ Has(Append(toNode[p], e), "State") => Has(toNode[p], "State")
            /\ \A v : LastStateIs(toNode[p], v) => LastStateIs(Append(toNode[p], e), v)
        BY <3>1, <4>1, Appended
      <4> QED BY <3>1, <4>2, <4>3 DEF NoOlder
    <3> QED BY <3>1, <3>2, FreshFrame
  <2> QED BY <1>4, <2>1, <2>2, <2>3, <2>4, <2>5 DEF InitStep, LoadSnapshot, StartNewCampaign
<1>5. ASSUME NEW p \in Peers, PollPeer(p) \/ Close(p) PROVE StateIsFresh'
  <2>1. CASE ReceiveHandshake(p) /\ ~MustWait(p)
    BY <2>1, HandshakeEntry, FreshEntry DEF ReceiveHandshake, loadVars, originVars
  <2>2. CASE (ReceiveHandshake(p) /\ MustWait(p)) \/ ReceiveLocalDone(p)
    BY <1>2, <2>2 DEF ReceiveHandshake, ReceiveLocalDone, userVars, stateVars, loadVars, originVars
  <2>3. CASE DropPeer(p)
    <3>1. /\ userOf' = [userOf EXCEPT ![p] = None] /\ p \notin isOpen
          /\ UNCHANGED <<owner, isPaused, isChanged, requesters, toNode, known, isOpen>>
      BY <2>3 DEF DropPeer, stateVars, loadVars, originVars, netVars
    <3>2. \A q \in isOpen : userOf'[q] = userOf[q]
      BY <1>1, <3>1 DEF TypeOK
    <3> QED BY <3>1, <3>2, FreshFrame DEF NoOlder
  <2>4. CASE Close(p)
    <3>1. Break({p}) /\ UNCHANGED <<userOf, owner, isPaused, isChanged, requesters, known>>
      BY <2>4 DEF Close, Break, userVars, stateVars, loadVars
    <3>2. \A q \in isOpen' : q \in isOpen /\ toNode'[q] = toNode[q]
      BY <1>1, <3>1, Broken DEF TypeOK
    <3> QED BY <3>1, <3>2, FreshFrame DEF NoOlder
  <2> QED BY <1>5, <2>1, <2>2, <2>3, <2>4 DEF PollPeer
<1>6. ASSUME NEW n \in Nodes, Connect(n) \/ AuthFails(n) \/ Accept(n) \/ Restart(n) \/ PollSocket(n)
      PROVE  StateIsFresh'
  <2>1. CASE Connect(n) \/ AuthFails(n) \/ SendHandshake(n) \/ NoticeClosed(n)
    BY <1>2, <2>1 DEF Connect, AuthFails, SendHandshake, NoticeClosed, userVars, stateVars, loadVars,
       originVars, netVars
  <2>2. CASE Accept(n)
    <3>1. PICK p \in Peers : /\ owner[p] = None
                             /\ owner' = [owner EXCEPT ![p] = n]
                             /\ isOpen' = isOpen \union {p}
                             /\ UNCHANGED <<userOf, isPaused, isChanged, requesters, toNode, known>>
      BY <2>2 DEF Accept, stateVars, loadVars
    <3>2. userOf[p] = None
      BY <3>1 DEF IInv, LinksOK, MapOK
    <3>3. \A q \in Peers : q # p => owner'[q] = owner[q]
      BY <1>1, <3>1 DEF TypeOK
    <3> QED BY <1>1, <3>1, <3>2, <3>3, FreshFrame DEF NoOlder, TypeOK
  <2>3. CASE Restart(n)
    <3>1. /\ Break({socket[n]}) /\ known' = [known EXCEPT ![n] = None]
          /\ UNCHANGED <<userOf, owner, isPaused, isChanged, requesters>>
      BY <2>3 DEF Restart, Break, userVars, stateVars
    <3>2. ASSUME NEW q \in isOpen' PROVE NoOlder(q)
      <4>1. q \in isOpen /\ q \in Peers /\ q # socket[n] /\ toNode'[q] = toNode[q]
        BY <1>1, <3>1, Broken DEF TypeOK
      <4>2. owner[q] # n
        BY <4>1, OpenSocket
      <4>3. owner[q] \in Nodes /\ known'[owner[q]] = known[owner[q]]
        BY <1>1, <3>1, <4>1, <4>2, OpenSocket DEF TypeOK
      <4> QED BY <3>1, <4>1, <4>3 DEF NoOlder
    <3> QED BY <3>2, FreshFrame
  <2>4. CASE ReceiveAck(n) \/ ReceiveInitial(n) \/ ReceiveInitialized(n)
    <3>1. PICK type \in {"Ack", "Initial", "Initialized"} : FromServer(n, type)
      BY <2>4 DEF ReceiveAck, ReceiveInitial, ReceiveInitialized
    <3>2. UNCHANGED <<known, userOf, owner, isOpen, isPaused, isChanged, requesters>>
      BY <2>4 DEF ReceiveAck, ReceiveInitial, ReceiveInitialized, userVars, stateVars, loadVars, originVars
    <3> QED BY <3>1, <3>2, FreshReceive
  <2>5. CASE ReceiveState(n)
    BY <2>5, FreshReceive DEF ReceiveState, userVars, stateVars, originVars
  <2> QED BY <1>6, <2>1, <2>2, <2>3, <2>4, <2>5 DEF PollSocket
<1> QED BY <1>3, <1>4, <1>5, <1>6 DEF Next

(* ----------------------------- the theorems ---------------------------- *)

LEMMA InvInit == Init => IInv
<1> SUFFICES ASSUME Init PROVE IInv
  OBVIOUS
<1>1. TypeOK
  BY TypeOfInit
<1>2. /\ \A p \in Peers : /\ owner[p] = None /\ token[p] = None /\ userOf[p] = None
                          /\ toServer[p] = <<>> /\ toNode[p] = <<>>
      /\ \A n \in Nodes : socket[n] = NoSocket /\ status[n] = "Disconnected"
      /\ \A u \in Players : users[u] = "unknown"
      /\ isOpen = {} /\ waiting = <<>> /\ ready = {} /\ phase = "connecting"
      /\ initial = {} /\ reported = {} /\ localDone = {}
  BY ConstantsApart DEF Init
<1>3. LinksOK
  BY <1>2 DEF LinksOK
<1>4. MapOK
  BY <1>2, ConstantsApart DEF MapOK, PresenceIsExact
<1>5. \A p \in Peers : \A t : ~Has(toServer[p], t) /\ ~Has(toNode[p], t) /\ Once(toServer[p], t) /\ Once(toNode[p], t)
  BY <1>2, EmptyChannel
<1>6. ChannelsOK
  BY <1>2, <1>5 DEF ChannelsOK, OneConnectionPerUser
<1>7. BarrierOK
  BY <1>2, <1>5 DEF BarrierOK, NobodyStartsEarly, Initialized
<1>8. ReportsOK
  BY <1>2, <1>5 DEF ReportsOK
<1>9. StateIsFresh
  BY <1>2 DEF StateIsFresh
<1> QED BY <1>1, <1>3, <1>4, <1>6, <1>7, <1>8, <1>9 DEF IInv

LEMMA InvNext == IInv /\ [Next]_vars => IInv'
BY TypeNext, LinksNext, MapNext, ChannelsNext, BarrierNext, FreshNext DEF IInv

LEMMA InductiveInvariant == Spec => []IInv
BY InvInit, InvNext, PTL DEF Spec

(* Every variable of the campaign server and its nodes has its type.       *)
THEOREM TypeCorrect == Spec => []TypeOK
<1>1. IInv => TypeOK
  BY DEF IInv
<1> QED BY <1>1, InductiveInvariant, PTL

(* A node that holds itself connected is the one the campaign server sends *)
(* to for its user (HandleHandshakePacketAsync).                           *)
THEOREM ConnectedNodesAreMapped == Spec => []OneConnectionPerUser
<1>1. IInv => OneConnectionPerUser
  BY DEF IInv, ChannelsOK
<1> QED BY <1>1, InductiveInvariant, PTL

(* Nobody is initialized before every shard has reported (InitAsync and    *)
(* the wait in HandleHandshakePacketAsync).                                *)
THEOREM BarrierHolds == Spec => []NobodyStartsEarly
<1>1. IInv => NobodyStartsEarly
  BY DEF IInv, BarrierOK
<1> QED BY <1>1, InductiveInvariant, PTL

(* A player is connected in UserRepository exactly while a socket is       *)
(* mapped to it.                                                           *)
THEOREM PresenceFollowsSockets == Spec => []PresenceIsExact
<1>1. IInv => PresenceIsExact
  BY DEF IInv, MapOK
<1> QED BY <1>1, InductiveInvariant, PTL

(* A report under way finds its task, which no other has completed         *)
(* (ReceiveShardServerInitAwaitingCampaignServerInitPacket).               *)
THEOREM ReportsComeOnce == Spec => []ReportFindsItsTask
<1>1. IInv => ReportFindsItsTask
  <2> SUFFICES ASSUME IInv, NEW p \in Peers, Has(toServer[p], "LocalDone")
               PROVE  /\ Once(toServer[p], "LocalDone")
                      /\ phase # "connecting"
                      /\ userOf[p] \in Shards \ localDone
    BY DEF ReportFindsItsTask
  <2>1. userOf[p] \in Shards /\ Once(toServer[p], "LocalDone") /\ token[p] \in reported \ localDone
    BY DEF IInv, ChannelsOK, ReportsOK
  <2>2. userOf[p] = token[p]
    BY <2>1, ConstantsApart DEF IInv, MapOK
  <2>3. phase # "connecting"
    BY <2>1 DEF IInv, ReportsOK
  <2> QED BY <2>1, <2>2, <2>3
<1> QED BY <1>1, InductiveInvariant, PTL

(* No node misses a change of the campaign state                           *)
(* (SynchronizedCampaignStateRepository.Tick).                             *)
THEOREM NodesLearnTheState == Spec => []StateIsFresh
<1>1. IInv => StateIsFresh
  BY DEF IInv
<1> QED BY <1>1, InductiveInvariant, PTL
=============================================================================
