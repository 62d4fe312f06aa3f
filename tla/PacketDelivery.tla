--------------------------- MODULE PacketDelivery ---------------------------
(***************************************************************************)
(* What a gameplay process promises its packet handlers, without chunks,   *)
(* channels, frames or time.  A packet is accepted as it was sent or not   *)
(* at all, never twice, and none of a peer's reliable packets after a      *)
(* later one of them.  What is accepted is handled at once or waits; all   *)
(* that waits is handled together, in the order in which it came.          *)
(***************************************************************************)
EXTENDS Integers, Sequences

CONSTANTS Peers, Lengths

VARIABLES
    sent,      \* the packets sent; a packet's id is its position
    waiting,   \* packets accepted and not handled
    handled    \* what packet handlers got, in order

vars == <<sent, waiting, handled>>

Init == sent = <<>> /\ waiting = <<>> /\ handled = <<>>

Send(p, length, isReliable) ==
    /\ sent' = Append(sent, [sender |-> p, length |-> length, isReliable |-> isReliable])
    /\ UNCHANGED <<waiting, handled>>

\* A packet as it was sent: all its bytes, in order.
AsSent(id) ==
    [packet |-> id, sender |-> sent[id].sender, bytes |-> [i \in 1..sent[id].length |-> i]]

\* Packet b is a later one of the same peer, both reliable.
Overtakes(b, a) ==
    /\ a < b
    /\ sent[a].sender = sent[b].sender
    /\ sent[a].isReliable /\ sent[b].isReliable

Acceptable(id) ==
    \A packets \in {handled, waiting} : \A i \in DOMAIN packets :
        packets[i].packet # id /\ ~ Overtakes(packets[i].packet, id)

Handle(id) ==
    /\ Acceptable(id)
    /\ handled' = Append(handled, AsSent(id))
    /\ UNCHANGED <<sent, waiting>>

Defer(id) ==
    /\ Acceptable(id)
    /\ waiting' = Append(waiting, AsSent(id))
    /\ UNCHANGED <<sent, handled>>

HandleWaiting ==
    /\ handled' = handled \o waiting
    /\ waiting' = <<>>
    /\ UNCHANGED sent

Next ==
    \/ \E p \in Peers, length \in Lengths, isReliable \in BOOLEAN : Send(p, length, isReliable)
    \/ \E id \in DOMAIN sent : Handle(id) \/ Defer(id)
    \/ HandleWaiting

Spec == Init /\ [][Next]_vars
=============================================================================
