---------------------------- MODULE WorldReplica ----------------------------
(***************************************************************************)
(* What the clients of a shard are promised to see of its world, without   *)
(* packets, rings or buffers.  The shard makes a snapshot for one tick     *)
(* after another, once.  A client shows the snapshot of a time that was    *)
(* made, or is on its way from one to the next, and goes on from there but *)
(* never back; or it has lost track and starts again from a snapshot.      *)
(***************************************************************************)
EXTENDS Integers

CONSTANTS
  Clients,
  Worlds,
  NoWorld,
  MaxTick,   \* bound: ticks of the shard
  Steps,     \* steps of a client's time in a tick
  Nowhen,    \* the time of a client that shows nothing
  Nothing    \* and what it shows

VARIABLES
  made,      \* the world in the snapshot of each tick, or NoWorld
  time,      \* the time each client shows, in steps, or Nowhen
  shown      \* the world it shows and the one it is moving towards

vars == <<made, time, shown>>

Ticks == -1..MaxTick
Times == -Steps..MaxTick * Steps

Init ==
  /\ made = [t \in Ticks |-> NoWorld]
  /\ time = [c \in Clients |-> Nowhen]
  /\ shown = [c \in Clients |-> Nothing]

(* A snapshot is made, of a tick after all those before.                   *)
Make(t, w) ==
  /\ \A u \in Ticks : made[u] # NoWorld => u < t
  /\ made' = [made EXCEPT ![t] = w]
  /\ UNCHANGED <<time, shown>>

(* Between two ticks a client is on its way from the one to the other, but *)
(* before tick 0 it waits where it is.                                     *)
From(t) == t \div Steps
To(t) == IF t < 0 \/ t % Steps = 0 THEN From(t) ELSE From(t) + 1

See(c, t) ==
  /\ IF time[c] = Nowhen THEN t % Steps = 0 ELSE time[c] <= t
  /\ made[From(t)] \in Worlds /\ made[To(t)] \in Worlds
  /\ time' = [time EXCEPT ![c] = t]
  /\ shown' = [shown EXCEPT ![c] = [world |-> made[From(t)], towards |-> made[To(t)]]]
  /\ UNCHANGED made

Lose(c) ==
  /\ time' = [time EXCEPT ![c] = Nowhen]
  /\ shown' = [shown EXCEPT ![c] = Nothing]
  /\ UNCHANGED made

Next ==
  \/ \E t \in Ticks, w \in Worlds : Make(t, w)
  \/ \E c \in Clients : Lose(c) \/ \E t \in Times : See(c, t)

Spec == Init /\ [][Next]_vars
=============================================================================
