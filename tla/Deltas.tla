------------------------------- MODULE Deltas -------------------------------
(***************************************************************************)
(* The deltas between two states of a shard that its clients apply, as     *)
(* pure operators: Delta, ListDelta, DictionaryDelta and what is built     *)
(* from them, the delta of a unit and of a whole shard                     *)
(* (Soteo.Core/Dto/Deltas, Soteo.Core/Dto/Snapshots).                      *)
(*                                                                         *)
(* A list is a sequence, a dictionary a function on the set of its keys, a *)
(* unit a record of one field of each kind: "state" stands for position,   *)
(* azimuth and flags, "stats" for stats, abilities, statuses and           *)
(* equipment, "items" for the inventory and the controlling players.       *)
(* Positions in a list count from 1.                                       *)
(***************************************************************************)
EXTENDS Naturals, Sequences

----------------------------------------------------------------------------
(* One value. *)

Unchanged == [hasChanged |-> FALSE]

ChangedTo(value) == [hasChanged |-> TRUE, newValue |-> value]

DeltaBetween(from, to) == IF from = to THEN Unchanged ELSE ChangedTo(to)

ApplyDelta(delta, value) == IF delta.hasChanged THEN delta.newValue ELSE value

----------------------------------------------------------------------------
(* A list. *)

ListBetween(from, to) ==
    LET changed == {i \in 1..Len(to) : i > Len(from) \/ from[i] # to[i]}
    IN [count      |-> Len(to),
        changes    |-> [i \in changed |-> to[i]],
        hasChanged |-> changed # {} \/ Len(from) # Len(to)]

ListFromNew(list) ==
    [count |-> Len(list), changes |-> list, hasChanged |-> TRUE]

\* The list grows by values of the changes, shrinks from its end, and then
\* takes every change. A position beyond the list that has no change is an
\* error in the code and has no value here.
MutateList(delta, list) ==
    [i \in 1..delta.count |->
        IF i \in DOMAIN delta.changes THEN delta.changes[i] ELSE list[i]]

----------------------------------------------------------------------------
(* A dictionary. *)

DictionaryBetween(from, to) ==
    [changes     |-> [k \in {j \in DOMAIN to : j \notin DOMAIN from \/ from[j] # to[j]}
                        |-> to[k]],
     removedKeys |-> DOMAIN from \ DOMAIN to]

DictionaryFromNew(dictionary) ==
    [changes |-> dictionary, removedKeys |-> {}]

DictionaryHasChanged(delta) ==
    DOMAIN delta.changes # {} \/ delta.removedKeys # {}

MutateDictionary(delta, dictionary) ==
    [k \in (DOMAIN dictionary \cup DOMAIN delta.changes) \ delta.removedKeys |->
        IF k \in DOMAIN delta.changes THEN delta.changes[k] ELSE dictionary[k]]

\* partial is the dictionary after the delta was applied with an interpolation
\* weight below 1: the changed keys have any value, the keys are already final.
PartlyMutated(delta, dictionary, partial) ==
    /\ DOMAIN partial = (DOMAIN dictionary \cup DOMAIN delta.changes) \ delta.removedKeys
    /\ \A k \in DOMAIN partial \ DOMAIN delta.changes : partial[k] = dictionary[k]

----------------------------------------------------------------------------
(* A unit. *)

UnitBetween(from, to) ==
    [state |-> DeltaBetween(from.state, to.state),
     stats |-> DictionaryBetween(from.stats, to.stats),
     items |-> ListBetween(from.items, to.items)]

UnitFromNew(unit) ==
    [state |-> ChangedTo(unit.state),
     stats |-> DictionaryFromNew(unit.stats),
     items |-> ListFromNew(unit.items)]

UnitHasChanged(delta) ==
    \/ delta.state.hasChanged
    \/ DictionaryHasChanged(delta.stats)
    \/ delta.items.hasChanged

MutateUnit(delta, unit) ==
    [state |-> ApplyDelta(delta.state, unit.state),
     stats |-> MutateDictionary(delta.stats, unit.stats),
     items |-> MutateList(delta.items, unit.items)]

----------------------------------------------------------------------------
(* A shard: a function from the ids of its units to the units. *)

\* The delta of one unit of the later shard.
DeltaOfUnit(from, to, id) ==
    IF id \in DOMAIN from THEN UnitBetween(from[id], to[id]) ELSE UnitFromNew(to[id])

ShardBetween(from, to) ==
    [changes     |-> [id \in {i \in DOMAIN to : UnitHasChanged(DeltaOfUnit(from, to, i))}
                        |-> DeltaOfUnit(from, to, id)],
     removedKeys |-> DOMAIN from \ DOMAIN to]

\* EntityManager.ApplyDelta: a unit the client does not have yet is spawned
\* blank and takes its delta, a removed one that it has is removed.
MutateShard(delta, shard, blank) ==
    [id \in (DOMAIN shard \cup DOMAIN delta.changes) \ delta.removedKeys |->
        IF id \in DOMAIN delta.changes
        THEN MutateUnit(delta.changes[id], IF id \in DOMAIN shard THEN shard[id] ELSE blank)
        ELSE shard[id]]
=============================================================================
