---------------------------- MODULE DeltasProofs ----------------------------
(***************************************************************************)
(* The delta between two states turns the one into the other, for lists,   *)
(* dictionaries, units and shards of every size. Nothing is assumed of the *)
(* values.                                                                 *)
(***************************************************************************)
EXTENDS Deltas, SequenceTheorems, TLAPS

\* What one value becomes (Delta.Between, Delta.cs:5).
LEMMA DeltaExact ==
    ASSUME NEW from, NEW to
    PROVE  ApplyDelta(DeltaBetween(from, to), from) = to
BY DEF ApplyDelta, DeltaBetween, Unchanged, ChangedTo

\* ListDelta.MutateList(ListDelta.Between(from, to)) on the list "from" gives
\* "to", whether the list grows, shrinks or keeps its length.
THEOREM ListExact ==
    ASSUME NEW V, NEW from \in Seq(V), NEW to \in Seq(V)
    PROVE  MutateList(ListBetween(from, to), from) = to
<1> DEFINE delta == ListBetween(from, to)
<1>1. delta.count = Len(to)
  BY DEF ListBetween
<1>2. Len(to) \in Nat /\ Len(from) \in Nat /\ DOMAIN to = 1..Len(to)
  OBVIOUS
<1>3. \A i \in 1..Len(to) :
        (IF i \in DOMAIN delta.changes THEN delta.changes[i] ELSE from[i]) = to[i]
  BY <1>2 DEF ListBetween
<1>4. MutateList(delta, from) = [i \in 1..Len(to) |-> to[i]]
  BY <1>1, <1>3 DEF MutateList
<1>5. to = [i \in 1..Len(to) |-> to[i]]
  BY <1>2
<1> QED
  BY <1>4, <1>5

\* A client applies the same delta once more when it moves on from a fraction
\* of a tick to the full tick: lists take it in full both times.
THEOREM ListAppliedTwice ==
    ASSUME NEW V, NEW from \in Seq(V), NEW to \in Seq(V)
    PROVE  MutateList(ListBetween(from, to), to) = to
<1> DEFINE delta == ListBetween(from, to)
<1>1. delta.count = Len(to)
  BY DEF ListBetween
<1>2. Len(to) \in Nat /\ DOMAIN to = 1..Len(to)
  OBVIOUS
<1>3. \A i \in 1..Len(to) :
        (IF i \in DOMAIN delta.changes THEN delta.changes[i] ELSE to[i]) = to[i]
  BY <1>2 DEF ListBetween
<1>4. MutateList(delta, to) = [i \in 1..Len(to) |-> to[i]]
  BY <1>1, <1>3 DEF MutateList
<1>5. to = [i \in 1..Len(to) |-> to[i]]
  BY <1>2
<1> QED
  BY <1>4, <1>5

\* The delta of a unit the client does not have gives the list whatever the
\* blank unit had in it (ListDelta.FromNew).
LEMMA ListNewExact ==
    ASSUME NEW V, NEW list \in Seq(V), NEW blank
    PROVE  MutateList(ListFromNew(list), blank) = list
<1>1. DOMAIN list = 1..Len(list)
  OBVIOUS
<1>2. MutateList(ListFromNew(list), blank) = [i \in 1..Len(list) |-> list[i]]
  BY <1>1 DEF MutateList, ListFromNew
<1> QED
  BY <1>1, <1>2

\* A delta that says nothing has changed may be left out of the delta of the
\* shard (ShardSnapshotDelta.cs:20).
LEMMA ListUnchanged ==
    ASSUME NEW V, NEW from \in Seq(V), NEW to \in Seq(V),
           ~ ListBetween(from, to).hasChanged
    PROVE  from = to
<1>1. /\ Len(from) = Len(to)
      /\ {i \in 1..Len(to) : i > Len(from) \/ from[i] # to[i]} = {}
  BY DEF ListBetween
<1>2. \A i \in 1..Len(to) : from[i] = to[i]
  BY <1>1
<1> QED
  BY <1>1, <1>2, SeqEqual

\* The same for a dictionary: keys are added, changed and removed.
THEOREM DictionaryExact ==
    ASSUME NEW D, NEW E, NEW V, NEW from \in [D -> V], NEW to \in [E -> V]
    PROVE  MutateDictionary(DictionaryBetween(from, to), from) = to
<1> DEFINE delta == DictionaryBetween(from, to)
           result == MutateDictionary(delta, from)
<1>1. DOMAIN result = E
  BY DEF MutateDictionary, DictionaryBetween
<1>2. \A k \in E : result[k] = to[k]
  BY DEF MutateDictionary, DictionaryBetween
<1>3. result = [k \in E |-> result[k]]
  BY <1>1 DEF MutateDictionary
<1>4. to = [k \in E |-> to[k]]
  OBVIOUS
<1> QED
  BY <1>2, <1>3, <1>4

\* The values of a dictionary are interpolated: whatever a fraction of a tick
\* made of them, the full tick sets them right, and no key is left over or
\* missing (DictionaryDelta.cs:38-51).
THEOREM DictionaryAppliedTwice ==
    ASSUME NEW D, NEW E, NEW V, NEW from \in [D -> V], NEW to \in [E -> V],
           NEW partial, PartlyMutated(DictionaryBetween(from, to), from, partial)
    PROVE  MutateDictionary(DictionaryBetween(from, to), partial) = to
<1> DEFINE delta == DictionaryBetween(from, to)
           result == MutateDictionary(delta, partial)
<1>1. DOMAIN partial = E
  BY DEF PartlyMutated, DictionaryBetween
<1>2. DOMAIN result = E
  BY <1>1 DEF MutateDictionary, DictionaryBetween
<1>3. \A k \in E : result[k] = to[k]
  BY <1>1 DEF MutateDictionary, DictionaryBetween, PartlyMutated
<1>4. result = [k \in E |-> result[k]]
  BY <1>2 DEF MutateDictionary
<1>5. to = [k \in E |-> to[k]]
  OBVIOUS
<1> QED
  BY <1>3, <1>4, <1>5

\* With the same keys: the delta does nothing to what it leads to.
LEMMA SameKeysAppliedTwice ==
    ASSUME NEW D, NEW V, NEW from \in [D -> V], NEW to \in [D -> V]
    PROVE  MutateDictionary(DictionaryBetween(from, to), to) = to
<1> DEFINE result == MutateDictionary(DictionaryBetween(from, to), to)
<1>1. DOMAIN result = D /\ result = [k \in D |-> result[k]]
  BY DEF MutateDictionary, DictionaryBetween
<1>2. \A k \in D : result[k] = to[k]
  BY DEF MutateDictionary, DictionaryBetween
<1> QED
  BY <1>1, <1>2

\* A new dictionary replaces the one of a blank unit, when the blank one has
\* no keys of its own: nothing removes them (DictionaryDelta.FromNew).
LEMMA DictionaryNewExact ==
    ASSUME NEW D, NEW E, NEW V, NEW blank \in [D -> V], NEW to \in [E -> V],
           D \subseteq E
    PROVE  MutateDictionary(DictionaryFromNew(to), blank) = to
<1> DEFINE result == MutateDictionary(DictionaryFromNew(to), blank)
<1>1. DOMAIN result = E
  BY DEF MutateDictionary, DictionaryFromNew
<1>2. \A k \in E : result[k] = to[k]
  BY DEF MutateDictionary, DictionaryFromNew
<1>3. result = [k \in E |-> result[k]]
  BY <1>1 DEF MutateDictionary
<1>4. to = [k \in E |-> to[k]]
  OBVIOUS
<1> QED
  BY <1>2, <1>3, <1>4

LEMMA DictionaryUnchanged ==
    ASSUME NEW D, NEW E, NEW V, NEW from \in [D -> V], NEW to \in [E -> V],
           ~ DictionaryHasChanged(DictionaryBetween(from, to))
    PROVE  from = to
<1>1. D \subseteq E /\ \A k \in E : k \in D /\ from[k] = to[k]
  BY DEF DictionaryHasChanged, DictionaryBetween
<1>2. D = E
  BY <1>1
<1> QED
  BY <1>1, <1>2

----------------------------------------------------------------------------
(* Units and shards: any states S, keys K of stats and values. *)

Units(S, K, Value) == [state : S, stats : UNION {[D -> Value] : D \in SUBSET K}, items : Seq(Value)]

LEMMA UnitExact ==
    ASSUME NEW S, NEW K, NEW Value,
           NEW from \in Units(S, K, Value), NEW to \in Units(S, K, Value)
    PROVE  MutateUnit(UnitBetween(from, to), from) = to
<1>1. ApplyDelta(DeltaBetween(from.state, to.state), from.state) = to.state
  BY DeltaExact
<1>2. MutateDictionary(DictionaryBetween(from.stats, to.stats), from.stats) = to.stats
  <2>1. PICK D, E : from.stats \in [D -> Value] /\ to.stats \in [E -> Value]
    BY DEF Units
  <2> QED
    BY <2>1, DictionaryExact
<1>3. MutateList(ListBetween(from.items, to.items), from.items) = to.items
  <2>1. from.items \in Seq(Value) /\ to.items \in Seq(Value)
    BY DEF Units
  <2> QED
    BY <2>1, ListExact
<1> QED
  BY <1>1, <1>2, <1>3 DEF MutateUnit, UnitBetween, Units

LEMMA UnitNewExact ==
    ASSUME NEW S, NEW K, NEW Value,
           NEW blank \in Units(S, K, Value), NEW to \in Units(S, K, Value),
           DOMAIN blank.stats \subseteq DOMAIN to.stats
    PROVE  MutateUnit(UnitFromNew(to), blank) = to
<1>1. ApplyDelta(ChangedTo(to.state), blank.state) = to.state
  BY DEF ApplyDelta, ChangedTo
<1>2. MutateDictionary(DictionaryFromNew(to.stats), blank.stats) = to.stats
  <2>1. PICK D, E : blank.stats \in [D -> Value] /\ to.stats \in [E -> Value]
    BY DEF Units
  <2> QED
    BY <2>1, DictionaryNewExact
<1>3. MutateList(ListFromNew(to.items), blank.items) = to.items
  <2>1. to.items \in Seq(Value)
    BY DEF Units
  <2> QED
    BY <2>1, ListNewExact
<1> QED
  BY <1>1, <1>2, <1>3 DEF MutateUnit, UnitFromNew, Units

LEMMA UnitUnchanged ==
    ASSUME NEW S, NEW K, NEW Value,
           NEW from \in Units(S, K, Value), NEW to \in Units(S, K, Value),
           ~ UnitHasChanged(UnitBetween(from, to))
    PROVE  from = to
<1>1. from.state = to.state
  BY DEF UnitHasChanged, UnitBetween, DeltaBetween, ChangedTo
<1>2. from.stats = to.stats
  <2>1. PICK D, E : from.stats \in [D -> Value] /\ to.stats \in [E -> Value]
    BY DEF Units
  <2>2. ~ DictionaryHasChanged(DictionaryBetween(from.stats, to.stats))
    BY DEF UnitHasChanged, UnitBetween
  <2> QED
    BY <2>1, <2>2, DictionaryUnchanged
<1>3. from.items = to.items
  <2>1. from.items \in Seq(Value) /\ to.items \in Seq(Value)
    BY DEF Units
  <2>2. ~ ListBetween(from.items, to.items).hasChanged
    BY DEF UnitHasChanged, UnitBetween
  <2> QED
    BY <2>1, <2>2, ListUnchanged
<1> QED
  BY <1>1, <1>2, <1>3 DEF Units

\* The delta of a shard leaves out the units that have not changed, names the
\* ones removed, and gives a new unit in full: applied to the earlier shard it
\* gives the later one, provided a blank unit has no keys that a new unit lacks.
THEOREM ShardExact ==
    ASSUME NEW S, NEW K, NEW Value, NEW From, NEW To,
           NEW from \in [From -> Units(S, K, Value)],
           NEW to \in [To -> Units(S, K, Value)],
           NEW blank \in Units(S, K, Value),
           \A id \in To : DOMAIN blank.stats \subseteq DOMAIN to[id].stats
    PROVE  MutateShard(ShardBetween(from, to), from, blank) = to
<1> DEFINE delta == ShardBetween(from, to)
           result == MutateShard(delta, from, blank)
<1>1. /\ DOMAIN delta.changes \subseteq To
      /\ \A id \in To : id \in DOMAIN delta.changes
                            <=> UnitHasChanged(DeltaOfUnit(from, to, id))
      /\ \A id \in DOMAIN delta.changes : delta.changes[id] = DeltaOfUnit(from, to, id)
      /\ delta.removedKeys = From \ To
  BY DEF ShardBetween
<1>2. \A id \in To \ From : id \in DOMAIN delta.changes
  BY <1>1 DEF DeltaOfUnit, UnitHasChanged, UnitFromNew, ChangedTo
<1>3. DOMAIN result = To
  BY <1>1, <1>2 DEF MutateShard
<1>4. ASSUME NEW id \in To
      PROVE  result[id] = to[id]
  <2>1. CASE id \in From /\ id \in DOMAIN delta.changes
    <3>1. result[id] = MutateUnit(UnitBetween(from[id], to[id]), from[id])
      BY <1>1, <1>3, <2>1 DEF MutateShard, DeltaOfUnit
    <3>2. from[id] \in Units(S, K, Value) /\ to[id] \in Units(S, K, Value)
      BY <2>1
    <3> QED
      BY <3>1, <3>2, UnitExact
  <2>2. CASE id \in From /\ id \notin DOMAIN delta.changes
    <3>1. result[id] = from[id]
      BY <1>1, <1>3, <2>2 DEF MutateShard
    <3>2. from[id] \in Units(S, K, Value) /\ to[id] \in Units(S, K, Value)
      BY <2>2
    <3>3. ~ UnitHasChanged(UnitBetween(from[id], to[id]))
      BY <1>1, <2>2 DEF DeltaOfUnit
    <3> QED
      BY <3>1, <3>2, <3>3, UnitUnchanged
  <2>3. CASE id \notin From
    <3>1. id \in DOMAIN delta.changes
      BY <1>2, <2>3
    <3>2. result[id] = MutateUnit(UnitFromNew(to[id]), blank)
      BY <1>1, <1>3, <2>3, <3>1 DEF MutateShard, DeltaOfUnit
    <3>3. to[id] \in Units(S, K, Value) /\ DOMAIN blank.stats \subseteq DOMAIN to[id].stats
      OBVIOUS
    <3> QED
      BY <3>2, <3>3, UnitNewExact
  <2> QED
    BY <2>1, <2>2, <2>3
<1>5. result = [id \in To |-> result[id]]
  BY <1>3 DEF MutateShard
<1>6. to = [id \in To |-> to[id]]
  OBVIOUS
<1> QED
  BY <1>4, <1>5, <1>6
=============================================================================
