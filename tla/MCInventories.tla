--------------------------- MODULE MCInventories ---------------------------
(***************************************************************************)
(* A character with a potion that stacks and is drunk from the potion slot, *)
(* a hat and a sword that both block the potion slot, as the items of      *)
(* UnitTests.cs:569-597.                                                   *)
(***************************************************************************)
EXTENDS Inventories

MCItems == {"potion", "hat", "sword"}
MCEquipmentSlots == {"Potion", "Head", "MainHand"}
MCMaxStackCount == [potion |-> 2, hat |-> 1, sword |-> 1]
MCEquippableTo == [potion |-> "Potion", hat |-> "Head", sword |-> "MainHand"]
MCBlocks == [potion |-> {}, hat |-> {"Potion"}, sword |-> {"Potion"}]
MCOwned == [potion |-> 3, hat |-> 1, sword |-> 1]

Of(item, count) == [item |-> item, count |-> count]
Bare == [s \in EquipmentSlots |-> NoStack]

\* Full, partial and single stacks, in the inventory or equipped.
MCInitialHoldings ==
    {[items     |-> <<Of("potion", 2), Of("potion", 1), Of("hat", 1), Of("sword", 1)>>,
      equipment |-> Bare],
     [items     |-> <<Of("potion", 1), Of("potion", 1), Of("hat", 1), Of("sword", 1)>>,
      equipment |-> [Bare EXCEPT !["Potion"] = Of("potion", 1)]],
     [items     |-> <<Of("potion", 2), Of("hat", 1), Of("sword", 1), NoStack>>,
      equipment |-> [Bare EXCEPT !["Potion"] = Of("potion", 1)]],
     [items     |-> <<Of("hat", 1), NoStack, Of("potion", 1), Of("sword", 1)>>,
      equipment |-> [Bare EXCEPT !["Potion"] = Of("potion", 2)]],
     [items     |-> <<Of("hat", 1), NoStack, Of("potion", 2), Of("potion", 1)>>,
      equipment |-> [Bare EXCEPT !["MainHand"] = Of("sword", 1)]],
     [items     |-> <<Of("potion", 2), Of("potion", 1), Of("sword", 1), NoStack>>,
      equipment |-> [Bare EXCEPT !["Head"] = Of("hat", 1)]]}

\* The delta of two short lists, or dictionaries, turns the one into the other,
\* also when it is applied twice (ListDelta, DictionaryDelta).
Lists == UNION {[1..n -> {1, 2}] : n \in 0..3}
Dictionaries == UNION {[D -> {1, 2}] : D \in SUBSET {"a", "b", "c"}}

ASSUME ListDeltas ==
    \A from, to \in Lists :
        LET delta == ListBetween(from, to)
        IN  /\ MutateList(delta, from) = to
            /\ MutateList(delta, to) = to
            /\ MutateList(ListFromNew(to), from) = to

ASSUME DictionaryDeltas ==
    \A from, to \in Dictionaries :
        LET delta == DictionaryBetween(from, to)
        IN  /\ MutateDictionary(delta, from) = to
            /\ \A partial \in {d \in Dictionaries : PartlyMutated(delta, from, d)} :
                    MutateDictionary(delta, partial) = to
=============================================================================
