----------------------------- MODULE ItemStacks -----------------------------
(***************************************************************************)
(* What an operation on an inventory and an equipment inventory makes of   *)
(* them: Inventory, EquipmentInventory, CrossInventoryHelper and           *)
(* Unit.MoveItemStack (Soteo.Core), as pure operators. The server runs     *)
(* them when a unit executes a command, the client runs the same ones on   *)
(* its own copy, ahead of the server.                                      *)
(*                                                                         *)
(* An inventory is a sequence of slots, numbered from 1, an equipment      *)
(* inventory a function from the equipment slots of the unit. A slot holds *)
(* a stack, a record of an item and a positive count, or NoStack. The      *)
(* holdings of a unit are both: [items, equipment].                        *)
(***************************************************************************)
EXTENDS Integers, Sequences, FiniteSets

CONSTANTS
    Items,             \* the kinds of items
    EquipmentSlots,    \* the equipment slots of a unit
    MaxStackCount,     \* MaxStackCount[i]: how many i fill a stack
    EquippableTo,      \* EquippableTo[i]: the slot i goes to, or NoSlot
    Blocks,            \* Blocks[i]: the other slots i occupies (BlocksEquipmentSlots)
    NoSlot,            \* no equipment slot (null)
    NoStack            \* an empty slot (null)

\* An item goes to one slot and never occupies its own slot a second time.
\* Player characters have every equipment slot (EntityManager.cs:268).
ASSUME ItemsAssumption ==
    /\ MaxStackCount \in [Items -> Nat \ {0}]
    /\ EquippableTo \in [Items -> EquipmentSlots \cup {NoSlot}]
    /\ Blocks \in [Items -> SUBSET EquipmentSlots]
    /\ \A i \in Items : EquippableTo[i] \notin Blocks[i]
    /\ NoSlot \notin EquipmentSlots
    /\ IsFiniteSet(EquipmentSlots)

Stack == [item : Items, count : Nat \ {0}]

ASSUME NoStackAssumption == NoStack \notin Stack

SlotContents == Stack \cup {NoStack}

\* A null where the code returns "no remainder"; ItemStack has no count of 0.
\* Faulty variant: a stack of nothing.
StackOrNothing(item, count) == [item |-> item, count |-> count]
StackOf(item, count) ==
    IF count = 0 THEN NoStack ELSE [item |-> item, count |-> count]

FreeSpace(stack) == MaxStackCount[stack.item] - stack.count

Lesser(m, n) == IF m < n THEN m ELSE n

----------------------------------------------------------------------------
(* Inventory. *)

\* Put a stack into a slot: merge it with a stack of the same item that has
\* space and return the remainder, or replace what is there and return that.
CanMerge(existing, stack) ==
    existing # NoStack /\ existing.item = stack.item /\ FreeSpace(existing) > 0

\* Faulty variant: a merge that knows no maximum.
MergeAll(items, slot, stack) ==
    LET existing == items[slot]
    IN  IF CanMerge(existing, stack)
        THEN [items    |-> [items EXCEPT ![slot] = StackOf(stack.item, existing.count + stack.count)],
              returned |-> NoStack]
        ELSE [items    |-> [items EXCEPT ![slot] = stack],
              returned |-> existing]
PutAt(items, slot, stack) ==
    LET existing == items[slot]
        moved == Lesser(stack.count, FreeSpace(existing))
    IN  IF CanMerge(existing, stack)
        THEN [items    |-> [items EXCEPT ![slot] = StackOf(stack.item, existing.count + moved)],
              returned |-> StackOf(stack.item, stack.count - moved)]
        ELSE [items    |-> [items EXCEPT ![slot] = stack],
              returned |-> existing]

RemoveAt(slots, slot) == [slots EXCEPT ![slot] = NoStack]

\* Put back what an operation returned, if it returned anything.
\* Faulty variant: it is forgotten.
Forget(items, slot, returned) == items
PutBack(items, slot, returned) ==
    IF returned = NoStack THEN items ELSE PutAt(items, slot, returned).items

\* How much of n goes into a slot when a stack is added.
Transferred(existing, item, n) ==
    IF existing # NoStack /\ existing.item = item /\ existing.count < MaxStackCount[item]
    THEN Lesser(n, FreeSpace(existing)) ELSE 0

\* The loop of Add over the slots: left[i] is what is left of the stack after
\* slot i. There is exactly one such function.
AddLoops(items, stack) ==
    {left \in [0..Len(items) -> 0..stack.count] :
        /\ left[0] = stack.count
        /\ \A i \in 1..Len(items) :
              left[i] = left[i - 1] - Transferred(items[i], stack.item, left[i - 1])}

\* What is left then goes into the first empty slot, or is returned.
AddOutcome(items, stack, left) ==
    LET filled == [i \in 1..Len(items) |->
                      IF left[i] = left[i - 1] THEN items[i]
                      ELSE StackOf(stack.item, items[i].count + (left[i - 1] - left[i]))]
        rest == StackOf(stack.item, left[Len(items)])
        firstEmpty == {i \in 1..Len(items) :
                          filled[i] = NoStack /\ \A j \in 1..(i - 1) : filled[j] # NoStack}
    IN  IF rest = NoStack \/ firstEmpty = {}
        THEN [items |-> filled, returned |-> rest]
        ELSE [items    |-> [i \in 1..Len(items) |-> IF i \in firstEmpty THEN rest ELSE filled[i]],
              returned |-> NoStack]

AddOutcomes(items, stack) ==
    {AddOutcome(items, stack, left) : left \in AddLoops(items, stack)}

\* Unit.MoveItemStack and the client's MoveInventoryItemStack.
CanMove(holdings, from, to) ==
    from \in DOMAIN holdings.items /\ to \in DOMAIN holdings.items

Moved(holdings, from, to) ==
    LET stack == holdings.items[from]
        put == PutAt(RemoveAt(holdings.items, from), to, stack)
    IN  IF stack = NoStack THEN holdings
        ELSE [holdings EXCEPT !.items = PutBack(put.items, from, put.returned)]

----------------------------------------------------------------------------
(* EquipmentInventory. *)

BlockedSlots(equipment) ==
    UNION {Blocks[equipment[s].item] : s \in {t \in DOMAIN equipment : equipment[t] # NoStack}}

\* Faulty variant: what the new stack blocks is not asked.
RefusedBySlot(equipment, slot, stack) ==
    \/ EquippableTo[stack.item] # slot
    \/ slot \in BlockedSlots(equipment)
    \/ /\ equipment[slot] # NoStack
       /\ equipment[slot].item # stack.item \/ FreeSpace(equipment[slot]) = 0
Refused(equipment, slot, stack) ==
    \/ EquippableTo[stack.item] # slot
    \/ slot \in BlockedSlots(equipment)
    \/ \E b \in Blocks[stack.item] : equipment[b] # NoStack \/ b \in BlockedSlots(equipment)
    \/ /\ equipment[slot] # NoStack
       /\ equipment[slot].item # stack.item \/ FreeSpace(equipment[slot]) = 0

\* A stack that merges completely leaves no remainder, and building a stack
\* with the count 0 throws, after the slot was changed: "threw".
EquipmentPutAt(equipment, slot, stack) ==
    LET existing == equipment[slot]
        moved == Lesser(FreeSpace(existing), stack.count)
    IN  IF Refused(equipment, slot, stack)
        THEN [equipment |-> equipment, returned |-> stack, threw |-> FALSE]
        ELSE IF existing = NoStack
        THEN [equipment |-> [equipment EXCEPT ![slot] = stack], returned |-> NoStack, threw |-> FALSE]
        ELSE [equipment |-> [equipment EXCEPT ![slot] = StackOf(stack.item, existing.count + moved)],
              returned  |-> StackOf(stack.item, stack.count - moved),
              threw     |-> moved = stack.count]

----------------------------------------------------------------------------
(* CrossInventoryHelper. "to" may be NoSlot, or 0 for no inventory slot. *)

CanEquip(holdings, from, to) ==
    /\ from \in DOMAIN holdings.items
    /\ holdings.items[from] # NoStack
    /\ LET item == holdings.items[from].item
       IN  /\ EquippableTo[item] \in DOMAIN holdings.equipment
           /\ to \in {NoSlot, EquippableTo[item]} \cup Blocks[item]

Equipped(holdings, from) ==
    LET stack == holdings.items[from]
        left == RemoveAt(holdings.items, from)
        put == EquipmentPutAt(holdings.equipment, EquippableTo[stack.item], stack)
    IN  [threw    |-> put.threw,
         holdings |-> [items     |-> PutBack(left, from, put.returned),
                       equipment |-> put.equipment]]

CanUnequip(holdings, from, to) ==
    /\ from \in DOMAIN holdings.equipment
    /\ holdings.equipment[from] # NoStack
    /\ to # 0 =>
          /\ to \in DOMAIN holdings.items
          /\ holdings.items[to] # NoStack =>
                /\ holdings.items[to].item = holdings.equipment[from].item
                /\ FreeSpace(holdings.items[to]) # 0

\* The remainder goes back to the slot it came from. Nobody looks at what the
\* slot refuses.
UnequipOutcomes(holdings, from, to) ==
    LET stack == holdings.equipment[from]
        left == RemoveAt(holdings.equipment, from)
        puts == IF to = 0 THEN AddOutcomes(holdings.items, stack)
                ELSE {PutAt(holdings.items, to, stack)}
    IN  {[items     |-> put.items,
          equipment |-> IF put.returned = NoStack THEN left
                        ELSE EquipmentPutAt(left, from, put.returned).equipment] : put \in puts}

----------------------------------------------------------------------------
(* What holdings must be like. *)

\* An equipped stack is in the slot of its item, and no slot that an item
\* blocks is occupied or blocked by another one (EquipmentInventory.cs:33-44).
EquipmentFits(equipment) ==
    \A s \in DOMAIN equipment : equipment[s] # NoStack =>
        /\ EquippableTo[equipment[s].item] = s
        /\ \A b \in Blocks[equipment[s].item] :
              /\ equipment[b] = NoStack
              /\ \A t \in DOMAIN equipment \ {s} :
                    equipment[t] # NoStack => b \notin Blocks[equipment[t].item]

WithinMaximum(slots) ==
    \A s \in DOMAIN slots : slots[s] # NoStack => slots[s].count <= MaxStackCount[slots[s].item]
=============================================================================
