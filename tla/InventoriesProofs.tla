------------------------- MODULE InventoriesProofs --------------------------
(***************************************************************************)
(* For every set of items, slots and rules: no sequence of operations,     *)
(* refusals, exceptions, lost or replaced commands, deltas and snapshots   *)
(* makes a stack larger than its maximum, puts an item in a slot that is   *)
(* not its own or that another one blocks, or creates or destroys an item; *)
(* and the display of the client is the synchronized copy whenever it is   *)
(* not kept apart.                                                         *)
(*                                                                         *)
(* First the operations (each keeps holdings sound, then: each moves items *)
(* and neither makes nor loses one), then the deltas, then the steps.      *)
(***************************************************************************)
EXTENDS Inventories, DeltasProofs, FiniteSetTheorems

\* A stack, or none, that is not larger than its maximum.
SoundStack(stack) ==
    /\ stack \in SlotContents
    /\ stack # NoStack => stack.count <= MaxStackCount[stack.item]

\* An inventory of a character whose stacks are within their maximum.
SoundItems(items) ==
    /\ items \in [1..NumSlots -> SlotContents]
    /\ WithinMaximum(items)

SoundEquipment(equipment) ==
    /\ equipment \in [EquipmentSlots -> SlotContents]
    /\ WithinMaximum(equipment)

Sound(holdings) ==
    /\ holdings \in AllHoldings
    /\ SoundItems(holdings.items)
    /\ SoundEquipment(holdings.equipment)

\* Sound holdings with everything equipped where it belongs.
Fit(holdings) == Sound(holdings) /\ EquipmentFits(holdings.equipment)

----------------------------------------------------------------------------
(* Stacks. *)

LEMMA StackOfSound ==
    ASSUME NEW item \in Items, NEW count \in Nat, count <= MaxStackCount[item]
    PROVE  SoundStack(StackOf(item, count))
BY NoStackAssumption DEF SoundStack, StackOf, SlotContents, Stack

LEMMA SoundContents ==
    ASSUME NEW stack, SoundStack(stack), stack # NoStack
    PROVE  /\ stack.item \in Items /\ stack.count \in Nat \ {0}
           /\ MaxStackCount[stack.item] \in Nat \ {0}
           /\ stack.count <= MaxStackCount[stack.item]
           /\ FreeSpace(stack) \in Nat
           /\ FreeSpace(stack) = MaxStackCount[stack.item] - stack.count
BY ItemsAssumption DEF SoundStack, SlotContents, Stack, FreeSpace

LEMMA SlotOfItems ==
    ASSUME NEW items, SoundItems(items), NEW slot \in 1..NumSlots
    PROVE  SoundStack(items[slot])
BY DEF SoundItems, SoundStack, WithinMaximum

LEMMA SlotOfEquipment ==
    ASSUME NEW equipment, SoundEquipment(equipment), NEW slot \in EquipmentSlots
    PROVE  SoundStack(equipment[slot])
BY DEF SoundEquipment, SoundStack, WithinMaximum

LEMMA NoStackSound == SoundStack(NoStack)
BY DEF SoundStack, SlotContents

\* A slot is given something sound.
LEMMA SetSlot ==
    ASSUME NEW items, SoundItems(items), NEW slot \in 1..NumSlots,
           NEW stack, SoundStack(stack)
    PROVE  SoundItems([items EXCEPT ![slot] = stack])
BY DEF SoundItems, SoundStack, WithinMaximum

LEMMA RemoveAtSound ==
    ASSUME NEW items, SoundItems(items), NEW slot \in 1..NumSlots
    PROVE  SoundItems(RemoveAt(items, slot))
BY SetSlot, NoStackSound DEF RemoveAt

----------------------------------------------------------------------------
(* Inventory. *)

\* PutAt keeps an inventory sound and returns something sound.
LEMMA PutAtSound ==
    ASSUME NEW items, SoundItems(items), NEW slot \in 1..NumSlots,
           NEW stack, SoundStack(stack), stack # NoStack
    PROVE  /\ SoundItems(PutAt(items, slot, stack).items)
           /\ SoundStack(PutAt(items, slot, stack).returned)
<1> DEFINE existing == items[slot]
           moved == Lesser(stack.count, FreeSpace(existing))
<1>1. SoundStack(existing)
  BY SlotOfItems
<1>2. CASE CanMerge(existing, stack)
  <2>1. existing # NoStack /\ existing.item = stack.item
    BY <1>2 DEF CanMerge
  <2>2. /\ stack.item \in Items /\ stack.count \in Nat
        /\ existing.count \in Nat /\ FreeSpace(existing) \in Nat
        /\ FreeSpace(existing) = MaxStackCount[stack.item] - existing.count
        /\ MaxStackCount[stack.item] \in Nat
        /\ stack.count <= MaxStackCount[stack.item]
    BY <1>1, <2>1, SoundContents
  <2>3. /\ moved \in Nat /\ moved <= stack.count
        /\ existing.count + moved <= MaxStackCount[stack.item]
    BY <2>2 DEF Lesser
  <2>4. SoundStack(StackOf(stack.item, existing.count + moved))
    BY <2>2, <2>3, StackOfSound
  <2>5. SoundStack(StackOf(stack.item, stack.count - moved))
    <3>1. stack.count - moved \in Nat /\ stack.count - moved <= MaxStackCount[stack.item]
      BY <2>2, <2>3
    <3> QED
      BY <2>2, <3>1, StackOfSound
  <2> QED
    BY <1>2, <2>4, <2>5, SetSlot DEF PutAt
<1>3. CASE ~ CanMerge(existing, stack)
  BY <1>1, <1>3, SetSlot DEF PutAt
<1> QED
  BY <1>2, <1>3

LEMMA PutBackSound ==
    ASSUME NEW items, SoundItems(items), NEW slot \in 1..NumSlots,
           NEW returned, SoundStack(returned)
    PROVE  SoundItems(PutBack(items, slot, returned))
BY PutAtSound DEF PutBack

\* Unit.MoveItemStack.
LEMMA MovedSound ==
    ASSUME NEW holdings, Sound(holdings),
           NEW from \in 1..NumSlots, NEW to \in 1..NumSlots
    PROVE  /\ Sound(Moved(holdings, from, to))
           /\ Fit(holdings) => Fit(Moved(holdings, from, to))
<1> DEFINE stack == holdings.items[from]
           put == PutAt(RemoveAt(holdings.items, from), to, stack)
           items == PutBack(put.items, from, put.returned)
<1>1. SoundItems(holdings.items)
  BY DEF Sound
<1>2. CASE stack = NoStack
  BY <1>2 DEF Moved
<1>3. CASE stack # NoStack
  <2>1. SoundStack(stack)
    BY <1>1, SlotOfItems
  <2>2. SoundItems(put.items) /\ SoundStack(put.returned)
    BY <1>1, <1>3, <2>1, RemoveAtSound, PutAtSound
  <2>3. SoundItems(items)
    BY <2>2, PutBackSound
  <2>4. Moved(holdings, from, to) = [holdings EXCEPT !.items = items]
    BY <1>3 DEF Moved
  <2> QED
    BY <2>3, <2>4 DEF Fit, Sound, AllHoldings, SoundItems
<1> QED
  BY <1>2, <1>3

\* What Add fills never exceeds a slot's maximum; the rest of a stack within
\* the maximum is within the maximum.
LEMMA AddSound ==
    ASSUME NEW items, SoundItems(items),
           NEW stack, SoundStack(stack), stack # NoStack,
           NEW put \in AddOutcomes(items, stack)
    PROVE  SoundItems(put.items) /\ SoundStack(put.returned)
<1>1. PICK left \in AddLoops(items, stack) : put = AddOutcome(items, stack, left)
  BY DEF AddOutcomes
<1> DEFINE filled == [i \in 1..Len(items) |->
                         IF left[i] = left[i - 1] THEN items[i]
                         ELSE StackOf(stack.item, items[i].count + (left[i - 1] - left[i]))]
           rest == StackOf(stack.item, left[Len(items)])
           firstEmpty == {i \in 1..Len(items) :
                             filled[i] = NoStack /\ \A j \in 1..(i - 1) : filled[j] # NoStack}
           withRest == [i \in 1..Len(items) |-> IF i \in firstEmpty THEN rest ELSE filled[i]]
<1>2. NumSlots \in Nat /\ Len(items) = NumSlots
  BY InventoriesAssumption DEF SoundItems
<1>3. /\ stack.item \in Items /\ stack.count \in Nat
      /\ MaxStackCount[stack.item] \in Nat /\ stack.count <= MaxStackCount[stack.item]
  BY SoundContents
<1>4. /\ \A i \in 0..NumSlots : left[i] \in 0..stack.count
      /\ \A i \in 1..NumSlots :
            left[i] = left[i - 1] - Transferred(items[i], stack.item, left[i - 1])
  BY <1>2 DEF AddLoops
<1>5. SoundStack(rest)
  <2>1. left[NumSlots] \in 0..stack.count
    BY <1>2, <1>4
  <2>2. left[NumSlots] \in Nat /\ left[NumSlots] <= MaxStackCount[stack.item]
    BY <1>3, <2>1
  <2> QED
    BY <1>2, <1>3, <2>2, StackOfSound
<1>6. ASSUME NEW i \in 1..NumSlots
      PROVE  SoundStack(filled[i])
  <2> DEFINE given == left[i - 1] - left[i]
  <2>1. SoundStack(items[i])
    BY SlotOfItems
  <2>2. CASE left[i] = left[i - 1]
    BY <1>2, <2>1, <2>2
  <2>3. CASE left[i] # left[i - 1]
    <3>1. i - 1 \in 0..NumSlots /\ i \in 0..NumSlots
      BY <1>2
    <3>2. left[i - 1] \in Nat /\ left[i] \in Nat
      BY <1>3, <1>4, <3>1
    <3>3. items[i] # NoStack /\ items[i].item = stack.item
      BY <1>4, <2>3, <3>2 DEF Transferred
    <3>4. /\ items[i].count \in Nat /\ FreeSpace(items[i]) \in Nat
          /\ FreeSpace(items[i]) = MaxStackCount[stack.item] - items[i].count
      BY <2>1, <3>3, SoundContents
    <3>5. Transferred(items[i], stack.item, left[i - 1]) \in 0..FreeSpace(items[i])
      BY <3>2, <3>4 DEF Transferred, Lesser
    <3>6. given \in 0..FreeSpace(items[i])
      BY <1>4, <3>2, <3>4, <3>5
    <3>7. /\ items[i].count + given \in Nat
          /\ items[i].count + given <= MaxStackCount[stack.item]
      BY <1>3, <3>4, <3>6
    <3>8. filled[i] = StackOf(stack.item, items[i].count + given)
      BY <1>2, <2>3
    <3> QED
      BY <1>3, <3>7, <3>8, StackOfSound
  <2> QED
    BY <2>2, <2>3
<1>7. SoundItems(filled)
  BY <1>2, <1>6 DEF SoundItems, SoundStack, WithinMaximum
<1>8. SoundItems(withRest)
  <2>1. \A i \in 1..NumSlots : SoundStack(withRest[i])
    BY <1>2, <1>5, <1>6
  <2> QED
    BY <1>2, <2>1 DEF SoundItems, SoundStack, WithinMaximum
<1>9. put = IF rest = NoStack \/ firstEmpty = {}
            THEN [items |-> filled, returned |-> rest]
            ELSE [items |-> withRest, returned |-> NoStack]
  BY <1>1 DEF AddOutcome
<1> QED
  BY <1>5, <1>7, <1>8, <1>9, NoStackSound

----------------------------------------------------------------------------
(* EquipmentInventory. *)

LEMMA RemoveEquipmentSound ==
    ASSUME NEW equipment, SoundEquipment(equipment), NEW slot \in EquipmentSlots
    PROVE  /\ SoundEquipment(RemoveAt(equipment, slot))
           /\ EquipmentFits(equipment) => EquipmentFits(RemoveAt(equipment, slot))
BY DEF SoundEquipment, RemoveAt, WithinMaximum, EquipmentFits, SlotContents

LEMMA SetEquipmentSlot ==
    ASSUME NEW equipment, SoundEquipment(equipment), NEW slot \in EquipmentSlots,
           NEW stack, SoundStack(stack)
    PROVE  SoundEquipment([equipment EXCEPT ![slot] = stack])
BY DEF SoundEquipment, SoundStack, WithinMaximum

\* A stack goes into an empty slot that is not refused.
LEMMA FilledSlotFits ==
    ASSUME NEW equipment, SoundEquipment(equipment), EquipmentFits(equipment),
           NEW slot \in EquipmentSlots,
           NEW stack, SoundStack(stack), stack # NoStack,
           ~ Refused(equipment, slot, stack), equipment[slot] = NoStack
    PROVE  EquipmentFits([equipment EXCEPT ![slot] = stack])
<1> DEFINE after == [equipment EXCEPT ![slot] = stack]
<1>1. /\ after \in [EquipmentSlots -> SlotContents]
      /\ WithinMaximum(after)
  BY DEF SoundEquipment, SoundStack, WithinMaximum
<1>2. /\ stack.item \in Items /\ EquippableTo[stack.item] = slot
      /\ slot \notin Blocks[stack.item]
  BY SoundContents, ItemsAssumption DEF Refused
<1>3. /\ slot \notin BlockedSlots(equipment)
      /\ \A b \in Blocks[stack.item] :
            equipment[b] = NoStack /\ b \notin BlockedSlots(equipment)
  BY DEF Refused
<1>4. \A t \in EquipmentSlots : equipment[t] # NoStack =>
          Blocks[equipment[t].item] \subseteq BlockedSlots(equipment)
  BY DEF BlockedSlots, SoundEquipment
<1>5. ASSUME NEW s \in EquipmentSlots, after[s] # NoStack
      PROVE  /\ EquippableTo[after[s].item] = s
             /\ \A b \in Blocks[after[s].item] :
                   /\ after[b] = NoStack
                   /\ \A t \in EquipmentSlots \ {s} :
                         after[t] # NoStack => b \notin Blocks[after[t].item]
  <2>1. CASE s = slot
    <3>1. after[s] = stack
      BY <2>1 DEF SoundEquipment
    <3>2. ASSUME NEW b \in Blocks[stack.item]
          PROVE  /\ after[b] = NoStack
                 /\ \A t \in EquipmentSlots \ {s} :
                       after[t] # NoStack => b \notin Blocks[after[t].item]
      <4>1. b \in EquipmentSlots
        BY <1>2, ItemsAssumption
      <4> QED
        BY <1>2, <1>3, <1>4, <2>1, <4>1 DEF SoundEquipment
    <3> QED
      BY <1>2, <2>1, <3>1, <3>2
  <2>2. CASE s # slot
    <3>1. after[s] = equipment[s] /\ equipment[s] # NoStack
      BY <1>5, <2>2 DEF SoundEquipment
    <3>2. equipment[s].item \in Items
      BY <3>1, SlotOfEquipment, SoundContents
    <3>3. ASSUME NEW b \in Blocks[equipment[s].item]
          PROVE  /\ after[b] = NoStack
                 /\ \A t \in EquipmentSlots \ {s} :
                       after[t] # NoStack => b \notin Blocks[after[t].item]
      <4>1. b \in EquipmentSlots /\ b \in BlockedSlots(equipment)
        BY <1>4, <3>1, <3>2, ItemsAssumption
      <4>2. /\ equipment[b] = NoStack
            /\ \A t \in EquipmentSlots \ {s} :
                  equipment[t] # NoStack => b \notin Blocks[equipment[t].item]
        BY <3>1 DEF SoundEquipment, EquipmentFits
      <4> QED
        BY <1>3, <4>1, <4>2 DEF SoundEquipment
    <3>4. EquippableTo[equipment[s].item] = s
      BY <3>1 DEF SoundEquipment, EquipmentFits
    <3> QED
      BY <3>1, <3>3, <3>4
  <2> QED
    BY <2>1, <2>2
<1> QED
  BY <1>1, <1>5 DEF EquipmentFits

\* A slot gets another count of the item it has.
LEMMA RefilledSlotFits ==
    ASSUME NEW equipment, SoundEquipment(equipment), EquipmentFits(equipment),
           NEW slot \in EquipmentSlots, equipment[slot] # NoStack,
           NEW stack, SoundStack(stack), stack # NoStack, stack.item = equipment[slot].item
    PROVE  EquipmentFits([equipment EXCEPT ![slot] = stack])
<1> DEFINE after == [equipment EXCEPT ![slot] = stack]
<1>1. /\ after \in [EquipmentSlots -> SlotContents]
      /\ WithinMaximum(after)
  BY DEF SoundEquipment, SoundStack, WithinMaximum
<1>2. \A s \in EquipmentSlots :
          /\ (after[s] = NoStack) = (equipment[s] = NoStack)
          /\ after[s] # NoStack => after[s].item = equipment[s].item
  BY DEF SoundEquipment
<1>3. \A s \in EquipmentSlots : after[s] # NoStack => Blocks[after[s].item] \subseteq EquipmentSlots
  BY <1>2, SlotOfEquipment, SoundContents, ItemsAssumption
<1> QED
  BY <1>1, <1>2, <1>3 DEF SoundEquipment, EquipmentFits

LEMMA EquipmentPutAtSound ==
    ASSUME NEW equipment, SoundEquipment(equipment), NEW slot \in EquipmentSlots,
           NEW stack, SoundStack(stack), stack # NoStack
    PROVE  /\ SoundEquipment(EquipmentPutAt(equipment, slot, stack).equipment)
           /\ EquipmentFits(equipment) =>
                 EquipmentFits(EquipmentPutAt(equipment, slot, stack).equipment)
           /\ SoundStack(EquipmentPutAt(equipment, slot, stack).returned)
           /\ EquipmentPutAt(equipment, slot, stack).threw \in BOOLEAN
<1> DEFINE existing == equipment[slot]
           moved == Lesser(FreeSpace(existing), stack.count)
<1>1. CASE Refused(equipment, slot, stack)
  BY <1>1 DEF EquipmentPutAt
<1>2. CASE ~ Refused(equipment, slot, stack) /\ existing = NoStack
  BY <1>2, SetEquipmentSlot, FilledSlotFits, NoStackSound DEF EquipmentPutAt
<1>3. CASE ~ Refused(equipment, slot, stack) /\ existing # NoStack
  <2>1. existing.item = stack.item
    BY <1>3 DEF Refused
  <2>2. SoundStack(existing)
    BY SlotOfEquipment
  <2>3. /\ stack.item \in Items /\ stack.count \in Nat
        /\ existing.count \in Nat \ {0} /\ FreeSpace(existing) \in Nat
        /\ FreeSpace(existing) = MaxStackCount[stack.item] - existing.count
        /\ MaxStackCount[stack.item] \in Nat
        /\ stack.count <= MaxStackCount[stack.item]
    BY <1>3, <2>1, <2>2, SoundContents
  <2>4. /\ moved \in Nat /\ moved <= stack.count
        /\ existing.count + moved \in Nat \ {0}
        /\ existing.count + moved <= MaxStackCount[stack.item]
        /\ stack.count - moved \in Nat
        /\ stack.count - moved <= MaxStackCount[stack.item]
    BY <2>3 DEF Lesser
  <2> DEFINE merged == StackOf(stack.item, existing.count + moved)
             rest == StackOf(stack.item, stack.count - moved)
  <2>5. SoundStack(merged) /\ SoundStack(rest)
    BY <2>3, <2>4, StackOfSound
  <2>6. merged = [item |-> stack.item, count |-> existing.count + moved]
    BY <2>4 DEF StackOf
  <2>7. merged # NoStack /\ merged.item = existing.item
    BY <2>1, <2>3, <2>4, <2>6, NoStackAssumption DEF Stack
  <2>8. /\ SoundEquipment([equipment EXCEPT ![slot] = merged])
        /\ EquipmentFits(equipment) => EquipmentFits([equipment EXCEPT ![slot] = merged])
    BY <1>3, <2>5, <2>7, SetEquipmentSlot, RefilledSlotFits
  <2> QED
    BY <1>3, <2>5, <2>8 DEF EquipmentPutAt
<1> QED
  BY <1>1, <1>2, <1>3

----------------------------------------------------------------------------
(* CrossInventoryHelper. *)

LEMMA EquippedSound ==
    ASSUME NEW holdings, Sound(holdings), NEW from, NEW to, CanEquip(holdings, from, to)
    PROVE  /\ Sound(Equipped(holdings, from).holdings)
           /\ Fit(holdings) => Fit(Equipped(holdings, from).holdings)
           /\ Equipped(holdings, from).threw \in BOOLEAN
<1> DEFINE stack == holdings.items[from]
           left == RemoveAt(holdings.items, from)
           put == EquipmentPutAt(holdings.equipment, EquippableTo[stack.item], stack)
<1>1. /\ from \in 1..NumSlots /\ stack # NoStack
      /\ EquippableTo[stack.item] \in EquipmentSlots
  BY DEF CanEquip, Sound, SoundItems, SoundEquipment
<1>2. SoundStack(stack) /\ SoundItems(left)
  BY <1>1, SlotOfItems, RemoveAtSound DEF Sound
<1>3. /\ SoundEquipment(put.equipment)
      /\ EquipmentFits(holdings.equipment) => EquipmentFits(put.equipment)
      /\ SoundStack(put.returned) /\ put.threw \in BOOLEAN
  BY <1>1, <1>2, EquipmentPutAtSound DEF Sound
<1>4. SoundItems(PutBack(left, from, put.returned))
  BY <1>1, <1>2, <1>3, PutBackSound
<1> QED
  BY <1>3, <1>4 DEF Equipped, Fit, Sound, AllHoldings, SoundItems, SoundEquipment

LEMMA UnequipSound ==
    ASSUME NEW holdings, Sound(holdings), NEW from, NEW to, CanUnequip(holdings, from, to),
           NEW outcome \in UnequipOutcomes(holdings, from, to)
    PROVE  /\ Sound(outcome)
           /\ Fit(holdings) => Fit(outcome)
<1> DEFINE stack == holdings.equipment[from]
           left == RemoveAt(holdings.equipment, from)
           puts == IF to = 0 THEN AddOutcomes(holdings.items, stack)
                   ELSE {PutAt(holdings.items, to, stack)}
<1>1. from \in EquipmentSlots /\ stack # NoStack /\ (to # 0 => to \in 1..NumSlots)
  BY DEF CanUnequip, Sound, SoundItems, SoundEquipment
<1>2. /\ SoundStack(stack) /\ SoundEquipment(left)
      /\ EquipmentFits(holdings.equipment) => EquipmentFits(left)
  BY <1>1, SlotOfEquipment, RemoveEquipmentSound DEF Sound
<1>3. PICK put \in puts :
          outcome = [items     |-> put.items,
                     equipment |-> IF put.returned = NoStack THEN left
                                   ELSE EquipmentPutAt(left, from, put.returned).equipment]
  BY DEF UnequipOutcomes
<1>4. SoundItems(put.items) /\ SoundStack(put.returned)
  BY <1>1, <1>2, <1>3, AddSound, PutAtSound DEF Sound
<1>5. CASE put.returned = NoStack
  BY <1>2, <1>3, <1>4, <1>5 DEF Fit, Sound, AllHoldings, SoundItems, SoundEquipment
<1>6. CASE put.returned # NoStack
  <2>1. /\ SoundEquipment(EquipmentPutAt(left, from, put.returned).equipment)
        /\ EquipmentFits(left) => EquipmentFits(EquipmentPutAt(left, from, put.returned).equipment)
    BY <1>1, <1>2, <1>4, <1>6, EquipmentPutAtSound
  <2> QED
    BY <1>2, <1>3, <1>4, <1>6, <2>1 DEF Fit, Sound, AllHoldings, SoundItems, SoundEquipment
<1> QED
  BY <1>5, <1>6

----------------------------------------------------------------------------
(* Counting. *)

\* A stack counts a number of each item.
LEMMA CountAtNumber ==
    ASSUME NEW stack \in SlotContents, NEW item
    PROVE  CountAt(stack, item) \in Nat
BY DEF CountAt, SlotContents, Stack

\* One slot's units are as many as its stack counts.
LEMMA SlotUnits ==
    ASSUME NEW s, NEW n \in Nat
    PROVE  IsFiniteSet({s} \X (1..n)) /\ Cardinality({s} \X (1..n)) = n
<1>1. IsFiniteSet({s}) /\ Cardinality({s}) = 1
  BY FS_Singleton
<1>2. IsFiniteSet(1..n) /\ Cardinality(1..n) = n
  BY FS_Interval
<1>3. Cardinality({s} \X (1..n)) = 1 * n
  BY <1>1, <1>2, FS_Product
<1> QED
  BY <1>1, <1>2, <1>3, FS_Product

\* Finitely many slots hold finitely many units.
LEMMA UnitsFinite ==
    ASSUME NEW D, IsFiniteSet(D), NEW slots \in [D -> SlotContents], NEW item
    PROVE  IsFiniteSet(UnitsIn(slots, item)) /\ CountIn(slots, item) \in Nat
<1> DEFINE unitsAt == [s \in D |-> {s} \X (1..CountAt(slots[s], item))]
           all == {unitsAt[s] : s \in D}
<1>1. unitsAt \in Surjection(D, all)
  BY DEF Surjection
<1>2. IsFiniteSet(all)
  BY <1>1, FS_Surjection
<1>3. \A s \in D : CountAt(slots[s], item) \in Nat
  BY CountAtNumber
<1>4. \A U \in all : IsFiniteSet(U)
  BY <1>3, SlotUnits
<1>5. UnitsIn(slots, item) = UNION all
  BY DEF UnitsIn
<1>6. IsFiniteSet(UnitsIn(slots, item))
  BY <1>2, <1>4, <1>5, FS_UNION
<1> QED
  BY <1>6, FS_CardinalityType DEF CountIn

\* What a slot is given is all that changes of the count.
LEMMA CountSet ==
    ASSUME NEW D, IsFiniteSet(D), NEW slots \in [D -> SlotContents],
           NEW slot \in D, NEW after \in [D -> SlotContents], NEW item,
           \A s \in D \ {slot} : after[s] = slots[s]
    PROVE  CountIn(after, item)
             = CountIn(slots, item) - CountAt(slots[slot], item) + CountAt(after[slot], item)
<1> DEFINE before == UnitsIn(slots, item)
           old == {slot} \X (1..CountAt(slots[slot], item))
           new == {slot} \X (1..CountAt(after[slot], item))
           rest == before \ old
<1>2. CountAt(slots[slot], item) \in Nat /\ CountAt(after[slot], item) \in Nat
  BY CountAtNumber
<1>3. /\ IsFiniteSet(old) /\ Cardinality(old) = CountAt(slots[slot], item)
      /\ IsFiniteSet(new) /\ Cardinality(new) = CountAt(after[slot], item)
  BY <1>2, SlotUnits
<1>4. IsFiniteSet(before) /\ Cardinality(before) \in Nat
  BY UnitsFinite, FS_CardinalityType
<1>5. \A u : u \in before <=>
          \E s \in D : u \in {s} \X (1..CountAt(slots[s], item))
  BY DEF UnitsIn
<1>6. \A u : u \in UnitsIn(after, item) <=>
          \E s \in D : u \in {s} \X (1..CountAt(after[s], item))
  BY DEF UnitsIn
<1>7. \A s, t, A, B : s # t => {s} \X A \cap ({t} \X B) = {}
  OBVIOUS
<1>8. \A s \in D \ {slot} : after[s] = slots[s]
  OBVIOUS
<1>10. old \subseteq before
  BY <1>5
<1>11. \A u : u \in rest <=>
          \E s \in D \ {slot} : u \in {s} \X (1..CountAt(slots[s], item))
  BY <1>5, <1>7
<1>12. UnitsIn(after, item) = rest \cup new
  BY <1>6, <1>8, <1>11
<1>13. rest \cap new = {}
  BY <1>7, <1>11
<1> HIDE DEF before, old, new
<1>14. before \cap old = old
  BY <1>10
<1>15. IsFiniteSet(rest) /\ Cardinality(rest) = Cardinality(before) - Cardinality(old)
  BY <1>4, <1>14, FS_Difference
<1>16. Cardinality(rest \cap new) = 0
  BY <1>13, FS_EmptySet
<1> HIDE DEF rest
<1>17. Cardinality(rest \cup new) = Cardinality(rest) + Cardinality(new) - Cardinality(rest \cap new)
  BY <1>3, <1>15, FS_Union
<1>18. Cardinality(UnitsIn(after, item))
          = Cardinality(before) - CountAt(slots[slot], item) + CountAt(after[slot], item)
  BY <1>2, <1>3, <1>4, <1>12, <1>15, <1>16, <1>17
<1> QED
  BY <1>18 DEF CountIn, before

\* A character has finitely many slots.
LEMMA FiniteSlots == IsFiniteSet(1..NumSlots) /\ IsFiniteSet(EquipmentSlots)
<1>1. NumSlots \in Nat
  BY InventoriesAssumption
<1> QED
  BY <1>1, FS_Interval, ItemsAssumption

\* A slot of the inventory is given something: the count changes by that.
LEMMA ItemsSet ==
    ASSUME NEW items, SoundItems(items), NEW slot \in 1..NumSlots,
           NEW stack, SoundStack(stack), NEW item
    PROVE  /\ CountIn(items, item) \in Nat
           /\ CountAt(items[slot], item) \in Nat /\ CountAt(stack, item) \in Nat
           /\ CountIn([items EXCEPT ![slot] = stack], item)
                = CountIn(items, item) - CountAt(items[slot], item) + CountAt(stack, item)
<1>1. items \in [1..NumSlots -> SlotContents] /\ stack \in SlotContents
  BY DEF SoundItems, SoundStack
<1>2. items[slot] \in SlotContents
  BY <1>1
<1>3. CountAt(items[slot], item) \in Nat /\ CountAt(stack, item) \in Nat
  BY <1>1, <1>2, CountAtNumber
<1>4. CountIn(items, item) \in Nat
  BY <1>1, FiniteSlots, UnitsFinite
<1>5. CountIn([items EXCEPT ![slot] = stack], item)
        = CountIn(items, item) - CountAt(items[slot], item) + CountAt(stack, item)
  <2>1. ASSUME NEW D, D = 1..NumSlots, NEW at \in D
        PROVE  CountIn([items EXCEPT ![at] = stack], item)
                 = CountIn(items, item) - CountAt(items[at], item) + CountAt(stack, item)
    <3> DEFINE after == [items EXCEPT ![at] = stack]
    <3>1. IsFiniteSet(D) /\ items \in [D -> SlotContents]
      BY <1>1, <2>1, FiniteSlots
    <3>2. /\ after \in [D -> SlotContents] /\ after[at] = stack
          /\ \A s \in D \ {at} : after[s] = items[s]
      BY <1>1, <2>1
    <3> HIDE DEF after
    <3>3. CountIn(after, item) = CountIn(items, item) - CountAt(items[at], item) + CountAt(after[at], item)
      BY <3>1, <3>2, CountSet
    <3> QED
      BY <3>2, <3>3 DEF after
  <2> QED
    BY <2>1, Zenon
<1> QED
  BY <1>3, <1>4, <1>5

\* The same for an equipment slot.
LEMMA EquipmentSet ==
    ASSUME NEW equipment, SoundEquipment(equipment), NEW slot \in EquipmentSlots,
           NEW stack, SoundStack(stack), NEW item
    PROVE  /\ CountIn(equipment, item) \in Nat
           /\ CountAt(equipment[slot], item) \in Nat /\ CountAt(stack, item) \in Nat
           /\ CountIn([equipment EXCEPT ![slot] = stack], item)
                = CountIn(equipment, item) - CountAt(equipment[slot], item) + CountAt(stack, item)
<1>1. equipment \in [EquipmentSlots -> SlotContents] /\ stack \in SlotContents
  BY DEF SoundEquipment, SoundStack
<1>2. equipment[slot] \in SlotContents
  BY <1>1
<1>3. CountAt(equipment[slot], item) \in Nat /\ CountAt(stack, item) \in Nat
  BY <1>1, <1>2, CountAtNumber
<1>4. CountIn(equipment, item) \in Nat
  BY <1>1, FiniteSlots, UnitsFinite
<1>5. CountIn([equipment EXCEPT ![slot] = stack], item)
        = CountIn(equipment, item) - CountAt(equipment[slot], item) + CountAt(stack, item)
  <2> DEFINE D == EquipmentSlots
             after == [equipment EXCEPT ![slot] = stack]
  <2>1. IsFiniteSet(D) /\ equipment \in [D -> SlotContents] /\ slot \in D
    BY <1>1, FiniteSlots
  <2>2. /\ after \in [D -> SlotContents] /\ after[slot] = stack
        /\ \A s \in D \ {slot} : after[s] = equipment[s]
    BY <1>1
  <2> HIDE DEF D, after
  <2>3. CountIn(after, item) = CountIn(equipment, item) - CountAt(equipment[slot], item) + CountAt(after[slot], item)
    BY <2>1, <2>2, CountSet
  <2> QED
    BY <2>2, <2>3 DEF after
<1> QED
  BY <1>3, <1>4, <1>5

\* An empty slot counts nothing.
LEMMA CountAtNone == \A item : CountAt(NoStack, item) = 0
BY DEF CountAt

LEMMA CountAtStackOf ==
    ASSUME NEW stacked \in Items, NEW count \in Nat, NEW item
    PROVE  CountAt(StackOf(stacked, count), item) = IF stacked = item THEN count ELSE 0
BY NoStackAssumption DEF CountAt, StackOf, Stack

LEMMA CountAtStack ==
    ASSUME NEW stack, SoundStack(stack), stack # NoStack, NEW item
    PROVE  CountAt(stack, item) = IF stack.item = item THEN stack.count ELSE 0
BY DEF CountAt

\* A merge splits the sum of two stacks of an item otherwise.
LEMMA MergeKeepsCount ==
    ASSUME NEW stack, SoundStack(stack), stack # NoStack,
           NEW existing, SoundStack(existing), existing # NoStack, existing.item = stack.item,
           NEW moved \in 0..stack.count, NEW item
    PROVE  CountAt(StackOf(stack.item, existing.count + moved), item)
             + CountAt(StackOf(stack.item, stack.count - moved), item)
             = CountAt(existing, item) + CountAt(stack, item)
<1>1. /\ stack.item \in Items /\ stack.count \in Nat /\ existing.count \in Nat
  BY SoundContents
<1>2. existing.count + moved \in Nat /\ stack.count - moved \in Nat
  BY <1>1
<1>3. /\ CountAt(StackOf(stack.item, existing.count + moved), item)
           = IF stack.item = item THEN existing.count + moved ELSE 0
      /\ CountAt(StackOf(stack.item, stack.count - moved), item)
           = IF stack.item = item THEN stack.count - moved ELSE 0
  BY <1>1, <1>2, CountAtStackOf
<1> QED
  BY <1>1, <1>3, CountAtStack

\* What goes into an inventory and what it returns is what was there.
LEMMA PutAtCount ==
    ASSUME NEW items, SoundItems(items), NEW slot \in 1..NumSlots,
           NEW stack, SoundStack(stack), stack # NoStack, NEW item
    PROVE  CountIn(PutAt(items, slot, stack).items, item)
             = CountIn(items, item) + CountAt(stack, item)
               - CountAt(PutAt(items, slot, stack).returned, item)
<1> DEFINE existing == items[slot]
           moved == Lesser(stack.count, FreeSpace(existing))
           merged == StackOf(stack.item, existing.count + moved)
           rest == StackOf(stack.item, stack.count - moved)
<1>1. SoundStack(existing)
  BY SlotOfItems
<1>2. CASE CanMerge(existing, stack)
  <2>1. existing # NoStack /\ existing.item = stack.item
    BY <1>2 DEF CanMerge
  <2>2. /\ stack.item \in Items /\ stack.count \in Nat
        /\ existing.count \in Nat /\ FreeSpace(existing) \in Nat
        /\ FreeSpace(existing) = MaxStackCount[stack.item] - existing.count
        /\ MaxStackCount[stack.item] \in Nat
        /\ stack.count <= MaxStackCount[stack.item]
    BY <1>1, <2>1, SoundContents
  <2>3. moved \in 0..stack.count
    BY <2>2 DEF Lesser
  <2>4. existing.count + moved \in Nat /\ existing.count + moved <= MaxStackCount[stack.item]
    BY <2>2 DEF Lesser
  <2>5. stack.count - moved \in Nat /\ stack.count - moved <= MaxStackCount[stack.item]
    BY <2>2, <2>3
  <2>6. CountAt(merged, item) + CountAt(rest, item) = CountAt(existing, item) + CountAt(stack, item)
    BY <1>1, <2>1, <2>3, MergeKeepsCount
  <2>7. SoundStack(merged) /\ SoundStack(rest)
    BY <2>2, <2>4, <2>5, StackOfSound
  <2>8. PutAt(items, slot, stack) = [items |-> [items EXCEPT ![slot] = merged], returned |-> rest]
    BY <1>2 DEF PutAt
  <2> HIDE DEF merged, rest, existing
  <2>9. /\ CountIn([items EXCEPT ![slot] = merged], item)
              = CountIn(items, item) - CountAt(existing, item) + CountAt(merged, item)
        /\ CountIn(items, item) \in Nat /\ CountAt(existing, item) \in Nat
        /\ CountAt(merged, item) \in Nat
    BY <2>7, ItemsSet DEF existing
  <2>10. CountAt(rest, item) \in Nat /\ CountAt(stack, item) \in Nat
    BY <2>7, CountAtNumber DEF SoundStack
  <2> QED
    BY <2>6, <2>8, <2>9, <2>10
<1>3. CASE ~ CanMerge(existing, stack)
  <2>1. PutAt(items, slot, stack) = [items |-> [items EXCEPT ![slot] = stack], returned |-> existing]
    BY <1>3 DEF PutAt
  <2>2. /\ CountIn([items EXCEPT ![slot] = stack], item)
              = CountIn(items, item) - CountAt(existing, item) + CountAt(stack, item)
        /\ CountIn(items, item) \in Nat /\ CountAt(existing, item) \in Nat
        /\ CountAt(stack, item) \in Nat
    BY ItemsSet
  <2> QED
    BY <2>1, <2>2
<1> QED
  BY <1>2, <1>3

\* An empty slot takes a stack as it is.
LEMMA PutIntoEmpty ==
    ASSUME NEW items, NEW slot, NEW stack, items[slot] = NoStack
    PROVE  PutAt(items, slot, stack) = [items |-> [items EXCEPT ![slot] = stack], returned |-> NoStack]
BY DEF PutAt, CanMerge

\* What is put back into an empty slot is all there.
LEMMA PutBackCount ==
    ASSUME NEW items, SoundItems(items), NEW slot \in 1..NumSlots,
           NEW returned, SoundStack(returned), NEW item,
           returned = NoStack \/ items[slot] = NoStack
    PROVE  CountIn(PutBack(items, slot, returned), item)
             = CountIn(items, item) + CountAt(returned, item)
<1>1. CountIn(items, item) \in Nat
  BY ItemsSet
<1>2. CASE returned = NoStack
  BY <1>1, <1>2, CountAtNone DEF PutBack
<1>3. CASE returned # NoStack
  <2>1. PutBack(items, slot, returned) = [items EXCEPT ![slot] = returned]
    BY <1>3, PutIntoEmpty DEF PutBack
  <2>2. CountIn([items EXCEPT ![slot] = returned], item)
          = CountIn(items, item) - CountAt(NoStack, item) + CountAt(returned, item)
    BY <1>3, ItemsSet
  <2>3. CountAt(returned, item) \in Nat
    BY CountAtNumber DEF SoundStack
  <2> QED
    BY <1>1, <2>1, <2>2, <2>3, CountAtNone
<1> QED
  BY <1>2, <1>3

\* A stack that is taken out is all that is missing.
LEMMA RemoveAtCount ==
    ASSUME NEW items, SoundItems(items), NEW slot \in 1..NumSlots, NEW item
    PROVE  /\ RemoveAt(items, slot)[slot] = NoStack
           /\ CountIn(RemoveAt(items, slot), item) = CountIn(items, item) - CountAt(items[slot], item)
           /\ CountIn(items, item) \in Nat /\ CountAt(items[slot], item) \in Nat
<1>1. CountIn([items EXCEPT ![slot] = NoStack], item)
        = CountIn(items, item) - CountAt(items[slot], item) + CountAt(NoStack, item)
  BY NoStackSound, ItemsSet
<1>2. CountIn(items, item) \in Nat /\ CountAt(items[slot], item) \in Nat
  BY NoStackSound, ItemsSet
<1>3. items \in [1..NumSlots -> SlotContents]
  BY DEF SoundItems
<1> QED
  BY <1>1, <1>2, <1>3, CountAtNone DEF RemoveAt

\* Moving a stack makes and loses nothing.
LEMMA MovedCount ==
    ASSUME NEW holdings, Sound(holdings),
           NEW from \in 1..NumSlots, NEW to \in 1..NumSlots, NEW item
    PROVE  CountHeld(Moved(holdings, from, to), item) = CountHeld(holdings, item)
<1> DEFINE stack == holdings.items[from]
           left == RemoveAt(holdings.items, from)
           put == PutAt(left, to, stack)
           items == PutBack(put.items, from, put.returned)
<1>1. SoundItems(holdings.items)
  BY DEF Sound
<1>2. CASE stack = NoStack
  BY <1>2 DEF Moved
<1>3. CASE stack # NoStack
  <2>1. SoundStack(stack)
    BY <1>1, SlotOfItems
  <2>2. SoundItems(left) /\ SoundItems(put.items) /\ SoundStack(put.returned)
    BY <1>1, <1>3, <2>1, RemoveAtSound, PutAtSound
  <2>3. /\ left[from] = NoStack
        /\ CountIn(left, item) = CountIn(holdings.items, item) - CountAt(stack, item)
        /\ CountIn(holdings.items, item) \in Nat /\ CountAt(stack, item) \in Nat
    BY <1>1, RemoveAtCount
  <2>4. CountIn(put.items, item) = CountIn(left, item) + CountAt(stack, item) - CountAt(put.returned, item)
    BY <1>3, <2>1, <2>2, PutAtCount
  <2>5. put.returned = NoStack \/ put.items[from] = NoStack
    <3>1. CASE to = from
      BY <2>3, <3>1, PutIntoEmpty
    <3>2. CASE to # from
      <4>1. \E x : put.items = [left EXCEPT ![to] = x]
        BY DEF PutAt
      <4> QED
        BY <2>3, <3>2, <4>1
    <3> QED
      BY <3>1, <3>2
  <2> HIDE DEF put, left
  <2>6. CountIn(items, item) = CountIn(put.items, item) + CountAt(put.returned, item)
    BY <2>2, <2>5, PutBackCount
  <2>7. CountAt(put.returned, item) \in Nat
    BY <2>2, CountAtNumber DEF SoundStack
  <2>8. CountIn(items, item) = CountIn(holdings.items, item)
    BY <2>3, <2>4, <2>6, <2>7
  <2>9. Moved(holdings, from, to) = [holdings EXCEPT !.items = items]
    BY <1>3 DEF Moved, put, left
  <2>10. holdings \in AllHoldings
    BY DEF Sound
  <2> QED
    BY <2>8, <2>9, <2>10 DEF CountHeld, AllHoldings
<1> QED
  BY <1>2, <1>3

----------------------------------------------------------------------------
(* What equipping and unequipping make of the count. *)

\* What goes into the equipment and what it returns is what was there, also
\* when the merge throws.
LEMMA EquipmentPutAtCount ==
    ASSUME NEW equipment, SoundEquipment(equipment), NEW slot \in EquipmentSlots,
           NEW stack, SoundStack(stack), stack # NoStack, NEW item
    PROVE  CountIn(EquipmentPutAt(equipment, slot, stack).equipment, item)
             = CountIn(equipment, item) + CountAt(stack, item)
               - CountAt(EquipmentPutAt(equipment, slot, stack).returned, item)
<1> DEFINE existing == equipment[slot]
           moved == Lesser(FreeSpace(existing), stack.count)
           merged == StackOf(stack.item, existing.count + moved)
           rest == StackOf(stack.item, stack.count - moved)
<1>1. SoundStack(existing)
  BY SlotOfEquipment
<1>2. CountIn(equipment, item) \in Nat /\ CountAt(stack, item) \in Nat
  BY EquipmentSet
<1>3. CASE Refused(equipment, slot, stack)
  BY <1>2, <1>3 DEF EquipmentPutAt
<1>4. CASE ~ Refused(equipment, slot, stack) /\ existing = NoStack
  <2>1. EquipmentPutAt(equipment, slot, stack)
          = [equipment |-> [equipment EXCEPT ![slot] = stack], returned |-> NoStack, threw |-> FALSE]
    BY <1>4 DEF EquipmentPutAt
  <2>2. CountIn([equipment EXCEPT ![slot] = stack], item)
          = CountIn(equipment, item) - CountAt(NoStack, item) + CountAt(stack, item)
    BY <1>4, EquipmentSet
  <2> QED
    BY <1>2, <2>1, <2>2, CountAtNone
<1>5. CASE ~ Refused(equipment, slot, stack) /\ existing # NoStack
  <2>1. existing.item = stack.item
    BY <1>5 DEF Refused
  <2>2. /\ stack.item \in Items /\ stack.count \in Nat
        /\ existing.count \in Nat /\ FreeSpace(existing) \in Nat
        /\ FreeSpace(existing) = MaxStackCount[stack.item] - existing.count
        /\ MaxStackCount[stack.item] \in Nat
        /\ stack.count <= MaxStackCount[stack.item]
    BY <1>1, <1>5, <2>1, SoundContents
  <2>3. moved \in 0..stack.count
    BY <2>2 DEF Lesser
  <2>4. existing.count + moved \in Nat /\ existing.count + moved <= MaxStackCount[stack.item]
    BY <2>2 DEF Lesser
  <2>5. stack.count - moved \in Nat /\ stack.count - moved <= MaxStackCount[stack.item]
    BY <2>2, <2>3
  <2>6. CountAt(merged, item) + CountAt(rest, item) = CountAt(existing, item) + CountAt(stack, item)
    BY <1>1, <1>5, <2>1, <2>3, MergeKeepsCount
  <2>7. SoundStack(merged) /\ SoundStack(rest)
    BY <2>2, <2>4, <2>5, StackOfSound
  <2>8. /\ EquipmentPutAt(equipment, slot, stack).equipment = [equipment EXCEPT ![slot] = merged]
        /\ EquipmentPutAt(equipment, slot, stack).returned = rest
    BY <1>5 DEF EquipmentPutAt
  <2> HIDE DEF merged, rest, existing
  <2>9. /\ CountIn([equipment EXCEPT ![slot] = merged], item)
              = CountIn(equipment, item) - CountAt(existing, item) + CountAt(merged, item)
        /\ CountAt(existing, item) \in Nat /\ CountAt(merged, item) \in Nat
    BY <2>7, EquipmentSet DEF existing
  <2>10. CountAt(rest, item) \in Nat
    BY <2>7, CountAtNumber DEF SoundStack
  <2> QED
    BY <1>2, <2>6, <2>8, <2>9, <2>10
<1> QED
  BY <1>3, <1>4, <1>5

\* The slot a stack was taken from takes a stack of the same item again.
LEMMA PutBackFits ==
    ASSUME NEW equipment, SoundEquipment(equipment), EquipmentFits(equipment),
           NEW slot \in EquipmentSlots, equipment[slot] # NoStack,
           NEW stack, SoundStack(stack), stack # NoStack, stack.item = equipment[slot].item
    PROVE  EquipmentPutAt(RemoveAt(equipment, slot), slot, stack).returned = NoStack
<1> DEFINE left == RemoveAt(equipment, slot)
<1>1. /\ left \in [EquipmentSlots -> SlotContents] /\ left[slot] = NoStack
      /\ \A t \in EquipmentSlots \ {slot} : left[t] = equipment[t]
  BY NoStackSound DEF RemoveAt, SoundEquipment, SoundStack
<1>2. stack.item \in Items
  BY SoundContents
<1>3. /\ EquippableTo[stack.item] = slot
      /\ \A b \in Blocks[stack.item] :
            /\ equipment[b] = NoStack
            /\ \A t \in EquipmentSlots \ {slot} :
                  equipment[t] # NoStack => b \notin Blocks[equipment[t].item]
  BY DEF EquipmentFits, SoundEquipment
<1>4. \A t \in EquipmentSlots : equipment[t] # NoStack => slot \notin Blocks[equipment[t].item]
  BY DEF EquipmentFits, SoundEquipment
<1>5. \A b : b \in BlockedSlots(left) =>
          \E t \in EquipmentSlots \ {slot} : equipment[t] # NoStack /\ b \in Blocks[equipment[t].item]
  <2>1. \A b : b \in BlockedSlots(left) =>
          \E t \in EquipmentSlots : left[t] # NoStack /\ b \in Blocks[left[t].item]
    BY <1>1 DEF BlockedSlots
  <2> QED
    BY <1>1, <2>1
<1> HIDE DEF left
<1>6. slot \notin BlockedSlots(left)
  BY <1>4, <1>5
<1>7. \A b \in Blocks[stack.item] : b \in EquipmentSlots /\ b # slot
  BY <1>2, <1>3, ItemsAssumption
<1>8. \A b \in Blocks[stack.item] : left[b] = NoStack /\ b \notin BlockedSlots(left)
  BY <1>1, <1>3, <1>5, <1>7
<1>9. ~ Refused(left, slot, stack)
  BY <1>1, <1>3, <1>6, <1>8 DEF Refused
<1> QED
  BY <1>1, <1>9 DEF EquipmentPutAt, left

\* Equipping makes and loses nothing, refused, merged or thrown.
LEMMA EquippedCount ==
    ASSUME NEW holdings, Sound(holdings), NEW from, NEW to, CanEquip(holdings, from, to), NEW item
    PROVE  CountHeld(Equipped(holdings, from).holdings, item) = CountHeld(holdings, item)
<1> DEFINE stack == holdings.items[from]
           left == RemoveAt(holdings.items, from)
           put == EquipmentPutAt(holdings.equipment, EquippableTo[stack.item], stack)
<1>1. /\ from \in 1..NumSlots /\ stack # NoStack
      /\ EquippableTo[stack.item] \in EquipmentSlots
  BY DEF CanEquip, Sound, SoundItems, SoundEquipment
<1>2. /\ SoundStack(stack) /\ SoundItems(left) /\ SoundItems(holdings.items)
      /\ SoundEquipment(holdings.equipment)
  BY <1>1, SlotOfItems, RemoveAtSound DEF Sound
<1>3. SoundStack(put.returned) /\ SoundEquipment(put.equipment)
  BY <1>1, <1>2, EquipmentPutAtSound
<1>4. /\ left[from] = NoStack
      /\ CountIn(left, item) = CountIn(holdings.items, item) - CountAt(stack, item)
      /\ CountIn(holdings.items, item) \in Nat /\ CountAt(stack, item) \in Nat
  BY <1>1, <1>2, RemoveAtCount
<1>5. CountIn(put.equipment, item)
        = CountIn(holdings.equipment, item) + CountAt(stack, item) - CountAt(put.returned, item)
  BY <1>1, <1>2, EquipmentPutAtCount
<1>6. CountIn(PutBack(left, from, put.returned), item) = CountIn(left, item) + CountAt(put.returned, item)
  BY <1>1, <1>2, <1>3, <1>4, PutBackCount
<1>7. CountIn(holdings.equipment, item) \in Nat /\ CountAt(put.returned, item) \in Nat
  BY <1>1, <1>2, <1>3, EquipmentSet, CountAtNumber DEF SoundStack
<1>8. Equipped(holdings, from).holdings
        = [items |-> PutBack(left, from, put.returned), equipment |-> put.equipment]
  BY DEF Equipped
<1> HIDE DEF put, left, stack
<1> QED
  BY <1>4, <1>5, <1>6, <1>7, <1>8 DEF CountHeld

Smaller == {pair \in Nat \X Nat : pair[1] < pair[2]}

LEMMA SmallerIsWellFounded == IsWellFoundedOn(Smaller, Nat)
BY NatLessThanWellFounded DEF OpToRel, Smaller

\* A set of numbers has a least one.
LEMMA LeastOf ==
    ASSUME NEW S \in SUBSET Nat, S # {}
    PROVE  \E x \in S : \A y \in S : x <= y
<1>1. PICK x \in S : \A y \in S : ~ (<<y, x>> \in Smaller)
  BY SmallerIsWellFounded, WFMin
<1>2. ASSUME NEW y \in S PROVE x <= y
  <2>1. x \in Nat /\ y \in Nat /\ <<y, x>> \in Nat \X Nat
    OBVIOUS
  <2>2. <<y, x>>[1] = y /\ <<y, x>>[2] = x
    OBVIOUS
  <2>3. y < x => <<y, x>> \in Smaller
    BY <2>1, <2>2 DEF Smaller
  <2> QED
    BY <1>1, <2>1, <2>3
<1> QED
  BY <1>2

\* Slot after slot, what a stack loses is what the inventory gains.
LEMMA FilledCount ==
    ASSUME NEW items, SoundItems(items),
           NEW filled, SoundItems(filled),
           NEW lost, NEW item,
           \A k \in 0..NumSlots : lost[k] \in Nat,
           \A k \in 1..NumSlots : CountAt(filled[k], item) + lost[k] = CountAt(items[k], item) + lost[k - 1]
    PROVE  CountIn(filled, item) + lost[NumSlots] = CountIn(items, item) + lost[0]
<1> DEFINE upTo(k) == [i \in 1..NumSlots |-> IF i <= k THEN filled[i] ELSE items[i]]
           Wrong == {k \in 0..NumSlots :
                        CountIn(upTo(k), item) + lost[k] # CountIn(items, item) + lost[0]}
<1>1. NumSlots \in Nat
  BY InventoriesAssumption
<1>2. /\ items \in [1..NumSlots -> SlotContents] /\ filled \in [1..NumSlots -> SlotContents]
      /\ WithinMaximum(items) /\ WithinMaximum(filled)
  BY DEF SoundItems
<1>3. upTo(0) = items
  BY <1>1, <1>2
<1>4. upTo(NumSlots) = filled
  BY <1>1, <1>2
<1>5. \A k \in 0..NumSlots : SoundItems(upTo(k))
  BY <1>1, <1>2 DEF SoundItems, WithinMaximum
<1>6. ASSUME Wrong # {}
      PROVE  FALSE
  <2>1. Wrong \in SUBSET Nat
    BY <1>1
  <2>2. PICK m \in Wrong : \A k \in Wrong : m <= k
    BY <1>6, <2>1, LeastOf
  <2>3. m \in 0..NumSlots /\ CountIn(upTo(m), item) + lost[m] # CountIn(items, item) + lost[0]
    BY <2>2
  <2>4. m # 0
    BY <1>3, <2>3
  <2>5. m \in 1..NumSlots /\ m - 1 \in 0..NumSlots
    BY <1>1, <2>3, <2>4
  <2>6. CountIn(upTo(m - 1), item) + lost[m - 1] = CountIn(items, item) + lost[0]
    BY <2>2, <2>5
  <2> DEFINE before == upTo(m - 1)
             after == upTo(m)
  <2>7. after = [before EXCEPT ![m] = filled[m]] /\ before[m] = items[m]
    <3>1. \A i \in 1..NumSlots : (i <= m) = (i <= m - 1 \/ i = m)
      BY <1>1, <2>5
    <3>2. DOMAIN after = 1..NumSlots /\ DOMAIN before = 1..NumSlots
      OBVIOUS
    <3>3. \A i \in 1..NumSlots : after[i] = IF i = m THEN filled[m] ELSE before[i]
      BY <3>1
    <3>4. before[m] = items[m]
      BY <1>1, <2>5
    <3>5. after = [i \in 1..NumSlots |-> after[i]] /\ before = [i \in 1..NumSlots |-> before[i]]
      OBVIOUS
    <3> HIDE DEF after, before
    <3> QED
      BY <2>5, <3>2, <3>3, <3>4, <3>5
  <2>8. SoundItems(before) /\ SoundStack(filled[m])
    BY <1>5, <2>5, SlotOfItems
  <2> HIDE DEF before, after
  <2>9. /\ CountIn(before, item) \in Nat /\ CountAt(before[m], item) \in Nat
        /\ CountAt(filled[m], item) \in Nat
        /\ CountIn([before EXCEPT ![m] = filled[m]], item)
             = CountIn(before, item) - CountAt(before[m], item) + CountAt(filled[m], item)
    BY <2>5, <2>8, ItemsSet
  <2>10. /\ lost[m] \in Nat /\ lost[m - 1] \in Nat
         /\ CountAt(filled[m], item) + lost[m] = CountAt(items[m], item) + lost[m - 1]
    BY <2>3, <2>5
  <2>11. CountIn(after, item) = CountIn(before, item) - CountAt(items[m], item) + CountAt(filled[m], item)
    BY <2>7, <2>9
  <2>12. CountIn(after, item) + lost[m] = CountIn(before, item) + lost[m - 1]
    <3>1. CountAt(items[m], item) \in Nat
      BY <2>7, <2>9
    <3>2. CountIn(before, item) \in Nat /\ CountAt(filled[m], item) \in Nat
      BY <2>9
    <3>3. PICK n \in Nat, p \in Nat : lost[m] = n /\ lost[m - 1] = p
      BY <2>10
    <3>4. CountAt(filled[m], item) + n = CountAt(items[m], item) + p
      BY <2>10, <3>3
    <3>5. CountIn(after, item) + n = CountIn(before, item) + p
      BY <2>11, <3>1, <3>2, <3>4
    <3> QED
      BY <3>3, <3>5
  <2> QED
    BY <2>3, <2>6, <2>12 DEF before, after
<1>7. NumSlots \notin Wrong
  BY <1>6
<1> QED
  BY <1>1, <1>4, <1>7

\* What Add puts into slots and what it returns is what was there.
LEMMA AddCount ==
    ASSUME NEW items, SoundItems(items),
           NEW stack, SoundStack(stack), stack # NoStack,
           NEW put \in AddOutcomes(items, stack), NEW item
    PROVE  /\ CountIn(put.items, item)
                = CountIn(items, item) + CountAt(stack, item) - CountAt(put.returned, item)
           /\ put.returned # NoStack => put.returned.item = stack.item
<1>1. PICK left \in AddLoops(items, stack) : put = AddOutcome(items, stack, left)
  BY DEF AddOutcomes
<1> DEFINE filled == [i \in 1..Len(items) |->
                         IF left[i] = left[i - 1] THEN items[i]
                         ELSE StackOf(stack.item, items[i].count + (left[i - 1] - left[i]))]
           rest == StackOf(stack.item, left[Len(items)])
           firstEmpty == {i \in 1..Len(items) :
                             filled[i] = NoStack /\ \A j \in 1..(i - 1) : filled[j] # NoStack}
           withRest == [i \in 1..Len(items) |-> IF i \in firstEmpty THEN rest ELSE filled[i]]
           lost == [k \in 0..NumSlots |-> IF stack.item = item THEN left[k] ELSE 0]
<1>2. NumSlots \in Nat /\ Len(items) = NumSlots
  BY InventoriesAssumption DEF SoundItems
<1>3. /\ stack.item \in Items /\ stack.count \in Nat
      /\ MaxStackCount[stack.item] \in Nat /\ stack.count <= MaxStackCount[stack.item]
  BY SoundContents
<1>4. /\ \A i \in 0..NumSlots : left[i] \in 0..stack.count
      /\ left[0] = stack.count
      /\ \A i \in 1..NumSlots :
            left[i] = left[i - 1] - Transferred(items[i], stack.item, left[i - 1])
  BY <1>2 DEF AddLoops
<1>5. SoundStack(rest) /\ CountAt(rest, item) = lost[NumSlots]
  <2>1. left[NumSlots] \in 0..stack.count
    BY <1>2, <1>4
  <2>2. left[NumSlots] \in Nat /\ left[NumSlots] <= MaxStackCount[stack.item]
    BY <1>3, <2>1
  <2> QED
    BY <1>2, <1>3, <2>2, StackOfSound, CountAtStackOf
<1>6. \A k \in 0..NumSlots : lost[k] \in Nat
  BY <1>3, <1>4
<1>7. ASSUME NEW i \in 1..NumSlots
      PROVE  /\ SoundStack(filled[i])
             /\ CountAt(filled[i], item) + lost[i] = CountAt(items[i], item) + lost[i - 1]
  <2> DEFINE given == left[i - 1] - left[i]
  <2>1. SoundStack(items[i])
    BY SlotOfItems
  <2>2. CASE left[i] = left[i - 1]
    <3>1. i - 1 \in 0..NumSlots /\ i \in 0..NumSlots
      BY <1>2
    <3> QED
      BY <1>2, <2>1, <2>2, <3>1
  <2>3. CASE left[i] # left[i - 1]
    <3>1. i - 1 \in 0..NumSlots /\ i \in 0..NumSlots
      BY <1>2
    <3>2. left[i - 1] \in Nat /\ left[i] \in Nat
      BY <1>3, <1>4, <3>1
    <3>3. items[i] # NoStack /\ items[i].item = stack.item
      BY <1>4, <2>3, <3>2 DEF Transferred
    <3>4. /\ items[i].count \in Nat /\ FreeSpace(items[i]) \in Nat
          /\ FreeSpace(items[i]) = MaxStackCount[stack.item] - items[i].count
      BY <2>1, <3>3, SoundContents
    <3>5. Transferred(items[i], stack.item, left[i - 1]) \in 0..FreeSpace(items[i])
      BY <3>2, <3>4 DEF Transferred, Lesser
    <3>6. given \in 0..FreeSpace(items[i])
      BY <1>4, <3>2, <3>4, <3>5
    <3>7. /\ items[i].count + given \in Nat
          /\ items[i].count + given <= MaxStackCount[stack.item]
      BY <1>3, <3>4, <3>6
    <3>8. filled[i] = StackOf(stack.item, items[i].count + given)
      BY <1>2, <2>3
    <3>9. SoundStack(filled[i])
      BY <1>3, <3>7, <3>8, StackOfSound
    <3>10. CountAt(filled[i], item) = IF stack.item = item THEN items[i].count + given ELSE 0
      BY <1>3, <3>7, <3>8, CountAtStackOf
    <3>11. CountAt(items[i], item) = IF stack.item = item THEN items[i].count ELSE 0
      BY <3>3 DEF CountAt
    <3>12. /\ lost[i] = IF stack.item = item THEN left[i] ELSE 0
           /\ lost[i - 1] = IF stack.item = item THEN left[i - 1] ELSE 0
      BY <3>1
    <3> QED
      BY <3>2, <3>4, <3>9, <3>10, <3>11, <3>12
  <2> QED
    BY <2>2, <2>3
<1>8. SoundItems(filled)
  BY <1>2, <1>7 DEF SoundItems, SoundStack, WithinMaximum
<1>9. lost[0] = CountAt(stack, item)
  BY <1>2, <1>4, CountAtStack
<1>10. put = IF rest = NoStack \/ firstEmpty = {}
             THEN [items |-> filled, returned |-> rest]
             ELSE [items |-> withRest, returned |-> NoStack]
  BY <1>1 DEF AddOutcome
<1>11. rest # NoStack => rest.item = stack.item
  BY DEF StackOf
<1>12. DOMAIN filled = 1..NumSlots
  BY <1>2
<1>13. \A i \in firstEmpty : i \in 1..NumSlots /\ filled[i] = NoStack
  BY <1>2
<1>14. ASSUME NEW e \in firstEmpty
       PROVE  withRest = [filled EXCEPT ![e] = rest]
  <2>1. ASSUME NEW i \in firstEmpty
        PROVE  i = e
    <3>1. i \in 1..NumSlots /\ e \in 1..NumSlots
      BY <1>13
    <3>2. filled[i] = NoStack /\ filled[e] = NoStack
      BY <1>13
    <3>3. (\A j \in 1..(i - 1) : filled[j] # NoStack) /\ (\A j \in 1..(e - 1) : filled[j] # NoStack)
      OBVIOUS
    <3>4. e \notin 1..(i - 1) /\ i \notin 1..(e - 1)
      BY <3>2, <3>3
    <3> QED
      BY <3>1, <3>4
  <2>2. firstEmpty = {e}
    BY <2>1
  <2>3. withRest = [i \in 1..NumSlots |-> IF i = e THEN rest ELSE filled[i]]
    BY <1>2, <2>2
  <2> HIDE DEF filled, withRest
  <2> QED
    BY <1>12, <2>3
<1> HIDE DEF filled, rest, withRest, firstEmpty, lost
<1>15. CountIn(filled, item) + lost[NumSlots] = CountIn(items, item) + lost[0]
  BY <1>6, <1>7, <1>8, FilledCount
<1>16. CountIn(filled, item) \in Nat /\ CountIn(items, item) \in Nat
  BY <1>8, FiniteSlots, UnitsFinite DEF SoundItems
<1>17. CountAt(stack, item) \in Nat /\ CountAt(rest, item) \in Nat
  BY <1>5, CountAtNumber DEF SoundStack
<1>18. CASE rest = NoStack \/ firstEmpty = {}
  BY <1>5, <1>9, <1>10, <1>11, <1>15, <1>16, <1>17, <1>18
<1>19. CASE rest # NoStack /\ firstEmpty # {}
  <2>1. PICK e \in firstEmpty : TRUE
    BY <1>19
  <2>2. e \in 1..NumSlots /\ filled[e] = NoStack /\ withRest = [filled EXCEPT ![e] = rest]
    BY <1>13, <1>14
  <2>3. CountIn([filled EXCEPT ![e] = rest], item)
          = CountIn(filled, item) - CountAt(filled[e], item) + CountAt(rest, item)
    <3>1. e \in 1..NumSlots /\ SoundStack(rest)
      BY <1>5, <2>2
    <3> QED
      BY <1>8, <3>1, ItemsSet
  <2>4. put.items = withRest /\ put.returned = NoStack
    BY <1>10, <1>19
  <2>5. CountIn(withRest, item) = CountIn(filled, item) + CountAt(rest, item)
    BY <1>16, <1>17, <2>2, <2>3, CountAtNone
  <2> QED
    BY <1>5, <1>9, <1>15, <1>16, <1>17, <2>4, <2>5, CountAtNone
<1> QED
  BY <1>18, <1>19

\* A slot that is empty, or can be merged with, returns some of the stack.
LEMMA PutAtReturns ==
    ASSUME NEW items, NEW slot, NEW stack,
           items[slot] # NoStack =>
               items[slot].item = stack.item /\ FreeSpace(items[slot]) > 0,
           PutAt(items, slot, stack).returned # NoStack
    PROVE  PutAt(items, slot, stack).returned.item = stack.item
BY DEF PutAt, CanMerge, StackOf

\* What comes back from the inventory fits in the slot it was taken from: the
\* equipment, where nobody looks at what the slot refuses, takes it.
LEMMA UnequipCount ==
    ASSUME NEW holdings, Sound(holdings), EquipmentFits(holdings.equipment),
           NEW from, NEW to, CanUnequip(holdings, from, to),
           NEW outcome \in UnequipOutcomes(holdings, from, to), NEW item
    PROVE  CountHeld(outcome, item) = CountHeld(holdings, item)
<1> DEFINE stack == holdings.equipment[from]
           left == RemoveAt(holdings.equipment, from)
           puts == IF to = 0 THEN AddOutcomes(holdings.items, stack)
                   ELSE {PutAt(holdings.items, to, stack)}
<1>1. from \in EquipmentSlots /\ stack # NoStack /\ (to # 0 => to \in 1..NumSlots)
  BY DEF CanUnequip, Sound, SoundItems, SoundEquipment
<1>2. /\ SoundItems(holdings.items) /\ SoundEquipment(holdings.equipment)
      /\ SoundStack(stack) /\ SoundEquipment(left)
  BY <1>1, SlotOfEquipment, RemoveEquipmentSound DEF Sound
<1>3. PICK put \in puts :
          outcome = [items     |-> put.items,
                     equipment |-> IF put.returned = NoStack THEN left
                                   ELSE EquipmentPutAt(left, from, put.returned).equipment]
  BY DEF UnequipOutcomes
<1>4. SoundItems(put.items) /\ SoundStack(put.returned)
  BY <1>1, <1>2, <1>3, AddSound, PutAtSound
<1>5. /\ CountIn(put.items, item)
           = CountIn(holdings.items, item) + CountAt(stack, item) - CountAt(put.returned, item)
      /\ put.returned # NoStack => put.returned.item = stack.item
  <2>1. CASE to = 0
    BY <1>1, <1>2, <1>3, <2>1, AddCount
  <2>2. CASE to # 0
    <3>1. put = PutAt(holdings.items, to, stack) /\ to \in 1..NumSlots
      BY <1>1, <1>3, <2>2
    <3>2. holdings.items[to] # NoStack =>
             holdings.items[to].item = stack.item /\ FreeSpace(holdings.items[to]) # 0
      BY <2>2 DEF CanUnequip
    <3>3. holdings.items[to] # NoStack => FreeSpace(holdings.items[to]) \in Nat
      BY <1>2, <3>1, SlotOfItems, SoundContents
    <3>4. holdings.items[to] # NoStack =>
             holdings.items[to].item = stack.item /\ FreeSpace(holdings.items[to]) > 0
      BY <3>2, <3>3
    <3> QED
      BY <1>1, <1>2, <3>1, <3>4, PutAtCount, PutAtReturns
  <2> QED
    BY <2>1, <2>2
<1>6. CountIn(left, item) = CountIn(holdings.equipment, item) - CountAt(stack, item)
  BY <1>1, <1>2, NoStackSound, EquipmentSet, CountAtNone DEF RemoveAt
<1>7. /\ CountIn(holdings.items, item) \in Nat /\ CountIn(holdings.equipment, item) \in Nat
      /\ CountAt(stack, item) \in Nat /\ CountAt(put.returned, item) \in Nat
  BY <1>2, <1>4, FiniteSlots, UnitsFinite, CountAtNumber DEF SoundItems, SoundEquipment, SoundStack
<1>8. CASE put.returned = NoStack
  <2>1. CountHeld(outcome, item) = CountIn(put.items, item) + CountIn(left, item)
    BY <1>3, <1>8 DEF CountHeld
  <2>2. CountAt(put.returned, item) = 0
    BY <1>8, CountAtNone
  <2> QED
    BY <1>5, <1>6, <1>7, <2>1, <2>2 DEF CountHeld
<1>9. CASE put.returned # NoStack
  <2> DEFINE again == EquipmentPutAt(left, from, put.returned)
  <2>1. again.returned = NoStack
    BY <1>1, <1>2, <1>4, <1>5, <1>9, PutBackFits
  <2>2. CountIn(again.equipment, item)
          = CountIn(left, item) + CountAt(put.returned, item) - CountAt(again.returned, item)
    BY <1>1, <1>2, <1>4, <1>9, EquipmentPutAtCount
  <2>3. CountHeld(outcome, item) = CountIn(put.items, item) + CountIn(again.equipment, item)
    BY <1>3, <1>9 DEF CountHeld
  <2> HIDE DEF again
  <2>4. CountAt(again.returned, item) = 0
    BY <2>1, CountAtNone
  <2> QED
    BY <1>5, <1>6, <1>7, <2>2, <2>3, <2>4 DEF CountHeld
<1> QED
  BY <1>8, <1>9

\* Fit holdings with every item the character owns.
Whole(holdings) ==
    /\ Fit(holdings)
    /\ \A i \in Items : CountHeld(holdings, i) = Owned[i]

\* So each operation keeps sound, fit and whole holdings what they are.
LEMMA MovedWhole ==
    ASSUME NEW holdings, Sound(holdings),
           NEW from \in 1..NumSlots, NEW to \in 1..NumSlots
    PROVE  /\ Sound(Moved(holdings, from, to))
           /\ Whole(holdings) => Whole(Moved(holdings, from, to))
BY MovedSound, MovedCount DEF Whole

LEMMA EquippedWhole ==
    ASSUME NEW holdings, Sound(holdings), NEW from, NEW to, CanEquip(holdings, from, to)
    PROVE  /\ Sound(Equipped(holdings, from).holdings)
           /\ Whole(holdings) => Whole(Equipped(holdings, from).holdings)
           /\ Equipped(holdings, from).threw \in BOOLEAN
BY EquippedSound, EquippedCount DEF Whole

LEMMA UnequipWhole ==
    ASSUME NEW holdings, Sound(holdings), NEW from, NEW to, CanUnequip(holdings, from, to),
           NEW outcome \in UnequipOutcomes(holdings, from, to)
    PROVE  /\ Sound(outcome)
           /\ Whole(holdings) => Whole(outcome)
BY UnequipSound, UnequipCount DEF Whole, Fit

----------------------------------------------------------------------------
(* Deltas. *)

\* Holdings are a list of slots and a dictionary of equipment slots.
LEMMA HoldingsShape ==
    ASSUME NEW holdings \in AllHoldings
    PROVE  /\ holdings.items \in Seq(SlotContents)
           /\ holdings.items \in [1..NumSlots -> SlotContents]
           /\ Len(holdings.items) = NumSlots /\ NumSlots \in Nat
           /\ holdings.equipment \in [EquipmentSlots -> SlotContents]
           /\ holdings = [items |-> holdings.items, equipment |-> holdings.equipment]
BY InventoriesAssumption DEF AllHoldings

\* A delta turns the holdings it was made from into those it was made for,
\* also when it was applied to them before.
LEMMA WithDeltaExact ==
    ASSUME NEW from \in AllHoldings, NEW to \in AllHoldings
    PROVE  /\ WithDelta(from, HoldingsDelta(from, to)) = to
           /\ WithDelta(to, HoldingsDelta(from, to)) = to
<1> DEFINE items == ListBetween(from.items, to.items)
           equipment == DictionaryBetween(from.equipment, to.equipment)
<1>1. MutateList(items, from.items) = to.items /\ MutateList(items, to.items) = to.items
  BY HoldingsShape, ListExact, ListAppliedTwice
<1>2. MutateDictionary(equipment, from.equipment) = to.equipment
  BY HoldingsShape, DictionaryExact
<1>3. MutateDictionary(equipment, to.equipment) = to.equipment
  BY HoldingsShape, SameKeysAppliedTwice
<1>4. to = [items |-> to.items, equipment |-> to.equipment]
  BY HoldingsShape
<1> QED
  BY <1>1, <1>2, <1>3, <1>4 DEF WithDelta, HoldingsDelta

\* On any other sound holdings it at least gives sound ones: every slot is one
\* of the two.
LEMMA WithDeltaSound ==
    ASSUME NEW holdings, Sound(holdings), NEW from, Sound(from), NEW to, Sound(to)
    PROVE  Sound(WithDelta(holdings, HoldingsDelta(from, to)))
<1> DEFINE items == MutateList(ListBetween(from.items, to.items), holdings.items)
           equipment == MutateDictionary(DictionaryBetween(from.equipment, to.equipment),
                                         holdings.equipment)
<1>1. /\ from \in AllHoldings /\ to \in AllHoldings /\ holdings \in AllHoldings
      /\ SoundItems(to.items) /\ SoundItems(holdings.items)
      /\ SoundEquipment(to.equipment) /\ SoundEquipment(holdings.equipment)
  BY DEF Sound
<1>2. /\ DOMAIN items = 1..NumSlots
      /\ items = [i \in 1..NumSlots |-> items[i]]
      /\ \A i \in 1..NumSlots : items[i] \in {to.items[i], holdings.items[i]}
  BY <1>1, HoldingsShape DEF MutateList, ListBetween
<1>3. \A i \in 1..NumSlots : SoundStack(items[i])
  BY <1>1, <1>2, SlotOfItems
<1>4. SoundItems(items)
  BY <1>2, <1>3 DEF SoundItems, SoundStack, WithinMaximum
<1>5. /\ DOMAIN equipment = EquipmentSlots
      /\ equipment = [s \in EquipmentSlots |-> equipment[s]]
      /\ \A s \in EquipmentSlots : equipment[s] \in {to.equipment[s], holdings.equipment[s]}
  BY <1>1, HoldingsShape DEF MutateDictionary, DictionaryBetween
<1>6. \A s \in EquipmentSlots : SoundStack(equipment[s])
  BY <1>1, <1>5, SlotOfEquipment
<1>7. SoundEquipment(equipment)
  BY <1>5, <1>6 DEF SoundEquipment, SoundStack, WithinMaximum
<1> QED
  BY <1>4, <1>7 DEF WithDelta, HoldingsDelta, Sound, AllHoldings, SoundItems, SoundEquipment

----------------------------------------------------------------------------
(* The inductive invariant. *)

Commands == {c \in   [type : {"MoveItemStack"}, from : 1..NumSlots, to : 1..NumSlots]
                \cup [type : {"Equip"}, from : 1..NumSlots]
                \cup [type : {"Unequip"}, equipmentSlot : EquipmentSlots, to : 0..NumSlots] :
                IsCommand(c)}

DeltasOfHoldings ==
    {HoldingsDelta(from, to) : from \in {h \in AllHoldings : Whole(h)},
                               to \in {h \in AllHoldings : Whole(h)}}

\* TypeOK, with sequences as sequences.
Typed ==
    /\ command = NoCommand \/ IsCommand(command)
    /\ commands \in Seq(Commands)
    /\ deferred \in Seq(Commands)
    /\ deltas \in Seq(DeltasOfHoldings)
    /\ desync \in 0..DesyncTime
    /\ operations \in 0..MaxOperations
    /\ commandThrew \in BOOLEAN
    /\ diverged \in BOOLEAN

HoldingsAreSound ==
    /\ Whole(server)
    /\ Whole(synchronized)
    /\ Sound(displayed)
    /\ ~ diverged => Whole(displayed)

IInv ==
    /\ Typed
    /\ HoldingsAreSound
    /\ DisplayIsSynchronized
    /\ DeltasLeadToServer

LEMMA DeltaMember ==
    ASSUME NEW delta \in DeltasOfHoldings
    PROVE  /\ Whole(delta.from) /\ delta.from \in AllHoldings
           /\ Whole(delta.to) /\ delta.to \in AllHoldings
           /\ delta = HoldingsDelta(delta.from, delta.to)
BY DEF DeltasOfHoldings, HoldingsDelta

LEMMA InitIInv == Init => IInv
<1> SUFFICES ASSUME Init PROVE IInv
  OBVIOUS
<1>1. server \in AllHoldings
  BY InventoriesAssumption DEF Init
<1>2. Whole(server)
  <2>1. Fit(server)
    BY <1>1, InventoriesAssumption
    DEF Init, Fit, Sound, SoundItems, SoundEquipment, AllHoldings
  <2>2. \A i \in Items : CountHeld(server, i) = Owned[i]
    BY InventoriesAssumption DEF Init
  <2> QED
    BY <2>1, <2>2 DEF Whole
<1>3. Typed
  <2>1. commands \in Seq(Commands) /\ deferred \in Seq(Commands) /\ deltas \in Seq(DeltasOfHoldings)
    BY DEF Init
  <2>2. desync \in 0..DesyncTime /\ operations \in 0..MaxOperations
    BY InventoriesAssumption DEF Init
  <2> QED
    BY <2>1, <2>2 DEF Init, Typed
<1>4. HoldingsAreSound
  BY <1>2 DEF Init, HoldingsAreSound, Whole, Fit
<1> QED
  BY <1>3, <1>4 DEF Init, IInv, DisplayIsSynchronized, DeltasLeadToServer

----------------------------------------------------------------------------
(* What the player does. *)

\* The display stays sound and is kept apart.
LEMMA OperateInvariant ==
    ASSUME IInv, operations < MaxOperations,
           NEW holdings, Sound(holdings), Whole(displayed) => Whole(holdings),
           NEW order, IsCommand(order), Operate(holdings, order)
    PROVE  IInv'
<1>1. order \in Commands
  BY DEF Commands, IsCommand
<1>2. Typed'
  BY <1>1, InventoriesAssumption DEF IInv, Typed, Operate, serverVars
<1>3. HoldingsAreSound'
  BY DEF IInv, HoldingsAreSound, Operate, serverVars, Whole, Fit, Sound, SoundItems, SoundEquipment
<1>4. DisplayIsSynchronized'
  BY InventoriesAssumption DEF DisplayIsSynchronized, Operate
<1>5. DeltasLeadToServer'
  BY DEF IInv, DeltasLeadToServer, Operate, serverVars
<1> QED
  BY <1>2, <1>3, <1>4, <1>5 DEF IInv

LEMMA MoveInvariant ==
    ASSUME IInv, NEW from \in 1..NumSlots, NEW to \in 1..NumSlots,
           MoveInventoryItemStack(from, to)
    PROVE  IInv'
<1> DEFINE order == [type |-> "MoveItemStack", from |-> from, to |-> to]
<1>1. IsCommand(order)
  BY DEF IsCommand
<1>2. /\ Sound(Moved(displayed, from, to))
      /\ Whole(displayed) => Whole(Moved(displayed, from, to))
  BY MovedWhole DEF IInv, HoldingsAreSound
<1> QED
  BY <1>1, <1>2, OperateInvariant DEF MoveInventoryItemStack

LEMMA EquipInvariant ==
    ASSUME IInv, NEW from \in 1..NumSlots, NEW to \in EquipmentSlots \cup {NoSlot},
           EquipFromHud(from, to)
    PROVE  IInv'
<1> DEFINE order == [type |-> "Equip", from |-> from]
           equipped == Equipped(displayed, from)
<1>1. IsCommand(order)
  BY DEF IsCommand
<1>2. /\ Sound(equipped.holdings)
      /\ Whole(displayed) => Whole(equipped.holdings)
  BY EquippedWhole DEF IInv, HoldingsAreSound, EquipFromHud
<1>3. CASE equipped.threw
  <2>1. /\ displayed' = equipped.holdings /\ diverged' = TRUE
        /\ operations' = operations + 1 /\ operations < MaxOperations
        /\ UNCHANGED <<serverVars, commands, deferred, deltas, synchronized, desync>>
    BY <1>3 DEF EquipFromHud
  <2>2. Typed'
    BY <2>1, InventoriesAssumption DEF IInv, Typed, serverVars
  <2>3. HoldingsAreSound'
    BY <1>2, <2>1 DEF IInv, HoldingsAreSound, serverVars
  <2>4. DisplayIsSynchronized' /\ DeltasLeadToServer'
    BY <2>1 DEF IInv, DisplayIsSynchronized, DeltasLeadToServer, serverVars
  <2> QED
    BY <2>2, <2>3, <2>4 DEF IInv
<1>4. CASE ~ equipped.threw
  BY <1>1, <1>2, <1>4, OperateInvariant DEF EquipFromHud
<1> QED
  BY <1>3, <1>4

LEMMA UnequipInvariant ==
    ASSUME IInv, NEW from \in EquipmentSlots, NEW to \in 0..NumSlots,
           UnequipFromHud(from, to)
    PROVE  IInv'
<1> DEFINE order == [type |-> "Unequip", equipmentSlot |-> from, to |-> to]
<1>1. IsCommand(order)
  BY DEF IsCommand
<1>2. PICK holdings \in UnequipOutcomes(displayed, from, to) : Operate(holdings, order)
  BY DEF UnequipFromHud
<1>3. Sound(holdings) /\ (Whole(displayed) => Whole(holdings))
  BY UnequipWhole DEF IInv, HoldingsAreSound, UnequipFromHud
<1> QED
  BY <1>1, <1>2, <1>3, OperateInvariant DEF UnequipFromHud

----------------------------------------------------------------------------
(* What the shard server does. *)

\* Whatever a command was made for, what it does keeps what the unit holds
\* sound and everything equipped where it belongs.
LEMMA ExecutionFits ==
    ASSUME Whole(server), IsCommand(command), NEW outcome \in ExecutionOutcomes
    PROVE  Whole(outcome.holdings) /\ outcome.threw \in BOOLEAN
<1>1. CASE command.type = "MoveItemStack" /\ CanMove(server, command.from, command.to)
  <2>1. outcome = [holdings |-> Moved(server, command.from, command.to), threw |-> FALSE]
    BY <1>1 DEF ExecutionOutcomes
  <2>2. command.from \in 1..NumSlots /\ command.to \in 1..NumSlots
    BY <1>1 DEF IsCommand
  <2> QED
    BY <2>1, <2>2, MovedWhole DEF Whole, Fit
<1>2. CASE command.type = "Equip" /\ CanEquip(server, command.from, NoSlot)
  <2>1. outcome = Equipped(server, command.from)
    BY <1>2 DEF ExecutionOutcomes
  <2> QED
    BY <1>2, <2>1, EquippedWhole DEF Whole, Fit
<1>3. CASE command.type = "Unequip" /\ CanUnequip(server, command.equipmentSlot, command.to)
  <2>1. PICK h \in UnequipOutcomes(server, command.equipmentSlot, command.to) :
            outcome = [holdings |-> h, threw |-> FALSE]
    BY <1>3 DEF ExecutionOutcomes
  <2> QED
    BY <1>3, <2>1, UnequipWhole DEF Whole, Fit
<1>4. CASE /\ ~ (command.type = "MoveItemStack" /\ CanMove(server, command.from, command.to))
           /\ ~ (command.type = "Equip" /\ CanEquip(server, command.from, NoSlot))
           /\ ~ (command.type = "Unequip" /\ CanUnequip(server, command.equipmentSlot, command.to))
  <2>1. outcome = [holdings |-> server, threw |-> FALSE]
    BY <1>4 DEF ExecutionOutcomes
  <2> QED
    BY <2>1
<1> QED
  BY <1>1, <1>2, <1>3, <1>4

LEMMA TickInvariant ==
    ASSUME IInv, Tick
    PROVE  IInv'
<1>1. PICK outcome \in ExecutionOutcomes :
        /\ server' = outcome.holdings
        /\ commandThrew' = (commandThrew \/ outcome.threw)
        /\ command' = NoCommand
        /\ deltas' = IF server' = server THEN deltas
                     ELSE Append(deltas, HoldingsDelta(server, server'))
        /\ UNCHANGED <<commands, deferred, clientVars, operations>>
  BY DEF Tick
<1>2. Whole(server')
  BY <1>1, ExecutionFits DEF IInv, Typed, HoldingsAreSound, Tick
<1>3. outcome.threw \in BOOLEAN
  BY <1>1, ExecutionFits DEF IInv, Typed, HoldingsAreSound, Tick
<1>4. commandThrew' \in BOOLEAN
  BY <1>1
<1>5. deltas' \in Seq(DeltasOfHoldings)
  <2>1. server \in {h \in AllHoldings : Whole(h)} /\ server' \in {h \in AllHoldings : Whole(h)}
    BY <1>2 DEF IInv, HoldingsAreSound, Whole, Fit, Sound
  <2>2. HoldingsDelta(server, server') \in DeltasOfHoldings
    BY <2>1 DEF DeltasOfHoldings
  <2> QED
    BY <1>1, <2>2 DEF IInv, Typed
<1>6. Typed'
  BY <1>1, <1>4, <1>5 DEF IInv, Typed, clientVars
<1>7. HoldingsAreSound'
  BY <1>1, <1>2 DEF IInv, HoldingsAreSound, clientVars
<1>8. DisplayIsSynchronized'
  BY <1>1 DEF IInv, DisplayIsSynchronized, clientVars
<1>9. DeltasLeadToServer'
  <2>1. CASE server' = server
    BY <1>1, <2>1 DEF IInv, DeltasLeadToServer, clientVars
  <2>2. CASE server' # server
    <3> DEFINE delta == HoldingsDelta(server, server')
    <3>1. delta.from = server /\ delta.to = server'
      BY DEF HoldingsDelta
    <3>2. deltas' = Append(deltas, delta) /\ synchronized' = synchronized
      BY <1>1, <2>2 DEF clientVars
    <3>3. deltas \in Seq(DeltasOfHoldings)
      BY DEF IInv, Typed
    <3> HIDE DEF delta
    <3>4. CASE deltas = <<>>
      BY <3>1, <3>2, <3>4 DEF IInv, DeltasLeadToServer
    <3>5. CASE deltas # <<>>
      <4>1. /\ Len(deltas) \in Nat \ {0} /\ Len(deltas') = Len(deltas) + 1
            /\ deltas'[Len(deltas')] = delta
            /\ \A k \in 1..Len(deltas) : deltas'[k] = deltas[k]
        BY <3>2, <3>3, <3>5
      <4>2. /\ synchronized \in {deltas[1].from, deltas[1].to}
            /\ deltas[Len(deltas)].to = server
            /\ \A k \in 1..(Len(deltas) - 1) : deltas[k].to = deltas[k + 1].from
        BY <3>5 DEF IInv, DeltasLeadToServer
      <4>3. ASSUME NEW k \in 1..(Len(deltas') - 1)
            PROVE  deltas'[k].to = deltas'[k + 1].from
        <5>1. CASE k = Len(deltas)
          BY <3>1, <4>1, <4>2, <5>1
        <5>2. CASE k # Len(deltas)
          <6>1. k \in 1..(Len(deltas) - 1) /\ k + 1 \in 1..Len(deltas)
            BY <4>1, <5>2
          <6> QED
            BY <4>1, <4>2, <6>1
        <5> QED
          BY <5>1, <5>2
      <4>4. synchronized' \in {deltas'[1].from, deltas'[1].to}
        BY <3>2, <4>1, <4>2
      <4>5. deltas'[Len(deltas')].to = server'
        BY <3>1, <4>1
      <4>6. deltas' # <<>>
        BY <4>1
      <4> QED
        BY <4>3, <4>4, <4>5, <4>6 DEF DeltasLeadToServer
    <3> QED
      BY <3>4, <3>5
  <2> QED
    BY <2>1, <2>2
<1> QED
  BY <1>6, <1>7, <1>8, <1>9 DEF IInv

\* A command that is received, deferred or replaced changes no holdings.
LEMMA CommandInvariant ==
    ASSUME IInv, ReceiveCommand \/ DeferCommand \/ HandleDeferred \/ ReplaceCommand
    PROVE  IInv'
<1>1. UNCHANGED <<server, commandThrew, deltas, clientVars, operations>>
  BY DEF ReceiveCommand, DeferCommand, HandleDeferred, ReplaceCommand, serverVars
<1>2. Typed'
  <2>1. \A queue \in Seq(Commands) : queue # <<>> =>
            /\ Head(queue) \in Commands /\ Tail(queue) \in Seq(Commands)
            /\ IsCommand(Head(queue))
    BY DEF Commands
  <2>2. CASE ReceiveCommand
    BY <1>1, <2>1, <2>2 DEF ReceiveCommand, SetCommand, IInv, Typed, clientVars
  <2>3. CASE DeferCommand
    BY <1>1, <2>1, <2>3 DEF DeferCommand, IInv, Typed, clientVars, serverVars
  <2>4. CASE HandleDeferred
    BY <1>1, <2>1, <2>4 DEF HandleDeferred, SetCommand, IInv, Typed, clientVars
  <2>5. CASE ReplaceCommand
    BY <1>1, <2>5 DEF ReplaceCommand, IInv, Typed, clientVars
  <2> QED
    BY <2>2, <2>3, <2>4, <2>5
<1>3. HoldingsAreSound'
  BY <1>1 DEF IInv, HoldingsAreSound, clientVars
<1>4. DisplayIsSynchronized' /\ DeltasLeadToServer'
  BY <1>1 DEF IInv, DisplayIsSynchronized, DeltasLeadToServer, clientVars
<1> QED
  BY <1>2, <1>3, <1>4 DEF IInv

----------------------------------------------------------------------------
(* What the client does. *)

\* The synchronized copy takes the state the delta was made for, and so does a
\* display that is not kept apart.
LEMMA TakeDeltaSound ==
    ASSUME IInv, deltas # <<>>, TakeDelta(Head(deltas)), diverged' = diverged, desync' = desync
    PROVE  /\ synchronized' = deltas[1].to
           /\ Whole(synchronized')
           /\ Sound(displayed')
           /\ ~ diverged => Whole(displayed')
           /\ DisplayIsSynchronized'
<1> DEFINE delta == Head(deltas)
<1>1. delta = deltas[1] /\ delta \in DeltasOfHoldings
  BY DEF IInv, Typed
<1>2. synchronized \in {delta.from, delta.to}
  BY <1>1 DEF IInv, DeltasLeadToServer
<1> HIDE DEF delta
<1>3. /\ Whole(delta.from) /\ delta.from \in AllHoldings
      /\ Whole(delta.to) /\ delta.to \in AllHoldings
      /\ delta = HoldingsDelta(delta.from, delta.to)
  BY <1>1, DeltaMember
<1>4. WithDelta(synchronized, delta) = delta.to
  BY <1>2, <1>3, WithDeltaExact
<1>5. /\ synchronized' = WithDelta(synchronized, delta)
      /\ displayed' = IF desync = 0 THEN WithDelta(displayed, delta) ELSE displayed
  BY DEF TakeDelta, delta
<1>6. Sound(WithDelta(displayed, delta))
  BY <1>3, WithDeltaSound DEF IInv, HoldingsAreSound, Whole, Fit
<1>7. desync = 0 /\ ~ diverged => WithDelta(displayed, delta) = delta.to
  BY <1>4 DEF IInv, DisplayIsSynchronized
<1>8. Sound(displayed') /\ (~ diverged => Whole(displayed'))
  BY <1>3, <1>5, <1>6, <1>7 DEF IInv, HoldingsAreSound
<1>9. DisplayIsSynchronized'
  BY <1>4, <1>5, <1>7 DEF DisplayIsSynchronized
<1> QED
  BY <1>1, <1>3, <1>4, <1>5, <1>8, <1>9

LEMMA FullDeltaInvariant ==
    ASSUME IInv, ApplyFullDelta
    PROVE  IInv'
<1>1. /\ deltas # <<>> /\ TakeDelta(Head(deltas)) /\ deltas' = Tail(deltas)
      /\ UNCHANGED <<serverVars, commands, deferred, desync, diverged, operations>>
  BY DEF ApplyFullDelta
<1>2. /\ synchronized' = deltas[1].to
      /\ Whole(synchronized') /\ Sound(displayed') /\ (~ diverged => Whole(displayed'))
      /\ DisplayIsSynchronized'
  BY <1>1, TakeDeltaSound
<1>3. deltas \in Seq(DeltasOfHoldings)
  BY DEF IInv, Typed
<1>4. /\ deltas' \in Seq(DeltasOfHoldings)
      /\ Len(deltas') = Len(deltas) - 1 /\ Len(deltas) \in Nat \ {0}
      /\ \A k \in 1..(Len(deltas) - 1) : deltas'[k] = deltas[k + 1]
  BY <1>1, <1>3
<1>5. Typed'
  BY <1>1, <1>4 DEF IInv, Typed, serverVars
<1>6. HoldingsAreSound'
  BY <1>1, <1>2 DEF IInv, HoldingsAreSound, serverVars
<1>7. /\ deltas[Len(deltas)].to = server
      /\ \A k \in 1..(Len(deltas) - 1) : deltas[k].to = deltas[k + 1].from
  BY <1>1 DEF IInv, DeltasLeadToServer
<1>8. DeltasLeadToServer'
  <2>1. CASE deltas' = <<>>
    <3>1. Len(deltas) = 1
      BY <1>4, <2>1
    <3> QED
      BY <1>1, <1>2, <1>7, <2>1, <3>1 DEF DeltasLeadToServer, serverVars
  <2>2. CASE deltas' # <<>>
    <3>1. Len(deltas) > 1
      BY <1>4, <2>2
    <3>2. synchronized' = deltas'[1].from
      BY <1>2, <1>4, <1>7, <3>1
    <3>3. deltas'[Len(deltas')].to = server'
      BY <1>1, <1>4, <1>7, <3>1 DEF serverVars
    <3>4. ASSUME NEW k \in 1..(Len(deltas') - 1)
          PROVE  deltas'[k].to = deltas'[k + 1].from
      <4>1. k \in 1..(Len(deltas) - 1) /\ k + 1 \in 1..(Len(deltas) - 1)
        BY <1>4
      <4> QED
        BY <1>4, <1>7, <4>1
    <3> QED
      BY <2>2, <3>2, <3>3, <3>4 DEF DeltasLeadToServer
  <2> QED
    BY <2>1, <2>2
<1> QED
  BY <1>2, <1>5, <1>6, <1>8 DEF IInv

LEMMA PartialDeltaInvariant ==
    ASSUME IInv, ApplyPartialDelta
    PROVE  IInv'
<1>1. /\ deltas # <<>> /\ TakeDelta(Head(deltas))
      /\ UNCHANGED <<serverVars, commands, deferred, deltas, desync, diverged, operations>>
  BY DEF ApplyPartialDelta
<1>2. /\ synchronized' = deltas[1].to
      /\ Whole(synchronized') /\ Sound(displayed') /\ (~ diverged => Whole(displayed'))
      /\ DisplayIsSynchronized'
  BY <1>1, TakeDeltaSound
<1>3. Typed'
  BY <1>1 DEF IInv, Typed, serverVars
<1>4. HoldingsAreSound'
  BY <1>1, <1>2 DEF IInv, HoldingsAreSound, serverVars
<1>5. DeltasLeadToServer'
  BY <1>1, <1>2 DEF IInv, DeltasLeadToServer, serverVars
<1> QED
  BY <1>2, <1>3, <1>4, <1>5 DEF IInv

LEMMA SnapshotInvariant ==
    ASSUME IInv, ReplicateSnapshot
    PROVE  IInv'
<1>1. diverged' \in BOOLEAN
  BY DEF ReplicateSnapshot
<1>2. Typed'
  BY <1>1 DEF IInv, Typed, ReplicateSnapshot, serverVars
<1>3. HoldingsAreSound'
  BY DEF IInv, Typed, HoldingsAreSound, ReplicateSnapshot, serverVars, Whole, Fit
<1>4. DisplayIsSynchronized' /\ DeltasLeadToServer'
  BY DEF IInv, Typed, DisplayIsSynchronized, DeltasLeadToServer, ReplicateSnapshot, serverVars
<1> QED
  BY <1>2, <1>3, <1>4 DEF IInv

LEMMA ProcessInvariant ==
    ASSUME IInv, Process
    PROVE  IInv'
<1>1. diverged' \in BOOLEAN
  BY DEF Process
<1>2. Typed'
  BY <1>1, InventoriesAssumption DEF IInv, Typed, Process, serverVars
<1>3. HoldingsAreSound'
  BY InventoriesAssumption DEF IInv, Typed, HoldingsAreSound, Process, serverVars, Whole, Fit
<1>4. DisplayIsSynchronized' /\ DeltasLeadToServer'
  BY InventoriesAssumption
  DEF IInv, Typed, DisplayIsSynchronized, DeltasLeadToServer, Process, serverVars
<1> QED
  BY <1>2, <1>3, <1>4 DEF IInv

----------------------------------------------------------------------------
(* The theorems. *)

LEMMA NextInvariant == IInv /\ [Next]_vars => IInv'
<1> SUFFICES ASSUME IInv, [Next]_vars PROVE IInv'
  OBVIOUS
<1>1. CASE Player
  BY <1>1, MoveInvariant, EquipInvariant, UnequipInvariant DEF Player
<1>2. CASE ReceiveCommand \/ DeferCommand \/ HandleDeferred \/ ReplaceCommand
  BY <1>2, CommandInvariant
<1>3. CASE Tick
  BY <1>3, TickInvariant
<1>4. CASE ApplyFullDelta
  BY <1>4, FullDeltaInvariant
<1>5. CASE ApplyPartialDelta
  BY <1>5, PartialDeltaInvariant
<1>6. CASE ReplicateSnapshot
  BY <1>6, SnapshotInvariant
<1>7. CASE Process
  BY <1>7, ProcessInvariant
<1>8. CASE UNCHANGED vars
  BY <1>8 DEF vars, serverVars, clientVars, IInv, Typed, HoldingsAreSound,
     DisplayIsSynchronized, DeltasLeadToServer, Whole, Fit, Sound, SoundItems, SoundEquipment
<1> QED
  BY <1>1, <1>2, <1>3, <1>4, <1>5, <1>6, <1>7, <1>8 DEF Next

LEMMA Invariance == Spec => []IInv
<1>1. Init => IInv
  BY InitIInv
<1>2. IInv /\ [Next]_vars => IInv'
  BY NextInvariant
<1> QED
  BY <1>1, <1>2, PTL DEF Spec

\* Commands, deltas and holdings have their types for every character.
THEOREM TypesAreCorrect == Spec => []TypeOK
<1>1. IInv => TypeOK
  <2> SUFFICES ASSUME IInv PROVE TypeOK
    OBVIOUS
  <2>1. {server, synchronized, displayed} \subseteq AllHoldings
    BY DEF IInv, HoldingsAreSound, Whole, Fit, Sound
  <2>2. \A queue \in {commands, deferred} : \A k \in DOMAIN queue : IsCommand(queue[k])
    BY DEF IInv, Typed, Commands
  <2>3. \A k \in DOMAIN deltas : deltas[k] \in DeltasOfHoldings
    BY DEF IInv, Typed
  <2>4. \A k \in DOMAIN deltas :
            /\ {deltas[k].from, deltas[k].to} \subseteq AllHoldings
            /\ deltas[k] = HoldingsDelta(deltas[k].from, deltas[k].to)
    BY <2>3, DeltaMember
  <2>5. {commandThrew, diverged} \subseteq BOOLEAN
    BY DEF IInv, Typed
  <2> QED
    BY <2>1, <2>2, <2>4, <2>5 DEF IInv, Typed, TypeOK
<1> QED
  BY <1>1, Invariance, PTL

\* Whatever the player orders and however the orders, deltas and snapshots
\* travel, the unit, the copy of its client and a display that no exception
\* left behind hold every item it was spawned with and no other, for every set
\* of items and slots (CrossInventoryHelper.cs, Unit.cs:504-518,
\* UnitPuppet.cs:98-158).
THEOREM ItemsAreConserved == Spec => []ItemsConserved
<1>1. IInv => ItemsConserved
  <2> SUFFICES ASSUME IInv, NEW holdings \in Copies
      PROVE  \A i \in Items : CountHeld(holdings, i) = Owned[i]
    BY DEF ItemsConserved
  <2>1. Whole(holdings)
    BY DEF IInv, HoldingsAreSound, Copies
  <2> QED
    BY <2>1 DEF Whole
<1> QED
  BY <1>1, Invariance, PTL

\* No equipped item is in a slot that is not its own or that another one blocks,
\* whatever the items and slots are (EquipmentInventory.cs:33-79).
THEOREM EquipmentAlwaysFits == Spec => []AllEquipmentFits
<1>1. IInv => AllEquipmentFits
  BY DEF IInv, HoldingsAreSound, Whole, Fit, AllEquipmentFits, Copies
<1> QED
  BY <1>1, Invariance, PTL

\* No stack becomes larger than its maximum (Inventory.cs:57,
\* EquipmentInventory.cs:48).
THEOREM StacksStayWithinMaximum == Spec => []StacksWithinMaximum
<1>1. IInv => StacksWithinMaximum
  BY DEF IInv, HoldingsAreSound, Whole, Fit, Sound, SoundItems, SoundEquipment, StacksWithinMaximum
<1> QED
  BY <1>1, Invariance, PTL

\* The display of a client that is not kept apart shows the synchronized copy
\* (UnitPuppet.cs:112-116, 213-224).
THEOREM DisplayShowsSynchronized == Spec => []DisplayIsSynchronized
<1>1. IInv => DisplayIsSynchronized
  BY DEF IInv
<1> QED
  BY <1>1, Invariance, PTL

\* However many deltas are under way, and with the first one applied or not,
\* they lead from the copy of the client to the holdings of the server.
THEOREM DeltasAlwaysLeadToServer == Spec => []DeltasLeadToServer
<1>1. IInv => DeltasLeadToServer
  BY DEF IInv
<1> QED
  BY <1>1, Invariance, PTL

\* The synchronized copy only ever becomes the next state of the server's
\* holdings, or the present one.
THEOREM SynchronizedAdvances == Spec => SynchronizedNeverGoesBack
<1> DEFINE Advances ==
      synchronized' # synchronized =>
          \/ deltas # <<>> /\ synchronized' = deltas[1].to
          \/ synchronized' = server
<1>1. IInv /\ [Next]_vars => [Advances]_vars
  <2> SUFFICES ASSUME IInv, Next PROVE Advances
    OBVIOUS
  <2>1. CASE Player
    BY <2>1 DEF Player, MoveInventoryItemStack, EquipFromHud, UnequipFromHud, Operate
  <2>2. CASE ReceiveCommand \/ DeferCommand \/ HandleDeferred \/ ReplaceCommand \/ Tick \/ Process
    BY <2>2 DEF ReceiveCommand, DeferCommand, HandleDeferred, ReplaceCommand, Tick, Process, clientVars
  <2>3. CASE ApplyFullDelta \/ ApplyPartialDelta
    BY <2>3, TakeDeltaSound DEF ApplyFullDelta, ApplyPartialDelta
  <2>4. CASE ReplicateSnapshot
    BY <2>4 DEF ReplicateSnapshot
  <2> QED
    BY <2>1, <2>2, <2>3, <2>4 DEF Next
<1> QED
  BY <1>1, Invariance, PTL DEF Spec, SynchronizedNeverGoesBack
=============================================================================
