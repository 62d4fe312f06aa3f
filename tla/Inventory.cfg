\* 5 items of 3 kinds, 4 + 3 slots, 2 operations of the player
CONSTANTS
  Items <- MCItems
  EquipmentSlots <- MCEquipmentSlots
  MaxStackCount <- MCMaxStackCount
  EquippableTo <- MCEquippableTo
  Blocks <- MCBlocks
  NoSlot = NoSlot
  NoStack = NoStack
  NumSlots = 4
  InitialHoldings <- MCInitialHoldings
  Owned <- MCOwned
  DesyncTime = 1
  MaxOperations = 2
  NoCommand = NoCommand

SPECIFICATION FairSpec

INVARIANTS
  TypeOK
  ItemsConserved
  AllEquipmentFits
  StacksWithinMaximum
  DisplayIsSynchronized
  DeltasLeadToServer

PROPERTIES
  SynchronizedNeverGoesBack
  DisplaySettles

\* Everything stops when the player is done.
CHECK_DEADLOCK FALSE
