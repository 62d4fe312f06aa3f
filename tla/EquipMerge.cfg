\* the player equips once
CONSTANTS
  Items <- MCItems
  EquipmentSlots <- MCEquipmentSlots
  MaxStackCount <- MCMaxStackCount
  EquippableTo <- MCEquippableTo
  Blocks <- MCBlocks
  NoSlot = NoSlot
  NoStack = NoStack
  NumSlots = 4
  InitialHoldings <- MCInitialHoldings
  Owned <- MCOwned
  DesyncTime = 1
  MaxOperations = 1
  NoCommand = NoCommand

SPECIFICATION FairSpec

INVARIANTS
  MergeReturns

\* Everything stops when the player is done.
CHECK_DEADLOCK FALSE
