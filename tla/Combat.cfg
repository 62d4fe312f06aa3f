\* two enemies, a tick of 2, projectiles that fly for up to two ticks
CONSTANTS
  Units = {u1, u2}
  u1 = u1
  u2 = u2
  None = None
  TickTime = 2
  UseTime <- MCUseTime
  Cooldown <- MCCooldown
  MaxHealth = 2
  StableHealth = 1
  AttackDamage = 1
  HealthCost = 1
  Lifesteal = 1
  BleedingTime = 2
  BleedingInterval = 2
  BleedingDamage = 1
  MaxFlight = 1

SPECIFICATION FairSpec

INVARIANTS
  TypeOK
  EffectsAreEarned

PROPERTIES
  FrozenWhileRemoved
  RecallSettles
