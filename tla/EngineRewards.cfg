\* Rewards, pickups and the progress of the loop.
SPECIFICATION EngineSpec
CONSTANTS
  Users = {u1, u2}
  Sockets = {s1}
  Weapons = {}
  Commands = {"move"}
  MaxHealth = 1
  MaxShield = 0
  HealAmount = 1
  Damage <- MCDamage
  FireRate <- MCFireRate
  Volley <- MCVolley
  KillsForBadge = 1
  XpSurvival = 1
  BadgeSurvival = 2
  SurvivalPeriod = 2
  ReconnectWindow = 1
  Positions = {1, 2, 4}
  TooClose <- MCTooClose
  PickupTypes = {"health"}
  MaxBoxes = 2
  PickupLife = 1
  KillsCap = 1
  AgeCap = 2
  QueueBound = 2
  ProjectileBound = 0
INVARIANTS
  RewardsPaidOnce
  PickupsSpread
PROPERTIES
  InputsConsumed
  SurvivorPaid
