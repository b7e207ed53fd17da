\* One tick with more than one hit on the same user.
SPECIFICATION EngineSpec
SYMMETRY Symmetry
CONSTANTS
  Users = {u1, u2}
  Sockets = {s1}
  Weapons = {"rocket", "shotgun"}
  Commands = {"rocket", "shotgun", "activateShield"}
  MaxHealth = 2
  MaxShield = 1
  HealAmount = 1
  Damage <- MCDamage
  FireRate <- MCFireRate
  Volley <- MCVolley
  KillsForBadge = 1
  XpSurvival = 1
  BadgeSurvival = 1
  SurvivalPeriod = 1
  ReconnectWindow = 1
  Positions = {}
  TooClose <- MCTooClose
  PickupTypes = {}
  MaxBoxes = 0
  PickupLife = 0
  KillsCap = 1
  AgeCap = 0
  QueueBound = 2
  ProjectileBound = 1
INVARIANTS
  EliminatedOnce
