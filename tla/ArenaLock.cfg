\* Two users, in an arena for one, and the lock after an elimination.
SPECIFICATION ArenaSpec
CONSTANTS
  u1 = u1
  u2 = u2
  s1 = s1
  s2 = s2
  s3 = s3
  Users = {u1, u2}
  Sockets = {s1, s3}
  Owner <- MCOwner
  Weapons = {"rocket"}
  Commands = {"rocket"}
  MaxHealth = 1
  MaxShield = 0
  HealAmount = 1
  Damage <- MCDamage
  FireRate <- MCDamage
  Volley <- MCVolley
  KillsForBadge = 1
  XpSurvival = 1
  BadgeSurvival = 1
  SurvivalPeriod = 1
  ReconnectWindow = 1
  Positions = {}
  TooClose = {}
  PickupTypes = {}
  MaxBoxes = 0
  PickupLife = 0
  KillsCap = 0
  AgeCap = 0
  QueueBound = 1
  ProjectileBound = 0
  MaxPlayers = 1
  Dwell = 1
  Stale = 0
  Rearm = 1
INVARIANTS
  LockedMeansFull
