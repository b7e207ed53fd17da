\* Two users who may meet on the pads again and again.
SPECIFICATION DuelSpec
CONSTANTS
  u1 = u1
  u2 = u2
  u3 = u3
  s1 = s1
  s2 = s2
  s3 = s3
  Users = {u1, u2}
  NoOne = NoOne
  Sockets = {s1, s2}
  Owner <- MCOwner
  MatchIds = {m1, m2}
  Gone = Gone
  PresenceTtl = 1
  MatchDuration = 2
  CrownTtl = 2
  GoalCap = 1
INVARIANTS
  DuelTypeOK
  PadsFollowMatch
  OccupantsReal
PROPERTIES
  DuelNeedsPresence
  QuitterNotCrowned
  ImplementsDuelCycle
  PadsReopen
  SilentLosesPad
