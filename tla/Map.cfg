\* Two users on three sockets, two of them of the same user.
SPECIFICATION MapSpec
CONSTANTS
  u1 = u1
  u2 = u2
  s1 = s1
  s2 = s2
  s3 = s3
  Users = {u1, u2}
  Sockets = {s1, s2, s3}
  Owner <- MCOwner
  Places = {"spawn", "moved"}
  LookupBound = 1
INVARIANTS
  MapTypeOK
  ViewsAgree
  OnlyJoinersHidden
PROPERTIES
  HiddenSettles
  GhostsAreLateAnswers
