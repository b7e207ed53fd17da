\* One user, whose socket closes while the database is asked.
SPECIFICATION MapSpec
CONSTANTS
  u1 = u1
  u2 = u2
  s1 = s1
  s2 = s2
  s3 = s3
  Users = {u1}
  Sockets = {s1, s2}
  Owner <- MCOwner
  Places = {"spawn", "moved"}
  LookupBound = 1
PROPERTIES
  GhostsCleanedUp
