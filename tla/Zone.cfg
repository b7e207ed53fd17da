\* Two users at the door; the 30 s are a little longer than dwelling twice.
SPECIFICATION ZoneSpec
CONSTANTS
  Users = {u1, u2}
  MaxPlayers = 1
  Dwell = 2
  Stale = 1
  Rearm = 3
INVARIANTS
  ZoneTypeOK
  FlagHasTimer
  DwellIsContinuous
PROPERTIES
  TriggeredClears
  EntryResolves
