SPECIFICATION Spec
CONSTANTS
  s1 = s1
  s2 = s2
  s3 = s3
  s4 = s4
  Slot = {s1, s2, s3}
  NULL = NULL
  MaxPid = 2
  MaxMembers = 2
  Idle = {1}
  Calls = {"fork"}
  Kills <- KillsTerm
PROPERTIES SignalHitsTarget
