SPECIFICATION USpec
CONSTANTS
  s1 = s1
  s2 = s2
  s3 = s3
  s4 = s4
  s5 = s5
  Slot = {s1, s2, s3, s4}
  NULL = NULL
  MaxPid = 5
  MaxMembers = 2
  Idle = {1}
  Calls = {}
  Kills = {}


INVARIANTS WaitAnswered NoLostWakeup NeverStopped
PROPERTIES CommandsReturn
