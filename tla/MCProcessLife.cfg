SPECIFICATION Spec
CONSTANTS
  s1 = s1
  s2 = s2
  s3 = s3
  s4 = s4
  Slot = {s1, s2, s3, s4}
  NULL = NULL
  MaxPid = 4
  MaxMembers = 2
  Idle = {1}
  Calls = {"fork", "exit", "waitpid", "input"}
  Kills = {}
SYMMETRY SlotSymmetry
INVARIANTS TypeOK RingOfLive CountsLive CurrentAlive PidMapFindsLive 
PROPERTIES WokenForAReason
