\* Two edits in one second, one device.
SPECIFICATION Spec
CONSTANTS
  d1 = d1  d2 = d2  s1 = s1  s2 = s2
  Device = {d1}
  Session = {s1}
  Home <- HomeShared
  Skew <- NoSkew
  Overlap = FALSE
  User = {u1}
  NoUser = NoUser
  Id = {x1}
  AddTypes = {"text"}
  EmptyIsNull = FALSE
  MaxBody = 2
  MaxTime = 1
  MaxEdits = 2
  MaxFaults = 0
INVARIANTS
  CleanCopyIsTheServers
