\* Logins to two accounts at any time, even during a sync; a failure; a push
\* body has room for one secret of two.
SPECIFICATION Spec
CONSTANTS
  d1 = d1  d2 = d2  s1 = s1  s2 = s2
  Device = {d1}
  Session = {s1}
  Home <- HomeShared
  Skew <- NoSkew
  Overlap = TRUE
  User = {u1, u2}
  NoUser = NoUser
  Id = {x1, x2}
  AddTypes = {"text"}
  EmptyIsNull = TRUE
  MaxBody = 1
  MaxTime = 2
  MaxEdits = 3
  MaxFaults = 1
SYMMETRY Symmetric
PROPERTIES
  RowsMoveForward
