\* Two devices of one owner or of two, the clock of one a second ahead, that edit
\* two secrets and another account's one, at least a second apart, and sync
\* them: blank types, batches refused half way, and a failure at any point.
SPECIFICATION SpacedOwnersSpec
CONSTANTS
  d1 = d1  d2 = d2  s1 = s1  s2 = s2
  u1 = u1  u2 = u2  x1 = x1  x2 = x2  x3 = x3
  Device = {d1, d2}
  Session = {s1, s2}
  Home <- HomeApart
  Skew <- SecondAhead
  OwnerOf <- TwoAndOne
  Overlap = FALSE
  User = {u1, u2}
  NoUser = NoUser
  Id = {x1, x2, x3}
  AddTypes = {"text", ""}
  EmptyIsNull = TRUE
  MaxBody = 2
  MaxTime = 2
  MaxEdits = 2
  MaxFaults = 1
SYMMETRY Symmetric
INVARIANTS
  TypeOK
  IInv
  OwnersInv
  DevicesHoldOwn
  CleanCopyIsTheServers
  CleanIsPublished
PROPERTIES
  PendingEditSurvives
  LocalMovesForward
  ImplementsContract
