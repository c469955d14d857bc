\* An owner who uses two devices in turn, the clock of one ahead: batches of two,
\* tombstones, a failure that leaves a part of a batch at the server, a lost
\* last_sync, retries and late pushes.
SPECIFICATION TurnFairSpec
CONSTANTS
  d1 = d1  d2 = d2  s1 = s1  s2 = s2
  Device = {d1, d2}
  Session = {s1, s2}
  Home <- HomeApart
  Skew <- SecondAhead
  Overlap = FALSE
  User = {u1}
  NoUser = NoUser
  Id = {x1, x2}
  AddTypes = {"text"}
  EmptyIsNull = FALSE
  MaxBody = 2
  MaxTime = 2
  MaxEdits = 2
  MaxFaults = 1
INVARIANTS
  TurnInv
  NothingIsMissed
  SyncBringsAll
PROPERTIES
  DirtyReachesServer
  DevicesConverge
