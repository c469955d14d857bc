\* An edit pushed after another device has last synced.
SPECIFICATION FairSpec
CONSTANTS
  d1 = d1  d2 = d2  s1 = s1  s2 = s2
  Device = {d1, d2}
  Session = {s1, s2}
  Home <- HomeApart
  Skew <- NoSkew
  Overlap = FALSE
  User = {u1}
  NoUser = NoUser
  Id = {x1}
  AddTypes = {"text"}
  EmptyIsNull = FALSE
  MaxBody = 2
  MaxTime = 2
  MaxEdits = 1
  MaxFaults = 0
PROPERTIES
  DevicesConverge
