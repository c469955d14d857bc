\* One owner, one master password, two devices.
SPECIFICATION Spec
CONSTANTS
  d1 = d1  d2 = d2  d3 = d3
  p1 = p1  p2 = p2  p3 = p3  p4 = p4  p5 = p5
  w1 = w1  w2 = w2
  Device = {d1, d2}
  Process = {p1, p3}
  Home <- HomeOfTwo
  Overlap = {}
  Flaky = {}
  Password = {w1}
  Id = {x1}
  MaxDraws = 2
INVARIANTS
  ReadableEverywhere
