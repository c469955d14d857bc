\* Salts created, read and kept through crashes, by processes in turn and at once,
\* and in a directory that cannot always be read.
SPECIFICATION Spec
CONSTANTS
  d1 = d1  d2 = d2  d3 = d3
  p1 = p1  p2 = p2  p3 = p3  p4 = p4  p5 = p5
  w1 = w1  w2 = w2
  Device = {d1, d2, d3}
  Process = {p1, p2, p3, p4, p5}
  Home <- HomeOfAll
  Overlap = {d2}
  Flaky = {d3}
  Password = {w1, w2}
  Id = {x1}
  MaxDraws = 2
SYMMETRY Symmetric
INVARIANTS
  TypeOK
  VaultInv
  ReadableHere
PROPERTIES
  SaltSettles
