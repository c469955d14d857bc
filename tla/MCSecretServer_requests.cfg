\* Five requests of two accounts for one secret, three in progress at once.
\* A server nobody calls any more stays as it is: no deadlock.
SPECIFICATION Spec
CONSTANTS
  User = {u1, u2}
  NoUser = NoUser
  Id = {x1}
  MaxTime = 2
  MaxRequests = 5
  MaxWaiting = 3
CHECK_DEADLOCK FALSE
SYMMETRY Symmetric
INVARIANTS
  TypeOK
  ReadsAreOwn
  DeletedOncePerLife
PROPERTIES
  TombstonesHold
  ImplementsShelf
