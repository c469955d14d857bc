\* Starts and restarts, with settings edited, a database that fails, and a
\* migration cut off.
SPECIFICATION StartFairSpec
CONSTANTS
  Text <- TheText
  Path <- ThePaths
  Readable <- TheReadable
  Gives <- TheFiles
  Port = {"8080", "8081"}
  FirstEnv <- ComposeEnv
  Change <- TheChanges
  Attempts = 2
  First = 0
  Latest = 2
  MaxChanges = 2
  MaxFaults = 2
INVARIANTS
  StartTypeOK
  PhaseInv
  ServesMigrated
  TopLayerWins
PROPERTIES
  StartIsBounded
  StartEnds
  StartSucceeds
CHECK_DEADLOCK FALSE
