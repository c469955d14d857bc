\* Two processes on one directory register and log in, one of them to an
\* account it has and one whose email the other wants; one kind of trouble.
SPECIFICATION LoginSpec
CONSTANTS
  p1 = p1  p2 = p2
  Text <- TheText
  Path <- ThePaths
  Readable = {}
  Gives <- TheFiles
  Port = {"8080"}
  FirstEnv <- ComposeEnv
  Change <- TheChanges
  Attempts = 1
  First = 2
  Latest = 2
  MaxChanges = 1
  MaxFaults = 1
  Process = {p1, p2}
  NoProcess = NoProcess
  Settings <- TheSettings
  Home <- TheHome
  Credential <- TheCredentials
  Norm <- TheNorm
  UserId = {1, 2}
  Ttl = 1
  MaxTime = 2
  MaxLosses = 2
INVARIANTS
  AccountsInv
  RegisteredOnce
  SessionsAreOwners
PROPERTIES
  ImplementsBook
  OwnerGetsIn
