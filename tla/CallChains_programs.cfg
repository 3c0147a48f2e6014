CONSTANTS
  MaxFiles = 2
  MaxName = 2
  QueueSize = 3
  MaxActive = 2
SPECIFICATION Spec
INVARIANTS
  NothingMisused
  CleanExit
  HelloUnloads
  OwnLcore
  NamesKeptApart
PROPERTIES
  Termination
