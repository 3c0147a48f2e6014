\* Four files shared by two threads, three places.
SPECIFICATION Spec
CONSTANTS
  NumFiles = 4
  NumThreads = 2
  Limit = 3
INVARIANTS
  ActiveExact
  CompletedLast
PROPERTIES
  Termination
  TransferSpec
