\* Five blocks, a ring of three, groups from one at a time (or the 0 that
\* reaps nothing) to more than there are blocks.
SPECIFICATION Spec
CONSTANTS
  NumFiles = 5
  BulkOptions = {0, 1, 2, 3, 4, 6}
  RingSize = 3
INVARIANTS
  ExactlyOnce
PROPERTIES
  Termination
  TransferSpec
