\* Four files, a ring of two requests, from one place to one per file.
SPECIFICATION Spec
CONSTANTS
  NumFiles = 4
  ConcurrencyOptions = {1, 2, 3, 4}
  RingSize = 2
INVARIANTS
  ActiveExact
  RingSuffices
PROPERTIES
  Termination
  TransferSpec
