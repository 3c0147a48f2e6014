\* One file more than there may be metadata operations, and no --concurrency.
SPECIFICATION Spec
CONSTANTS
  NumFiles = 3
  NumCores = 1
  ConcurrencyOptions = {0}
  MaxMeta = 2
  WordSize = 16
INVARIANT MetaBound
