\* Four files on two lcores, every bound from one file at a time to all of
\* them and one more; above the metadata limit meta_count is saturated and wraps.
SPECIFICATION Spec
CONSTANTS
  NumFiles = 4
  NumCores = 2
  ConcurrencyOptions = {0, 1, 2, 3, 4, 5}
  MaxMeta = 2
  WordSize = 16
INVARIANTS
  PipelineFull
  IoOnOpenChannel
  CleanShutdown
  MetaCountExact
PROPERTIES
  Termination
  TransferSpec
