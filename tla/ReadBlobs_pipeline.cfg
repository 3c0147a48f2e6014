\* Stores of no blob, of one and of four on three lcores, at most two metadata
\* operations of a kind, every concurrency from one blob at a time to more than
\* the store holds.
SPECIFICATION Spec
CONSTANTS
  StoreSizes = {0, 1, 4}
  NumCores = 3
  ConcurrencyOptions = {0, 1, 3, 5}
  MaxMeta = 2
INVARIANTS
  PipelineFull
  CountsExact
  ReadNeverThrottled
  ReadsHaveChannels
  CleanShutdown
PROPERTIES
  Termination
  TransferSpec
