\* A device one block smaller than --count, two lcores, concurrency from one
\* block at a time to more than the device has.
SPECIFICATION Spec
CONSTANTS
  Count = 5
  DeviceBlocks = 4
  NumCores = 2
  ConcurrencyOptions = {0, 1, 2, 3, 6}
INVARIANTS
  BufferInBounds
  BuffersDistinct
  PopNeverWaits
  ShutdownInOrder
PROPERTIES
  Termination
  TransferSpec
