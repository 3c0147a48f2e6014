\* Two files and the default of --concurrency.
SPECIFICATION Spec
CONSTANTS
  NumFiles = 2
  ConcurrencyOptions = {0}
  RingSize = 2
PROPERTY DefaultTerminates
