\* Up to four files of less than two pages: the vector grows twice while it
\* has elements.
SPECIFICATION ListSpec
CONSTANTS
  Programs = {"aio_read", "linuxaio_read"}
  FileSizes = {0, 1, 2, 3}
  MaxEntries = 4
  PageSize = 2
  Garbage = {0, 9}
INVARIANTS
  SelfIsCurrent
  AlignedParts
