\* Two files for aio_read_files.
SPECIFICATION ListSpec
CONSTANTS
  Programs = {"aio_read"}
  FileSizes = {1}
  MaxEntries = 2
  PageSize = 2
  Garbage = {0, 9}
INVARIANT EveryOwnPart
