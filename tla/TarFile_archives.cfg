\* Blocks of two bytes: files of no, a part of, exactly and more than a block,
\* long names of a block and of two; whole archives and truncated ones.
SPECIFICATION Spec
CONSTANTS
  BlockSize = 2
  Sizes = {0, 1, 2, 3}
  LongSizes = {0, 2, 3}
  MaxMembers = 2
  TailBlocks = 2
  LostBlocks = {0, 1, 2, 3, 4}
INVARIANTS
  FilesAreThose
  ReadsInside
