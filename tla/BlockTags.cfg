\* blocks in which a bucket can hold more rotations than there are tags
CONSTANTS
  Leaf = Leaf
  MaxObject = MaxObject
  Null = Null
  Components = {"bwt"}
  BlockTags = 2
  BlockPieces = 4

SPECIFICATION Spec

INVARIANT BlocksLossless

\* the blocks stop growing
CHECK_DEADLOCK FALSE
