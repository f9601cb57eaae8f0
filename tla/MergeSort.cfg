\* the natural ordering; halves of more than two objects are split again
CONSTANTS
  SortKeys = {1, 2}
  MaxSort = 8
  MaxSet = 0
  Orders = {1}
  MergeCutoff = 2
  QuickCutoff = 2
  NineCutoff = 7

SPECIFICATION AlgSpec

INVARIANT MergeSortSorts

\* the inputs stop growing
CHECK_DEADLOCK FALSE
