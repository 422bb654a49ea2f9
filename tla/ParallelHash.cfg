\* Two application processors; inputs of one to three blocks, the last one whole
\* or not; the three ways of dispatching.
SPECIFICATION FairSpec
CONSTANTS
  AP = {a1, a2}
  BSP = bsp
  Lengths = {0, 1, 4, 5}
  BlockSizes = {0, 2}
INVARIANTS
  CombinesWholeDigests
  FreedListsUntouched
PROPERTIES
  CompletedIsFinal
  HashReturns
CHECK_DEADLOCK FALSE
