\* What does a call that cannot allocate its buffers clear?
SPECIFICATION Spec
CONSTANTS
  AP = {a1}
  BSP = bsp
  Lengths = {3}
  BlockSizes = {2}
INVARIANT ClearsOnlyItsBuffer
CHECK_DEADLOCK FALSE
