\* The transfer when any response header may show any sizes, status and GUID.
SPECIFICATION Spec
CONSTANTS
  Byte <- MCByte
  Foreign = Foreign
  Crc <- MCCrc
  HobLists <- MCHobLists
  MsgHeaderSize = 2
  SectionHeaderSize = 1
  MAX_UINT32 = 4
  CommHeaderOverhead = 1
  TargetSize = 6
  Regions = {3, 4, 8}
  MaxFlips = 0
  Tamper = TRUE
  Sizes = {0, 2, 5}
INVARIANTS
  CopiesInBounds
  RecordedSizeIsSafe
  NeverGrows
  NoBufferLeft
CHECK_DEADLOCK FALSE
