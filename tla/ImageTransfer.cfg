\* The transfer over a transport that may fail or reject a size, with regions from
\* too small to larger than the target, and at most one damaged payload byte.
SPECIFICATION FairSpec
CONSTANTS
  Byte <- MCByte
  Foreign = Foreign
  Crc <- MCCrc
  HobLists <- MCHobLists
  MsgHeaderSize = 2
  SectionHeaderSize = 1
  MAX_UINT32 = 4
  CommHeaderOverhead = 1
  TargetSize = 6
  Regions = {2, 3, 4, 5, 8}
  MaxFlips = 1
  Tamper = FALSE
  Sizes = {0}
INVARIANTS
  TypeOK
  DeliveredIsResident
  ReassembledIsResident
PROPERTIES
  FetchRefinesSpec
  FetchTerminates
CHECK_DEADLOCK FALSE
