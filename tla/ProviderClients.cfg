SPECIFICATION Spec
CONSTANTS
  Byte <- MCByte
  Foreign = Foreign
  Crc <- MCCrc
  HobLists <- MCHobLists
  MsgHeaderSize = 2
  SectionHeaderSize = 1
  MAX_UINT32 = 4
  Offsets = {0, 2, 5}
  Requests = {0, 3}
  Payloads = {0, 2, 5}
  ShortSizes = {1}
INVARIANTS
  ResponseConfined
  AnswersDescribeResident
PROPERTIES
  LockedIsSilent
CHECK_DEADLOCK FALSE
