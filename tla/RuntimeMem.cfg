\* Five pages of two bytes; requests of one to five pages and one too large.
SPECIFICATION Spec
CONSTANTS
  ScratchBufferSize = 17
  RT_PAGE_SIZE = 2
  EntrySize = 1
  TableHeaderSize = 1
  RequestSizes = {1, 3, 4, 5, 9, 11}
  Mark = {m}
  EntriesBehind = 3
INVARIANTS
  TypeOK
  NoOverlap
  TableMatchesBlocks
  RoomForRequest
  ContentKept
  LoopsFindLowestRun
CHECK_DEADLOCK FALSE
