\* Is a request refused only when no region is free?
SPECIFICATION Spec
CONSTANTS
  ScratchBufferSize = 17
  RT_PAGE_SIZE = 2
  EntrySize = 1
  TableHeaderSize = 1
  RequestSizes = {1, 3, 4, 5, 9, 11}
  Mark = {m}
INVARIANT RefusedOnlyWithoutRegion
CHECK_DEADLOCK FALSE
