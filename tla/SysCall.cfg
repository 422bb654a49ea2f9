\* The C runtime and the clock the libraries bring with them.
SPECIFICATION MCSpec
CONSTANTS
  Strings <- MCStrings
  Counts <- MCCounts
  Lists <- MCLists
  Blocks <- MCBlocks
  Oids <- MCOids
  MAX_STRING_SIZE = 3
  Starts <- MCStarts
  Instants <- MCInstants
  Span = 460
  MaxGap = 5
INVARIANTS
  AnswersAsInC
  GmtimeTellsClock
  DatesInOrder
CHECK_DEADLOCK FALSE
