\* Three packets of the peer, two sessions, answers of one or two bytes, and
\* buffers with no room, too little and enough.
SPECIFICATION Spec
CONSTANTS
  MaxPackets = 3
  MaxSessions = 2
  MaxPending = 2
  FlightSizes = {1, 2}
  BufferSizes = {0, 1, 3}
INVARIANTS
  InputOnce
  AnswersAreWhole
PROPERTIES
  RetryOnlyFetches
  ReportedSizeSuffices
CHECK_DEADLOCK FALSE
