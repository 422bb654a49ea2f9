\* Two sessions of one connection: does each get its close_notify?
SPECIFICATION Spec
CONSTANTS
  MaxPackets = 2
  MaxSessions = 2
  MaxPending = 1
  FlightSizes = {1}
  BufferSizes = {2}
INVARIANT CloseIsNotified
CHECK_DEADLOCK FALSE
