CONSTANTS
  MaxSends = 3
  MaxOpens = 2
  EventsFlush = FALSE
SPECIFICATION FairSpec
INVARIANTS
  OwnAnswer
  NoStaleRequest
PROPERTIES
  TclAnswered
  CloseReturns
CHECK_DEADLOCK FALSE
