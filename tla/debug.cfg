CONSTANTS
  MaxTyped = 3
  MaxCallbacks = 1
  MaxCalls = 2
  MaxStops = 2
SPECIFICATION FairSpec
INVARIANTS
  StopsCounted
PROPERTIES
  
  DebuggerReleased
  AbortObeyed
CHECK_DEADLOCK FALSE
