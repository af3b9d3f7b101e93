CONSTANTS
  Programs <- MCPrograms
  Callbacks <- MCCallbacks
  Modes = {TRUE, FALSE}
  MaxCommands = 3
SPECIFICATION Spec
INVARIANTS
  NoLineLost
  ConsoleHasLine
  NotParsed
PROPERTIES
  LineTaken
  StepPrompts
CHECK_DEADLOCK FALSE
