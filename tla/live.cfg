CONSTANTS
  c1 = c1
  c2 = c2
  c3 = c3
  k1 = k1
  r1 = r1
  p1 = p1
  t1 = t1
  t2 = t2
  main = main
  console = console
  free = free
  none = none
  Commands <- MCAll
  NoCmd = none
  Main = main
  Console = console
  Clients = {t1}
  NoThread = free
  Prioritary <- MCPrioritary
  Interruptible <- MCInterruptible
  Origin <- MCOrigin
  Program <- MCProgramLive
  Guarded = {k1}
  StartPrio <- MCNothing
  StartNorm <- MCNothing
  ConsoleCmds <- MCConsole
  ClientCmds <- MCClientCmds
  PauseCmds = {}
  EarlyClients = FALSE
SPECIFICATION FairSpec
INVARIANT
  PauseBacked
PROPERTIES
  ConsoleAnswered
  AbortUnwinds
  QuitCompletes
CHECK_DEADLOCK FALSE
