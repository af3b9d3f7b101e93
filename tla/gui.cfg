CONSTANTS
  c1 = c1
  c2 = c2
  c3 = c3
  k1 = k1
  r1 = r1
  p1 = p1
  t1 = t1
  t2 = t2
  main = main
  console = console
  free = free
  none = none
  Commands <- MCAll
  NoCmd = none
  Main = main
  Console = console
  Clients = {t1}
  NoThread = free
  Prioritary <- MCPrioritary
  Interruptible <- MCInterruptible
  Origin <- MCOrigin
  Program <- MCProgramGui
  Guarded = {}
  StartPrio <- MCNothing
  StartNorm <- MCNothing
  ConsoleCmds <- MCConsole
  ClientCmds <- MCClientCmds
  PauseCmds <- MCPause
  EarlyClients = FALSE
SPECIFICATION Spec
INVARIANTS
  TypeOK
  StoreLockExclusion
  RunnerNotNull
  RunnerRestored
  InterruptDiscipline
  ConsoleCommandHeld
  ConsoleNotForgotten
PROPERTY
  ImplementsService
CHECK_DEADLOCK FALSE
