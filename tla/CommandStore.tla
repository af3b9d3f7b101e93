---------------------------- MODULE CommandStore ----------------------------
(***************************************************************************)
(* What the threads of Scilab share to hand commands to the interpreter:   *)
(* the two command queues of modules/core/src/cpp/storeCommand.cpp, the    *)
(* StoreCommand lock, the signals of ThreadManagement, and the two flags   *)
(* of ConfigVariable that one thread sets and another one reads.           *)
(*                                                                         *)
(* A signal of ThreadManagement is a condition variable, its lock and a    *)
(* boolean.  Sending it sets the boolean under the lock; waiting for it is *)
(* a loop on the boolean, so a wait is a guard on the boolean and spurious *)
(* wake-ups need no action.  The signal locks protect only such steps and  *)
(* no other lock is taken inside them, except the release of the store     *)
(* lock in WaitForConsoleExecDoneSignal: each of those critical sections   *)
(* is one step here.  The store lock is held across several steps.         *)
(***************************************************************************)
EXTENDS Naturals, SequencesExt

CONSTANTS
  Commands,        \* what the queues hold
  NoCmd,           \* no command (a null Runner)
  Main, Console,   \* the interpreter thread and scilabReadAndStore
  Clients,         \* the other threads that store commands (GUI, Tcl, ...)
  NoThread,        \* the owner of a free lock
  Prioritary,      \* commands that go to commandQueuePrioritary
  Interruptible,   \* commands stored with m_isInterruptible = 1
  Origin,          \* m_iCommandOrigin of each command
  Program,         \* for each statement of a command, what it may do
  Guarded,         \* commands whose statements run inside a try
  StartPrio,       \* what -f / -e left in commandQueuePrioritary
  StartNorm        \* what -quit left in commandQueue

Normal == Commands \ Prioritary
Threads == {Main, Console} \cup Clients
Origins == {"CONSOLE", "TCLSCI", "NONE"}
Instructions ==
  {"step", "error", "pause", "resume", "quit", "exit", "abort", "recursion"}

\* An empty expression list behaves as one "step", so a program has at least
\* one statement.
ASSUME CommandAssumption ==
  /\ NoCmd \notin Commands
  /\ Prioritary \in SUBSET Commands
  /\ Interruptible \in SUBSET Commands
  /\ Guarded \in SUBSET Commands
  /\ Origin \in [Commands -> Origins]
  /\ Program \in [Commands -> Seq(SUBSET Instructions)]
  /\ \A c \in Commands : Len(Program[c]) > 0
  /\ StartPrio \in Seq(Prioritary)
  /\ StartNorm \in Seq(Normal)

ASSUME ThreadAssumption ==
  /\ Main # Console
  /\ Main \notin Clients
  /\ Console \notin Clients
  /\ NoThread \notin Threads

VARIABLES
  storeLock,       \* owner of m_StoreCommandLock
  prioQueue,       \* commandQueuePrioritary
  normQueue,       \* commandQueue
  commandStored,   \* m_CommandStoredWasSignalled
  consoleDone,     \* m_ConsoleExecDoneWasSignalled
  startPending,    \* m_StartPendingWasSignalled
  execBreak,       \* ConfigVariable::executionbreak
  forceQuit        \* ConfigVariable::m_bForceQuit

queues  == <<prioQueue, normQueue>>
signals == <<commandStored, consoleDone, startPending>>
flags   == <<execBreak, forceQuit>>

StoreInit ==
  /\ storeLock = NoThread
  /\ prioQueue = StartPrio
  /\ normQueue = StartNorm
  /\ commandStored = FALSE
  /\ consoleDone = FALSE
  /\ startPending = FALSE
  /\ execBreak = FALSE
  /\ forceQuit = FALSE

StoreTypeOK ==
  /\ storeLock \in Threads \cup {NoThread}
  /\ prioQueue \in Seq(Prioritary)
  /\ normQueue \in Seq(Normal)
  /\ commandStored \in BOOLEAN
  /\ consoleDone \in BOOLEAN
  /\ startPending \in BOOLEAN
  /\ execBreak \in BOOLEAN
  /\ forceQuit \in BOOLEAN

-----------------------------------------------------------------------------
LockStoreCommand(t) == storeLock = NoThread /\ storeLock' = t

UnlockStoreCommand == storeLock' = NoThread

\* A critical section that only reads: lock, read, unlock in one step.
BriefStoreLock == storeLock = NoThread /\ UNCHANGED storeLock

\* Unlocking a mutex another thread may own is undefined: a POSIX default
\* mutex is released, a Windows mutex refuses.
UnlockForeignStoreCommand == storeLock' \in {storeLock, NoThread}

IsEmptyCommandQueue == prioQueue = <<>> /\ normQueue = <<>>

\* The signals: the boolean each wait loops on.
SendCommandStoredSignal == commandStored' = TRUE
SendConsoleExecDoneSignal == consoleDone' = TRUE
SendStartPendingSignal == startPending' = TRUE

\* Fault: commands are pushed in front.
PushInFront(c) ==
  /\ IF c \in Prioritary
     THEN prioQueue' = <<c>> \o prioQueue /\ UNCHANGED normQueue
     ELSE normQueue' = <<c>> \o normQueue /\ UNCHANGED prioQueue
  /\ SendCommandStoredSignal

\* The push of the Store...Command functions, and the signal they all send
\* before they give the lock back.
Push(c) ==
  /\ IF c \in Prioritary
     THEN prioQueue' = Append(prioQueue, c) /\ UNCHANGED normQueue
     ELSE normQueue' = Append(normQueue, c) /\ UNCHANGED prioQueue
  /\ SendCommandStoredSignal

\* GetCommand: the prioritary queue first; NoCmd when both are empty.
NextCommand ==
  IF prioQueue # <<>> THEN Head(prioQueue)
  ELSE IF normQueue # <<>> THEN Head(normQueue) ELSE NoCmd

PopCommand ==
  IF prioQueue # <<>>
  THEN prioQueue' = Tail(prioQueue) /\ UNCHANGED normQueue
  ELSE /\ UNCHANGED prioQueue
       /\ normQueue' = IF normQueue # <<>> THEN Tail(normQueue) ELSE <<>>

Queued == ToSet(prioQueue) \cup ToSet(normQueue)

=============================================================================
