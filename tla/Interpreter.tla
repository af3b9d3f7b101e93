---------------------------- MODULE Interpreter -----------------------------
(***************************************************************************)
(* The interpreter thread: the loop of interactiveMain (InitScilab.cpp),   *)
(* StaticRunner::launch (runner.cpp), the statement loop of SeqExp         *)
(* (run_SeqExp.hpp), pause_interpreter (pause.cpp) and the gateways that   *)
(* leave a command other than by its last statement.                       *)
(*                                                                         *)
(* frames is the C++ call stack, innermost call last: a "launch" frame for *)
(* each call of launch, with the command it runs, the runner it saved, the *)
(* pause level it read (iPauseLvl) and the next statement, and a "pause"   *)
(* frame for each pause_interpreter loop, with its iPauseLevel.            *)
(***************************************************************************)
EXTENDS CommandStore

VARIABLES
  mpc,         \* where the interpreter thread is
  wasEmpty,    \* what WaitForCommandStoredSignal read before it locks
  frames,      \* the call stack
  curRunner,   \* StaticRunner::m_CurrentRunner
  pauseLevel   \* ConfigVariable::m_iPauseLevel

runnerVars == <<frames, curRunner, pauseLevel>>
mainVars   == <<mpc, wasEmpty, runnerVars>>

MainPC ==
  {"start", "peek", "assign", "sleep", "get", "pop", "break", "interrupt",
   "exec", "finish", "abort", "recursion", "pauseloop", "top", "done", "crash"}

LaunchFrame(c, save, lvl) ==
  [kind |-> "launch", cmd |-> c, save |-> save, lvl |-> lvl, ip |-> 1]
PauseFrame(lvl) ==
  [kind |-> "pause", cmd |-> NoCmd, save |-> NoCmd, lvl |-> lvl, ip |-> 0]

Frame ==
  [kind : {"launch"}, cmd : Commands, save : Commands \cup {NoCmd},
   lvl : Nat, ip : Nat \ {0}]
  \cup
  [kind : {"pause"}, cmd : {NoCmd}, save : {NoCmd}, lvl : Nat, ip : {0}]

MainInit ==
  /\ mpc = "start"
  /\ wasEmpty = TRUE
  /\ frames = <<>>
  /\ curRunner = NoCmd
  /\ pauseLevel = 0

MainTypeOK ==
  /\ mpc \in MainPC
  /\ wasEmpty \in BOOLEAN
  /\ frames \in Seq(Frame)
  /\ curRunner \in Commands \cup {NoCmd}
  /\ pauseLevel \in Nat

Top == Last(frames)
IsLaunch(f) == f.kind = "launch"
IsPause(f) == f.kind = "pause"
Running == {frames[i].cmd : i \in {j \in DOMAIN frames : IsLaunch(frames[j])}}

\* Where a launch frame goes after a statement, and where the caller of a
\* frame that returns normally goes on: interactiveMain, the pause loop, or
\* the "while" of SeqExp that launched a prioritary command.
AfterStatement(c, ip) == IF ip <= Len(Program[c]) THEN "break" ELSE "finish"
AfterReturn(fs) ==
  IF fs = <<>> THEN "top"
  ELSE IF IsPause(Last(fs)) THEN "pauseloop" ELSE "interrupt"
AfterThrow(fs, pc) == IF fs = <<>> THEN "top" ELSE pc

-----------------------------------------------------------------------------
\* interactiveMain waits for the console thread before its first launch.
StartPending ==
  /\ mpc = "start"
  /\ startPending
  /\ startPending' = FALSE
  /\ mpc' = "peek"
  /\ UNCHANGED <<storeLock, queues, commandStored, consoleDone, flags,
                 wasEmpty, runnerVars>>

\* WaitForCommandStoredSignal: read the queues under the store lock, write
\* the boolean without the signal's lock, then wait for it.
PeekQueues ==
  /\ mpc = "peek"
  /\ BriefStoreLock
  /\ wasEmpty' = IsEmptyCommandQueue
  /\ mpc' = "assign"
  /\ UNCHANGED <<queues, signals, flags, runnerVars>>

AssignStored ==
  /\ mpc = "assign"
  /\ commandStored' = ~wasEmpty
  /\ wasEmpty' = TRUE
  /\ mpc' = "sleep"
  /\ UNCHANGED <<storeLock, queues, consoleDone, startPending, flags,
                 runnerVars>>

\* Fault: the wait is not in a loop on the boolean, and may end by itself.
WaitStoredSpurious ==
  /\ mpc = "sleep"
  /\ commandStored' = FALSE
  /\ mpc' = "get"
  /\ UNCHANGED <<storeLock, queues, consoleDone, startPending, flags,
                 wasEmpty, runnerVars>>

WaitStored ==
  /\ mpc = "sleep"
  /\ commandStored
  /\ commandStored' = FALSE
  /\ mpc' = "get"
  /\ UNCHANGED <<storeLock, queues, consoleDone, startPending, flags,
                 wasEmpty, runnerVars>>

\* Fault: the queues are popped without the lock.
GetCommandUnlocked ==
  /\ mpc = "get"
  /\ mpc' = "pop"
  /\ UNCHANGED <<storeLock, queues, signals, flags, wasEmpty, runnerVars>>

GetCommand ==
  /\ mpc = "get"
  /\ LockStoreCommand(Main)
  /\ mpc' = "pop"
  /\ UNCHANGED <<queues, signals, flags, wasEmpty, runnerVars>>

\* The rest of GetCommand and launch up to the visitor.  A null Runner is
\* dereferenced by processRunner.
StartCommand ==
  /\ mpc = "pop"
  /\ PopCommand
  /\ UnlockStoreCommand
  /\ IF NextCommand = NoCmd
     THEN mpc' = "crash" /\ UNCHANGED <<frames, curRunner, execBreak>>
     ELSE /\ frames' =
               Append(frames, LaunchFrame(NextCommand, curRunner, pauseLevel))
          /\ curRunner' = NextCommand
          /\ execBreak' = FALSE
          /\ mpc' = "break"
  /\ UNCHANGED <<signals, forceQuit, wasEmpty, pauseLevel>>

-----------------------------------------------------------------------------
\* SeqExp, before each statement: a Ctrl-C stores a prioritary "pause".
NoBreak ==
  /\ mpc = "break"
  /\ ~execBreak
  /\ mpc' = "interrupt"
  /\ UNCHANGED <<storeLock, queues, signals, flags, wasEmpty, runnerVars>>

StorePause(p) ==
  /\ mpc = "break"
  /\ execBreak
  /\ BriefStoreLock
  /\ execBreak' = FALSE
  /\ Push(p)
  /\ mpc' = "interrupt"
  /\ UNCHANGED <<consoleDone, startPending, forceQuit, wasEmpty, runnerVars>>

\* Fault: isInterruptibleCommand is not asked.
InterruptAlways ==
  /\ mpc = "interrupt"
  /\ mpc' = IF prioQueue # <<>> THEN "peek" ELSE "exec"
  /\ UNCHANGED <<storeLock, queues, signals, flags, wasEmpty, runnerVars>>

\* "while (isEmptyCommandQueuePrioritary() == 0 && isInterruptibleCommand())":
\* the queue is read without the lock.
Interrupt ==
  /\ mpc = "interrupt"
  /\ mpc' = IF prioQueue # <<>> /\ curRunner \in Interruptible
            THEN "peek" ELSE "exec"
  /\ UNCHANGED <<storeLock, queues, signals, flags, wasEmpty, runnerVars>>

\* One statement of the command in the innermost launch frame.
Statement(instr) ==
  /\ mpc = "exec"
  /\ instr \in Program[Top.cmd][Top.ip]

Advance == Append(Front(frames), [Top EXCEPT !.ip = @ + 1])
AdvancePC == AfterStatement(Top.cmd, Top.ip + 1)

\* return without a pause only leaves the macro, if any, that it is in.
ExecStep ==
  /\ Statement("step") \/ (Statement("resume") /\ pauseLevel = 0)
  /\ frames' = Advance
  /\ mpc' = AdvancePC
  /\ UNCHANGED <<storeLock, queues, signals, flags, wasEmpty, curRunner,
                 pauseLevel>>

\* InternalError: launch reports it and returns as after the last statement.
ExecError ==
  /\ Statement("error")
  /\ mpc' = "finish"
  /\ UNCHANGED <<storeLock, queues, signals, flags, wasEmpty, runnerVars>>

\* Fault: pause does not release the console.
ExecPauseSilent ==
  /\ Statement("pause")
  /\ pauseLevel' = pauseLevel + 1
  /\ frames' = Append(Advance, PauseFrame(pauseLevel + 1))
  /\ mpc' = "pauseloop"
  /\ UNCHANGED <<storeLock, queues, signals, flags, wasEmpty, curRunner>>

ExecPause ==
  /\ Statement("pause")
  /\ pauseLevel' = pauseLevel + 1
  /\ SendConsoleExecDoneSignal
  /\ frames' = Append(Advance, PauseFrame(pauseLevel + 1))
  /\ mpc' = "pauseloop"
  /\ UNCHANGED <<storeLock, queues, commandStored, startPending, flags,
                 wasEmpty, curRunner>>

\* quit leaves one pause level, or Scilab at level 0.
QuitPause == Statement("quit") /\ pauseLevel > 0
QuitScilab == Statement("quit") /\ pauseLevel = 0

\* ReturnExp with a pause level, and quit inside a pause.
ExecResume ==
  /\ (Statement("resume") /\ pauseLevel > 0) \/ QuitPause
  /\ pauseLevel' = pauseLevel - 1
  /\ frames' = Advance
  /\ mpc' = AdvancePC
  /\ UNCHANGED <<storeLock, queues, signals, flags, wasEmpty, curRunner>>

ExecExit ==
  /\ Statement("exit") \/ QuitScilab
  /\ forceQuit' = TRUE
  /\ mpc' = "abort"
  /\ UNCHANGED <<storeLock, queues, signals, execBreak, wasEmpty, runnerVars>>

ExecAbort ==
  /\ Statement("abort")
  /\ mpc' = "abort"
  /\ UNCHANGED <<storeLock, queues, signals, flags, wasEmpty, runnerVars>>

ExecRecursion ==
  /\ Statement("recursion")
  /\ frames' = Advance
  /\ mpc' = "recursion"
  /\ UNCHANGED <<storeLock, queues, signals, flags, wasEmpty, curRunner,
                 pauseLevel>>

PauseLoop ==
  /\ mpc = "pauseloop"
  /\ IF Top.lvl = pauseLevel
     THEN mpc' = "peek" /\ UNCHANGED frames
     ELSE LET fs == Front(frames) IN
          /\ frames' = fs
          /\ mpc' = AfterStatement(Last(fs).cmd, Last(fs).ip)
  /\ UNCHANGED <<storeLock, queues, signals, flags, wasEmpty, curRunner,
                 pauseLevel>>

-----------------------------------------------------------------------------
\* sendExecDoneSignal: by the origin of m_CurrentRunner.
SendExecDone ==
  IF Origin[curRunner] = "CONSOLE"
  THEN SendConsoleExecDoneSignal ELSE UNCHANGED consoleDone

\* Faults: only the pause level is compared; the prompt is always released.
ReleasesPromptSameLevel(f) == f.lvl = pauseLevel
ReleasesPromptAlways(f) == TRUE

\* The condition of launch for releasing whoever waits for the command.
ReleasesPrompt(f) ==
  \/ f.lvl = pauseLevel
  \/ f.save # NoCmd /\ Origin[f.save] # "CONSOLE"

\* Fault: the saved runner is not put back.
FinishForgetsRunner ==
  /\ mpc = "finish"
  /\ IF ReleasesPrompt(Top) THEN SendExecDone ELSE UNCHANGED consoleDone
  /\ curRunner' = NoCmd
  /\ frames' = Front(frames)
  /\ mpc' = AfterReturn(Front(frames))
  /\ UNCHANGED <<storeLock, queues, commandStored, startPending, flags,
                 wasEmpty, pauseLevel>>

Finish ==
  /\ mpc = "finish"
  /\ IF ReleasesPrompt(Top) THEN SendExecDone ELSE UNCHANGED consoleDone
  /\ curRunner' = Top.save
  /\ frames' = Front(frames)
  /\ mpc' = AfterReturn(Front(frames))
  /\ UNCHANGED <<storeLock, queues, commandStored, startPending, flags,
                 wasEmpty, pauseLevel>>

\* Faults: the level is left without a test; the level is not left.
AbortLaunchBelowZero ==
  /\ mpc = "abort"
  /\ IsLaunch(Top)
  /\ pauseLevel' = 0 - 1 + pauseLevel
  /\ SendExecDone
  /\ curRunner' = Top.save
  /\ frames' = Front(frames)
  /\ mpc' = AfterThrow(Front(frames), "abort")
  /\ UNCHANGED <<storeLock, queues, commandStored, startPending, flags,
                 wasEmpty>>
AbortLaunchKeepsLevel ==
  /\ mpc = "abort"
  /\ IsLaunch(Top)
  /\ SendExecDone
  /\ curRunner' = Top.save
  /\ frames' = Front(frames)
  /\ mpc' = AfterThrow(Front(frames), "abort")
  /\ UNCHANGED <<storeLock, queues, commandStored, startPending, flags,
                 wasEmpty, pauseLevel>>

\* InternalAbort leaves every frame; launch leaves one pause level for each
\* of its own frames.
AbortLaunch ==
  /\ mpc = "abort"
  /\ IsLaunch(Top)
  /\ pauseLevel' = IF pauseLevel > 0 THEN pauseLevel - 1 ELSE 0
  /\ SendExecDone
  /\ curRunner' = Top.save
  /\ frames' = Front(frames)
  /\ mpc' = AfterThrow(Front(frames), "abort")
  /\ UNCHANGED <<storeLock, queues, commandStored, startPending, flags,
                 wasEmpty>>

ThrowThroughPause ==
  /\ mpc \in {"abort", "recursion"}
  /\ IsPause(Top)
  /\ frames' = Front(frames)
  /\ UNCHANGED <<mpc, storeLock, queues, signals, flags, wasEmpty, curRunner,
                 pauseLevel>>

\* Fault: the level is not left.
RecursionKeepsLevel ==
  /\ mpc = "recursion"
  /\ IsLaunch(Top)
  /\ pauseLevel > 0
  /\ frames' = Front(frames)
  /\ mpc' = AfterThrow(Front(frames), "recursion")
  /\ UNCHANGED <<storeLock, queues, signals, flags, wasEmpty, curRunner,
                 pauseLevel>>

\* RecursionException: inside a pause launch leaves one level and throws it
\* again at once; elsewhere it becomes an InternalError.
RecursionInPause ==
  /\ mpc = "recursion"
  /\ IsLaunch(Top)
  /\ pauseLevel > 0
  /\ pauseLevel' = pauseLevel - 1
  /\ frames' = Front(frames)
  /\ mpc' = AfterThrow(Front(frames), "recursion")
  /\ UNCHANGED <<storeLock, queues, signals, flags, wasEmpty, curRunner>>

RecursionError ==
  /\ mpc = "recursion"
  /\ IsLaunch(Top)
  /\ pauseLevel = 0
  /\ mpc' = "finish"
  /\ UNCHANGED <<storeLock, queues, signals, flags, wasEmpty, runnerVars>>

\* A try (or exec, or execstr) of the command the exception reaches turns it
\* into an error of its own, and the command goes on after what it guards.
RecursionCaught ==
  /\ mpc = "recursion"
  /\ IsLaunch(Top)
  /\ Top.cmd \in Guarded
  /\ \E ip \in Top.ip .. Len(Program[Top.cmd]) + 1 :
       /\ frames' = Append(Front(frames), [Top EXCEPT !.ip = ip])
       /\ mpc' = AfterStatement(Top.cmd, ip)
  /\ UNCHANGED <<storeLock, queues, signals, flags, wasEmpty, curRunner,
                 pauseLevel>>

\* Fault: the second test of the loop is negated.
MainLoopNegated ==
  /\ mpc = "top"
  /\ forceQuit => storeLock = NoThread
  /\ mpc' = IF forceQuit /\ ~IsEmptyCommandQueue THEN "done" ELSE "peek"
  /\ UNCHANGED <<storeLock, queues, signals, flags, wasEmpty, runnerVars>>

\* The condition of the interactiveMain loop; it locks only after a quit.
MainLoop ==
  /\ mpc = "top"
  /\ forceQuit => storeLock = NoThread
  /\ mpc' = IF forceQuit /\ IsEmptyCommandQueue THEN "done" ELSE "peek"
  /\ UNCHANGED <<storeLock, queues, signals, flags, wasEmpty, runnerVars>>

MainNext ==
  \/ StartPending \/ PeekQueues \/ AssignStored \/ WaitStored
  \/ GetCommand \/ StartCommand \/ NoBreak \/ Interrupt
  \/ ExecStep \/ ExecError \/ ExecPause \/ ExecResume
  \/ ExecExit \/ ExecAbort \/ ExecRecursion \/ PauseLoop \/ Finish
  \/ AbortLaunch \/ ThrowThroughPause \/ RecursionInPause
  \/ RecursionError \/ RecursionCaught \/ MainLoop

=============================================================================
