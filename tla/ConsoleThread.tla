--------------------------- MODULE ConsoleThread ----------------------------
(***************************************************************************)
(* scilabReadAndStore of modules/core/src/cpp/InitScilab.cpp: the thread   *)
(* that prompts, parses what the user types, stores it as a console        *)
(* command and waits for its execution, with the part of                   *)
(* StoreConsoleCommand and WaitForConsoleExecDoneSignal it runs.  Input    *)
(* that does not parse, or that a running mscanf takes, stores nothing.    *)
(***************************************************************************)
EXTENDS CommandStore

VARIABLES
  cpc,     \* where the console thread is
  ccmd     \* the command it read and has not seen finished

consoleVars == <<cpc, ccmd>>

ConsolePC ==
  {"start", "announce", "waitstart", "startwaiting", "ready", "prompt",
   "check", "lock", "push", "wait", "waiting", "exit", "done"}

ConsoleInit ==
  /\ cpc = "start"
  /\ ccmd = NoCmd

ConsoleTypeOK ==
  /\ cpc \in ConsolePC
  /\ ccmd \in Commands \cup {NoCmd}

\* The thread's critical section, from LockStoreCommand to the release inside
\* WaitForConsoleExecDoneSignal.
ConsoleInStore == cpc \in {"push", "wait"}

\* Before the first prompt.
ConsoleStarting == cpc \in {"start", "announce", "waitstart", "startwaiting"}

\* The user can type: the prompt is shown, or what was typed is being stored.
AtPrompt == cpc \in {"prompt", "check", "lock", "push"}

-----------------------------------------------------------------------------
\* Fault: the queued -f command is not waited for.
ConsoleStartAtOnce ==
  /\ cpc = "start"
  /\ BriefStoreLock
  /\ cpc' = "ready"
  /\ UNCHANGED <<queues, signals, flags, ccmd>>

\* Startup: with a -f command queued, let the interpreter start and wait for
\* the end of that command before the first prompt.
ConsoleStart ==
  /\ cpc = "start"
  /\ BriefStoreLock
  /\ cpc' = IF IsEmptyCommandQueue THEN "ready" ELSE "announce"
  /\ UNCHANGED <<queues, signals, flags, ccmd>>

ConsoleAnnounce ==
  /\ cpc = "announce"
  /\ SendStartPendingSignal
  /\ cpc' = "waitstart"
  /\ UNCHANGED <<storeLock, queues, commandStored, consoleDone, flags, ccmd>>

\* WaitForConsoleExecDoneSignal without the store lock.
ConsoleWaitStart ==
  /\ cpc = "waitstart"
  /\ UnlockForeignStoreCommand
  /\ consoleDone' = FALSE
  /\ cpc' = "startwaiting"
  /\ UNCHANGED <<queues, commandStored, startPending, flags, ccmd>>

ConsoleStarted ==
  /\ cpc = "startwaiting"
  /\ consoleDone
  /\ cpc' = "ready"
  /\ UNCHANGED <<storeLock, queues, signals, flags, ccmd>>

ConsoleReady ==
  /\ cpc = "ready"
  /\ SendStartPendingSignal
  /\ cpc' = "prompt"
  /\ UNCHANGED <<storeLock, queues, commandStored, consoleDone, flags, ccmd>>

-----------------------------------------------------------------------------
\* The loop: "while (getForceQuit() == false)" and scilabRead.
ConsoleRead(c) ==
  /\ cpc = "prompt"
  /\ ~forceQuit
  /\ ccmd' = c
  /\ cpc' = "check"
  /\ UNCHANGED <<storeLock, queues, signals, flags>>

\* The second test of forceQuit, before StoreConsoleCommand.
ConsoleCheck ==
  /\ cpc = "check"
  /\ IF forceQuit THEN cpc' = "prompt" /\ ccmd' = NoCmd
                  ELSE cpc' = "lock" /\ UNCHANGED ccmd
  /\ UNCHANGED <<storeLock, queues, signals, flags>>

ConsoleLock ==
  /\ cpc = "lock"
  /\ LockStoreCommand(Console)
  /\ cpc' = "push"
  /\ UNCHANGED <<queues, signals, flags, ccmd>>

\* Fault: the store lock is released before the wait.
ConsolePushUnlocks ==
  /\ cpc = "push"
  /\ Push(ccmd)
  /\ UnlockStoreCommand
  /\ cpc' = "wait"
  /\ UNCHANGED <<consoleDone, startPending, flags, ccmd>>

ConsolePush ==
  /\ cpc = "push"
  /\ Push(ccmd)
  /\ cpc' = "wait"
  /\ UNCHANGED <<storeLock, consoleDone, startPending, flags, ccmd>>

\* Fault: an earlier signal is kept.
ConsoleWaitKeeps ==
  /\ cpc = "wait"
  /\ UnlockStoreCommand
  /\ cpc' = "waiting"
  /\ UNCHANGED <<queues, signals, flags, ccmd>>

\* WaitForConsoleExecDoneSignal: under the signal's lock, release the store
\* lock and forget any earlier signal.
ConsoleWait ==
  /\ cpc = "wait"
  /\ UnlockStoreCommand
  /\ consoleDone' = FALSE
  /\ cpc' = "waiting"
  /\ UNCHANGED <<queues, commandStored, startPending, flags, ccmd>>

ConsoleReleased ==
  /\ cpc = "waiting"
  /\ consoleDone
  /\ cpc' = "prompt"
  /\ ccmd' = NoCmd
  /\ UNCHANGED <<storeLock, queues, signals, flags>>

ConsoleLeave ==
  /\ cpc = "prompt"
  /\ forceQuit
  /\ cpc' = "exit"
  /\ UNCHANGED <<storeLock, queues, signals, flags, ccmd>>

\* SendCommandStoredSignal, with no command stored.
ConsoleExit ==
  /\ cpc = "exit"
  /\ SendCommandStoredSignal
  /\ cpc' = "done"
  /\ UNCHANGED <<storeLock, queues, consoleDone, startPending, flags, ccmd>>

\* What the thread does by itself: all but reading, which waits for the user.
ConsoleStep ==
  \/ ConsoleStart \/ ConsoleAnnounce \/ ConsoleWaitStart \/ ConsoleStarted
  \/ ConsoleReady \/ ConsoleCheck \/ ConsoleLock \/ ConsolePush
  \/ ConsoleWait \/ ConsoleReleased \/ ConsoleLeave \/ ConsoleExit

=============================================================================
