--------------------------- MODULE CommandEngine ----------------------------
(***************************************************************************)
(* The command engine of Scilab: the interpreter thread, the console       *)
(* thread, the client threads that store callbacks and requests, and the   *)
(* Ctrl-C handler, over the shared command store.                          *)
(*                                                                         *)
(* A command identity names one stored command; it can be used again when  *)
(* nothing refers to it any more, so a finite set of identities stands for *)
(* an endless session.                                                     *)
(***************************************************************************)
EXTENDS Interpreter, ConsoleThread

CONSTANTS
  ConsoleCmds,   \* what the user may type
  ClientCmds,    \* what the client threads may store
  PauseCmds,     \* the "pause" commands of Ctrl-C; bounds how many are live
  EarlyClients   \* whether clients store before the console has started

ASSUME KindAssumption ==
  /\ ConsoleCmds \subseteq Prioritary \cap Interruptible
  /\ \A c \in ConsoleCmds : Origin[c] = "CONSOLE"
  /\ ClientCmds \subseteq Commands
  /\ \A c \in ClientCmds : Origin[c] # "CONSOLE"
  /\ EarlyClients \in BOOLEAN
  /\ PauseCmds \subseteq Prioritary \ (Interruptible \cup ClientCmds)
  /\ \A c \in PauseCmds : Origin[c] = "NONE" /\ Program[c] = <<{"pause"}>>

VARIABLES
  tpc,     \* where each client thread is
  tcmd     \* the command it is storing

clientVars == <<tpc, tcmd>>
vars == <<storeLock, queues, signals, flags, mainVars, consoleVars, clientVars>>

ClientTypeOK ==
  /\ tpc \in [Clients -> {"idle", "lock", "push"}]
  /\ tcmd \in [Clients -> Commands \cup {NoCmd}]

TypeOK == StoreTypeOK /\ MainTypeOK /\ ConsoleTypeOK /\ ClientTypeOK

Init ==
  /\ StoreInit
  /\ MainInit
  /\ ConsoleInit
  /\ tpc = [t \in Clients |-> "idle"]
  /\ tcmd = [t \in Clients |-> NoCmd]

\* The commands something still refers to.
Live == Queued \cup Running \cup {ccmd} \cup {tcmd[t] : t \in Clients}

-----------------------------------------------------------------------------
\* StoreCommand, StorePrioritaryCommand, StoreCommandWithFlags in a client
\* thread: lock, parse, push and signal, unlock.
ClientCall(t, c) ==
  /\ tpc[t] = "idle"
  /\ EarlyClients \/ ~ConsoleStarting
  /\ tpc' = [tpc EXCEPT ![t] = "lock"]
  /\ tcmd' = [tcmd EXCEPT ![t] = c]
  /\ UNCHANGED <<storeLock, queues, signals, flags, mainVars, consoleVars>>

ClientLock(t) ==
  /\ tpc[t] = "lock"
  /\ LockStoreCommand(t)
  /\ tpc' = [tpc EXCEPT ![t] = "push"]
  /\ UNCHANGED <<queues, signals, flags, mainVars, consoleVars, tcmd>>

ClientPush(t) ==
  /\ tpc[t] = "push"
  /\ Push(tcmd[t])
  /\ UnlockStoreCommand
  /\ tpc' = [tpc EXCEPT ![t] = "idle"]
  /\ tcmd' = [tcmd EXCEPT ![t] = NoCmd]
  /\ UNCHANGED <<consoleDone, startPending, flags, mainVars, consoleVars>>

ClientParseFails(t) ==
  /\ tpc[t] = "push"
  /\ UnlockStoreCommand
  /\ tpc' = [tpc EXCEPT ![t] = "idle"]
  /\ tcmd' = [tcmd EXCEPT ![t] = NoCmd]
  /\ UNCHANGED <<queues, signals, flags, mainVars, consoleVars>>

\* The SIGINT handler, or interruptScilab.  Bounded by PauseCmds: not while
\* all of them are live.
CtrlC ==
  /\ ~execBreak
  /\ PauseCmds \ Live # {}
  /\ execBreak' = TRUE
  /\ UNCHANGED <<storeLock, queues, signals, forceQuit, mainVars,
                 consoleVars, clientVars>>

MainStep ==
  /\ MainNext \/ \E p \in PauseCmds \ Live : StorePause(p)
  /\ UNCHANGED <<consoleVars, clientVars>>

ConsoleType ==
  /\ \E c \in ConsoleCmds \ Live : ConsoleRead(c)
  /\ UNCHANGED <<mainVars, clientVars>>

ConsoleGo == ConsoleStep /\ UNCHANGED <<mainVars, clientVars>>

ClientStore(t) == \E c \in ClientCmds \ Live : ClientCall(t, c)
ClientGo(t) == ClientLock(t) \/ ClientPush(t) \/ ClientParseFails(t)

Next ==
  \/ MainStep
  \/ ConsoleType
  \/ ConsoleGo
  \/ \E t \in Clients : ClientStore(t) \/ ClientGo(t)
  \/ CtrlC

Spec == Init /\ [][Next]_vars

\* Threads are scheduled, and a thread that keeps asking for the store lock
\* gets it in the end.  Nothing obliges the user or the clients to act.
Fairness ==
  /\ SF_vars(MainStep)
  /\ SF_vars(ConsoleGo)
  /\ \A t \in Clients : SF_vars(ClientGo(t))

FairSpec == Spec /\ Fairness

-----------------------------------------------------------------------------
\* The store lock protects the queues: a thread between LockStoreCommand and
\* UnlockStoreCommand owns it, so no two threads are there together
\* (ThreadManagement::LockStoreCommand; the console gives the lock back only
\* inside WaitForConsoleExecDoneSignal).
StoreLockExclusion ==
  /\ mpc = "pop" => storeLock = Main
  /\ ConsoleInStore => storeLock = Console
  /\ \A t \in Clients : tpc[t] = "push" => storeLock = t

\* launch never dereferences a null Runner: the interpreter only gets past
\* WaitForCommandStoredSignal when GetCommand has a command to give.
RunnerNotNull == mpc # "crash"

\* The command a frame belongs to: its own for launch, the paused one for
\* pause_interpreter.
CmdAt(i) ==
  IF i = 0 THEN NoCmd
  ELSE IF IsLaunch(frames[i]) THEN frames[i].cmd ELSE frames[i - 1].cmd

\* m_CurrentRunner is the command being executed, and every launch will put
\* back the command it interrupted ("save current runner", "set back the
\* runner"): isInterruptibleCommand and sendExecDoneSignal look at it.
RunnerRestored ==
  /\ curRunner = CmdAt(Len(frames))
  /\ \A i \in DOMAIN frames :
       IsLaunch(frames[i]) => frames[i].save = CmdAt(i - 1)

\* A pause level always belongs to a pause loop that is still on the stack:
\* resume, quit, abort and the recursion error never leave a level behind.
PauseBacked ==
  pauseLevel > 0 =>
    \E i \in DOMAIN frames : IsPause(frames[i]) /\ frames[i].lvl >= pauseLevel

\* Only a prioritary command interrupts another one, and only one that was
\* stored interruptible (isEmptyCommandQueuePrioritary is read without the
\* lock, GetCommand pops later).
InterruptDiscipline ==
  \A i \in 1 .. Len(frames) - 1 :
    IsLaunch(frames[i]) /\ IsLaunch(frames[i + 1]) =>
      /\ frames[i].cmd \in Interruptible
      /\ frames[i + 1].cmd \in Prioritary

\* No thread takes the command of the console before the console waits for
\* its end (the comment of StoreConsoleCommand).
ConsoleCommandHeld == cpc = "wait" => ccmd \in ToSet(prioQueue)

\* While the console waits and has not been signalled, a console command is
\* still queued or running: somebody is left to release the prompt.
ConsoleNotForgotten ==
  cpc = "waiting" /\ ~consoleDone =>
    \E c \in Queued \cup Running : Origin[c] = "CONSOLE"

\* The prompt is not shown over a running console command: when the user can
\* type, every console command on the stack is inside a pause that goes on
\* (the rule of launch for sending the end-of-execution signal).
PromptDiscipline ==
  AtPrompt /\ mpc # "abort" =>
    \A i \in DOMAIN frames :
      IsLaunch(frames[i]) /\ Origin[frames[i].cmd] = "CONSOLE" =>
        \E j \in i + 1 .. Len(frames) :
          IsPause(frames[j]) /\ frames[j].lvl <= pauseLevel

\* The console waits for the end of a command before it stores the next one,
\* so a console command never interrupts another one, except in a pause.
ConsoleSequential ==
  \A i, j \in DOMAIN frames :
    /\ i < j
    /\ IsLaunch(frames[i]) /\ Origin[frames[i].cmd] = "CONSOLE"
    /\ IsLaunch(frames[j]) /\ Origin[frames[j].cmd] = "CONSOLE"
    => \E k \in i + 1 .. j - 1 : IsPause(frames[k])

\* The console shows its first prompt only after the commands of -f and -e
\* have run, or have stopped in a pause (the comment in scilabReadAndStore).
StartupFileFirst ==
  cpc = "ready" =>
    \A c \in ToSet(StartPrio) :
      /\ c \notin Queued
      /\ c \in Running /\ mpc # "abort" =>
           \E i \in DOMAIN frames : IsPause(frames[i])

\* The interpreter sleeps while a command is queued and no signal will come.
LostWakeup == mpc = "sleep" /\ ~commandStored /\ ~IsEmptyCommandQueue
NoLostWakeup == ~LostWakeup

\* An abort comes back to the main loop with no pause level left.
AbortUnwinds == mpc = "abort" ~> (mpc = "top" /\ pauseLevel = 0)

\* The clients stop storing commands that run before the console's.
ClientsQuiet == \A t \in Clients : tcmd[t] \notin Prioritary
ConsoleReleasedInTheEnd ==
  cpc = "waiting" ~> cpc # "waiting" \/ mpc = "done"

\* The console gets its prompt back (or the interpreter has left), unless a
\* wake-up was lost for good or requests never stop coming.
ConsoleAnswered ==
  ~<>[]LostWakeup /\ <>[]ClientsQuiet => ConsoleReleasedInTheEnd

\* After exit the interpreter runs what is queued and leaves its loop, unless
\* clients store for ever or one of those commands stops in a pause.
QuitCompletes ==
  <>[](\A t \in Clients : tpc[t] = "idle") =>
    (forceQuit ~> mpc = "done" \/ \E i \in DOMAIN frames : IsPause(frames[i]))

-----------------------------------------------------------------------------
Active == [i \in DOMAIN frames |-> frames[i].cmd]

Service == INSTANCE CommandService
             WITH prio <- prioQueue, norm <- normQueue, active <- Active

\* The engine implements the service: no stored command is lost, started
\* twice or out of turn, whatever the threads interleave.
ImplementsService == Service!Spec

=============================================================================
