------------------------------ MODULE TclBridge ------------------------------
(***************************************************************************)
(* The bridge to Tcl: the interpreter thread of Scilab sends the text of   *)
(* TCL_EvalStr or a file of TCL_EvalFile to the thread that owns the Tcl   *)
(* interpreter, and waits for the end of its evaluation (TCL_Command.c).   *)
(* A third thread wakes the loop of Tcl every 10 ms.  Evaluated Tcl code   *)
(* can run Scilab commands in the Tcl thread (ScilabEval flush), which can *)
(* call TCL_EvalStr themselves: such a command is not sent but evaluated   *)
(* at once.  TCL_DeleteInterp ends the Tcl thread and starts another one.  *)
(*                                                                         *)
(* Condition variables wake nobody without a signal.  Left out: the lock   *)
(* of the interpreter (GlobalTclInterp.c) and a TCL_EvalFile in a flush,   *)
(* which waits for ever for the file it is in.                             *)
(***************************************************************************)
EXTENDS Naturals

CONSTANTS
  MaxSends,     \* bound: texts and files sent
  MaxOpens,     \* bound: Tcl threads created
  EventsFlush   \* whether the events of windows run Scilab commands too

ASSUME TclAssumption ==
  MaxSends \in Nat /\ MaxOpens \in Nat \ {0} /\ EventsFlush \in BOOLEAN

VARIABLES
  mpc, request, sends, opens,        \* the interpreter thread of Scilab
  answer,                            \* what it was answered
  tpc, running, LocalTCLinterp,      \* the Tcl thread
  timer,                             \* sleepAndSignal
  TK_Started, TCLLoopAlive, interp,  \* interp: __globalTclInterp is set
  singleExecution, launchCommand, wakeUpLock,
  TclCommand, TclFile, TclSlave, TclInterpReturn, TclInterpResult,
  FileInProgress, CommandInProgress

main   == <<mpc, request, sends, opens, answer>>
daemon == <<tpc, running, LocalTCLinterp, timer>>
flags  == <<TK_Started, TCLLoopAlive, interp>>
locks  == <<singleExecution, launchCommand, wakeUpLock>>
text   == <<TclCommand, TclFile, TclSlave>>
result == <<TclInterpReturn, TclInterpResult>>
busy   == <<FileInProgress, CommandInProgress>>
vars   == <<main, daemon, flags, locks, text, result, busy>>

None    == 0
Nested  == MaxSends + 1       \* a text evaluated by a flush
Interps == {"root", "slave"}

Init ==
  /\ mpc = "open" /\ request = [id |-> None, kind |-> "command", slave |-> "root"]
  /\ sends = 0 /\ opens = 0
  /\ answer = [id |-> None, in |-> "root", text |-> None]
  /\ tpc = "dead" /\ running = None /\ LocalTCLinterp = "root"
  /\ timer = FALSE
  /\ TK_Started = FALSE /\ TCLLoopAlive = FALSE /\ interp = FALSE
  /\ singleExecution = "free" /\ launchCommand = "free" /\ wakeUpLock = "free"
  /\ TclCommand = None /\ TclFile = None /\ TclSlave = "root"
  /\ TclInterpReturn = [id |-> None, in |-> "root"] /\ TclInterpResult = None
  /\ FileInProgress = FALSE /\ CommandInProgress = FALSE

MainGoes(p) == mpc' = p /\ UNCHANGED <<request, sends, opens, answer>>
TclGoes(p)  == tpc' = p /\ UNCHANGED <<running, LocalTCLinterp, timer>>

\* A signal is lost when nobody waits for it.
InterpReady == mpc' = IF mpc = "waitReady" THEN "idle" ELSE mpc
WakeUp      == tpc' = IF tpc = "waitWake" THEN "loop" ELSE tpc
WorkIsDone  == mpc' = IF mpc = "waitDone" THEN "woken" ELSE mpc

-----------------------------------------------------------------------------
\* Opening and closing.  The thread is created before its signal is waited for.
OpenTCLsci ==
  /\ mpc = "open" /\ opens < MaxOpens
  /\ mpc' = "created" /\ opens' = opens + 1
  /\ TK_Started' = TRUE /\ TCLLoopAlive' = TRUE
  /\ TclGoes("init")
  /\ UNCHANGED <<request, sends, answer, interp, locks, text, result, busy>>

WaitReady ==
  /\ mpc = "created"
  /\ MainGoes("waitReady")
  /\ UNCHANGED <<daemon, flags, locks, text, result, busy>>

\* The interpreter is initialised, or not: one of the errors tells nobody.
DaemonOpenTCLsci ==
  /\ tpc = "init"
  /\ \/ interp' = TRUE /\ TclGoes("start") /\ UNCHANGED main
     \/ /\ interp' \in BOOLEAN /\ TclGoes("failed")
        /\ InterpReady /\ UNCHANGED <<request, sends, opens, answer>>
     \/ interp' = TRUE /\ TclGoes("dead") /\ UNCHANGED main
  /\ UNCHANGED <<TK_Started, TCLLoopAlive, locks, text, result, busy>>

ReleaseOnError ==
  /\ tpc = "failed"
  /\ TK_Started' = FALSE
  /\ TclGoes("dead")
  /\ UNCHANGED <<main, TCLLoopAlive, interp, locks, text, result, busy>>

\* Fault: the timer is not started.
StartLoopAlone ==
  /\ tpc = "start"
  /\ InterpReady
  /\ TclGoes("loop")
  /\ UNCHANGED <<request, sends, opens, answer, flags, locks, text, result, busy>>

StartLoop ==
  /\ tpc = "start"
  /\ timer' = TRUE
  /\ InterpReady
  /\ tpc' = "loop"
  /\ UNCHANGED <<request, sends, opens, answer, running, LocalTCLinterp, flags,
                 locks, text, result, busy>>

\* Fault: the timer ends with Tk and not with the loop.
CloseTCLsciAndTimer(p) ==
  /\ mpc = "idle" /\ TK_Started
  /\ TK_Started' = FALSE /\ TCLLoopAlive' = FALSE
  /\ MainGoes(p)
  /\ UNCHANGED <<daemon, interp, locks, text, result, busy>>

CloseTCLsci(p) ==
  /\ mpc = "idle" /\ TK_Started
  /\ TK_Started' = FALSE
  /\ MainGoes(p)
  /\ UNCHANGED <<daemon, TCLLoopAlive, interp, locks, text, result, busy>>

WaitThreadDie ==
  /\ mpc \in {"closing", "restarting"}
  /\ tpc = "dead"
  /\ interp' = FALSE
  /\ MainGoes(IF mpc = "closing" THEN "closed" ELSE "open")
  /\ UNCHANGED <<daemon, TK_Started, TCLLoopAlive, locks, text, result, busy>>

-----------------------------------------------------------------------------
\* sendTclCommandToSlave and sendTclFileToSlave.
Call(kind, slave) ==
  /\ mpc = "idle" /\ sends < MaxSends
  /\ TK_Started /\ interp
  /\ kind = "command" => ~FileInProgress /\ ~CommandInProgress
  /\ sends' = sends + 1
  /\ request' = [id |-> sends', kind |-> kind, slave |-> slave]
  /\ CommandInProgress' = (kind = "command")
  /\ mpc' = "lock"
  /\ UNCHANGED <<opens, answer, daemon, flags, locks, text, result, FileInProgress>>

LockExecution ==
  /\ mpc = "lock" /\ singleExecution = "free"
  /\ singleExecution' = "main"
  /\ MainGoes("send")
  /\ UNCHANGED <<daemon, flags, launchCommand, wakeUpLock, text, result, busy>>

\* Fault: the slave is only set for a text that has one.
SendKeepsSlave ==
  /\ mpc = "send" /\ launchCommand = "free"
  /\ launchCommand' = "main"
  /\ TclCommand' = IF request.kind = "command" THEN request.id ELSE TclCommand
  /\ TclFile' = IF request.kind = "file" THEN request.id ELSE TclFile
  /\ TclSlave' = IF request.slave = "slave" THEN "slave" ELSE TclSlave
  /\ MainGoes("wake")
  /\ UNCHANGED <<daemon, flags, singleExecution, wakeUpLock, result, busy>>

Send ==
  /\ mpc = "send" /\ launchCommand = "free"
  /\ launchCommand' = "main"
  /\ TclCommand' = IF request.kind = "command" THEN request.id ELSE TclCommand
  /\ TclFile' = IF request.kind = "file" THEN request.id ELSE TclFile
  /\ TclSlave' = request.slave
  /\ MainGoes("wake")
  /\ UNCHANGED <<daemon, flags, singleExecution, wakeUpLock, result, busy>>

\* The lock is held from Send until the wait for the end.
WaitDone ==
  /\ mpc = "wake" /\ wakeUpLock = "free"
  /\ WakeUp
  /\ launchCommand' = "free"
  /\ MainGoes("waitDone")
  /\ UNCHANGED <<running, LocalTCLinterp, timer, flags, singleExecution,
                 wakeUpLock, text, result, busy>>

Done ==
  /\ mpc = "woken" /\ launchCommand = "free"
  /\ singleExecution' = "free"
  /\ MainGoes("done")
  /\ UNCHANGED <<daemon, flags, launchCommand, wakeUpLock, text, result, busy>>

\* getTclCommandReturn, and getTclCommandResult of a text without error.
Return ==
  /\ mpc = "done"
  /\ CommandInProgress' = IF request.kind = "command" THEN FALSE ELSE CommandInProgress
  /\ TclInterpReturn' = [id |-> None, in |-> "root"]
  /\ \E fetched \in IF request.kind = "file" THEN {FALSE} ELSE BOOLEAN :
       /\ answer' = [id |-> TclInterpReturn.id, in |-> TclInterpReturn.in,
                     text |-> IF fetched THEN TclInterpResult ELSE None]
       /\ TclInterpResult' = IF fetched THEN None ELSE TclInterpResult
  /\ mpc' = "idle"
  /\ UNCHANGED <<request, sends, opens, daemon, flags, locks, text, FileInProgress>>

-----------------------------------------------------------------------------
\* startTclLoop: what is to be evaluated is looked at without a lock.
Loop ==
  /\ tpc = "loop" /\ TK_Started
  /\ TclGoes(IF TclCommand # None \/ TclFile # None THEN "launch" ELSE "idle")
  /\ UNCHANGED <<main, flags, locks, text, result, busy>>

Launch ==
  /\ tpc = "launch" /\ launchCommand = "free"
  /\ launchCommand' = "tcl"
  /\ LocalTCLinterp' = TclSlave
  /\ TclSlave' = "root"
  /\ running' = IF TclCommand # None THEN TclCommand ELSE TclFile
  /\ FileInProgress' = (TclCommand = None /\ TclFile # None)
  /\ tpc' = IF running' = None THEN "evaluated" ELSE "eval"
  /\ UNCHANGED <<main, timer, flags, singleExecution, wakeUpLock, TclCommand, TclFile,
                 result, CommandInProgress>>

FlushPoints == IF EventsFlush THEN {"eval", "evaluated", "update"} ELSE {"eval"}

\* A TCL_EvalStr in a flush: evaluated at once, in the interpreter that runs,
\* and answered with the result of the last text that was sent.  When nothing
\* is evaluated (the flush of an event) it waits for locks the thread has.
Flush(slave) ==
  /\ tpc \in FlushPoints
  /\ IF FileInProgress \/ CommandInProgress
       THEN /\ TclCommand' = None
            /\ TclSlave' = slave
            /\ TclInterpReturn' = [id |-> Nested, in |-> LocalTCLinterp]
            /\ TclInterpResult' = None
            /\ UNCHANGED <<daemon, busy>>
       ELSE /\ TclGoes("stuck")
            /\ CommandInProgress' = TRUE
            /\ UNCHANGED <<FileInProgress, TclCommand, TclSlave, result>>
  /\ UNCHANGED <<main, flags, locks, TclFile>>

\* Fault: an evaluated file is kept.
EvaluateKeepsFile ==
  /\ tpc = "eval"
  /\ TclInterpReturn' = [id |-> running, in |-> LocalTCLinterp]
  /\ TclInterpResult' \in {None, running}
  /\ TclCommand' = IF FileInProgress THEN TclCommand ELSE None
  /\ FileInProgress' = FALSE
  /\ TclGoes("evaluated")
  /\ UNCHANGED <<main, flags, locks, TclFile, TclSlave, CommandInProgress>>

\* evaluateTclCommand or evaluateTclFile, and the result.
Evaluate ==
  /\ tpc = "eval"
  /\ TclInterpReturn' = [id |-> running, in |-> LocalTCLinterp]
  /\ TclInterpResult' \in {None, running}
  /\ TclCommand' = IF FileInProgress THEN TclCommand ELSE None
  /\ TclFile' = IF FileInProgress THEN None ELSE TclFile
  /\ FileInProgress' = FALSE
  /\ TclGoes("evaluated")
  /\ UNCHANGED <<main, flags, locks, TclSlave, CommandInProgress>>

SignalDone ==
  /\ tpc = "evaluated"
  /\ WorkIsDone
  /\ launchCommand' = "free"
  /\ TclGoes("loop")
  /\ UNCHANGED <<request, sends, opens, answer, flags, singleExecution, wakeUpLock,
                 text, result, busy>>

\* Nothing to evaluate: the events, then a wait.
Update ==
  /\ tpc = "idle" /\ wakeUpLock = "free"
  /\ wakeUpLock' = "tcl"
  /\ TclGoes("update")
  /\ UNCHANGED <<main, flags, singleExecution, launchCommand, text, result, busy>>

Sleep ==
  /\ tpc = "update"
  /\ wakeUpLock' = "free"
  /\ TclGoes("waitWake")
  /\ UNCHANGED <<main, flags, singleExecution, launchCommand, text, result, busy>>

EndLoop ==
  /\ tpc = "loop" /\ ~TK_Started
  /\ TCLLoopAlive' = FALSE /\ interp' = FALSE
  /\ TclGoes("dead")
  /\ UNCHANGED <<main, TK_Started, locks, text, result, busy>>

\* sleepAndSignal.
Tick ==
  /\ timer /\ wakeUpLock = "free"
  /\ IF TCLLoopAlive THEN WakeUp /\ UNCHANGED timer
                     ELSE timer' = FALSE /\ UNCHANGED tpc
  /\ UNCHANGED <<main, running, LocalTCLinterp, flags, locks, text, result, busy>>

-----------------------------------------------------------------------------
Sender == LockExecution \/ Send \/ WaitDone \/ Done \/ Return
Opener == WaitReady \/ WaitThreadDie
Daemon == \/ DaemonOpenTCLsci \/ ReleaseOnError \/ StartLoop \/ Loop \/ Launch
          \/ Evaluate \/ SignalDone \/ Update \/ Sleep \/ EndLoop

Next ==
  \/ OpenTCLsci \/ \E p \in {"closing", "restarting"} : CloseTCLsci(p)
  \/ \E kind \in {"command", "file"}, slave \in Interps : Call(kind, slave)
  \/ \E slave \in Interps : Flush(slave)
  \/ Sender \/ Opener \/ Daemon \/ Tick

\* The threads run; evaluated code ends.
Spec == Init /\ [][Next]_vars
FairSpec ==
  /\ Spec
  /\ WF_vars(Sender) /\ WF_vars(Opener) /\ WF_vars(Daemon) /\ WF_vars(Tick)

-----------------------------------------------------------------------------
Texts == 0..Nested
Owners == {"free", "main", "tcl"}

TclTypeOK ==
  /\ mpc \in {"open", "created", "waitReady", "idle", "closing", "restarting", "closed",
              "lock", "send", "wake", "waitDone", "woken", "done"}
  /\ request.id \in Texts /\ sends \in 0..MaxSends /\ opens \in 0..MaxOpens
  /\ tpc \in {"dead", "init", "failed", "start", "loop", "launch", "eval", "evaluated",
              "idle", "update", "waitWake", "stuck"}
  /\ {running, TclCommand, TclFile, TclInterpReturn.id, TclInterpResult, answer.id,
      answer.text} \subseteq Texts
  /\ {LocalTCLinterp, TclSlave, TclInterpReturn.in, answer.in} \subseteq Interps
  /\ {singleExecution, launchCommand, wakeUpLock} \subseteq Owners
  /\ {timer, TK_Started, TCLLoopAlive, interp, FileInProgress, CommandInProgress}
       \subseteq BOOLEAN
  /\ tpc = "eval" => running # None

\* A sender is answered with the code of its own text, evaluated once and in
\* the interpreter it asked for, and with no other text's result, whatever the
\* text runs meanwhile.
OwnAnswer ==
  mpc = "idle" /\ sends > 0 =>
    /\ answer.id = request.id /\ answer.in = request.slave
    /\ answer.text \in {None, request.id}

\* Nothing that was sent is left for the loop, or for the loop of a restarted
\* thread, once its sender has been answered; types included.
NoStaleRequest ==
  /\ TclTypeOK
  /\ TclCommand # None \/ TclFile # None => singleExecution = "main"

\* Every text sent is answered, although its signal is lost when the loop has
\* looked for a text just before: unless the thread could not be initialised.
TclAnswered == mpc = "lock" ~> mpc = "idle" \/ tpc = "dead"

\* The loop ends when it is closed, also while it waits.
CloseReturns == mpc \in {"closing", "restarting"} ~> mpc \in {"closed", "open"}
=============================================================================
