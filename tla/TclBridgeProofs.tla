--------------------------- MODULE TclBridgeProofs ---------------------------
(***************************************************************************)
(* The slot of the Tcl bridge, for any number of texts, files and restarts,*)
(* when Scilab commands run in the Tcl thread only by a flush of evaluated *)
(* code (EventsFlush is FALSE).                                            *)
(***************************************************************************)
EXTENDS TclBridge, TLAPS

\* Between a call and its return.
Calling == {"lock", "send", "wake", "waitDone", "woken", "done"}

\* Who owns a lock is told by where the threads are.
LockInv ==
  /\ singleExecution =
       IF mpc \in {"send", "wake", "waitDone", "woken"} THEN "main" ELSE "free"
  /\ launchCommand = "main" <=> mpc = "wake"
  /\ launchCommand = "tcl" <=> tpc \in {"eval", "evaluated"}
  /\ wakeUpLock = IF tpc = "update" THEN "tcl" ELSE "free"

\* Who is calling, and what for.
RequestInv ==
  /\ request.kind \in {"command", "file"} /\ request.slave \in Interps
  /\ mpc \in Calling => request.id = sends /\ sends > 0
  /\ CommandInProgress <=> mpc \in Calling /\ request.kind = "command"
  /\ FileInProgress <=> tpc = "eval" /\ request.kind = "file"
  /\ tpc # "stuck"
  /\ mpc = "open" => tpc = "dead"

\* What the slot holds: nothing, or the request until it is evaluated; a text
\* that flushes may be taken out of it before.
SlotInv ==
  /\ TclCommand # None =>
       mpc \in {"wake", "waitDone"} /\ request.kind = "command" /\ TclCommand = request.id
  /\ TclFile # None =>
       mpc \in {"wake", "waitDone"} /\ request.kind = "file" /\ TclFile = request.id
  /\ mpc \in {"wake", "waitDone"} /\ tpc \notin {"eval", "evaluated"} =>
       /\ TclSlave = request.slave
       /\ TclCommand # None \/ TclFile # None
  /\ tpc = "launch" => mpc \in {"wake", "waitDone"}
  /\ tpc \in {"eval", "evaluated"} => mpc = "waitDone"
  /\ tpc = "eval" => running = request.id /\ LocalTCLinterp = request.slave
  /\ tpc = "evaluated" => TclCommand = None /\ TclFile = None

\* The code and the result are those of the request from its evaluation on.
AnswerInv ==
  /\ tpc = "evaluated" \/ mpc \in {"woken", "done"} =>
       /\ TclInterpReturn.id = request.id /\ TclInterpReturn.in = request.slave
       /\ TclInterpResult \in {None, request.id}
  /\ mpc \notin Calling /\ sends > 0 =>
       /\ answer.id = request.id /\ answer.in = request.slave
       /\ answer.text \in {None, request.id}

\* TclTypeOK, one variable at a time.
Typed ==
  /\ mpc \in Calling \cup
       {"open", "created", "waitReady", "idle", "closing", "restarting", "closed"}
  /\ request.id \in Texts /\ sends \in 0..MaxSends /\ opens \in 0..MaxOpens
  /\ tpc \in {"dead", "init", "failed", "start", "loop", "launch", "eval",
             "evaluated", "idle", "update", "waitWake", "stuck"}
  /\ running \in Texts /\ TclCommand \in Texts /\ TclFile \in Texts
  /\ TclInterpReturn.id \in Texts /\ TclInterpResult \in Texts
  /\ answer.id \in Texts /\ answer.text \in Texts
  /\ LocalTCLinterp \in Interps /\ TclSlave \in Interps
  /\ TclInterpReturn.in \in Interps /\ answer.in \in Interps
  /\ singleExecution \in Owners /\ launchCommand \in Owners
  /\ wakeUpLock \in Owners
  /\ tpc = "eval" => running # None
Flags ==
  /\ timer \in BOOLEAN /\ TK_Started \in BOOLEAN /\ TCLLoopAlive \in BOOLEAN
  /\ interp \in BOOLEAN /\ FileInProgress \in BOOLEAN
  /\ CommandInProgress \in BOOLEAN

IInv == Typed /\ LockInv /\ RequestInv /\ SlotInv /\ AnswerInv

LEMMA TypeIsTyped == Typed /\ Flags => TclTypeOK
<1> SUFFICES ASSUME Typed, Flags PROVE TclTypeOK
  OBVIOUS
<1>1. {running, TclCommand, TclFile, TclInterpReturn.id, TclInterpResult, answer.id,
       answer.text} \subseteq Texts
  BY DEF Typed
<1>2. {LocalTCLinterp, TclSlave, TclInterpReturn.in, answer.in} \subseteq Interps
  BY DEF Typed
<1>3. {singleExecution, launchCommand, wakeUpLock} \subseteq Owners
  BY DEF Typed
<1>4. {timer, TK_Started, TCLLoopAlive, interp, FileInProgress, CommandInProgress}
        \subseteq BOOLEAN
  BY DEF Flags
<1>5. /\ mpc \in {"open", "created", "waitReady", "idle", "closing", "restarting", "closed",
                  "lock", "send", "wake", "waitDone", "woken", "done"}
      /\ tpc \in {"dead", "init", "failed", "start", "loop", "launch", "eval", "evaluated",
                  "idle", "update", "waitWake", "stuck"}
  BY DEF Typed, Calling
<1> QED
  BY <1>1, <1>2, <1>3, <1>4, <1>5 DEF Typed, TclTypeOK

LEMMA InitIInv == Init => IInv
<1> SUFFICES ASSUME Init PROVE IInv
  OBVIOUS
<1> USE TclAssumption DEF Init, None, Nested, Interps, Texts, Owners, Calling
<1>1. Typed
  BY DEF Typed
<1>2. LockInv
  BY DEF LockInv
<1>3. RequestInv
  BY DEF RequestInv
<1>4. SlotInv
  BY DEF SlotInv
<1>5. AnswerInv
  BY DEF AnswerInv
<1> QED
  BY <1>1, <1>2, <1>3, <1>4, <1>5 DEF IInv

-----------------------------------------------------------------------------
\* The flags are Booleans whatever the threads do.
LEMMA FlagsStep ==
  ASSUME Flags, [Next]_vars
  PROVE  Flags'
<1> USE DEF Flags, main, daemon, flags, busy
<1>1. CASE OpenTCLsci
  BY <1>1 DEF OpenTCLsci, TclGoes
<1>2. CASE WaitReady
  BY <1>2 DEF WaitReady, MainGoes
<1>3. CASE DaemonOpenTCLsci
  BY <1>3 DEF DaemonOpenTCLsci, TclGoes, InterpReady
<1>4. CASE ReleaseOnError
  BY <1>4 DEF ReleaseOnError, TclGoes
<1>5. CASE StartLoop
  BY <1>5 DEF StartLoop, InterpReady
<1>6. CASE WaitThreadDie
  BY <1>6 DEF WaitThreadDie, MainGoes
<1>7. CASE LockExecution
  BY <1>7 DEF LockExecution, MainGoes
<1>8. CASE Send
  BY <1>8 DEF Send, MainGoes
<1>9. CASE WaitDone
  BY <1>9 DEF WaitDone, MainGoes, WakeUp
<1>10. CASE Done
  BY <1>10 DEF Done, MainGoes
<1>11. CASE Return
  BY <1>11 DEF Return
<1>12. CASE Loop
  BY <1>12 DEF Loop, TclGoes
<1>13. CASE Launch
  BY <1>13 DEF Launch
<1>14. CASE Evaluate
  BY <1>14 DEF Evaluate, TclGoes
<1>15. CASE SignalDone
  BY <1>15 DEF SignalDone, TclGoes, WorkIsDone
<1>16. CASE Update
  BY <1>16 DEF Update, TclGoes
<1>17. CASE Sleep
  BY <1>17 DEF Sleep, TclGoes
<1>18. CASE EndLoop
  BY <1>18 DEF EndLoop, TclGoes
<1>19. CASE Tick
  BY <1>19 DEF Tick, WakeUp
<1>20. ASSUME NEW p, CloseTCLsci(p) PROVE Flags'
  BY <1>20 DEF CloseTCLsci, MainGoes
<1>21. ASSUME NEW kind, NEW slave, Call(kind, slave) PROVE Flags'
  BY <1>21 DEF Call
<1>22. ASSUME NEW slave, Flush(slave) PROVE Flags'
  BY <1>22 DEF Flush, TclGoes
<1>23. CASE UNCHANGED vars
  BY <1>23 DEF vars
<1> QED
  BY <1>1, <1>2, <1>3, <1>4, <1>5, <1>6, <1>7, <1>8, <1>9, <1>10, <1>11, <1>12, <1>13, <1>14, <1>15, <1>16, <1>17, <1>18, <1>19, <1>20, <1>21, <1>22, <1>23 DEF Next, Sender, Opener, Daemon

\* The actions, with the tuples they leave unchanged.
LEMMA StepIInv ==
  ASSUME ~EventsFlush, IInv, [Next]_vars
  PROVE  IInv'
<1> USE TclAssumption
    DEF IInv, Typed, LockInv, RequestInv, SlotInv, AnswerInv, Calling, None, Nested,
        Interps, Texts, Owners, MainGoes, TclGoes, main, daemon, flags, locks, text,
        result, busy
<1>1. CASE OpenTCLsci
  <2>1. Typed'
    BY <1>1 DEF OpenTCLsci
  <2>2. LockInv'
    BY <1>1 DEF OpenTCLsci
  <2>3. RequestInv'
    BY <1>1 DEF OpenTCLsci
  <2>4. SlotInv'
    BY <1>1 DEF OpenTCLsci
  <2>5. AnswerInv'
    BY <1>1 DEF OpenTCLsci
  <2> QED
    BY <2>1, <2>2, <2>3, <2>4, <2>5
<1>2. CASE WaitReady
  BY <1>2 DEF WaitReady
<1>3. CASE DaemonOpenTCLsci
  <2>1. Typed'
    BY <1>3 DEF DaemonOpenTCLsci, InterpReady
  <2>2. LockInv'
    BY <1>3 DEF DaemonOpenTCLsci, InterpReady
  <2>3. RequestInv'
    BY <1>3 DEF DaemonOpenTCLsci, InterpReady
  <2>4. SlotInv'
    BY <1>3 DEF DaemonOpenTCLsci, InterpReady
  <2>5. AnswerInv'
    BY <1>3 DEF DaemonOpenTCLsci, InterpReady
  <2> QED
    BY <2>1, <2>2, <2>3, <2>4, <2>5
<1>4. CASE ReleaseOnError
  <2>1. Typed'
    BY <1>4 DEF ReleaseOnError
  <2>2. LockInv'
    BY <1>4 DEF ReleaseOnError
  <2>3. RequestInv'
    BY <1>4 DEF ReleaseOnError
  <2>4. SlotInv'
    BY <1>4 DEF ReleaseOnError
  <2>5. AnswerInv'
    BY <1>4 DEF ReleaseOnError
  <2> QED
    BY <2>1, <2>2, <2>3, <2>4, <2>5
<1>5. CASE StartLoop
  BY <1>5 DEF StartLoop, InterpReady
<1>6. CASE WaitThreadDie
  <2>1. Typed'
    BY <1>6 DEF WaitThreadDie
  <2>2. LockInv'
    BY <1>6 DEF WaitThreadDie
  <2>3. RequestInv'
    BY <1>6 DEF WaitThreadDie
  <2>4. SlotInv'
    BY <1>6 DEF WaitThreadDie
  <2>5. AnswerInv'
    BY <1>6 DEF WaitThreadDie
  <2> QED
    BY <2>1, <2>2, <2>3, <2>4, <2>5
<1>7. CASE LockExecution
  BY <1>7 DEF LockExecution
<1>8. CASE Send
  BY <1>8 DEF Send
<1>9. CASE WaitDone
  BY <1>9 DEF WaitDone, WakeUp
<1>10. CASE Done
  BY <1>10 DEF Done
<1>11. CASE Return
  <2>1. Typed'
    BY <1>11 DEF Return
  <2>2. LockInv'
    BY <1>11 DEF Return
  <2>3. RequestInv'
    BY <1>11 DEF Return
  <2>4. SlotInv'
    BY <1>11 DEF Return
  <2>5. AnswerInv'
    BY <1>11 DEF Return
  <2> QED
    BY <2>1, <2>2, <2>3, <2>4, <2>5
<1>12. CASE Loop
  BY <1>12 DEF Loop
<1>13. CASE Launch
  <2>1. Typed'
    BY <1>13 DEF Launch
  <2>2. LockInv'
    BY <1>13 DEF Launch
  <2>3. RequestInv'
    BY <1>13 DEF Launch
  <2>4. SlotInv'
    BY <1>13 DEF Launch
  <2>5. AnswerInv'
    BY <1>13 DEF Launch
  <2> QED
    BY <2>1, <2>2, <2>3, <2>4, <2>5
<1>14. CASE Evaluate
  <2>1. Typed'
    BY <1>14 DEF Evaluate
  <2>2. LockInv'
    BY <1>14 DEF Evaluate
  <2>3. RequestInv'
    BY <1>14 DEF Evaluate
  <2>4. SlotInv'
    BY <1>14 DEF Evaluate
  <2>5. AnswerInv'
    BY <1>14 DEF Evaluate
  <2> QED
    BY <2>1, <2>2, <2>3, <2>4, <2>5
<1>15. CASE SignalDone
  BY <1>15 DEF SignalDone, WorkIsDone
<1>16. CASE Update
  BY <1>16 DEF Update
<1>17. CASE Sleep
  BY <1>17 DEF Sleep
<1>18. CASE EndLoop
  <2>1. Typed'
    BY <1>18 DEF EndLoop
  <2>2. LockInv'
    BY <1>18 DEF EndLoop
  <2>3. RequestInv'
    BY <1>18 DEF EndLoop
  <2>4. SlotInv'
    BY <1>18 DEF EndLoop
  <2>5. AnswerInv'
    BY <1>18 DEF EndLoop
  <2> QED
    BY <2>1, <2>2, <2>3, <2>4, <2>5
<1>19. CASE Tick
  <2>1. Typed'
    <3>1. tpc' \in {tpc, "loop"} /\ (tpc' = "eval" => tpc = "eval")
      BY <1>19 DEF Tick, WakeUp
    <3>2. UNCHANGED <<main, running, LocalTCLinterp, locks, text, result>>
      BY <1>19 DEF Tick
    <3> QED
      BY <3>1, <3>2
  <2>2. LockInv'
    BY <1>19 DEF Tick, WakeUp
  <2>3. RequestInv'
    BY <1>19 DEF Tick, WakeUp
  <2>4. SlotInv'
    BY <1>19 DEF Tick, WakeUp
  <2>5. AnswerInv'
    BY <1>19 DEF Tick, WakeUp
  <2> QED
    BY <2>1, <2>2, <2>3, <2>4, <2>5
<1>20. ASSUME NEW p \in {"closing", "restarting"}, CloseTCLsci(p) PROVE IInv'
  <2>1. Typed'
    BY <1>20 DEF CloseTCLsci
  <2>2. LockInv'
    BY <1>20 DEF CloseTCLsci
  <2>3. RequestInv'
    BY <1>20 DEF CloseTCLsci
  <2>4. SlotInv'
    BY <1>20 DEF CloseTCLsci
  <2>5. AnswerInv'
    BY <1>20 DEF CloseTCLsci
  <2> QED
    BY <2>1, <2>2, <2>3, <2>4, <2>5
<1>21. ASSUME NEW kind \in {"command", "file"}, NEW slave \in Interps, Call(kind, slave)
     PROVE  IInv'
  <2>1. Typed'
    BY <1>21 DEF Call
  <2>2. LockInv'
    BY <1>21 DEF Call
  <2>3. RequestInv'
    <3>1. /\ mpc' = "lock" /\ request'.id = sends' /\ sends' > 0
          /\ request'.kind = kind /\ request'.slave = slave
          /\ UNCHANGED <<tpc, FileInProgress>>
      BY <1>21 DEF Call
    <3>2. CommandInProgress' <=> kind = "command"
      BY <1>21 DEF Call
    <3>3. ~FileInProgress'
      BY <1>21 DEF Call
    <3>4. tpc # "eval"
      BY <1>21 DEF Call
    <3> QED
      BY <3>1, <3>2, <3>3, <3>4
  <2>4. SlotInv'
    BY <1>21 DEF Call
  <2>5. AnswerInv'
    BY <1>21 DEF Call
  <2> QED
    BY <2>1, <2>2, <2>3, <2>4, <2>5
<1>22. ASSUME NEW slave \in Interps, Flush(slave) PROVE IInv'
  BY <1>22 DEF Flush, FlushPoints
<1>23. CASE UNCHANGED vars
  BY <1>23 DEF vars
<1> QED
  BY <1>1, <1>2, <1>3, <1>4, <1>5, <1>6, <1>7, <1>8, <1>9, <1>10, <1>11, <1>12, <1>13, <1>14, <1>15, <1>16, <1>17, <1>18, <1>19, <1>20, <1>21, <1>22, <1>23 DEF Next, Sender, Opener, Daemon

LEMMA AlwaysIInv ==
  ASSUME ~EventsFlush
  PROVE  Spec => [](IInv /\ Flags)
<1>1. Init => IInv /\ Flags
  BY InitIInv DEF Init, Flags
<1>2. IInv /\ Flags /\ [Next]_vars => (IInv /\ Flags)'
  BY StepIInv, FlagsStep
<1> QED
  BY <1>1, <1>2, PTL DEF Spec

-----------------------------------------------------------------------------
\* A sender is answered with the code and the result of its own text, evaluated
\* in the interpreter it asked for (sendTclCommandToSlave, startTclLoop).
THEOREM OwnAnswerCorrect ==
  ASSUME ~EventsFlush
  PROVE  Spec => []OwnAnswer
<1>1. IInv /\ Flags => OwnAnswer
  BY DEF IInv, AnswerInv, OwnAnswer, Calling
<1> QED
  BY <1>1, AlwaysIInv, PTL

\* The slot holds a text or a file only while its sender has the lock of
\* executions: nothing is left in it for the next one, or for another thread.
THEOREM NoStaleRequestCorrect ==
  ASSUME ~EventsFlush
  PROVE  Spec => []NoStaleRequest
<1>1. IInv /\ Flags => NoStaleRequest
  BY TypeIsTyped DEF IInv, SlotInv, LockInv, NoStaleRequest
<1> QED
  BY <1>1, AlwaysIInv, PTL

=============================================================================
