------------------------------ MODULE Debugger -------------------------------
(***************************************************************************)
(* The debugger of Scilab code: the console thread in debug mode           *)
(* (executeDebuggerCommand), the manager (debugmanager.cpp) and the        *)
(* interpreter, which checks before and after each statement and call      *)
(* whether to stop (debuggervisitor.cpp) and waits for commands in a pause *)
(* while it is stopped.  All commands are prioritary and interruptible:    *)
(* they start between two statements of what runs, or in the pause.        *)
(*                                                                         *)
(* What is run is any nesting of calls, bodies and errors.  Each function  *)
(* has a source file, and calls are made by CallExp (not by an overload).  *)
(* A breakpoint is whether one matches.  The recursion limit and the       *)
(* pause requests of other debuggers are left out.                         *)
(***************************************************************************)
EXTENDS Naturals, SequencesExt

CONSTANTS
  MaxTyped,      \* bound: commands typed
  MaxCallbacks,  \* bound: commands stored by the GUI
  MaxCalls,      \* bound: functions being called
  MaxStops       \* bound: stops in one another

ASSUME DebuggerAssumption ==
  {MaxTyped, MaxCallbacks, MaxCalls, MaxStops} \subseteq Nat

VARIABLES
  console,       \* what the console thread does
  queue,         \* commandQueuePrioritary
  gui,           \* whether a callback has seen that nothing is stopped
  typed, called,
  enabled,       \* getEnableDebug
  action, level, \* DebuggerManager::action, level
  interrupted,
  pauses,        \* m_PauseLevel: the scope level of each pause
  where,         \* the functions being called, and the pause of each stop
  frames,        \* the launches and stops of the interpreter
  pc, back,      \* where it is, and where it goes on after it has stopped
  asked          \* history: what the user has asked for and not got yet

manager == <<enabled, action, level>>
inputs  == <<gui, typed, called>>
stack   == <<interrupted, pauses, where, frames>>
vars    == <<console, queue, inputs, manager, stack, pc, back, asked>>

\* since: "catch" when an error has gone below depth, to the try of a caller.
Asked(kind, depth) == [kind |-> kind, depth |-> depth, since |-> "none"]
Nothing == Asked("nothing", 0)
Steps   == {"StepNext", "StepIn", "StepOut"}

Init ==
  /\ console = "prompt" /\ queue = <<>>
  /\ gui = "idle" /\ typed = 0 /\ called = 0
  /\ enabled = TRUE /\ action = "Continue" /\ level = 0
  /\ interrupted = FALSE /\ pauses = <<>>
  /\ where = <<>> /\ frames = <<>>
  /\ pc = "main" /\ back = "main"
  /\ asked = Nothing

IsStop(f) == f.kind = "stop"
Stops     == {i \in DOMAIN frames : IsStop(frames[i])}
Count(e)  == Cardinality({i \in DOMAIN where : where[i] = e})
PauseLevel == Len(pauses)

\* get_current_level
Current == IF interrupted THEN Len(where) - 1 ELSE Len(where)

\* Fault: stepin is over once nothing is called.
IsStepNextOnly == action = "StepNext" /\ Current = level

IsStepIn == action = "StepIn" /\ Current > level
IsStepNext == action \in {"StepNext", "StepIn"} /\ Current = level
IsStepOut == action \in Steps /\ Current < level

\* getSourceFile
HasSource == where # <<>>

\* resetAborted: another command takes the place of an abort, not of a step.
NotAborted == IF action = "Aborted" THEN "Continue" ELSE action
AskedNoAbort == IF asked.kind = "abort" THEN Nothing ELSE asked

-----------------------------------------------------------------------------
\* The console thread.  A command is refused unless the execution is stopped
\* ("continue" and the steps) or not ("run").
Typing(c) ==
  /\ console = "prompt"
  /\ typed < MaxTyped
  /\ typed' = typed + 1
  /\ console' = c
  /\ UNCHANGED <<queue, gui, called, stack, pc, back>>

Run ==
  /\ ~interrupted
  /\ action' = NotAborted
  /\ asked' = AskedNoAbort
  /\ Typing("run")
  /\ UNCHANGED <<enabled, level>>

Resume ==
  /\ interrupted
  /\ asked' = Nothing
  /\ Typing("resume")
  /\ UNCHANGED manager

Step(kind) ==
  /\ interrupted
  /\ action' = kind
  /\ level' = Current
  /\ asked' = Asked(kind, Current)
  /\ Typing("resume")
  /\ UNCHANGED enabled

Show == Typing("print") /\ UNCHANGED <<manager, asked>>

\* abort, and quit which also leaves the debugger.
Abort(quits) ==
  /\ action' = "Aborted"
  /\ enabled' = (enabled /\ ~quits)
  /\ asked' = Asked("abort", 0)
  /\ Typing("abort")
  /\ UNCHANGED level

Prompt == IF enabled THEN "prompt" ELSE "left"

\* StoreDebuggerCommand: the store is locked until the console waits, so that
\* its command is not over before.  abort is only stored in a stop.
Store ==
  /\ console \in {"run", "resume", "print", "abort"}
  /\ IF console = "abort" /\ ~interrupted
       THEN console' = Prompt /\ UNCHANGED queue
       ELSE console' = "wait" /\ queue' = Append(queue, console)
  /\ UNCHANGED <<inputs, manager, stack, pc, back, asked>>

\* SendDebuggerExecDoneSignal
Released == IF console = "wait" THEN Prompt ELSE console

\* putCommandInScilabQueue, of a callback of the GUI.
CallbackChecks ==
  /\ gui = "idle" /\ called < MaxCallbacks
  /\ enabled /\ ~interrupted
  /\ gui' = "checked" /\ called' = called + 1
  /\ UNCHANGED <<console, queue, typed, manager, stack, pc, back, asked>>

CallbackStores ==
  /\ gui = "checked"
  /\ gui' = "idle"
  /\ action' = NotAborted
  /\ asked' = AskedNoAbort
  /\ queue' = Append(queue, "run")
  /\ UNCHANGED <<console, typed, called, enabled, level, stack, pc, back>>

-----------------------------------------------------------------------------
\* The interpreter.
Goto(p) == pc' = p /\ UNCHANGED back
StopThen(p) == pc' = "stop" /\ back' = p

Command == Last(frames).cmd

\* Where a launch was made from.
NextPc(f) == IF f = <<>> THEN "main" ELSE IF IsStop(Last(f)) THEN "wait" ELSE "yield"

\* launch: in the main loop, in the loop of a stop, and between two statements.
Launch ==
  /\ \/ pc \in {"main", "yield"}
     \/ pc = "wait" /\ PauseLevel = Last(frames).lvl
  /\ queue # <<>>
  /\ queue' = Tail(queue)
  /\ action' = NotAborted
  /\ asked' = IF Head(queue) = "abort" THEN asked ELSE AskedNoAbort
  /\ frames' = Append(frames, [kind |-> "launch", cmd |-> Head(queue),
                               lvl |-> PauseLevel, depth |-> Len(where)])
  /\ Goto("body")
  /\ UNCHANGED <<console, inputs, enabled, level, interrupted, pauses, where>>

\* Fault: the abort of another thread is only seen by a call.
EnterBodyAlways ==
  /\ pc = "body"
  /\ Goto("check")
  /\ UNCHANGED <<console, queue, inputs, manager, stack, asked>>

\* A SeqExp, or a CallExp, sees that the execution is aborted when it begins.
EnterBody ==
  /\ pc = "body"
  /\ Goto(IF action = "Aborted" THEN "unwind" ELSE "check")
  /\ UNCHANGED <<console, queue, inputs, manager, stack, asked>>

\* Before each statement, unless the execution is stopped already.
Check ==
  /\ pc = "check"
  /\ LET step == enabled /\ ~interrupted /\ HasSource /\ (IsStepIn \/ IsStepNext)
     IN  \/ /\ step
            /\ action' = "Continue"
            /\ StopThen("yield")
         \/ /\ ~step
            /\ UNCHANGED action
            /\ \/ Goto("yield")
               \/ enabled /\ ~interrupted /\ where # <<>> /\ StopThen("yield")
  /\ UNCHANGED <<console, queue, inputs, enabled, level, stack, asked>>

Statement ==
  /\ pc = "yield" /\ queue = <<>>
  /\ Goto("exec")
  /\ UNCHANGED <<console, queue, inputs, manager, stack, asked>>

Code == pc = "exec" /\ Command \in {"run", "print"}

Simple ==
  /\ Code
  /\ Goto("after")
  /\ UNCHANGED <<console, queue, inputs, manager, stack, asked>>

\* A loop or a condition.
Block ==
  /\ Code
  /\ Goto("body")
  /\ UNCHANGED <<console, queue, inputs, manager, stack, asked>>

Call ==
  /\ Code
  /\ IF action = "Aborted"
       THEN Goto("unwind") /\ UNCHANGED where
       ELSE Count("macro") < MaxCalls /\ where' = Append(where, "macro") /\ Goto("body")
  /\ UNCHANGED <<console, queue, inputs, manager, interrupted, pauses, frames, asked>>

Fail ==
  /\ Code
  /\ \/ Cardinality(Stops) < MaxStops /\ Goto("error")
     \/ Goto("silent")
  /\ UNCHANGED <<console, queue, inputs, manager, stack, asked>>

\* resume leaves the last pause, if it was made at this scope level.
ExecResume ==
  /\ pc = "exec" /\ Command = "resume"
  /\ pauses' = IF pauses # <<>> /\ Last(pauses) = Count("macro") THEN Front(pauses) ELSE pauses
  /\ Goto("after")
  /\ UNCHANGED <<console, queue, inputs, manager, interrupted, where, frames, asked>>

ExecAbort ==
  /\ pc = "exec" /\ Command = "abort"
  /\ Goto("unwind")
  /\ UNCHANGED <<console, queue, inputs, manager, stack, asked>>

\* After a statement, and after a call in it.
After ==
  /\ pc \in {"after", "returned"}
  /\ LET step == enabled /\ IsStepOut /\ HasSource
     IN  /\ action' = IF step THEN "Continue" ELSE action
         /\ \E p \in IF pc = "returned" THEN {"exec"}
                    ELSE IF Command = "resume" THEN {"end"} ELSE {"check", "end"} :
              IF step THEN StopThen(p) ELSE Goto(p)
  /\ UNCHANGED <<console, queue, inputs, enabled, level, stack, asked>>

\* The end of the body of a function or of a command: a step stops on the end
\* of a function that is found by its name.
End ==
  /\ pc = "end"
  /\ \/ /\ Goto("leave")
        /\ UNCHANGED action
     \/ /\ enabled /\ (IsStepNext \/ IsStepIn) /\ where # <<>> /\ Last(where) = "macro"
        /\ action' = "Continue"
        /\ StopThen("leave")
  /\ UNCHANGED <<console, queue, inputs, enabled, level, stack, asked>>

Leave ==
  /\ pc = "leave"
  /\ IF Len(where) > Last(frames).depth
       THEN where' = Front(where) /\ Goto("returned")
       ELSE UNCHANGED where /\ Goto("done")
  /\ UNCHANGED <<console, queue, inputs, manager, interrupted, pauses, frames, asked>>

\* An error is silent inside a try: it goes to its catch, or ends the command
\* that runs between two statements of the try.  Nothing is looked at on the
\* way: a step stays as it was.  Otherwise it stops in each function it leaves.
Caught ==
  /\ pc = "silent"
  /\ \E d \in Last(frames).depth..Len(where) :
       /\ where' = SubSeq(where, 1, d)
       /\ \/ Goto("body")
          \/ d = Last(frames).depth /\ NextPc(Front(frames)) = "yield" /\ Goto("done")
  /\ UNCHANGED <<console, queue, inputs, manager, interrupted, pauses, frames>>
  /\ asked' = IF Current' < asked.depth
                THEN [kind |-> asked.kind, depth |-> asked.depth, since |-> "catch"]
                ELSE asked

ErrorStops ==
  /\ pc = "error"
  /\ IF where # <<>> THEN StopThen("thrown")
     ELSE Goto(IF action = "Aborted" THEN "unwind" ELSE "thrown")
  /\ UNCHANGED <<console, queue, inputs, manager, stack, asked>>

Thrown ==
  /\ pc = "thrown"
  /\ IF Len(where) > Last(frames).depth
       THEN where' = Front(where) /\ Goto("error")
       ELSE UNCHANGED where /\ Goto("done")
  /\ UNCHANGED <<console, queue, inputs, manager, interrupted, pauses, frames, asked>>

\* Fault: a stop does not release the console.
StopSilent ==
  /\ pc = "stop"
  /\ interrupted' = TRUE
  /\ where' = Append(where, "pause")
  /\ pauses' = Append(pauses, Count("macro"))
  /\ frames' = Append(frames, [kind |-> "stop", lvl |-> PauseLevel + 1, ret |-> back])
  /\ asked' = Nothing
  /\ Goto("wait")
  /\ UNCHANGED <<console, queue, inputs, manager>>

\* internal_stop and pause_interpreter.
Stop ==
  /\ pc = "stop"
  /\ interrupted' = TRUE
  /\ where' = Append(where, "pause")
  /\ pauses' = Append(pauses, Count("macro"))
  /\ frames' = Append(frames, [kind |-> "stop", lvl |-> PauseLevel + 1, ret |-> back])
  /\ console' = Released
  /\ asked' = Nothing
  /\ Goto("wait")
  /\ UNCHANGED <<queue, inputs, manager>>

\* What follows a stop: a step from the end of a function is a step out of it.
GoOn ==
  /\ pc = "wait"
  /\ PauseLevel # Last(frames).lvl
  /\ interrupted' = FALSE
  /\ where' = Front(where)
  /\ frames' = Front(frames)
  /\ LET ret  == Last(frames).ret
         over == ret = "leave" /\ action \in {"StepNext", "StepIn"} /\ level = Len(where')
     IN  /\ action' = IF over THEN "StepOut" ELSE action
         /\ level' = IF over THEN Len(where') ELSE level
         /\ asked' = IF over /\ asked.kind \in Steps
                       THEN Asked("StepOut", Len(where')) ELSE asked
         /\ Goto(IF action = "Aborted" THEN "unwind" ELSE ret)
  /\ UNCHANGED <<console, queue, inputs, enabled, pauses>>

\* The end of a launch, which also drops a step, unless it was in a stop.
Finish ==
  /\ pc = "done"
  /\ frames' = Front(frames)
  /\ console' = IF Last(frames).lvl = PauseLevel \/ \E i \in DOMAIN frames' : ~IsStop(frames[i])
                  THEN Released ELSE console
  /\ action' = IF interrupted THEN action ELSE "Continue"
  /\ Goto(NextPc(frames'))
  /\ asked' = IF interrupted THEN asked ELSE Nothing
  /\ UNCHANGED <<queue, inputs, enabled, level, interrupted, pauses, where>>

\* Fault: an aborted stop leaves its pause in the call stack.
UnwindKeepsPause ==
  /\ pc = "unwind"
  /\ frames # <<>>
  /\ frames' = Front(frames)
  /\ IF IsStop(Last(frames))
       THEN /\ interrupted' = FALSE
            /\ UNCHANGED <<where, console, action, pauses>>
       ELSE /\ where' = SubSeq(where, 1, Last(frames).depth)
            /\ IF pauses # <<>> THEN pauses' = Front(pauses) /\ UNCHANGED action
               ELSE action' = "Aborted" /\ UNCHANGED pauses
            /\ console' = Released
            /\ UNCHANGED interrupted
  /\ UNCHANGED <<queue, inputs, enabled, level, pc, back, asked>>

\* An abort leaves the launches and the stops up to the main loop.
Unwind ==
  /\ pc = "unwind"
  /\ frames # <<>>
  /\ frames' = Front(frames)
  /\ IF IsStop(Last(frames))
       THEN /\ interrupted' = FALSE
            /\ where' = Front(where)
            /\ UNCHANGED <<console, action, pauses>>
       ELSE /\ where' = SubSeq(where, 1, Last(frames).depth)
            /\ IF pauses # <<>> THEN pauses' = Front(pauses) /\ UNCHANGED action
               ELSE action' = "Aborted" /\ UNCHANGED pauses
            /\ console' = Released
            /\ UNCHANGED interrupted
  /\ UNCHANGED <<queue, inputs, enabled, level, pc, back, asked>>

MainLoop ==
  /\ pc = "unwind"
  /\ frames = <<>>
  /\ asked' = Nothing
  /\ Goto("main")
  /\ UNCHANGED <<console, queue, inputs, manager, stack>>

Interpreter ==
  \/ Launch \/ EnterBody \/ Check \/ Statement \/ Simple \/ Block \/ Call \/ Fail
  \/ ExecResume \/ ExecAbort \/ After \/ End \/ Leave \/ Caught \/ ErrorStops
  \/ Thrown \/ Stop \/ GoOn \/ Finish \/ Unwind \/ MainLoop

Next ==
  \/ Interpreter
  \/ Run \/ Resume \/ Show \/ Store
  \/ \E kind \in Steps : Step(kind)
  \/ \E quits \in BOOLEAN : Abort(quits)
  \/ CallbackChecks \/ CallbackStores

\* A command that is typed is stored, and the interpreter goes on.  What
\* runs for ever has a loop.
Fairness ==
  /\ WF_vars(Store) /\ WF_vars(CallbackStores)
  /\ WF_vars(Interpreter) /\ SF_vars(Block)

Spec == Init /\ [][Next]_vars
FairSpec == Spec /\ Fairness

-----------------------------------------------------------------------------
DebugTypeOK ==
  /\ console \in {"prompt", "run", "resume", "print", "abort", "wait", "left"}
  /\ queue \in Seq({"run", "resume", "print", "abort"})
  /\ gui \in {"idle", "checked"}
  /\ typed \in 0..MaxTyped /\ called \in 0..MaxCallbacks
  /\ {enabled, interrupted} \subseteq BOOLEAN
  /\ action \in Steps \cup {"Continue", "Aborted"}
  /\ level \in Nat /\ pauses \in Seq(0..MaxCalls)
  /\ where \in Seq({"macro", "pause"})
  /\ asked.kind \in Steps \cup {"nothing", "abort"} /\ asked.since \in {"none", "catch"}

\* The pauses of the call stack are those of the stops, whichever of resume,
\* abort and an error leaves a stop, and nothing is left of them in the end.
\* The debugger only says that it is on a breakpoint when it is.  Types included.
StopsCounted ==
  /\ DebugTypeOK
  /\ Count("pause") = Cardinality(Stops)
  /\ PauseLevel <= Cardinality(Stops)
  /\ interrupted => Stops # {}
  /\ pc = "main" => frames = <<>> /\ where = <<>> /\ pauses = <<>>

\* After a step, whatever calls, returns, errors and callbacks come between:
\*  - no statement begins that the step should have stopped at.  The exception
\*    is an error that a caller catches below the level of the step, since
\*    only stepout is tested below it, and after a statement: the first
\*    statement of the catch begins, with those it contains;
\*  - no statement, and no call in one, is over below that level without a
\*    stop, those of a catch included;
\*  - it stops in the same function or in a caller, stepout in a caller, stepin
\*    anywhere.
\* A step holds until something stops, a command ends outside a stop (launch
\* then resets it), or the user types continue or abort.
Begins == pc = "check" /\ pc' = "yield" /\ ~interrupted /\ HasSource
EndsUnstopped ==
  /\ pc \in {"after", "returned"} /\ pc' \notin {pc, "stop"} /\ HasSource
  /\ asked.kind \in Steps
StoppedByStep == action = asked.kind /\ action \in Steps /\ action' = "Continue" /\ pc' = "stop"
InCatch == asked.since = "catch" /\ Current < asked.depth
StepsStop ==
  [][/\ Begins =>
          CASE asked.kind = "StepIn"   -> InCatch
            [] asked.kind = "StepNext" -> InCatch \/ Current > asked.depth
            [] asked.kind = "StepOut"  -> InCatch \/ Current >= asked.depth
            [] OTHER -> TRUE
     /\ EndsUnstopped => Current >= asked.depth
     /\ StoppedByStep =>
          CASE action = "StepIn"   -> TRUE
            [] action = "StepNext" -> Current <= asked.depth
            [] action = "StepOut"  -> Current < asked.depth]_vars

\* The console gets its prompt back, unless what it runs never ends.
DebuggerReleased ==
  []<><<Statement>>_vars \/ (console = "wait" ~> console # "wait")

\* abort ends what runs, unless it stops just then; executed in a stop, it
\* leaves all the stops and commands.
AbortObeyed ==
  /\ asked.kind = "abort" ~> asked.kind # "abort" \/ pc \in {"main", "wait"}
  /\ pc = "unwind" ~> pc = "main"
=============================================================================
