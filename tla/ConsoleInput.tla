---------------------------- MODULE ConsoleInput -----------------------------
(***************************************************************************)
(* A line typed at the console has two possible readers: the console       *)
(* thread (scilabReadAndStore), which parses and stores it, and the        *)
(* interpreter, for mscanf (sci_mscanf.cpp) and for the step by step       *)
(* execution of modes 4 and 7 (run_SeqExp.hpp).  They share the string,    *)
(* the ScilabRead lock, the flag isScilabCommand and the signal            *)
(* ConsoleExecDone.                                                        *)
(*                                                                         *)
(* A program is a sequence of statements: 0 for one that reads nothing,    *)
(* n > 0 for mscanf(n, format).  StoreConsoleCommand keeps the store lock  *)
(* until it waits, so storing and starting to wait are one step; pause is  *)
(* left out (see Interpreter).                                             *)
(***************************************************************************)
EXTENDS Naturals, SequencesExt

CONSTANTS
  Programs,      \* what may be typed as a command
  Callbacks,     \* what may be stored by another thread
  Modes,         \* the values of isPrintInteractive: whether it steps
  MaxCommands    \* bound: commands stored or run at once

ASSUME InputAssumption ==
  /\ Programs \cup Callbacks \subseteq Seq(Nat)
  /\ Modes \subseteq BOOLEAN
  /\ MaxCommands \in Nat \ {0}

VARIABLES
  readLock,      \* m_ScilabReadLock
  hasLine,       \* m_pcConsoleReadStr # NULL
  isCommand,     \* m_isScilabCommand
  consoleDone,   \* m_ConsoleExecDoneWasSignalled
  stepping,
  cpc, cret,     \* the console thread, what scilabRead returned
  prio, norm,    \* the queues
  frames,        \* the commands being run: origin and statements left
  mpc, rows      \* the interpreter thread, lines the mscanf still wants

shared    == <<readLock, hasLine, isCommand, consoleDone>>
cVars     == <<cpc, cret>>
queues    == <<prio, norm>>
mainVars  == <<frames, mpc, rows>>
vars      == <<shared, stepping, cVars, queues, mainVars>>

Init ==
  /\ readLock = "nobody" /\ hasLine = FALSE
  /\ isCommand = TRUE /\ consoleDone = FALSE
  /\ stepping \in Modes
  /\ cpc = "prompt" /\ cret = TRUE
  /\ prio = <<>> /\ norm = <<>>
  /\ frames = <<>> /\ mpc = "idle" /\ rows = 0

Asking == {"get", "send", "spin", "resend"}

InputTypeOK ==
  /\ readLock \in {"nobody", "console"}
  /\ {hasLine, isCommand, consoleDone, cret} \subseteq BOOLEAN
  /\ stepping \in Modes
  /\ cpc \in {"prompt", "reading", "read", "wait", "fetch", "store", "waiting",
              "crash"}
  /\ prio \in Seq(Programs)
  /\ norm \in Seq(Callbacks)
  /\ frames \in Seq([origin : {"CONSOLE", "NONE"}, todo : Seq(Nat)])
  /\ mpc \in {"idle", "run", "ask"} \cup Asking
  /\ rows \in Nat

-----------------------------------------------------------------------------
\* scilabRead: the lock is held until the user has typed.
LockScilabRead ==
  /\ cpc = "prompt"
  /\ readLock = "nobody"
  /\ readLock' = "console"
  /\ cpc' = "reading"
  /\ UNCHANGED <<hasLine, isCommand, consoleDone, stepping, cret, queues,
                 mainVars>>

TypeLine ==
  /\ cpc = "reading"
  /\ hasLine' = TRUE
  /\ cpc' = "read"
  /\ UNCHANGED <<readLock, isCommand, consoleDone, stepping, cret, queues,
                 mainVars>>

\* Faults: the line is always for the console; the flag is not set again.
ReadModeAlways ==
  /\ cpc = "read"
  /\ cret' = TRUE
  /\ isCommand' = TRUE
  /\ readLock' = "nobody"
  /\ cpc' = "fetch"
  /\ UNCHANGED <<hasLine, consoleDone, stepping, queues, mainVars>>
ReadModeKeeps ==
  /\ cpc = "read"
  /\ cret' = isCommand
  /\ readLock' = "nobody"
  /\ cpc' = IF cret' THEN "fetch" ELSE "wait"
  /\ UNCHANGED <<hasLine, isCommand, consoleDone, stepping, queues, mainVars>>

\* isScilabCommand reads the flag and sets it again, still under the lock.
ReadMode ==
  /\ cpc = "read"
  /\ cret' = isCommand
  /\ isCommand' = TRUE
  /\ readLock' = "nobody"
  /\ cpc' = IF cret' THEN "fetch" ELSE "wait"
  /\ UNCHANGED <<hasLine, consoleDone, stepping, queues, mainVars>>

\* Fault: an earlier signal is kept.
ConsoleWaitKeeps ==
  /\ cpc = "wait"
  /\ cpc' = "waiting"
  /\ UNCHANGED <<shared, stepping, cret, queues, mainVars>>

\* The line was not for the console: it waits for the reader to go on, from
\* then on.
ConsoleWait ==
  /\ cpc = "wait"
  /\ consoleDone' = FALSE
  /\ cpc' = "waiting"
  /\ UNCHANGED <<readLock, hasLine, isCommand, stepping, cret, queues, mainVars>>

\* getConsoleReadStr in the console thread; strcmp of NULL.
ConsoleFetch ==
  /\ cpc = "fetch"
  /\ readLock = "nobody"
  /\ hasLine' = FALSE
  /\ cpc' = IF hasLine THEN "store" ELSE "crash"
  /\ UNCHANGED <<readLock, isCommand, consoleDone, stepping, cret, queues,
                 mainVars>>

\* An empty line, one that does not parse or one to be continued stores nothing.
StoreNothing ==
  /\ cpc = "store"
  /\ cpc' = "prompt"
  /\ UNCHANGED <<shared, stepping, cret, queues, mainVars>>

StoreConsoleCommand(p) ==
  /\ cpc = "store"
  /\ Len(prio) + Len(frames) < MaxCommands
  /\ prio' = Append(prio, p)
  /\ consoleDone' = FALSE
  /\ cpc' = "waiting"
  /\ UNCHANGED <<readLock, hasLine, isCommand, stepping, cret, norm, mainVars>>

ConsoleReleased ==
  /\ cpc = "waiting"
  /\ consoleDone
  /\ cpc' = "prompt"
  /\ UNCHANGED <<shared, stepping, cret, queues, mainVars>>

StoreCallback(p) ==
  /\ norm = <<>>
  /\ norm' = <<p>>
  /\ UNCHANGED <<shared, stepping, cVars, prio, mainVars>>

-----------------------------------------------------------------------------
Todo == Last(frames).todo
SetTodo(s) == frames' = Append(Front(frames), [Last(frames) EXCEPT !.todo = s])

\* A prioritary command starts at once, or before the next statement of the
\* one that runs; another one when nothing runs.
Launch ==
  /\ mpc \in {"idle", "run"}
  /\ \/ /\ prio # <<>>
        /\ mpc = "run" => Todo # <<>>
        /\ frames' = Append(frames, [origin |-> "CONSOLE", todo |-> Head(prio)])
        /\ prio' = Tail(prio)
        /\ UNCHANGED norm
     \/ /\ prio = <<>> /\ norm # <<>>
        /\ mpc = "idle"
        /\ frames' = Append(frames, [origin |-> "NONE", todo |-> Head(norm)])
        /\ norm' = Tail(norm)
        /\ UNCHANGED prio
  /\ mpc' = "run"
  /\ UNCHANGED <<shared, stepping, cVars, rows>>

\* One statement; step by step, the statement is followed by a question.
Execute ==
  /\ mpc = "run"
  /\ Todo # <<>>
  /\ prio = <<>>
  /\ SetTodo(Tail(Todo))
  /\ rows' = Head(Todo)
  /\ mpc' = IF rows' > 0 \/ stepping THEN "ask" ELSE "run"
  /\ UNCHANGED <<shared, stepping, cVars, queues>>

\* setScilabCommand(0), without the lock.
Ask ==
  /\ mpc = "ask"
  /\ isCommand' = FALSE
  /\ mpc' = "get"
  /\ UNCHANGED <<readLock, hasLine, consoleDone, stepping, cVars, queues, frames,
                 rows>>

\* The line is there: mscanf goes on with its next row, or else the statement
\* is over, and when stepping its own question comes next.
GotLine ==
  /\ rows' = IF rows > 0 THEN rows - 1 ELSE 0
  /\ mpc' = IF rows > 1 \/ (rows = 1 /\ stepping) THEN "ask" ELSE "run"

\* The first getConsoleReadStr, and the signal after it whatever it found.
GetLine ==
  /\ mpc = "get"
  /\ readLock = "nobody"
  /\ hasLine' = FALSE
  /\ mpc' = IF hasLine THEN "resend" ELSE "send"
  /\ UNCHANGED <<readLock, isCommand, consoleDone, stepping, cVars, queues,
                 frames, rows>>

SendFirst ==
  /\ mpc = "send"
  /\ consoleDone' = TRUE
  /\ mpc' = "spin"
  /\ UNCHANGED <<readLock, hasLine, isCommand, stepping, cVars, queues, frames,
                 rows>>

\* mscanf spins in silence.
SpinMscanf ==
  /\ mpc = "spin"
  /\ rows > 0
  /\ readLock = "nobody"
  /\ hasLine
  /\ hasLine' = FALSE
  /\ GotLine
  /\ UNCHANGED <<readLock, isCommand, consoleDone, stepping, cVars, queues,
                 frames>>

\* Fault, and then the step: it signals after each try.
SpinStepSilent ==
  /\ mpc = "spin"
  /\ rows = 0
  /\ readLock = "nobody"
  /\ hasLine' = FALSE
  /\ mpc' = IF hasLine THEN "resend" ELSE "spin"
  /\ UNCHANGED <<readLock, isCommand, consoleDone, stepping, cVars, queues,
                 frames, rows>>

SpinStep ==
  /\ mpc = "spin"
  /\ rows = 0
  /\ readLock = "nobody"
  /\ hasLine' = FALSE
  /\ mpc' = IF hasLine THEN "resend" ELSE "send"
  /\ UNCHANGED <<readLock, isCommand, consoleDone, stepping, cVars, queues,
                 frames, rows>>

\* The signal after the line was found.  A step then sets the flag again.
SendLast ==
  /\ mpc = "resend"
  /\ consoleDone' = TRUE
  /\ isCommand' = (isCommand \/ rows = 0)
  /\ GotLine
  /\ UNCHANGED <<readLock, hasLine, stepping, cVars, queues, frames>>

\* The end of launch: only a console command signals.
Finish ==
  /\ mpc = "run"
  /\ Todo = <<>>
  /\ consoleDone' = (consoleDone \/ Last(frames).origin = "CONSOLE")
  /\ frames' = Front(frames)
  /\ mpc' = IF Len(frames) = 1 THEN "idle" ELSE "run"
  /\ UNCHANGED <<readLock, hasLine, isCommand, stepping, cVars, queues, rows>>

-----------------------------------------------------------------------------
ConsoleStep ==
  \/ LockScilabRead \/ TypeLine \/ ReadMode \/ ConsoleWait \/ ConsoleFetch
  \/ StoreNothing \/ ConsoleReleased
  \/ \E p \in Programs : StoreConsoleCommand(p)

MainStep ==
  \/ Launch \/ Execute \/ Ask \/ GetLine \/ SendFirst \/ SpinMscanf \/ SpinStep
  \/ SendLast \/ Finish

Next == ConsoleStep \/ MainStep \/ \E p \in Callbacks : StoreCallback(p)

\* Both threads run and the user types; a thread that waits for the ScilabRead
\* lock, which is free in between, comes to take it.
Spec == Init /\ [][Next]_vars /\ SF_vars(ConsoleStep) /\ SF_vars(MainStep)

-----------------------------------------------------------------------------
\* When only commands typed at the console call mscanf, a line is taken by one
\* of the readers before the console reads the next one over it.
NoLineLost == ~stepping => (cpc = "reading" => ~hasLine)

\* ... and the console thread, told that the line is a command, finds it there:
\* the interpreter has not taken it in between; types included.
ConsoleHasLine ==
  /\ InputTypeOK
  /\ ~stepping => (cpc = "fetch" => hasLine) /\ cpc # "crash"

\* "The console thread must not parse the next console input": what is typed
\* for mscanf is not run as a command.
NotParsed == ~stepping /\ mpc \in Asking => cpc \notin {"fetch", "store"}

\* A line typed, for whichever reader, is taken in the end.
LineTaken == hasLine /\ ~stepping ~> ~hasLine

\* The step by step execution signals until it is answered: the console does
\* not miss its question, whenever it started to wait.
StepPrompts ==
  stepping /\ cpc = "waiting" /\ mpc \in Asking /\ rows = 0 ~>
    cpc # "waiting" \/ mpc \notin Asking \/ rows > 0

=============================================================================
