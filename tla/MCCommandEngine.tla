-------------------------- MODULE MCCommandEngine ---------------------------
(***************************************************************************)
(* Instances of CommandEngine for TLC.  c1, c2, c3 are typed at the        *)
(* console, k1 is a callback (StoreCommand), r1 a request                  *)
(* (StorePrioritaryCommand), p1 the "pause" of Ctrl-C.  Each configuration *)
(* picks which of them exist and what their statements may do.             *)
(***************************************************************************)
EXTENDS CommandEngine

CONSTANTS c1, c2, c3, k1, r1, p1, t1, t2, main, console, free, none

MCAll == {c1, c2, c3, k1, r1, p1}
MCPrioritary == {c1, c2, c3, r1, p1}
MCInterruptible == {c1, c2, c3, k1}
MCConsole == {c1, c2}
MCConsoleThree == {c1, c2, c3}
MCClientCmds == {k1, r1}
MCRequest == {r1}
MCPause == {p1}
MCNothing == <<>>
MCOrigin == [c \in MCAll |-> IF c \in MCConsoleThree THEN "CONSOLE" ELSE "NONE"]

Programs(console1, console2, callback, request) ==
  [c \in MCAll |-> CASE c = c1 -> console1 [] c \in {c2, c3} -> console2
                     [] c = k1 -> callback [] c = r1 -> request
                     [] c = p1 -> <<{"pause"}>>]

Nothing == <<{"step"}>>

\* Every way to leave or suspend a command, but exit and the recursion error.
MCProgramGui ==
  Programs(<<{"step", "pause", "abort"}, {"step", "error", "resume"}>>,
           <<{"resume", "abort"}>>,
           <<{"step", "pause", "resume"}>>, <<{"step", "pause", "abort"}>>)

\* Only console commands pause, resume and leave Scilab; the others interrupt
\* them.
MCProgramPrompt ==
  Programs(<<{"step", "pause", "exit"}, {"step", "pause", "error"}>>,
           <<{"resume", "pause"}, {"step", "resume", "quit"}>>,
           Nothing, <<{"step", "error"}>>)

\* The console command of -f.
MCStartPrio == <<c1>>

\* Every way to leave a command; the recursion error only in commands typed
\* at the console.
MCProgramLive ==
  Programs(<<{"step", "pause", "exit"}>>,
           <<{"error", "recursion", "quit", "abort"}>>,
           <<{"step", "pause", "resume"}>>, Nothing)

=============================================================================
