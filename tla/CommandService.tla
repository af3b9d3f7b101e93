--------------------------- MODULE CommandService ---------------------------
(***************************************************************************)
(* What the command engine promises to those who store commands, with no   *)
(* thread, lock, signal or runner: two queues served first in first out,   *)
(* and a stack of started commands on which a suspended command has NoCmd  *)
(* on top of it.  Each stored command is started once; prioritary ones go  *)
(* first; a normal command starts only when nothing runs or what runs is   *)
(* suspended; a prioritary one may also interrupt a running command that   *)
(* was stored interruptible; the interrupted command goes on afterwards.   *)
(***************************************************************************)
EXTENDS Naturals, SequencesExt

CONSTANTS Commands, NoCmd, Prioritary, Interruptible, StartPrio, StartNorm

VARIABLES
  prio,     \* prioritary commands not started yet
  norm,     \* the other commands not started yet
  active    \* started commands, innermost last; NoCmd: suspended below

vars == <<prio, norm, active>>

Init ==
  /\ prio = StartPrio
  /\ norm = StartNorm
  /\ active = <<>>

AtPrompt == active # <<>> => Last(active) = NoCmd
MayInterrupt == ~AtPrompt /\ Last(active) \in Interruptible

Submit(c) ==
  /\ \/ c \in Prioritary /\ prio' = Append(prio, c) /\ UNCHANGED norm
     \/ c \notin Prioritary /\ norm' = Append(norm, c) /\ UNCHANGED prio
  /\ UNCHANGED active

BeginPrioritary ==
  /\ prio # <<>>
  /\ AtPrompt \/ MayInterrupt
  /\ prio' = Tail(prio)
  /\ active' = Append(active, Head(prio))
  /\ UNCHANGED norm

BeginNormal ==
  /\ prio = <<>>
  /\ norm # <<>>
  /\ AtPrompt
  /\ norm' = Tail(norm)
  /\ active' = Append(active, Head(norm))
  /\ UNCHANGED prio

Suspend ==
  /\ ~AtPrompt
  /\ active' = Append(active, NoCmd)
  /\ UNCHANGED <<prio, norm>>

\* A suspension or a command ends; only the innermost one can.
Leave ==
  /\ active # <<>>
  /\ active' = Front(active)
  /\ UNCHANGED <<prio, norm>>

Next ==
  \/ \E c \in Commands : Submit(c)
  \/ BeginPrioritary
  \/ BeginNormal
  \/ Suspend
  \/ Leave

Spec == Init /\ [][Next]_vars

=============================================================================
