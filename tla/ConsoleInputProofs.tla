-------------------------- MODULE ConsoleInputProofs --------------------------
(***************************************************************************)
(* The hand-over of a line typed at the console, for any programs and any  *)
(* number of commands: outside the step by step modes each line has one    *)
(* reader, and that reader finds it.                                       *)
(***************************************************************************)
EXTENDS ConsoleInput, SequenceTheorems, TLAPS

\* What the engine guarantees when only commands typed at the console read:
\* the hypothesis of the properties of ConsoleInput.
CallbacksDoNotRead == \A p \in Callbacks : \A i \in DOMAIN p : p[i] = 0

-----------------------------------------------------------------------------
(* The inductive invariant.                                                *)

Frame == [origin : {"CONSOLE", "NONE"}, todo : Seq(Nat)]
Wanting == {"ask"} \cup Asking

\* Something runs unless the interpreter is idle, and it wants lines only for
\* mscanf or for a step.
StackInv ==
  /\ mpc = "idle" <=> frames = <<>>
  /\ ~stepping => (mpc \in Wanting <=> rows > 0)

\* A callback reads nothing, and nothing runs over a console command.
CommandInv ==
  \A i \in DOMAIN frames :
    /\ frames[i].origin = "NONE" => \A k \in DOMAIN frames[i].todo : frames[i].todo[k] = 0
    /\ frames[i].origin = "CONSOLE" => i = Len(frames)

\* There is at most one command of the console.
ConsoleRuns == frames # <<>> /\ Last(frames).origin = "CONSOLE"
ConsoleBusy == prio # <<>> \/ ConsoleRuns
OneCommand ==
  /\ Len(prio) <= 1
  /\ prio # <<>> => ~ConsoleRuns
  /\ mpc \in Wanting => ConsoleRuns

\* The lock of the line is that of scilabRead.
LockInv == readLock = "console" <=> cpc \in {"reading", "read"}

\* Whom the line is for.  While the console reads, a running command can only
\* be an mscanf that waits for that line, and the flag says which of the two
\* it is.  While the console waits, the flag is down from the question of the
\* mscanf to the line, and only a waiting mscanf leaves a line where it is.
AtPrompt == {"prompt", "reading", "read"}
Line ==
  /\ mpc # "resend"
  /\ cpc # "crash"
  /\ cpc \in AtPrompt =>
       /\ hasLine <=> cpc = "read"
       /\ isCommand <=> ~ConsoleBusy
       /\ ConsoleBusy => mpc = "spin"
  /\ cpc \in {"fetch", "store"} =>
       /\ hasLine <=> cpc = "fetch"
       /\ isCommand /\ ~ConsoleBusy
  /\ cpc \in {"wait", "waiting"} =>
       /\ hasLine => mpc = "spin"
       /\ ~isCommand <=> (mpc \in {"get", "send"} \/ (mpc = "spin" /\ ~hasLine))
  /\ cpc = "waiting" /\ consoleDone =>
       ~hasLine /\ (ConsoleBusy => mpc = "spin")

\* InputTypeOK, one variable at a time.
Typed ==
  /\ readLock \in {"nobody", "console"}
  /\ stepping \in Modes
  /\ cpc \in {"prompt", "reading", "read", "wait", "fetch", "store", "waiting",
              "crash"}
  /\ prio \in Seq(Programs)
  /\ norm \in Seq(Callbacks)
  /\ frames \in Seq(Frame)
  /\ mpc \in {"idle", "run", "ask", "get", "send", "spin", "resend"}
  /\ rows \in Nat
Flags ==
  /\ hasLine \in BOOLEAN /\ isCommand \in BOOLEAN
  /\ consoleDone \in BOOLEAN /\ cret \in BOOLEAN

Handed == CommandInv /\ OneCommand /\ LockInv /\ Line
IInv == Typed /\ Flags /\ StackInv /\ (~stepping => Handed)

LEMMA TypeIsTyped == Typed /\ Flags => InputTypeOK
<1> SUFFICES ASSUME Typed, Flags PROVE InputTypeOK
  OBVIOUS
<1>1. {hasLine, isCommand, consoleDone, cret} \subseteq BOOLEAN
  BY DEF Flags
<1>2. mpc \in {"idle", "run", "ask"} \cup Asking
  BY DEF Typed, Asking
<1> QED
  BY <1>1, <1>2 DEF Typed, Frame, InputTypeOK

-----------------------------------------------------------------------------
(* The stack of the commands.                                              *)

\* The last element of a sequence, and the rest of it.
LEMMA LastFront ==
  ASSUME NEW S, NEW s \in Seq(S), s # <<>>
  PROVE  /\ Len(s) \in Nat \ {0}
         /\ Last(s) = s[Len(s)]
         /\ Last(s) \in S
         /\ Front(s) \in Seq(S)
         /\ Len(Front(s)) = Len(s) - 1
         /\ \A i \in 1 .. Len(s) - 1 : Front(s)[i] = s[i]
         /\ DOMAIN s = 1 .. Len(s)
         /\ DOMAIN Front(s) = 1 .. Len(s) - 1
<1>1. Len(s) \in Nat \ {0} /\ DOMAIN s = 1 .. Len(s)
  OBVIOUS
<1>2. Last(s) = s[Len(s)] /\ Last(s) \in S
  BY <1>1 DEF Last
<1>3. Front(s) = SubSeq(s, 1, Len(s) - 1)
  BY DEF Front
<1>4. Front(s) \in Seq(S) /\ Len(Front(s)) = Len(s) - 1
  BY <1>1, <1>3
<1>5. \A i \in 1 .. Len(s) - 1 : Front(s)[i] = s[i]
  BY <1>1, <1>3
<1> QED
  BY <1>1, <1>2, <1>4, <1>5

\* What is on top of a stack of frames after a push.
LEMMA Pushed ==
  ASSUME NEW fs \in Seq(Frame), NEW f \in Frame
  PROVE  LET gs == Append(fs, f) IN
         /\ gs \in Seq(Frame) /\ gs # <<>>
         /\ Len(gs) = Len(fs) + 1 /\ Len(fs) \in Nat
         /\ Last(gs) = f /\ gs[Len(gs)] = f
         /\ DOMAIN gs = 1 .. Len(fs) + 1 /\ DOMAIN fs = 1 .. Len(fs)
         /\ \A i \in 1 .. Len(fs) : gs[i] = fs[i]
<1> DEFINE gs == Append(fs, f)
<1>1. /\ gs \in Seq(Frame) /\ gs # <<>>
      /\ Len(gs) = Len(fs) + 1 /\ Len(fs) \in Nat
      /\ gs[Len(gs)] = f
      /\ DOMAIN gs = 1 .. Len(fs) + 1 /\ DOMAIN fs = 1 .. Len(fs)
      /\ \A i \in 1 .. Len(fs) : gs[i] = fs[i]
  OBVIOUS
<1>2. Last(gs) = f
  BY <1>1 DEF Last
<1> QED
  BY <1>1, <1>2

-----------------------------------------------------------------------------
\* The steps that leave the commands that run alone.
LEMMA FlatStep ==
  ASSUME IInv,
         \/ LockScilabRead \/ TypeLine \/ ReadMode \/ ConsoleWait \/ ConsoleFetch
         \/ StoreNothing \/ ConsoleReleased \/ Ask \/ GetLine \/ SendFirst
         \/ SpinMscanf \/ SpinStep \/ SendLast
  PROVE  IInv'
<1> USE DEF IInv, Handed, Typed, Flags, StackInv, OneCommand, LockInv, Line,
            ConsoleBusy, ConsoleRuns, Wanting, Asking, AtPrompt, shared, cVars, queues,
            mainVars
<1>1. CASE LockScilabRead
  <2>1. Typed' /\ UNCHANGED <<stepping, frames, prio>>
    BY <1>1 DEF LockScilabRead
  <2>2. Flags'
    BY <1>1 DEF LockScilabRead
  <2>3. StackInv'
    BY <1>1 DEF LockScilabRead
  <2>4. ASSUME ~stepping PROVE Handed'
    <3>1. CommandInv'
      BY <2>1, <2>4 DEF CommandInv
    <3>2. OneCommand'
      BY <1>1, <2>1, <2>4 DEF LockScilabRead
    <3>3. LockInv'
      BY <1>1, <2>4 DEF LockScilabRead
    <3>4. Line'
      BY <1>1, <2>4 DEF LockScilabRead
    <3> QED
      BY <3>1, <3>2, <3>3, <3>4
  <2> QED
    BY <2>1, <2>2, <2>3, <2>4
<1>2. CASE TypeLine
  <2>1. Typed' /\ UNCHANGED <<stepping, frames, prio>>
    BY <1>2 DEF TypeLine
  <2>2. Flags'
    BY <1>2 DEF TypeLine
  <2>3. StackInv'
    BY <1>2 DEF TypeLine
  <2>4. ASSUME ~stepping PROVE Handed'
    <3>1. CommandInv'
      BY <2>1, <2>4 DEF CommandInv
    <3>2. OneCommand'
      BY <1>2, <2>1, <2>4 DEF TypeLine
    <3>3. LockInv'
      BY <1>2, <2>4 DEF TypeLine
    <3>4. Line'
      BY <1>2, <2>4 DEF TypeLine
    <3> QED
      BY <3>1, <3>2, <3>3, <3>4
  <2> QED
    BY <2>1, <2>2, <2>3, <2>4
<1>3. CASE ReadMode
  <2>1. Typed' /\ UNCHANGED <<stepping, frames, prio>>
    BY <1>3 DEF ReadMode
  <2>2. Flags'
    BY <1>3 DEF ReadMode
  <2>3. StackInv'
    BY <1>3 DEF ReadMode
  <2>4. ASSUME ~stepping PROVE Handed'
    <3>1. CommandInv'
      BY <2>1, <2>4 DEF CommandInv
    <3>2. OneCommand'
      BY <1>3, <2>1, <2>4 DEF ReadMode
    <3>3. LockInv'
      BY <1>3, <2>4 DEF ReadMode
    <3>4. Line'
      BY <1>3, <2>4 DEF ReadMode
    <3> QED
      BY <3>1, <3>2, <3>3, <3>4
  <2> QED
    BY <2>1, <2>2, <2>3, <2>4
<1>4. CASE ConsoleWait
  <2>1. Typed' /\ UNCHANGED <<stepping, frames, prio>>
    BY <1>4 DEF ConsoleWait
  <2>2. Flags'
    BY <1>4 DEF ConsoleWait
  <2>3. StackInv'
    BY <1>4 DEF ConsoleWait
  <2>4. ASSUME ~stepping PROVE Handed'
    <3>1. CommandInv'
      BY <2>1, <2>4 DEF CommandInv
    <3>2. OneCommand'
      BY <1>4, <2>1, <2>4 DEF ConsoleWait
    <3>3. LockInv'
      BY <1>4, <2>4 DEF ConsoleWait
    <3>4. Line'
      BY <1>4, <2>4 DEF ConsoleWait
    <3> QED
      BY <3>1, <3>2, <3>3, <3>4
  <2> QED
    BY <2>1, <2>2, <2>3, <2>4
<1>5. CASE ConsoleFetch
  <2>1. Typed' /\ UNCHANGED <<stepping, frames, prio>>
    BY <1>5 DEF ConsoleFetch
  <2>2. Flags'
    BY <1>5 DEF ConsoleFetch
  <2>3. StackInv'
    BY <1>5 DEF ConsoleFetch
  <2>4. ASSUME ~stepping PROVE Handed'
    <3>1. CommandInv'
      BY <2>1, <2>4 DEF CommandInv
    <3>2. OneCommand'
      BY <1>5, <2>1, <2>4 DEF ConsoleFetch
    <3>3. LockInv'
      BY <1>5, <2>4 DEF ConsoleFetch
    <3>4. Line'
      BY <1>5, <2>4 DEF ConsoleFetch
    <3> QED
      BY <3>1, <3>2, <3>3, <3>4
  <2> QED
    BY <2>1, <2>2, <2>3, <2>4
<1>6. CASE StoreNothing
  <2>1. Typed' /\ UNCHANGED <<stepping, frames, prio>>
    BY <1>6 DEF StoreNothing
  <2>2. Flags'
    BY <1>6 DEF StoreNothing
  <2>3. StackInv'
    BY <1>6 DEF StoreNothing
  <2>4. ASSUME ~stepping PROVE Handed'
    <3>1. CommandInv'
      BY <2>1, <2>4 DEF CommandInv
    <3>2. OneCommand'
      BY <1>6, <2>1, <2>4 DEF StoreNothing
    <3>3. LockInv'
      BY <1>6, <2>4 DEF StoreNothing
    <3>4. Line'
      BY <1>6, <2>4 DEF StoreNothing
    <3> QED
      BY <3>1, <3>2, <3>3, <3>4
  <2> QED
    BY <2>1, <2>2, <2>3, <2>4
<1>7. CASE ConsoleReleased
  <2>1. Typed' /\ UNCHANGED <<stepping, frames, prio>>
    BY <1>7 DEF ConsoleReleased
  <2>2. Flags'
    BY <1>7 DEF ConsoleReleased
  <2>3. StackInv'
    BY <1>7 DEF ConsoleReleased
  <2>4. ASSUME ~stepping PROVE Handed'
    <3>1. CommandInv'
      BY <2>1, <2>4 DEF CommandInv
    <3>2. OneCommand'
      BY <1>7, <2>1, <2>4 DEF ConsoleReleased
    <3>3. LockInv'
      BY <1>7, <2>4 DEF ConsoleReleased
    <3>4. Line'
      BY <1>7, <2>4 DEF ConsoleReleased
    <3> QED
      BY <3>1, <3>2, <3>3, <3>4
  <2> QED
    BY <2>1, <2>2, <2>3, <2>4
<1>8. CASE Ask
  <2>1. Typed' /\ UNCHANGED <<stepping, frames, prio>>
    BY <1>8 DEF Ask
  <2>2. Flags'
    BY <1>8 DEF Ask
  <2>3. StackInv'
    BY <1>8 DEF Ask
  <2>4. ASSUME ~stepping PROVE Handed'
    <3>1. CommandInv'
      BY <2>1, <2>4 DEF CommandInv
    <3>2. OneCommand'
      BY <1>8, <2>1, <2>4 DEF Ask
    <3>3. LockInv'
      BY <1>8, <2>4 DEF Ask
    <3>4. Line'
      BY <1>8, <2>4 DEF Ask
    <3> QED
      BY <3>1, <3>2, <3>3, <3>4
  <2> QED
    BY <2>1, <2>2, <2>3, <2>4
<1>9. CASE GetLine
  <2>1. Typed' /\ UNCHANGED <<stepping, frames, prio>>
    BY <1>9 DEF GetLine
  <2>2. Flags'
    BY <1>9 DEF GetLine
  <2>3. StackInv'
    BY <1>9 DEF GetLine
  <2>4. ASSUME ~stepping PROVE Handed'
    <3>1. CommandInv'
      BY <2>1, <2>4 DEF CommandInv
    <3>2. OneCommand'
      BY <1>9, <2>1, <2>4 DEF GetLine
    <3>3. LockInv'
      BY <1>9, <2>4 DEF GetLine
    <3>4. Line'
      BY <1>9, <2>4 DEF GetLine
    <3> QED
      BY <3>1, <3>2, <3>3, <3>4
  <2> QED
    BY <2>1, <2>2, <2>3, <2>4
<1>10. CASE SendFirst
  <2>1. Typed' /\ UNCHANGED <<stepping, frames, prio>>
    BY <1>10 DEF SendFirst
  <2>2. Flags'
    BY <1>10 DEF SendFirst
  <2>3. StackInv'
    BY <1>10 DEF SendFirst
  <2>4. ASSUME ~stepping PROVE Handed'
    <3>1. CommandInv'
      BY <2>1, <2>4 DEF CommandInv
    <3>2. OneCommand'
      BY <1>10, <2>1, <2>4 DEF SendFirst
    <3>3. LockInv'
      BY <1>10, <2>4 DEF SendFirst
    <3>4. Line'
      BY <1>10, <2>4 DEF SendFirst
    <3> QED
      BY <3>1, <3>2, <3>3, <3>4
  <2> QED
    BY <2>1, <2>2, <2>3, <2>4
<1>11. CASE SpinMscanf
  <2>1. Typed' /\ UNCHANGED <<stepping, frames, prio>>
    BY <1>11 DEF SpinMscanf, GotLine
  <2>2. Flags'
    BY <1>11 DEF SpinMscanf, GotLine
  <2>3. StackInv'
    BY <1>11 DEF SpinMscanf, GotLine
  <2>4. ASSUME ~stepping PROVE Handed'
    <3>1. CommandInv'
      BY <2>1, <2>4 DEF CommandInv
    <3>2. OneCommand'
      BY <1>11, <2>1, <2>4 DEF SpinMscanf, GotLine
    <3>3. LockInv'
      BY <1>11, <2>4 DEF SpinMscanf, GotLine
    <3>4. Line'
      BY <1>11, <2>4 DEF SpinMscanf, GotLine
    <3> QED
      BY <3>1, <3>2, <3>3, <3>4
  <2> QED
    BY <2>1, <2>2, <2>3, <2>4
<1>12. CASE SpinStep
  <2>1. Typed' /\ UNCHANGED <<stepping, frames, prio>>
    BY <1>12 DEF SpinStep
  <2>2. Flags'
    BY <1>12 DEF SpinStep
  <2>3. StackInv'
    BY <1>12 DEF SpinStep
  <2>4. ASSUME ~stepping PROVE Handed'
    <3>1. CommandInv'
      BY <2>1, <2>4 DEF CommandInv
    <3>2. OneCommand'
      BY <1>12, <2>1, <2>4 DEF SpinStep
    <3>3. LockInv'
      BY <1>12, <2>4 DEF SpinStep
    <3>4. Line'
      BY <1>12, <2>4 DEF SpinStep
    <3> QED
      BY <3>1, <3>2, <3>3, <3>4
  <2> QED
    BY <2>1, <2>2, <2>3, <2>4
<1>13. CASE SendLast
  <2>1. Typed' /\ UNCHANGED <<stepping, frames, prio>>
    BY <1>13 DEF SendLast, GotLine
  <2>2. Flags'
    BY <1>13 DEF SendLast, GotLine
  <2>3. StackInv'
    BY <1>13 DEF SendLast, GotLine
  <2>4. ASSUME ~stepping PROVE Handed'
    <3>1. CommandInv'
      BY <2>1, <2>4 DEF CommandInv
    <3>2. OneCommand'
      BY <1>13, <2>1, <2>4 DEF SendLast, GotLine
    <3>3. LockInv'
      BY <1>13, <2>4 DEF SendLast, GotLine
    <3>4. Line'
      BY <1>13, <2>4 DEF SendLast, GotLine
    <3> QED
      BY <3>1, <3>2, <3>3, <3>4
  <2> QED
    BY <2>1, <2>2, <2>3, <2>4
<1> QED
  BY <1>1, <1>2, <1>3, <1>4, <1>5, <1>6, <1>7, <1>8, <1>9, <1>10, <1>11, <1>12, <1>13

-----------------------------------------------------------------------------
(* The steps that change what is queued or what runs.                      *)

\* A console command is stored only when there is none.
LEMMA StoreConsoleStep ==
  ASSUME IInv, NEW p \in Programs, StoreConsoleCommand(p)
  PROVE  IInv'
<1> USE DEF StoreConsoleCommand
<1>1. /\ cpc = "store" /\ cpc' = "waiting" /\ consoleDone' = FALSE
      /\ prio' = Append(prio, p) /\ prio \in Seq(Programs)
      /\ UNCHANGED <<readLock, hasLine, isCommand, stepping, cret, norm, frames, mpc, rows>>
  BY DEF IInv, Typed, mainVars
<1>2. /\ prio' \in Seq(Programs) /\ prio' # <<>>
      /\ Len(prio') = Len(prio) + 1 /\ Len(prio) \in Nat
      /\ prio = <<>> => Len(prio) = 0
  BY <1>1
<1>3. Typed'
  BY <1>1, <1>2 DEF IInv, Typed
<1>4. Flags'
  BY <1>1 DEF IInv, Flags
<1>5. StackInv'
  BY <1>1 DEF IInv, StackInv, Wanting, Asking
<1>6. ASSUME ~stepping PROVE Handed'
  <2>1. ~ConsoleBusy /\ isCommand /\ ~hasLine
    BY <1>1, <1>6 DEF IInv, Handed, Line, AtPrompt
  <2>2. CommandInv'
    BY <1>1, <1>6 DEF IInv, Handed, CommandInv
  <2>3. OneCommand'
    BY <1>1, <1>2, <1>6, <2>1 DEF IInv, Handed, OneCommand, ConsoleBusy, ConsoleRuns,
       Wanting, Asking
  <2>4. LockInv'
    BY <1>1, <1>6 DEF IInv, Handed, LockInv
  <2>5. mpc \notin Wanting
    BY <1>6, <2>1 DEF IInv, Handed, OneCommand, ConsoleBusy
  <2>6. Line'
    BY <1>1, <1>6, <2>1, <2>5 DEF IInv, Handed, Line, AtPrompt, Wanting, Asking
  <2> QED
    BY <2>2, <2>3, <2>4, <2>6 DEF Handed
<1> QED
  BY <1>1, <1>3, <1>4, <1>5, <1>6 DEF IInv

LEMMA StoreCallbackStep ==
  ASSUME IInv, NEW p \in Callbacks, StoreCallback(p)
  PROVE  IInv'
<1>1. /\ norm' = <<p>>
      /\ UNCHANGED <<readLock, hasLine, isCommand, consoleDone, stepping, cpc, cret, prio,
                     frames, mpc, rows>>
  BY DEF StoreCallback, shared, cVars, mainVars
<1>2. norm' \in Seq(Callbacks)
  BY <1>1
<1>3. Typed'
  BY <1>1, <1>2 DEF IInv, Typed
<1>4. Flags' /\ StackInv'
  BY <1>1 DEF IInv, Flags, StackInv
<1>5. (~stepping => Handed)'
  BY <1>1 DEF IInv, Handed, CommandInv, OneCommand, ConsoleRuns, LockInv, Line,
     ConsoleBusy
<1> QED
  BY <1>3, <1>4, <1>5 DEF IInv

\* A console command is launched when none runs, by an interpreter that wants
\* no line.
LEMMA LaunchConsoleStep ==
  ASSUME IInv, Launch, prio # <<>>
  PROVE  IInv'
<1> DEFINE f == [origin |-> "CONSOLE", todo |-> Head(prio)]
<1>1. /\ mpc \in {"idle", "run"} /\ mpc' = "run"
      /\ frames' = Append(frames, f) /\ prio' = Tail(prio)
      /\ UNCHANGED <<readLock, hasLine, isCommand, consoleDone, stepping, cpc, cret, norm,
                     rows>>
  BY DEF Launch, shared, cVars
<1>2. prio \in Seq(Programs) /\ frames \in Seq(Frame)
  BY DEF IInv, Typed
<1>3. /\ Head(prio) \in Programs /\ Tail(prio) \in Seq(Programs)
      /\ Len(prio) \in Nat \ {0} /\ Len(Tail(prio)) = Len(prio) - 1
  BY <1>2
<1>4. f \in Frame
  BY <1>3, InputAssumption DEF Frame
<1>5. /\ frames' \in Seq(Frame) /\ frames' # <<>>
      /\ Len(frames') = Len(frames) + 1 /\ Len(frames) \in Nat
      /\ Last(frames') = f /\ frames'[Len(frames')] = f
      /\ DOMAIN frames' = 1 .. Len(frames) + 1 /\ DOMAIN frames = 1 .. Len(frames)
      /\ \A i \in 1 .. Len(frames) : frames'[i] = frames[i]
  BY <1>1, <1>2, <1>4, Pushed
<1> HIDE DEF f
<1>6. Typed'
  BY <1>1, <1>3, <1>5 DEF IInv, Typed
<1>7. Flags'
  BY <1>1 DEF IInv, Flags
<1>8. StackInv'
  BY <1>1, <1>5 DEF IInv, StackInv, Wanting, Asking
<1>9. ASSUME ~stepping PROVE Handed'
  <2>1. ~ConsoleRuns /\ Len(prio) = 1 /\ ConsoleBusy
    BY <1>3, <1>9 DEF IInv, Handed, OneCommand, ConsoleBusy
  <2>2. \A i \in 1 .. Len(frames) : frames[i].origin # "CONSOLE"
    <3> SUFFICES ASSUME NEW i \in 1 .. Len(frames), frames[i].origin = "CONSOLE"
                 PROVE  FALSE
      OBVIOUS
    <3>1. i = Len(frames)
      BY <1>5, <1>9 DEF IInv, Handed, CommandInv
    <3>2. frames # <<>>
      BY <1>2
    <3>3. Last(frames) = frames[Len(frames)]
      BY <1>2, <3>2, LastFront
    <3> QED
      BY <2>1, <3>1, <3>2, <3>3 DEF ConsoleRuns
  <2>3. f.origin = "CONSOLE"
    BY DEF f
  <2>4. CommandInv'
    <3> SUFFICES ASSUME NEW i \in 1 .. Len(frames) + 1
                 PROVE  /\ frames'[i].origin = "NONE" =>
                             \A k \in DOMAIN frames'[i].todo : frames'[i].todo[k] = 0
                        /\ frames'[i].origin = "CONSOLE" => i = Len(frames')
      BY <1>5 DEF CommandInv
    <3>1. CASE i = Len(frames) + 1
      BY <1>5, <2>3, <3>1
    <3>2. CASE i \in 1 .. Len(frames)
      <4>1. /\ frames[i].origin = "NONE" =>
                 \A k \in DOMAIN frames[i].todo : frames[i].todo[k] = 0
            /\ frames[i].origin # "CONSOLE"
        BY <1>5, <1>9, <2>2, <3>2 DEF IInv, Handed, CommandInv
      <4> QED
        BY <1>5, <3>2, <4>1
    <3> QED
      BY <1>5, <3>1, <3>2
  <2>5. prio' = <<>> /\ Len(prio') = 0
    BY <1>1, <1>3, <2>1
  <2>6. OneCommand'
    BY <1>1, <1>5, <2>3, <2>5 DEF OneCommand, ConsoleRuns
  <2>7. LockInv'
    BY <1>1, <1>9 DEF IInv, Handed, LockInv
  <2>8. ConsoleBusy'
    BY <1>5, <2>3 DEF ConsoleBusy, ConsoleRuns
  <2>9. Line'
    BY <1>1, <1>9, <2>1, <2>8 DEF IInv, Handed, Line, AtPrompt
  <2> QED
    BY <2>4, <2>6, <2>7, <2>9 DEF Handed
<1> QED
  BY <1>1, <1>6, <1>7, <1>8, <1>9 DEF IInv

\* A callback is launched when nothing runs and no command of the console is
\* stored.
LEMMA LaunchCallbackStep ==
  ASSUME CallbacksDoNotRead, IInv, Launch, prio = <<>>
  PROVE  IInv'
<1> DEFINE f == [origin |-> "NONE", todo |-> Head(norm)]
<1>1. /\ mpc = "idle" /\ mpc' = "run" /\ norm # <<>>
      /\ frames' = Append(frames, f) /\ norm' = Tail(norm)
      /\ UNCHANGED <<readLock, hasLine, isCommand, consoleDone, stepping, cpc, cret, prio,
                     rows>>
  BY DEF Launch, shared, cVars
<1>2. norm \in Seq(Callbacks) /\ frames \in Seq(Frame) /\ frames = <<>>
  BY <1>1 DEF IInv, Typed, StackInv
<1>3. Head(norm) \in Callbacks /\ Tail(norm) \in Seq(Callbacks)
  BY <1>1, <1>2
<1>4. f \in Frame
  BY <1>3, InputAssumption DEF Frame
<1>5. /\ frames' \in Seq(Frame) /\ frames' # <<>>
      /\ Len(frames') = Len(frames) + 1 /\ Len(frames) = 0
      /\ Last(frames') = f /\ frames'[Len(frames')] = f
      /\ DOMAIN frames' = 1 .. Len(frames) + 1
  BY <1>1, <1>2, <1>4, Pushed
<1>6. f.origin = "NONE" /\ \A k \in DOMAIN f.todo : f.todo[k] = 0
  BY <1>3 DEF CallbacksDoNotRead
<1> HIDE DEF f
<1>7. Typed'
  BY <1>1, <1>3, <1>5 DEF IInv, Typed
<1>8. Flags'
  BY <1>1 DEF IInv, Flags
<1>9. StackInv'
  BY <1>1, <1>5 DEF IInv, StackInv, Wanting, Asking
<1>10. ASSUME ~stepping PROVE Handed'
  <2>1. ~ConsoleBusy /\ ~ConsoleBusy'
    BY <1>1, <1>2, <1>5, <1>6 DEF ConsoleBusy, ConsoleRuns
  <2>2. CommandInv'
    <3> SUFFICES ASSUME NEW i \in DOMAIN frames'
                 PROVE  /\ frames'[i].origin = "NONE" =>
                             \A k \in DOMAIN frames'[i].todo : frames'[i].todo[k] = 0
                        /\ frames'[i].origin = "CONSOLE" => i = Len(frames')
      BY DEF CommandInv
    <3>1. i = Len(frames')
      BY <1>5
    <3> QED
      BY <1>5, <1>6, <3>1
  <2>3. OneCommand'
    BY <1>1, <1>10 DEF IInv, Handed, OneCommand, Wanting, Asking
  <2>4. LockInv'
    BY <1>1, <1>10 DEF IInv, Handed, LockInv
  <2>5. Line'
    BY <1>1, <1>10, <2>1 DEF IInv, Handed, Line, AtPrompt
  <2> QED
    BY <2>2, <2>3, <2>4, <2>5 DEF Handed
<1> QED
  BY <1>1, <1>7, <1>8, <1>9, <1>10 DEF IInv

\* A statement of a callback wants no line.
LEMMA ExecuteStep ==
  ASSUME IInv, Execute
  PROVE  IInv'
<1> DEFINE f == [Last(frames) EXCEPT !.todo = Tail(Todo)]
<1>1. /\ mpc = "run" /\ Todo # <<>> /\ prio = <<>>
      /\ frames' = Append(Front(frames), f)
      /\ rows' = Head(Todo)
      /\ mpc' = IF rows' > 0 \/ stepping THEN "ask" ELSE "run"
      /\ UNCHANGED <<readLock, hasLine, isCommand, consoleDone, stepping, cpc, cret, prio,
                     norm>>
  BY DEF Execute, SetTodo, shared, cVars, queues
<1>2. frames \in Seq(Frame) /\ frames # <<>>
  BY <1>1 DEF IInv, Typed, StackInv
<1>3. /\ Len(frames) \in Nat \ {0}
      /\ Last(frames) = frames[Len(frames)] /\ Last(frames) \in Frame
      /\ Front(frames) \in Seq(Frame)
      /\ Len(Front(frames)) = Len(frames) - 1
      /\ \A i \in 1 .. Len(frames) - 1 : Front(frames)[i] = frames[i]
      /\ DOMAIN frames = 1 .. Len(frames)
  BY <1>2, LastFront
<1>4. Todo \in Seq(Nat) /\ Todo = Last(frames).todo
  BY <1>3 DEF Todo, Frame
<1>5. /\ Head(Todo) = Todo[1] /\ 1 \in DOMAIN Todo /\ Head(Todo) \in Nat
      /\ Tail(Todo) \in Seq(Nat)
      /\ \A k \in DOMAIN Tail(Todo) : k + 1 \in DOMAIN Todo /\ Tail(Todo)[k] = Todo[k + 1]
  BY <1>1, <1>4
<1>6. f \in Frame /\ f.origin = Last(frames).origin /\ f.todo = Tail(Todo)
  BY <1>3, <1>5 DEF Frame
<1> HIDE DEF f
<1>7. /\ frames' \in Seq(Frame) /\ frames' # <<>>
      /\ Len(frames') = Len(frames)
      /\ Last(frames') = f /\ frames'[Len(frames)] = f
      /\ DOMAIN frames' = 1 .. Len(frames)
      /\ \A i \in 1 .. Len(frames) - 1 : frames'[i] = frames[i]
  BY <1>1, <1>3, <1>6, Pushed
<1>8. rows' \in Nat /\ mpc' \in {"run", "ask"}
  BY <1>1, <1>5
<1>9. Typed'
  BY <1>1, <1>7, <1>8 DEF IInv, Typed
<1>10. Flags'
  BY <1>1 DEF IInv, Flags
<1>11. StackInv'
  BY <1>1, <1>7, <1>8 DEF StackInv, Wanting, Asking
<1>12. ASSUME ~stepping PROVE Handed'
  <2>1. ConsoleRuns' <=> ConsoleRuns
    BY <1>2, <1>6, <1>7 DEF ConsoleRuns
  <2>2. ASSUME NEW i \in 1 .. Len(frames)
        PROVE  /\ frames[i].origin = "NONE" =>
                    \A k \in DOMAIN frames[i].todo : frames[i].todo[k] = 0
               /\ frames[i].origin = "CONSOLE" => i = Len(frames)
    BY <1>3, <1>12 DEF IInv, Handed, CommandInv
  <2>3. Last(frames).origin = "NONE" => \A k \in DOMAIN Todo : Todo[k] = 0
    BY <1>3, <1>4, <2>2
  <2>4. CommandInv'
    <3> SUFFICES ASSUME NEW i \in 1 .. Len(frames)
                 PROVE  /\ frames'[i].origin = "NONE" =>
                             \A k \in DOMAIN frames'[i].todo : frames'[i].todo[k] = 0
                        /\ frames'[i].origin = "CONSOLE" => i = Len(frames')
      BY <1>7 DEF CommandInv
    <3>1. CASE i = Len(frames)
      BY <1>5, <1>6, <1>7, <2>3, <3>1
    <3>2. CASE i \in 1 .. Len(frames) - 1
      BY <1>7, <2>2, <3>2
    <3> QED
      BY <1>3, <3>1, <3>2
  <2>5. mpc' = "ask" => ConsoleRuns
    <3>1. mpc' = "ask" => Todo[1] # 0
      BY <1>1, <1>5, <1>12
    <3>2. ~ConsoleRuns => Last(frames).origin = "NONE"
      BY <1>2, <1>3 DEF ConsoleRuns, Frame
    <3> QED
      BY <1>5, <2>3, <3>1, <3>2
  <2>6. OneCommand'
    BY <1>1, <1>8, <2>1, <2>5 DEF OneCommand, Wanting, Asking
  <2>7. LockInv'
    BY <1>1, <1>12 DEF IInv, Handed, LockInv
  <2>8. ConsoleBusy' <=> ConsoleBusy
    BY <1>1, <2>1 DEF ConsoleBusy
  <2>9. mpc' = "ask" => ConsoleBusy
    BY <2>5 DEF ConsoleBusy
  <2>10. Line'
    BY <1>1, <1>8, <1>12, <2>8, <2>9 DEF IInv, Handed, Line, AtPrompt
  <2> QED
    BY <2>4, <2>6, <2>7, <2>10 DEF Handed
<1> QED
  BY <1>1, <1>9, <1>10, <1>11, <1>12 DEF IInv

\* The end of a console command leaves none, and releases a console that waits.
LEMMA FinishStep ==
  ASSUME IInv, Finish
  PROVE  IInv'
<1>1. /\ mpc = "run" /\ frames' = Front(frames)
      /\ consoleDone' = (consoleDone \/ Last(frames).origin = "CONSOLE")
      /\ mpc' = IF Len(frames) = 1 THEN "idle" ELSE "run"
      /\ UNCHANGED <<readLock, hasLine, isCommand, stepping, cpc, cret, prio, norm, rows>>
  BY DEF Finish, cVars, queues
<1>2. frames \in Seq(Frame) /\ frames # <<>>
  BY <1>1 DEF IInv, Typed, StackInv
<1>3. /\ Len(frames) \in Nat \ {0}
      /\ Last(frames) = frames[Len(frames)] /\ Last(frames) \in Frame
      /\ Front(frames) \in Seq(Frame)
      /\ Len(Front(frames)) = Len(frames) - 1
      /\ \A i \in 1 .. Len(frames) - 1 : Front(frames)[i] = frames[i]
      /\ DOMAIN frames = 1 .. Len(frames)
      /\ DOMAIN Front(frames) = 1 .. Len(frames) - 1
  BY <1>2, LastFront
<1>4. mpc' \in {"idle", "run"} /\ (mpc' = "idle" <=> frames' = <<>>)
  BY <1>1, <1>3
<1>5. Typed'
  BY <1>1, <1>3, <1>4 DEF IInv, Typed
<1>6. Flags'
  BY <1>1 DEF IInv, Flags
<1>7. StackInv'
  BY <1>1, <1>4 DEF IInv, StackInv, Wanting, Asking
<1>8. ASSUME ~stepping PROVE Handed'
  <2>1. ASSUME NEW i \in 1 .. Len(frames) - 1
        PROVE  /\ frames[i].origin = "NONE" =>
                    \A k \in DOMAIN frames[i].todo : frames[i].todo[k] = 0
               /\ frames[i].origin # "CONSOLE"
    <3>1. i \in DOMAIN frames /\ i # Len(frames)
      BY <1>3
    <3> QED
      BY <1>8, <3>1 DEF IInv, Handed, CommandInv
  <2>2. CommandInv'
    <3> SUFFICES ASSUME NEW i \in 1 .. Len(frames) - 1
                 PROVE  /\ frames'[i].origin = "NONE" =>
                             \A k \in DOMAIN frames'[i].todo : frames'[i].todo[k] = 0
                        /\ frames'[i].origin = "CONSOLE" => i = Len(frames')
      BY <1>1, <1>3 DEF CommandInv
    <3> QED
      BY <1>1, <1>3, <2>1
  <2>3. ~ConsoleRuns'
    <3> SUFFICES ASSUME frames' # <<>> PROVE Last(frames').origin # "CONSOLE"
      BY DEF ConsoleRuns
    <3>1. Len(frames') \in 1 .. Len(frames) - 1
      BY <1>1, <1>3
    <3>2. Last(frames') = frames[Len(frames')]
      BY <1>1, <1>3, <3>1 DEF Last
    <3> QED
      BY <2>1, <3>1, <3>2
  <2>4. OneCommand'
    BY <1>1, <1>4, <1>8, <2>3 DEF IInv, Handed, OneCommand, Wanting, Asking
  <2>5. LockInv'
    BY <1>1, <1>8 DEF IInv, Handed, LockInv
  <2>6. ConsoleBusy' <=> prio # <<>>
    BY <1>1, <2>3 DEF ConsoleBusy
  <2>7. Last(frames).origin = "CONSOLE" => ConsoleBusy /\ prio = <<>>
    BY <1>2, <1>8 DEF IInv, Handed, OneCommand, ConsoleBusy, ConsoleRuns
  <2>8. ConsoleBusy' => ConsoleBusy
    BY <2>6 DEF ConsoleBusy
  <2>9. ConsoleBusy /\ ~ConsoleBusy' => Last(frames).origin = "CONSOLE"
    BY <2>6 DEF ConsoleBusy, ConsoleRuns
  <2>10. Line'
    BY <1>1, <1>4, <1>8, <2>6, <2>7, <2>8, <2>9 DEF IInv, Handed, Line, AtPrompt
  <2> QED
    BY <2>2, <2>4, <2>5, <2>10 DEF Handed
<1> QED
  BY <1>1, <1>5, <1>6, <1>7, <1>8 DEF IInv

-----------------------------------------------------------------------------
LEMMA InitIInv == Init => IInv
<1> SUFFICES ASSUME Init PROVE IInv
  OBVIOUS
<1>1. /\ prio = <<>> /\ norm = <<>> /\ frames = <<>> /\ Len(prio) = 0
      /\ DOMAIN frames = {}
  BY DEF Init
<1>2. Typed
  BY <1>1 DEF Init, Typed
<1>3. Flags
  BY DEF Init, Flags
<1>4. StackInv
  <2>1. mpc = "idle" /\ rows = 0 /\ mpc \notin Wanting /\ ~(rows > 0)
    BY DEF Init, Wanting, Asking
  <2> QED
    BY <1>1, <2>1 DEF StackInv
<1>5. CommandInv /\ OneCommand /\ LockInv
  BY <1>1 DEF Init, CommandInv, OneCommand, ConsoleRuns, Wanting, Asking, LockInv
<1>6. Line
  BY <1>1 DEF Init, Line, AtPrompt, ConsoleBusy, ConsoleRuns
<1> QED
  BY <1>2, <1>3, <1>4, <1>5, <1>6 DEF IInv, Handed

LEMMA StepIInv ==
  ASSUME CallbacksDoNotRead, IInv, [Next]_vars
  PROVE  IInv'
<1>1. CASE UNCHANGED vars
  BY <1>1 DEF vars, shared, cVars, queues, mainVars, IInv, Typed, Flags, StackInv, Handed,
     CommandInv, OneCommand, ConsoleRuns, LockInv, Line, ConsoleBusy
<1>2. CASE \/ LockScilabRead \/ TypeLine \/ ReadMode \/ ConsoleWait \/ ConsoleFetch
           \/ StoreNothing \/ ConsoleReleased \/ Ask \/ GetLine \/ SendFirst
           \/ SpinMscanf \/ SpinStep \/ SendLast
  BY <1>2, FlatStep
<1>3. ASSUME NEW p \in Programs, StoreConsoleCommand(p) PROVE IInv'
  BY <1>3, StoreConsoleStep
<1>4. ASSUME NEW p \in Callbacks, StoreCallback(p) PROVE IInv'
  BY <1>4, StoreCallbackStep
<1>5. CASE Launch
  BY <1>5, LaunchConsoleStep, LaunchCallbackStep
<1>6. CASE Execute
  BY <1>6, ExecuteStep
<1>7. CASE Finish
  BY <1>7, FinishStep
<1> QED
  BY <1>1, <1>2, <1>3, <1>4, <1>5, <1>6, <1>7 DEF Next, ConsoleStep, MainStep

\* The strengthened invariant holds in every behaviour.
LEMMA AlwaysIInv ==
  ASSUME CallbacksDoNotRead
  PROVE  Spec => []IInv
<1>1. Init => IInv
  BY InitIInv
<1>2. IInv /\ [Next]_vars => IInv'
  BY StepIInv
<1> QED
  BY <1>1, <1>2, PTL DEF Spec

\* A line typed while no step by step execution is on is taken by one reader
\* before scilabRead (InitScilab.cpp, initConsoleMode and scilabReadAndStore)
\* reads the next one into the same string, whatever the callbacks do as long
\* as they call no mscanf.
THEOREM NoLineLostCorrect ==
  ASSUME CallbacksDoNotRead
  PROVE  Spec => []NoLineLost
<1>1. IInv => NoLineLost
  BY DEF IInv, Handed, Line, AtPrompt, NoLineLost
<1> QED
  BY <1>1, AlwaysIInv, PTL

\* Every variable keeps its type, and the console thread, told by
\* isScilabCommand that the line is a command, gets it from getConsoleReadStr:
\* mscanf has not taken it in between, so strcmp never reads NULL.
THEOREM ConsoleHasLineCorrect ==
  ASSUME CallbacksDoNotRead
  PROVE  Spec => []ConsoleHasLine
<1>1. IInv => ConsoleHasLine
  BY TypeIsTyped DEF IInv, Handed, Line, AtPrompt, ConsoleHasLine
<1> QED
  BY <1>1, AlwaysIInv, PTL

\* A line that answers mscanf is never parsed as a command by the console
\* thread (sci_mscanf.cpp: "The console thread must not parse the next console
\* input").
THEOREM NotParsedCorrect ==
  ASSUME CallbacksDoNotRead
  PROVE  Spec => []NotParsed
<1>1. IInv => NotParsed
  BY DEF IInv, Handed, Line, OneCommand, ConsoleBusy, NotParsed, Wanting, Asking
<1> QED
  BY <1>1, AlwaysIInv, PTL

=============================================================================
