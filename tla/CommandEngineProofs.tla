------------------------ MODULE CommandEngineProofs -------------------------
(***************************************************************************)
(* Theorems about CommandEngine, for any number of clients and commands    *)
(* and any programs: its types and the shape of its call stack, the store  *)
(* lock, the command that launch takes, and the pause levels.              *)
(***************************************************************************)
EXTENDS CommandEngine, SequenceTheorems, TLAPS

-----------------------------------------------------------------------------
(* The call stack.  The type of frames alone is not inductive: a statement *)
(* updates the innermost launch frame, and the end of a pause loop goes    *)
(* back to the launch frame below it, so where the interpreter is must say *)
(* what is on top of the stack.                                            *)

\* A pause loop runs inside the launch whose command called it.
WellFormed(fs) ==
  /\ fs \in Seq(Frame)
  /\ \A i \in DOMAIN fs : IsPause(fs[i]) => i > 1 /\ IsLaunch(fs[i - 1])

InCommand == mpc \in {"break", "interrupt", "exec", "finish"}
Throwing == mpc \in {"abort", "recursion"}
Resting == mpc \in {"start", "top", "done"}

\* What is on top of the stack, by where the interpreter is.
TopMatches ==
  /\ InCommand => frames # <<>> /\ IsLaunch(Top)
  /\ mpc = "pauseloop" => frames # <<>> /\ IsPause(Top)
  /\ Throwing => frames # <<>>
  /\ Resting => frames = <<>>

\* The console and the clients store only commands they hold.
ConsoleHolds ==
  cpc \in {"check", "lock", "push", "wait", "waiting"} => ccmd \in ConsoleCmds
ClientsHold ==
  \A t \in Clients : tpc[t] \in {"lock", "push"} => tcmd[t] \in ClientCmds

StackInv ==
  TypeOK /\ WellFormed(frames) /\ TopMatches /\ ConsoleHolds /\ ClientsHold

-----------------------------------------------------------------------------
\* What the two ways to look at the end of a sequence return.
LEMMA LastFront ==
  ASSUME NEW S, NEW s \in Seq(S), s # <<>>
  PROVE  /\ Len(s) \in Nat \ {0}
         /\ Last(s) = s[Len(s)]
         /\ Last(s) \in S
         /\ Front(s) \in Seq(S)
         /\ Len(Front(s)) = Len(s) - 1
         /\ \A i \in 1 .. Len(s) - 1 : Front(s)[i] = s[i]
PROOF
<1>1. Len(s) \in Nat \ {0}
  BY EmptySeq
<1>2. Last(s) = s[Len(s)] /\ Last(s) \in S
  BY <1>1, ElementOfSeq DEF Last
<1>3. \A i \in 1 .. Len(s) - 1 : s[i] \in S
  BY <1>1, ElementOfSeq
<1>4. /\ Front(s) \in Seq(S)
      /\ Len(Front(s)) = IF 1 <= Len(s) - 1 THEN Len(s) - 1 - 1 + 1 ELSE 0
      /\ \A i \in 1 .. Len(s) - 1 - 1 + 1 : Front(s)[i] = s[1 + i - 1]
  BY <1>1, <1>3, SubSeqProperties DEF Front
<1>5. Len(Front(s)) = Len(s) - 1
  <2>1. \A n \in Nat \ {0} : \A m :
          m = (IF 1 <= n - 1 THEN n - 1 - 1 + 1 ELSE 0) => m = n - 1
    OBVIOUS
  <2> QED
    BY <1>1, <1>4, <2>1, Zenon
<1>6. ASSUME NEW i \in 1 .. Len(s) - 1
      PROVE  Front(s)[i] = s[i]
  <2>1. i \in 1 .. Len(s) - 1 - 1 + 1 /\ 1 + i - 1 = i
    BY <1>1
  <2>2. Front(s)[i] = s[1 + i - 1]
    BY <1>4, <2>1
  <2> QED
    BY <2>1, <2>2
<1> QED
  BY <1>1, <1>2, <1>4, <1>5, <1>6

LEMMA LastOfAppend ==
  ASSUME NEW S, NEW s \in Seq(S), NEW e \in S
  PROVE  /\ Append(s, e) \in Seq(S)
         /\ Append(s, e) # <<>>
         /\ Last(Append(s, e)) = e
         /\ Front(Append(s, e)) = s
         /\ Len(Append(s, e)) = Len(s) + 1
         /\ Append(s, e)[Len(s) + 1] = e
         /\ \A i \in 1 .. Len(s) : Append(s, e)[i] = s[i]
PROOF
<1> DEFINE t == Append(s, e)
<1>1. /\ t \in Seq(S)
      /\ t # <<>>
      /\ Len(t) = Len(s) + 1
      /\ t[Len(s) + 1] = e
      /\ \A i \in 1 .. Len(s) : t[i] = s[i]
  BY AppendProperties
<1> HIDE DEF t
<1>2. Len(s) \in Nat
  BY LenProperties
<1>3. Last(t) = e
  BY <1>1, LastFront
<1>4. /\ Front(t) \in Seq(S)
      /\ Len(Front(t)) = Len(s)
      /\ \A i \in 1 .. Len(s) : Front(t)[i] = s[i]
  BY <1>1, <1>2, LastFront
<1>5. Front(t) = s
  BY <1>4, SeqEqual
<1> QED
  BY <1>1, <1>3, <1>5 DEF t

LEMMA LaunchPushed ==
  ASSUME NEW fs, WellFormed(fs), NEW c \in Commands,
         NEW save \in Commands \cup {NoCmd}, NEW lvl \in Nat
  PROVE  LET gs == Append(fs, LaunchFrame(c, save, lvl)) IN
         WellFormed(gs) /\ gs # <<>> /\ IsLaunch(Last(gs))
PROOF
<1> DEFINE f == LaunchFrame(c, save, lvl)
           gs == Append(fs, f)
<1>1. f \in Frame /\ IsLaunch(f) /\ ~IsPause(f)
  BY DEF LaunchFrame, Frame, IsLaunch, IsPause
<1> HIDE DEF f
<1>2. fs \in Seq(Frame) /\ Len(fs) \in Nat
  BY LenProperties DEF WellFormed
<1>3. /\ gs \in Seq(Frame)
      /\ gs # <<>>
      /\ Last(gs) = f
      /\ Len(gs) = Len(fs) + 1
      /\ gs[Len(fs) + 1] = f
      /\ \A i \in 1 .. Len(fs) : gs[i] = fs[i]
  BY <1>1, <1>2, LastOfAppend
<1> HIDE DEF gs
<1>4. ASSUME NEW i \in DOMAIN gs, IsPause(gs[i])
      PROVE  i > 1 /\ IsLaunch(gs[i - 1])
  <2>1. i \in 1 .. Len(fs)
    BY <1>1, <1>2, <1>3, <1>4, LenProperties
  <2>2. i > 1 /\ IsLaunch(fs[i - 1])
    BY <1>2, <1>3, <1>4, <2>1, LenProperties DEF WellFormed
  <2> QED
    BY <1>2, <1>3, <2>1, <2>2
<1> QED
  BY <1>1, <1>3, <1>4 DEF WellFormed, gs, f

LEMMA PausePushed ==
  ASSUME NEW fs, WellFormed(fs), fs # <<>>, IsLaunch(Last(fs)), NEW lvl \in Nat
  PROVE  LET gs == Append(fs, PauseFrame(lvl)) IN
         WellFormed(gs) /\ gs # <<>> /\ IsPause(Last(gs))
PROOF
<1> DEFINE f == PauseFrame(lvl)
           gs == Append(fs, f)
<1>1. f \in Frame /\ IsPause(f)
  BY DEF PauseFrame, Frame, IsPause
<1> HIDE DEF f
<1>2. fs \in Seq(Frame) /\ Len(fs) \in Nat \ {0} /\ IsLaunch(fs[Len(fs)])
  BY LastFront DEF WellFormed
<1>3. /\ gs \in Seq(Frame)
      /\ gs # <<>>
      /\ Last(gs) = f
      /\ Len(gs) = Len(fs) + 1
      /\ \A i \in 1 .. Len(fs) : gs[i] = fs[i]
  BY <1>1, <1>2, LastOfAppend
<1> HIDE DEF gs
<1>4. ASSUME NEW i \in DOMAIN gs, IsPause(gs[i])
      PROVE  i > 1 /\ IsLaunch(gs[i - 1])
  <2>1. CASE i = Len(fs) + 1
    BY <1>2, <1>3, <2>1
  <2>2. CASE i \in 1 .. Len(fs)
    <3>1. i > 1 /\ IsLaunch(fs[i - 1])
      BY <1>2, <1>3, <1>4, <2>2, LenProperties DEF WellFormed
    <3> QED
      BY <1>2, <1>3, <2>2, <3>1
  <2> QED
    BY <1>2, <1>3, <2>1, <2>2, LenProperties
<1> QED
  BY <1>1, <1>3, <1>4 DEF WellFormed, gs, f

LEMMA Popped ==
  ASSUME NEW fs, WellFormed(fs), fs # <<>>
  PROVE  /\ WellFormed(Front(fs))
         /\ IsPause(Last(fs)) =>
              Front(fs) # <<>> /\ IsLaunch(Last(Front(fs)))
PROOF
<1> DEFINE gs == Front(fs)
<1>1. /\ fs \in Seq(Frame)
      /\ Len(fs) \in Nat \ {0}
      /\ Last(fs) = fs[Len(fs)]
      /\ gs \in Seq(Frame)
      /\ Len(gs) = Len(fs) - 1
      /\ \A i \in 1 .. Len(fs) - 1 : gs[i] = fs[i]
  BY LastFront DEF WellFormed
<1> HIDE DEF gs
<1>2. DOMAIN gs = 1 .. Len(fs) - 1 /\ DOMAIN fs = 1 .. Len(fs)
  BY <1>1, LenProperties
<1>3. WellFormed(gs)
  BY <1>1, <1>2 DEF WellFormed
<1>4. ASSUME IsPause(Last(fs))
      PROVE  gs # <<>> /\ IsLaunch(Last(gs))
  <2>1. Len(fs) > 1 /\ IsLaunch(fs[Len(fs) - 1])
    BY <1>1, <1>2, <1>4 DEF WellFormed
  <2>2. gs # <<>>
    BY <1>1, <2>1, EmptySeq
  <2>3. Last(gs) = gs[Len(gs)]
    BY <1>1, <2>2, LastFront
  <2> QED
    BY <1>1, <2>1, <2>2, <2>3
<1> QED
  BY <1>3, <1>4 DEF gs

\* The frame of the command that runs, with another next statement.
LEMMA Advanced ==
  ASSUME NEW fs, WellFormed(fs), fs # <<>>, IsLaunch(Last(fs)),
         NEW n \in Nat \ {0}
  PROVE  LET gs == Append(Front(fs), [Last(fs) EXCEPT !.ip = n]) IN
         WellFormed(gs) /\ gs # <<>> /\ IsLaunch(Last(gs))
PROOF
<1> DEFINE f == [Last(fs) EXCEPT !.ip = n]
<1>1. Last(fs) \in Frame /\ fs \in Seq(Frame)
  BY LastFront DEF WellFormed
<1>2. /\ Last(fs).cmd \in Commands
      /\ Last(fs).save \in Commands \cup {NoCmd}
      /\ Last(fs).lvl \in Nat
      /\ f = [LaunchFrame(Last(fs).cmd, Last(fs).save, Last(fs).lvl)
                EXCEPT !.ip = n]
  BY <1>1 DEF Frame, IsLaunch, LaunchFrame
<1>3. f \in Frame /\ IsLaunch(f) /\ ~IsPause(f)
  BY <1>2 DEF LaunchFrame, Frame, IsLaunch, IsPause
<1> DEFINE hs == Front(fs)
           gs == Append(hs, f)
<1> HIDE DEF f
<1>4. WellFormed(hs) /\ hs \in Seq(Frame) /\ Len(hs) \in Nat
  BY Popped, LenProperties DEF WellFormed
<1> HIDE DEF hs
<1>5. /\ gs \in Seq(Frame)
      /\ gs # <<>>
      /\ Last(gs) = f
      /\ Len(gs) = Len(hs) + 1
      /\ gs[Len(hs) + 1] = f
      /\ \A i \in 1 .. Len(hs) : gs[i] = hs[i]
  BY <1>3, <1>4, LastOfAppend
<1> HIDE DEF gs
<1>6. ASSUME NEW i \in DOMAIN gs, IsPause(gs[i])
      PROVE  i > 1 /\ IsLaunch(gs[i - 1])
  <2>1. i \in 1 .. Len(hs)
    BY <1>3, <1>4, <1>5, <1>6, LenProperties
  <2>2. i > 1 /\ IsLaunch(hs[i - 1])
    BY <1>4, <1>5, <1>6, <2>1, LenProperties DEF WellFormed
  <2> QED
    BY <1>4, <1>5, <2>1, <2>2
<1> QED
  BY <1>3, <1>5, <1>6 DEF WellFormed, gs, hs, f

-----------------------------------------------------------------------------
LEMMA StackInit == Init => StackInv
PROOF
<1> SUFFICES ASSUME Init PROVE StackInv
  OBVIOUS
<1> USE CommandAssumption, ThreadAssumption DEF Init
<1>1. StoreTypeOK
  BY DEF StoreTypeOK, StoreInit, Threads
<1>2. frames = <<>> /\ mpc = "start"
  BY DEF MainInit
<1>3. WellFormed(frames)
  BY <1>2, EmptySeq DEF WellFormed
<1>4. MainTypeOK
  BY <1>3 DEF MainTypeOK, MainInit, MainPC, WellFormed
<1>5. ConsoleTypeOK /\ ClientTypeOK
  BY DEF ConsoleTypeOK, ClientTypeOK, ConsoleInit, ConsolePC
<1>6. TopMatches
  BY <1>2 DEF TopMatches, InCommand, Throwing, Resting
<1>7. ConsoleHolds /\ ClientsHold
  BY DEF ConsoleHolds, ClientsHold, ConsoleInit
<1> QED
  BY <1>1, <1>3, <1>4, <1>5, <1>6, <1>7 DEF StackInv, TypeOK

\* Storing and taking commands keeps the queues sequences of commands.
LEMMA PushTypes ==
  ASSUME StoreTypeOK, NEW c \in Commands, Push(c)
  PROVE  /\ prioQueue' \in Seq(Prioritary)
         /\ normQueue' \in Seq(Normal)
         /\ commandStored' \in BOOLEAN
PROOF
<1>1. CASE c \in Prioritary
  <2>1. Append(prioQueue, c) \in Seq(Prioritary)
    BY <1>1, AppendProperties DEF StoreTypeOK
  <2> QED
    BY <1>1, <2>1 DEF StoreTypeOK, Push, SendCommandStoredSignal
<1>2. CASE c \notin Prioritary
  <2>1. Append(normQueue, c) \in Seq(Normal)
    BY <1>2, AppendProperties DEF StoreTypeOK, Normal
  <2> QED
    BY <1>2, <2>1 DEF StoreTypeOK, Push, SendCommandStoredSignal
<1> QED
  BY <1>1, <1>2

LEMMA PopTypes ==
  ASSUME StoreTypeOK, PopCommand
  PROVE  /\ prioQueue' \in Seq(Prioritary)
         /\ normQueue' \in Seq(Normal)
         /\ NextCommand \in Commands \cup {NoCmd}
         /\ prioQueue # <<>> => NextCommand \in Prioritary
PROOF
<1>1. /\ prioQueue \in Seq(Prioritary)
      /\ normQueue \in Seq(Normal)
      /\ Prioritary \subseteq Commands
      /\ Normal \subseteq Commands
  BY CommandAssumption DEF StoreTypeOK, Normal
<1>2. CASE prioQueue # <<>>
  BY <1>1, <1>2, HeadTailProperties DEF PopCommand, NextCommand
<1>3. CASE prioQueue = <<>> /\ normQueue # <<>>
  BY <1>1, <1>3, HeadTailProperties DEF PopCommand, NextCommand
<1>4. CASE prioQueue = <<>> /\ normQueue = <<>>
  BY <1>1, <1>4 DEF PopCommand, NextCommand
<1> QED
  BY <1>2, <1>3, <1>4

-----------------------------------------------------------------------------
\* The steps of the interpreter that leave the stack alone.
LEMMA StackMainFlat ==
  ASSUME StackInv,
         \/ StartPending \/ PeekQueues \/ AssignStored \/ WaitStored
         \/ GetCommand \/ NoBreak \/ Interrupt \/ ExecError \/ ExecExit
         \/ ExecAbort \/ RecursionError \/ MainLoop
         \/ \E p \in Commands : StorePause(p)
  PROVE  (StoreTypeOK /\ MainTypeOK /\ WellFormed(frames) /\ TopMatches)'
PROOF
<1> USE DEF StackInv, TypeOK, StoreTypeOK, MainTypeOK, TopMatches, InCommand,
            Throwing, Resting, MainPC, Top, queues, signals, flags, runnerVars
<1>1. CASE StartPending
  BY <1>1 DEF StartPending
<1>2. CASE PeekQueues
  BY <1>2 DEF PeekQueues, BriefStoreLock, IsEmptyCommandQueue
<1>3. CASE AssignStored
  BY <1>3 DEF AssignStored
<1>4. CASE WaitStored
  BY <1>4 DEF WaitStored
<1>5. CASE GetCommand
  BY <1>5 DEF GetCommand, LockStoreCommand, Threads
<1>6. CASE NoBreak
  BY <1>6 DEF NoBreak
<1>7. CASE Interrupt
  BY <1>7 DEF Interrupt
<1>8. CASE ExecError
  BY <1>8 DEF ExecError, Statement
<1>9. CASE ExecExit
  BY <1>9 DEF ExecExit, QuitScilab, Statement
<1>10. CASE ExecAbort
  BY <1>10 DEF ExecAbort, Statement
<1>11. CASE RecursionError
  BY <1>11 DEF RecursionError
<1>12. CASE MainLoop
  BY <1>12 DEF MainLoop
<1>13. CASE \E p \in Commands : StorePause(p)
  <2>1. PICK p \in Commands : StorePause(p)
    BY <1>13
  <2>2. /\ prioQueue' \in Seq(Prioritary)
        /\ normQueue' \in Seq(Normal)
        /\ commandStored' \in BOOLEAN
    BY <2>1, PushTypes DEF StorePause
  <2> QED
    BY <2>1, <2>2 DEF StorePause, BriefStoreLock
<1> QED
  BY <1>1, <1>2, <1>3, <1>4, <1>5, <1>6, <1>7, <1>8, <1>9, <1>10, <1>11, <1>12, <1>13

\* The steps that change the innermost frame or push one.
LEMMA StackMainPush ==
  ASSUME StackInv,
         \/ StartCommand \/ ExecStep \/ ExecPause \/ ExecResume
         \/ ExecRecursion \/ RecursionCaught
  PROVE  (StoreTypeOK /\ MainTypeOK /\ WellFormed(frames) /\ TopMatches)'
PROOF
<1> USE DEF StackInv, TypeOK, StoreTypeOK, MainTypeOK, TopMatches, InCommand,
            Throwing, Resting, MainPC, queues, signals, flags, runnerVars
<1>1. CASE StartCommand
  <2>1. /\ prioQueue' \in Seq(Prioritary)
        /\ normQueue' \in Seq(Normal)
        /\ NextCommand \in Commands \cup {NoCmd}
    BY <1>1, PopTypes DEF StartCommand
  <2>2. CASE NextCommand = NoCmd
    BY <1>1, <2>1, <2>2 DEF StartCommand, UnlockStoreCommand
  <2>3. CASE NextCommand # NoCmd
    <3>1. WellFormed(frames') /\ frames' # <<>> /\ IsLaunch(Last(frames'))
      BY <1>1, <2>1, <2>3, LaunchPushed DEF StartCommand
    <3> QED
      BY <1>1, <2>1, <2>3, <3>1
      DEF StartCommand, UnlockStoreCommand, WellFormed, Top
  <2> QED
    BY <2>2, <2>3
<1>2. ASSUME \/ ExecStep \/ ExecPause \/ ExecResume \/ ExecRecursion
      PROVE  /\ frames # <<>> /\ IsLaunch(Last(frames))
             /\ WellFormed(Advance) /\ Advance # <<>>
             /\ IsLaunch(Last(Advance))
             /\ AdvancePC \in {"break", "finish"}
  <2>1. frames # <<>> /\ IsLaunch(Last(frames))
    BY <1>2 DEF ExecStep, ExecPause, ExecResume, ExecRecursion, QuitPause,
                Statement, Top
  <2>2. Last(frames) \in Frame
    BY <2>1, LastFront DEF WellFormed
  <2>3. Last(frames).ip + 1 \in Nat \ {0}
    BY <2>1, <2>2 DEF Frame, IsLaunch
  <2>4. Advance = Append(Front(frames),
                         [Last(frames) EXCEPT !.ip = Last(frames).ip + 1])
    BY DEF Advance, Top
  <2> QED
    BY <2>1, <2>3, <2>4, Advanced DEF AdvancePC, AfterStatement
<1>3. CASE ExecStep
  BY <1>2, <1>3 DEF ExecStep, WellFormed, Top
<1>4. CASE ExecPause
  <2>1. WellFormed(frames') /\ frames' # <<>> /\ IsPause(Last(frames'))
    BY <1>2, <1>4, PausePushed DEF ExecPause
  <2> QED
    BY <1>4, <2>1 DEF ExecPause, SendConsoleExecDoneSignal, WellFormed, Top
<1>5. CASE ExecResume
  <2>1. pauseLevel - 1 \in Nat
    BY <1>5 DEF ExecResume, QuitPause, MainTypeOK
  <2> QED
    BY <1>2, <1>5, <2>1 DEF ExecResume, WellFormed, Top
<1>6. CASE ExecRecursion
  BY <1>2, <1>6 DEF ExecRecursion, WellFormed, Top
<1>7. CASE RecursionCaught
  <2>1. PICK ip \in Top.ip .. Len(Program[Top.cmd]) + 1 :
          /\ frames' = Append(Front(frames), [Top EXCEPT !.ip = ip])
          /\ mpc' = AfterStatement(Top.cmd, ip)
    BY <1>7 DEF RecursionCaught
  <2>2. frames # <<>> /\ IsLaunch(Last(frames)) /\ Last(frames) \in Frame
    BY <1>7, LastFront DEF RecursionCaught, Top, WellFormed
  <2>3. ip \in Nat \ {0}
    BY <2>2 DEF Frame, IsLaunch, Top
  <2>4. WellFormed(frames') /\ frames' # <<>> /\ IsLaunch(Last(frames'))
    BY <2>1, <2>2, <2>3, Advanced DEF Top
  <2> QED
    BY <1>7, <2>1, <2>4 DEF RecursionCaught, AfterStatement, WellFormed, Top
<1> QED
  BY <1>1, <1>3, <1>4, <1>5, <1>6, <1>7

\* The steps that pop a frame.
LEMMA StackMainPop ==
  ASSUME StackInv,
         \/ PauseLoop \/ Finish \/ AbortLaunch \/ ThrowThroughPause
         \/ RecursionInPause
  PROVE  (StoreTypeOK /\ MainTypeOK /\ WellFormed(frames) /\ TopMatches)'
PROOF
<1> USE DEF StackInv, TypeOK, StoreTypeOK, MainTypeOK, TopMatches, InCommand,
            Throwing, Resting, MainPC, queues, signals, flags, runnerVars
<1>1. CASE PauseLoop
  <2>1. CASE Top.lvl = pauseLevel
    BY <1>1, <2>1 DEF PauseLoop, Top
  <2>2. CASE Top.lvl # pauseLevel
    <3>1. frames # <<>> /\ IsPause(Last(frames)) /\ frames' = Front(frames)
      BY <1>1, <2>2 DEF PauseLoop, Top
    <3>2. WellFormed(frames') /\ frames' # <<>> /\ IsLaunch(Last(frames'))
      BY <3>1, Popped
    <3> QED
      BY <1>1, <2>2, <3>2 DEF PauseLoop, AfterStatement, WellFormed, Top
  <2> QED
    BY <2>1, <2>2
<1>2. ASSUME Finish \/ AbortLaunch \/ ThrowThroughPause \/ RecursionInPause
      PROVE  /\ frames # <<>>
             /\ WellFormed(frames')
             /\ frames' = Front(frames)
             /\ IsPause(Last(frames)) =>
                  frames' # <<>> /\ IsLaunch(Last(frames'))
             /\ Last(frames) \in Frame
  <2>1. frames # <<>> /\ frames' = Front(frames)
    BY <1>2 DEF Finish, AbortLaunch, ThrowThroughPause, RecursionInPause
  <2> QED
    BY <2>1, Popped, LastFront DEF WellFormed
<1>3. (Finish \/ AbortLaunch) => Top.save \in Commands \cup {NoCmd}
  BY <1>2 DEF Finish, AbortLaunch, Top, Frame, IsLaunch
<1>5. CASE Finish
  <2>1. /\ mpc' \in {"top", "pauseloop", "interrupt"}
        /\ mpc' = "top" <=> frames' = <<>>
        /\ mpc' = "pauseloop" => IsPause(Last(frames'))
        /\ mpc' = "interrupt" => ~IsPause(Last(frames'))
    BY <1>2, <1>5 DEF Finish, AfterReturn
  <2>2. frames' # <<>> => Last(frames') \in Frame
    BY <1>2, <1>5, LastFront DEF WellFormed
  <2>3. mpc' = "interrupt" => IsLaunch(Last(frames'))
    BY <2>1, <2>2 DEF Frame, IsPause, IsLaunch
  <2>4. consoleDone' \in BOOLEAN
    BY <1>5 DEF Finish, SendExecDone, SendConsoleExecDoneSignal
  <2> QED
    BY <1>2, <1>3, <1>5, <2>1, <2>3, <2>4 DEF Finish, WellFormed, Top
<1>6. CASE AbortLaunch
  <2>1. mpc' = IF frames' = <<>> THEN "top" ELSE "abort"
    BY <1>2, <1>6 DEF AbortLaunch, AfterThrow
  <2>2. consoleDone' \in BOOLEAN
    BY <1>6 DEF AbortLaunch, SendExecDone, SendConsoleExecDoneSignal
  <2>3. pauseLevel' \in Nat
    BY <1>6 DEF AbortLaunch
  <2> QED
    BY <1>2, <1>3, <1>6, <2>1, <2>2, <2>3 DEF AbortLaunch, WellFormed
<1>7. CASE ThrowThroughPause
  BY <1>2, <1>7 DEF ThrowThroughPause, WellFormed, Top
<1>8. CASE RecursionInPause
  <2>1. mpc' = IF frames' = <<>> THEN "top" ELSE "recursion"
    BY <1>2, <1>8 DEF RecursionInPause, AfterThrow
  <2> QED
    BY <1>2, <1>8, <2>1 DEF RecursionInPause, WellFormed
<1> QED
  BY <1>1, <1>5, <1>6, <1>7, <1>8

-----------------------------------------------------------------------------
\* The steps of the console thread; the interpreter's variables are not theirs.
LEMMA StackConsole ==
  ASSUME StoreTypeOK, ConsoleTypeOK, ConsoleHolds,
         ConsoleStep \/ \E c \in ConsoleCmds : ConsoleRead(c)
  PROVE  (StoreTypeOK /\ ConsoleTypeOK /\ ConsoleHolds)'
PROOF
<1> USE KindAssumption, CommandAssumption
    DEF StoreTypeOK, ConsoleTypeOK, ConsolePC, ConsoleHolds, queues, signals,
        flags
<1>1. CASE ConsoleStart
  BY <1>1 DEF ConsoleStart, BriefStoreLock
<1>2. CASE ConsoleAnnounce
  BY <1>2 DEF ConsoleAnnounce, SendStartPendingSignal
<1>3. CASE ConsoleWaitStart
  BY <1>3 DEF ConsoleWaitStart, UnlockForeignStoreCommand
<1>4. CASE ConsoleStarted
  BY <1>4 DEF ConsoleStarted
<1>5. CASE ConsoleReady
  BY <1>5 DEF ConsoleReady, SendStartPendingSignal
<1>6. CASE ConsoleCheck
  BY <1>6 DEF ConsoleCheck
<1>7. CASE ConsoleLock
  BY <1>7 DEF ConsoleLock, LockStoreCommand, Threads
<1>8. CASE ConsolePush
  <2>1. ccmd \in Commands
    BY <1>8 DEF ConsolePush
  <2>2. /\ prioQueue' \in Seq(Prioritary)
        /\ normQueue' \in Seq(Normal)
        /\ commandStored' \in BOOLEAN
    BY <1>8, <2>1, PushTypes DEF ConsolePush
  <2> QED
    BY <1>8, <2>2 DEF ConsolePush
<1>9. CASE ConsoleWait
  BY <1>9 DEF ConsoleWait, UnlockStoreCommand
<1>10. CASE ConsoleReleased
  BY <1>10 DEF ConsoleReleased
<1>11. CASE ConsoleLeave
  BY <1>11 DEF ConsoleLeave
<1>12. CASE ConsoleExit
  BY <1>12 DEF ConsoleExit, SendCommandStoredSignal
<1>13. CASE \E c \in ConsoleCmds : ConsoleRead(c)
  BY <1>13 DEF ConsoleRead
<1> QED
  BY <1>1, <1>2, <1>3, <1>4, <1>5, <1>6, <1>7, <1>8, <1>9, <1>10, <1>11, <1>12, <1>13
  DEF ConsoleStep

\* The steps of one client thread.
LEMMA StackClient ==
  ASSUME StoreTypeOK, ClientTypeOK, ClientsHold, NEW t \in Clients,
         ClientStore(t) \/ ClientGo(t)
  PROVE  (StoreTypeOK /\ ClientTypeOK /\ ClientsHold)'
PROOF
<1> USE KindAssumption
    DEF StoreTypeOK, ClientTypeOK, ClientsHold, queues, signals, flags
<1>1. CASE ClientStore(t)
  BY <1>1 DEF ClientStore, ClientCall
<1>2. CASE ClientLock(t)
  BY <1>2 DEF ClientLock, LockStoreCommand, Threads
<1>3. CASE ClientPush(t)
  <2>1. tcmd[t] \in Commands
    BY <1>3 DEF ClientPush
  <2>2. /\ prioQueue' \in Seq(Prioritary)
        /\ normQueue' \in Seq(Normal)
        /\ commandStored' \in BOOLEAN
    BY <1>3, <2>1, PushTypes DEF ClientPush
  <2> QED
    BY <1>3, <2>2 DEF ClientPush, UnlockStoreCommand
<1>4. CASE ClientParseFails(t)
  BY <1>4 DEF ClientParseFails, UnlockStoreCommand
<1> QED
  BY <1>1, <1>2, <1>3, <1>4 DEF ClientGo

LEMMA StackNext == StackInv /\ [Next]_vars => StackInv'
PROOF
<1> SUFFICES ASSUME StackInv, [Next]_vars PROVE StackInv'
  OBVIOUS
<1> USE DEF StackInv, TypeOK
<1>1. CASE MainStep
  <2>1. \/ MainNext
        \/ \E p \in Commands : StorePause(p)
    BY <1>1, KindAssumption, CommandAssumption DEF MainStep
  <2>2. (StoreTypeOK /\ MainTypeOK /\ WellFormed(frames) /\ TopMatches)'
    BY <2>1, StackMainFlat, StackMainPush, StackMainPop DEF MainNext
  <2>3. (ConsoleTypeOK /\ ClientTypeOK /\ ConsoleHolds /\ ClientsHold)'
    BY <1>1 DEF MainStep, consoleVars, clientVars, ConsoleTypeOK,
                ClientTypeOK, ConsoleHolds, ClientsHold
  <2> QED
    BY <2>2, <2>3
<1>2. CASE ConsoleType \/ ConsoleGo
  <2>1. (StoreTypeOK /\ ConsoleTypeOK /\ ConsoleHolds)'
    BY <1>2, StackConsole DEF ConsoleType, ConsoleGo
  <2>2. UNCHANGED <<mainVars, clientVars>>
    BY <1>2 DEF ConsoleType, ConsoleGo
  <2>3. (/\ MainTypeOK /\ WellFormed(frames) /\ TopMatches /\ ClientTypeOK
         /\ ClientsHold)'
    BY <2>2 DEF mainVars, runnerVars, clientVars, MainTypeOK, TopMatches,
                InCommand, Throwing, Resting, Top, ClientTypeOK, ClientsHold
  <2> QED
    BY <2>1, <2>3
<1>3. CASE \E t \in Clients : ClientStore(t) \/ ClientGo(t)
  <2>1. (StoreTypeOK /\ ClientTypeOK /\ ClientsHold)'
    BY <1>3, StackClient
  <2>2. UNCHANGED <<mainVars, consoleVars>>
    BY <1>3 DEF ClientStore, ClientCall, ClientGo, ClientLock, ClientPush,
                ClientParseFails
  <2>3. (/\ MainTypeOK /\ WellFormed(frames) /\ TopMatches /\ ConsoleTypeOK
         /\ ConsoleHolds)'
    BY <2>2 DEF mainVars, runnerVars, consoleVars, MainTypeOK, TopMatches,
                InCommand, Throwing, Resting, Top, ConsoleTypeOK, ConsoleHolds
  <2> QED
    BY <2>1, <2>3
<1>4. CASE CtrlC \/ UNCHANGED vars
  <2>1. UNCHANGED <<mainVars, consoleVars, clientVars>>
    BY <1>4 DEF CtrlC, vars
  <2>2. StoreTypeOK'
    BY <1>4 DEF CtrlC, vars, queues, signals, flags, StoreTypeOK
  <2>3. (MainTypeOK /\ WellFormed(frames) /\ TopMatches)'
    BY <2>1 DEF mainVars, runnerVars, MainTypeOK, TopMatches, InCommand,
                Throwing, Resting, Top
  <2>4. (ConsoleTypeOK /\ ClientTypeOK /\ ConsoleHolds /\ ClientsHold)'
    BY <2>1 DEF consoleVars, clientVars, ConsoleTypeOK, ClientTypeOK,
                ConsoleHolds, ClientsHold
  <2> QED
    BY <2>2, <2>3, <2>4
<1> QED
  BY <1>1, <1>2, <1>3, <1>4 DEF Next

\* The inductive invariant of the stack holds of every behaviour.
THEOREM StackCorrect == Spec => []StackInv
PROOF
  BY StackInit, StackNext, PTL DEF Spec

\* Every variable of the engine keeps its type: in particular the pause level
\* is never decreased below zero, whatever way commands are left (resume,
\* quit, abort and the recursion error all decrease it).
THEOREM TypeCorrect == Spec => []TypeOK
PROOF
  BY StackCorrect, PTL DEF StackInv

-----------------------------------------------------------------------------
(* The store lock: the queues are only changed under it, and the console   *)
(* keeps it until it waits for its command.                                *)
(*                                                                         *)
(* At startup the console thread unlocks the store without owning it, when *)
(* something is queued (WaitForConsoleExecDoneSignal called from           *)
(* scilabReadAndStore).  The theorems are about the sessions where nothing *)
(* is: no -f, -e or -quit, and clients that store later.                   *)

QuietStart ==
  /\ StartPrio = <<>>
  /\ StartNorm = <<>>
  /\ EarlyClients = FALSE

\* Until the console thread has looked at the queues nothing happens.
Waiting ==
  ConsoleStarting =>
    /\ cpc = "start"
    /\ mpc = "start"
    /\ ~startPending
    /\ IsEmptyCommandQueue
    /\ \A t \in Clients : tpc[t] = "idle"

LockInv == StoreLockExclusion /\ Waiting

-----------------------------------------------------------------------------
\* What a step of the interpreter does to the lock and to the queues.
LEMMA MainEffects ==
  ASSUME MainNext \/ \E p \in PauseCmds : StorePause(p)
  PROVE  /\ mpc = "start" => startPending
         /\ \/ /\ mpc' # "pop"
               /\ UNCHANGED <<storeLock, prioQueue, normQueue>>
            \/ /\ storeLock = NoThread /\ storeLock' = Main
               /\ UNCHANGED <<prioQueue, normQueue>>
            \/ mpc = "pop" /\ storeLock' = NoThread /\ mpc' # "pop"
            \/ /\ storeLock = NoThread /\ UNCHANGED storeLock
               /\ mpc' # "pop"
PROOF
<1> USE DEF queues, signals, flags, runnerVars
<1>1. CASE StartPending \/ PeekQueues \/ AssignStored \/ WaitStored
  BY <1>1 DEF StartPending, PeekQueues, AssignStored, WaitStored, BriefStoreLock
<1>2. CASE GetCommand
  BY <1>2 DEF GetCommand, LockStoreCommand
<1>3. CASE StartCommand
  BY <1>3 DEF StartCommand, UnlockStoreCommand
<1>4. CASE NoBreak \/ Interrupt \/ \E p \in PauseCmds : StorePause(p)
  BY <1>4 DEF NoBreak, Interrupt, StorePause, BriefStoreLock
<1>5. CASE ExecStep \/ ExecPause \/ ExecResume \/ ExecRecursion
  BY <1>5 DEF ExecStep, ExecPause, ExecResume, ExecRecursion, QuitPause, Statement,
              AdvancePC, AfterStatement
<1>6. CASE ExecError \/ ExecExit \/ ExecAbort
  BY <1>6 DEF ExecError, ExecExit, ExecAbort, QuitScilab, Statement
<1>7. CASE PauseLoop
  BY <1>7 DEF PauseLoop, AfterStatement
<1>8. CASE Finish
  BY <1>8 DEF Finish, AfterReturn
<1>9. CASE AbortLaunch \/ ThrowThroughPause
  BY <1>9 DEF AbortLaunch, ThrowThroughPause, AfterThrow
<1>10. CASE RecursionInPause \/ RecursionError
  BY <1>10 DEF RecursionInPause, RecursionError, AfterThrow
<1>11. CASE RecursionCaught
  BY <1>11 DEF RecursionCaught, AfterStatement
<1>12. CASE MainLoop
  BY <1>12 DEF MainLoop
<1> QED
  BY <1>1, <1>2, <1>3, <1>4, <1>5, <1>6, <1>7, <1>8, <1>9, <1>10, <1>11, <1>12
  DEF MainNext

LEMMA LockInit == ASSUME QuietStart PROVE Init => LockInv
PROOF
  BY DEF QuietStart, Init, LockInv, StoreLockExclusion, Waiting, StoreInit,
         MainInit, ConsoleInit, ConsoleInStore, ConsoleStarting,
         IsEmptyCommandQueue

LEMMA LockNext ==
  ASSUME QuietStart, StackInv, LockInv, [Next]_vars
  PROVE  LockInv'
PROOF
<1> USE ThreadAssumption
    DEF Threads, LockInv, StoreLockExclusion, Waiting, ConsoleInStore,
        ConsoleStarting, IsEmptyCommandQueue
<1>1. CASE MainStep
  <2>1. UNCHANGED <<cpc, tpc>>
    BY <1>1 DEF MainStep, consoleVars, clientVars
  <2>2. MainNext \/ \E p \in PauseCmds : StorePause(p)
    BY <1>1 DEF MainStep
  <2>3. ~ConsoleStarting
    BY <2>2, MainEffects
  <2> QED
    BY <2>1, <2>2, <2>3, MainEffects
<1>2. CASE ConsoleType
  BY <1>2 DEF ConsoleType, ConsoleRead, queues, signals, flags, mainVars,
              clientVars
<1>3. CASE ConsoleGo
  <2>1. UNCHANGED <<mpc, tpc>>
    BY <1>3 DEF ConsoleGo, mainVars, clientVars
  <2>2. CASE ConsoleStart
    BY <2>1, <2>2 DEF ConsoleStart, BriefStoreLock
  <2>3. CASE ConsoleLock
    BY <2>1, <2>3 DEF ConsoleLock, LockStoreCommand
  <2>4. CASE ConsolePush
    BY <2>1, <2>4 DEF ConsolePush
  <2>5. CASE ConsoleWait
    BY <2>1, <2>5 DEF ConsoleWait, UnlockStoreCommand
  <2>6. ~(ConsoleAnnounce \/ ConsoleWaitStart \/ ConsoleStarted)
    BY DEF ConsoleAnnounce, ConsoleWaitStart, ConsoleStarted
  <2>7. CASE \/ ConsoleReady \/ ConsoleCheck \/ ConsoleReleased
             \/ ConsoleLeave \/ ConsoleExit
    BY <2>1, <2>7 DEF ConsoleReady, ConsoleCheck, ConsoleReleased,
                      ConsoleLeave, ConsoleExit, queues, signals
  <2> QED
    BY <1>3, <2>2, <2>3, <2>4, <2>5, <2>6, <2>7 DEF ConsoleGo, ConsoleStep
<1>4. CASE \E t \in Clients : ClientStore(t) \/ ClientGo(t)
  <2>1. PICK t \in Clients : ClientStore(t) \/ ClientGo(t)
    BY <1>4
  <2>2. tpc \in [Clients -> {"idle", "lock", "push"}]
    BY DEF StackInv, TypeOK, ClientTypeOK
  <2>3. UNCHANGED <<mpc, cpc>>
    BY <2>1 DEF ClientStore, ClientCall, ClientGo, ClientLock, ClientPush,
                ClientParseFails, mainVars, consoleVars
  <2>4. ~ConsoleStarting
    BY <2>1 DEF QuietStart, ClientStore, ClientCall, ClientGo, ClientLock,
                ClientPush, ClientParseFails
  <2>5. CASE ClientStore(t)
    BY <2>2, <2>3, <2>4, <2>5 DEF ClientStore, ClientCall
  <2>6. CASE ClientLock(t)
    BY <2>2, <2>3, <2>4, <2>6 DEF ClientLock, LockStoreCommand
  <2>7. CASE ClientPush(t) \/ ClientParseFails(t)
    BY <2>2, <2>3, <2>4, <2>7
    DEF ClientPush, ClientParseFails, UnlockStoreCommand
  <2> QED
    BY <2>1, <2>5, <2>6, <2>7 DEF ClientGo
<1>5. CASE CtrlC \/ UNCHANGED vars
  BY <1>5 DEF CtrlC, vars, queues, signals, flags, mainVars, consoleVars,
              clientVars
<1> QED
  BY <1>1, <1>2, <1>3, <1>4, <1>5 DEF Next

\* The store lock protects the queues: whoever is between LockStoreCommand
\* and UnlockStoreCommand (the interpreter in GetCommand, the console in
\* StoreConsoleCommand, a client in StoreCommand) owns it.
THEOREM StoreLockCorrect ==
  ASSUME QuietStart
  PROVE  Spec => []StoreLockExclusion
PROOF
<1>1. Init => StackInv /\ LockInv
  BY StackInit, LockInit
<1>2. StackInv /\ LockInv /\ [Next]_vars => (StackInv /\ LockInv)'
  BY StackNext, LockNext
<1>3. LockInv => StoreLockExclusion
  BY DEF LockInv
<1> QED
  BY <1>1, <1>2, <1>3, PTL DEF Spec

-----------------------------------------------------------------------------
LEMMA PushHolds ==
  ASSUME StoreTypeOK, NEW c \in Prioritary, Push(c)
  PROVE  c \in ToSet(prioQueue')
PROOF
<1>1. prioQueue \in Seq(Prioritary)
  BY CommandAssumption DEF StoreTypeOK
<1>2. prioQueue' = Append(prioQueue, c)
  BY DEF Push
<1>3. /\ prioQueue' \in Seq(Prioritary)
      /\ Len(prioQueue') = Len(prioQueue) + 1
      /\ prioQueue'[Len(prioQueue) + 1] = c
  BY <1>1, <1>2, AppendProperties
<1>4. Len(prioQueue) + 1 \in DOMAIN prioQueue'
  BY <1>1, <1>3, LenProperties
<1> QED
  BY <1>3, <1>4 DEF ToSet

LEMMA HeldNext ==
  ASSUME StackInv, LockInv, ConsoleCommandHeld, [Next]_vars
  PROVE  ConsoleCommandHeld'
PROOF
<1> SUFFICES ASSUME cpc' = "wait" PROVE (ccmd \in ToSet(prioQueue))'
  BY DEF ConsoleCommandHeld
<1>1. ASSUME cpc = "wait", UNCHANGED <<ccmd, prioQueue>>
      PROVE  (ccmd \in ToSet(prioQueue))'
  BY <1>1 DEF ConsoleCommandHeld
<1>2. cpc = "wait" =>
        /\ storeLock = Console
        /\ mpc # "pop"
        /\ \A t \in Clients : tpc[t] # "push"
  BY ThreadAssumption
  DEF LockInv, StoreLockExclusion, ConsoleInStore, Threads
<1>3. CASE MainStep
  <2>1. UNCHANGED <<cpc, ccmd>>
    BY <1>3 DEF MainStep, consoleVars
  <2>2. MainNext \/ \E p \in PauseCmds : StorePause(p)
    BY <1>3 DEF MainStep
  <2>3. UNCHANGED prioQueue
    BY <1>2, <2>1, <2>2, MainEffects, ThreadAssumption DEF Threads
  <2> QED
    BY <1>1, <2>1, <2>3
<1>4. CASE ConsoleGo
  <2>1. ConsolePush
    BY <1>4 DEF ConsoleGo, ConsoleStep, ConsoleStart, ConsoleAnnounce,
                ConsoleWaitStart, ConsoleStarted, ConsoleReady, ConsoleCheck,
                ConsoleLock, ConsolePush, ConsoleWait, ConsoleReleased,
                ConsoleLeave, ConsoleExit
  <2>2. ccmd \in Prioritary /\ StoreTypeOK
    BY <2>1, KindAssumption DEF ConsolePush, StackInv, TypeOK, ConsoleHolds
  <2> QED
    BY <2>1, <2>2, PushHolds DEF ConsolePush
<1>5. CASE ConsoleType
  BY <1>5 DEF ConsoleType, ConsoleRead
<1>6. CASE \E t \in Clients : ClientStore(t) \/ ClientGo(t)
  BY <1>1, <1>2, <1>6
  DEF ClientStore, ClientCall, ClientGo, ClientLock, ClientPush,
      ClientParseFails, consoleVars, queues
<1>7. CASE CtrlC \/ UNCHANGED vars
  BY <1>1, <1>7 DEF CtrlC, vars, queues, consoleVars
<1> QED
  BY <1>3, <1>4, <1>5, <1>6, <1>7 DEF Next

\* When the console comes to wait, its command is still in the queue: nobody
\* can have executed it, and sent the end signal, before (the reason
\* StoreConsoleCommand gives for unlocking the store inside the wait).
THEOREM ConsoleCommandHeldCorrect ==
  ASSUME QuietStart
  PROVE  Spec => []ConsoleCommandHeld
PROOF
<1>1. Init => StackInv /\ LockInv /\ ConsoleCommandHeld
  BY StackInit, LockInit DEF Init, ConsoleInit, ConsoleCommandHeld
<1>2. StackInv /\ LockInv /\ ConsoleCommandHeld /\ [Next]_vars
      => (StackInv /\ LockInv /\ ConsoleCommandHeld)'
  BY StackNext, LockNext, HeldNext
<1> QED
  BY <1>1, <1>2, PTL DEF Spec

-----------------------------------------------------------------------------
(* The wait for a command.  commandStored alone does not say that there is *)
(* a command: it keeps its value while the interpreter runs.  It is        *)
(* written again before each wait, from what the queues hold then.         *)

\* Nobody but the interpreter takes a command, so what it has seen in the
\* queues, or was told of, is there when it comes to GetCommand.
StoredInv ==
  /\ mpc # "crash"
  /\ \/ mpc = "assign" /\ ~wasEmpty
     \/ mpc = "sleep" /\ commandStored
     \/ mpc \in {"get", "pop"}
     => ~IsEmptyCommandQueue

\* A console thread that has left sends the signal once more, with no command.
NotNullInv == cpc # "done" => StoredInv

LEMMA PushNonEmpty ==
  ASSUME StoreTypeOK, NEW c, Push(c)
  PROVE  ~IsEmptyCommandQueue'
PROOF
<1>1. Append(prioQueue, c) # <<>> /\ Append(normQueue, c) # <<>>
  BY DEF StoreTypeOK
<1> QED
  BY <1>1 DEF Push, IsEmptyCommandQueue

\* Only the steps of the wait itself matter.
LEMMA StoredMain ==
  ASSUME StackInv, StoredInv,
         MainNext \/ \E p \in PauseCmds : StorePause(p)
  PROVE  StoredInv'
PROOF
<1> DEFINE Elsewhere == mpc' \notin {"assign", "sleep", "get", "pop", "crash"}
<1>1. Elsewhere => StoredInv'
  BY DEF StoredInv
<1>2. CASE PeekQueues
  BY <1>2 DEF PeekQueues, StoredInv, IsEmptyCommandQueue, queues
<1>3. CASE AssignStored
  BY <1>3 DEF AssignStored, StoredInv, IsEmptyCommandQueue, queues
<1>4. CASE WaitStored
  BY <1>4 DEF WaitStored, StoredInv, IsEmptyCommandQueue, queues
<1>5. CASE GetCommand
  BY <1>5 DEF GetCommand, StoredInv, IsEmptyCommandQueue, queues
<1>6. CASE StartCommand
  <2>1. ~IsEmptyCommandQueue
    BY <1>6 DEF StartCommand, StoredInv
  <2>2. NextCommand # NoCmd
    <3>1. /\ prioQueue # <<>> => Head(prioQueue) \in Prioritary
          /\ normQueue # <<>> => Head(normQueue) \in Normal
      BY DEF StackInv, TypeOK, StoreTypeOK
    <3> QED
      BY <2>1, <3>1, CommandAssumption DEF NextCommand, IsEmptyCommandQueue, Normal
  <2> QED
    BY <1>1, <1>6, <2>2 DEF StartCommand
<1>7. CASE StartPending \/ NoBreak \/ Interrupt \/ \E p \in PauseCmds : StorePause(p)
  BY <1>1, <1>7 DEF StartPending, NoBreak, Interrupt, StorePause
<1>8. CASE ExecStep \/ ExecPause \/ ExecResume \/ ExecRecursion
  BY <1>1, <1>8 DEF ExecStep, ExecPause, ExecResume, ExecRecursion, AdvancePC,
     AfterStatement
<1>9. CASE ExecError \/ ExecExit \/ ExecAbort
  BY <1>1, <1>9 DEF ExecError, ExecExit, ExecAbort
<1>10. CASE PauseLoop
  BY <1>1, <1>10 DEF PauseLoop, AfterStatement
<1>11. CASE Finish
  BY <1>1, <1>11 DEF Finish, AfterReturn
<1>12. CASE AbortLaunch \/ ThrowThroughPause
  BY <1>1, <1>12 DEF AbortLaunch, ThrowThroughPause, AfterThrow
<1>13. CASE RecursionInPause \/ RecursionError
  BY <1>1, <1>13 DEF RecursionInPause, RecursionError, AfterThrow
<1>14. CASE RecursionCaught
  BY <1>1, <1>14 DEF RecursionCaught, AfterStatement
<1>15. CASE MainLoop
  BY <1>1, <1>15 DEF MainLoop
<1> QED
  BY <1>2, <1>3, <1>4, <1>5, <1>6, <1>7, <1>8, <1>9, <1>10, <1>11, <1>12, <1>13, <1>14,
     <1>15 DEF MainNext

LEMMA NotNullNext ==
  ASSUME StackInv, NotNullInv, [Next]_vars
  PROVE  NotNullInv'
PROOF
<1> SUFFICES ASSUME cpc' # "done" PROVE StoredInv'
  BY DEF NotNullInv
<1>1. cpc # "done" => StoredInv
  BY DEF NotNullInv
<1>2. ASSUME UNCHANGED <<mpc, wasEmpty, prioQueue, normQueue, commandStored>>,
             cpc # "done"
      PROVE  StoredInv'
  BY <1>1, <1>2 DEF StoredInv, IsEmptyCommandQueue
<1>3. ASSUME UNCHANGED <<mpc, wasEmpty>>, cpc # "done", NEW c, Push(c)
      PROVE  StoredInv'
  BY <1>1, <1>3, PushNonEmpty DEF StoredInv, StackInv, TypeOK
<1>4. CASE MainStep
  <2>1. cpc # "done"
    BY <1>4 DEF MainStep, consoleVars
  <2> QED
    BY <1>1, <1>4, <2>1, StoredMain DEF MainStep
<1>5. CASE ConsoleType
  BY <1>2, <1>5 DEF ConsoleType, ConsoleRead, queues, signals, mainVars
<1>6. CASE ConsoleGo
  <2>1. UNCHANGED <<mpc, wasEmpty>>
    BY <1>6 DEF ConsoleGo, mainVars
  <2>2. CASE ConsolePush
    BY <1>3, <2>1, <2>2 DEF ConsolePush
  <2>3. CASE ConsoleStart \/ ConsoleAnnounce \/ ConsoleWaitStart \/ ConsoleStarted
    BY <1>2, <2>1, <2>3 DEF ConsoleStart, ConsoleAnnounce, ConsoleWaitStart,
       ConsoleStarted, queues, signals
  <2>4. CASE ConsoleReady \/ ConsoleCheck \/ ConsoleLock \/ ConsoleWait
    BY <1>2, <2>1, <2>4 DEF ConsoleReady, ConsoleCheck, ConsoleLock, ConsoleWait,
       queues, signals
  <2>5. CASE ConsoleReleased \/ ConsoleLeave
    BY <1>2, <2>1, <2>5 DEF ConsoleReleased, ConsoleLeave, queues, signals
  <2>6. ~ConsoleExit
    BY DEF ConsoleExit
  <2> QED
    BY <1>6, <2>2, <2>3, <2>4, <2>5, <2>6 DEF ConsoleGo, ConsoleStep
<1>7. CASE \E t \in Clients : ClientStore(t) \/ ClientGo(t)
  <2>1. PICK t \in Clients : ClientStore(t) \/ ClientGo(t)
    BY <1>7
  <2>2. UNCHANGED <<mpc, wasEmpty, cpc>>
    BY <2>1 DEF ClientStore, ClientCall, ClientGo, ClientLock, ClientPush,
       ClientParseFails, mainVars, consoleVars
  <2>3. CASE ClientPush(t)
    BY <1>3, <2>2, <2>3 DEF ClientPush
  <2>4. CASE ClientStore(t) \/ ClientLock(t) \/ ClientParseFails(t)
    BY <1>2, <2>2, <2>4 DEF ClientStore, ClientCall, ClientLock, ClientParseFails,
       queues, signals
  <2> QED
    BY <2>1, <2>3, <2>4 DEF ClientGo
<1>8. CASE CtrlC \/ UNCHANGED vars
  BY <1>2, <1>8 DEF CtrlC, vars, queues, signals, mainVars, consoleVars
<1> QED
  BY <1>4, <1>5, <1>6, <1>7, <1>8 DEF Next

\* As long as the console thread has not left, launch never dereferences a
\* null Runner: whoever sends the signal of WaitForCommandStoredSignal has
\* stored a command, and what GetCommand finds has not been taken by anybody
\* else.  The signal the console thread sends when it leaves is the exception
\* (scilabReadAndStore, after the loop).
THEOREM RunnerNotNullCorrect ==
  Spec => [](cpc # "done" => RunnerNotNull)
PROOF
<1>1. Init => StackInv /\ NotNullInv
  BY StackInit DEF Init, MainInit, NotNullInv, StoredInv
<1>2. StackInv /\ NotNullInv /\ [Next]_vars => (StackInv /\ NotNullInv)'
  BY StackNext, NotNullNext
<1>3. NotNullInv => (cpc # "done" => RunnerNotNull)
  BY DEF NotNullInv, StoredInv, RunnerNotNull
<1> QED
  BY <1>1, <1>2, <1>3, PTL DEF Spec

-----------------------------------------------------------------------------
(* Pause levels: none survives the pause loop it belongs to, whichever of  *)
(* resume, quit, abort and the recursion error end it.                     *)
(*                                                                         *)
(* PauseBacked alone is not inductive: the end of a loop that is not the   *)
(* deepest must leave a level some other loop backs.  What is inductive is *)
(* that the level is at most that of the topmost loop, and that each loop  *)
(* is at most one level above the loop below it.                           *)

\* n is at most the level of the topmost pause frame among the first i.
Within(fs, i, n) ==
  \/ n = 0
  \/ \E k \in 1 .. i :
       /\ IsPause(fs[k])
       /\ \A j \in k + 1 .. i : ~IsPause(fs[j])
       /\ n <= fs[k].lvl

Leveled(fs) ==
  \A i \in DOMAIN fs :
    IsPause(fs[i]) => fs[i].lvl > 0 /\ Within(fs, i - 1, fs[i].lvl - 1)

PauseInv ==
  /\ Leveled(frames)
  /\ Within(frames, Len(frames), pauseLevel)
  /\ Throwing /\ IsPause(Top) => pauseLevel < Top.lvl

-----------------------------------------------------------------------------
\* The level of a frame, and the two kinds of frames.
LEMMA FrameKinds ==
  ASSUME NEW f \in Frame
  PROVE  f.lvl \in Nat /\ (IsPause(f) <=> ~IsLaunch(f))
PROOF
  BY DEF Frame, IsPause, IsLaunch

LEMMA WithinSame ==
  ASSUME NEW fs, NEW gs, NEW i \in Nat, NEW n,
         \A k \in 1 .. i : gs[k] = fs[k],
         Within(fs, i, n)
  PROVE  Within(gs, i, n)
PROOF
<1>1. CASE n = 0
  BY <1>1 DEF Within
<1>2. CASE n # 0
  <2>1. PICK k \in 1 .. i :
          /\ IsPause(fs[k])
          /\ \A j \in k + 1 .. i : ~IsPause(fs[j])
          /\ n <= fs[k].lvl
    BY <1>2 DEF Within
  <2>2. IsPause(gs[k]) /\ n <= gs[k].lvl
    BY <2>1
  <2>3. ASSUME NEW j \in k + 1 .. i PROVE ~IsPause(gs[j])
    <3>1. j \in 1 .. i
      OBVIOUS
    <3> QED
      BY <2>1, <3>1
  <2> QED
    BY <2>2, <2>3 DEF Within
<1> QED
  BY <1>1, <1>2

LEMMA WithinLower ==
  ASSUME NEW fs \in Seq(Frame), NEW i \in 0 .. Len(fs), NEW n \in Nat,
         NEW m \in Nat, m <= n, Within(fs, i, n)
  PROVE  Within(fs, i, m)
PROOF
<1>1. CASE n = 0
  BY <1>1 DEF Within
<1>2. CASE n # 0
  <2>1. PICK k \in 1 .. i :
          /\ IsPause(fs[k])
          /\ \A j \in k + 1 .. i : ~IsPause(fs[j])
          /\ n <= fs[k].lvl
    BY <1>2 DEF Within
  <2>2. fs[k].lvl \in Nat
    BY ElementOfSeq, FrameKinds, LenProperties
  <2>3. m <= fs[k].lvl
    BY <2>1, <2>2
  <2> QED
    BY <2>1, <2>3 DEF Within
<1> QED
  BY <1>1, <1>2

LEMMA LeveledPopped ==
  ASSUME NEW fs, WellFormed(fs), fs # <<>>, Leveled(fs), NEW n \in Nat,
         Within(fs, Len(fs), n)
  PROVE  /\ Leveled(Front(fs))
         /\ IsLaunch(Last(fs)) => Within(Front(fs), Len(Front(fs)), n)
         /\ IsPause(Last(fs)) =>
              /\ n <= Last(fs).lvl
              /\ Last(fs).lvl > 0
              /\ \A m \in Nat : m < Last(fs).lvl =>
                   Within(Front(fs), Len(Front(fs)), m)
PROOF
<1> DEFINE gs == Front(fs)
           l == Len(fs)
<1>1. /\ fs \in Seq(Frame)
      /\ l \in Nat \ {0}
      /\ Last(fs) = fs[l]
      /\ Last(fs) \in Frame
      /\ gs \in Seq(Frame)
      /\ Len(gs) = l - 1
      /\ \A i \in 1 .. l - 1 : gs[i] = fs[i]
      /\ DOMAIN gs = 1 .. l - 1
      /\ DOMAIN fs = 1 .. l
  BY LastFront, LenProperties DEF WellFormed
<1>2. \A i \in 1 .. l :
        IsPause(fs[i]) => fs[i].lvl > 0 /\ Within(fs, i - 1, fs[i].lvl - 1)
  BY <1>1 DEF Leveled
<1>3. Within(fs, l, n)
  OBVIOUS
<1> HIDE DEF gs, l
<1>4. Leveled(gs)
  <2> SUFFICES ASSUME NEW i \in 1 .. l - 1, IsPause(gs[i])
               PROVE  gs[i].lvl > 0 /\ Within(gs, i - 1, gs[i].lvl - 1)
    BY <1>1 DEF Leveled
  <2>1. i \in 1 .. l /\ gs[i] = fs[i] /\ i - 1 \in Nat
    BY <1>1
  <2>2. fs[i].lvl > 0 /\ Within(fs, i - 1, fs[i].lvl - 1)
    BY <1>2, <2>1
  <2>3. \A k \in 1 .. i - 1 : gs[k] = fs[k]
    BY <1>1
  <2>4. Within(gs, i - 1, fs[i].lvl - 1)
    BY <2>1, <2>2, <2>3, WithinSame
  <2> QED
    BY <2>1, <2>2, <2>4
<1>5. ASSUME IsLaunch(Last(fs)) PROVE Within(gs, l - 1, n)
  <2>1. CASE n = 0
    BY <2>1 DEF Within
  <2>2. CASE n # 0
    <3>1. PICK k \in 1 .. l :
            /\ IsPause(fs[k])
            /\ \A j \in k + 1 .. l : ~IsPause(fs[j])
            /\ n <= fs[k].lvl
      BY <1>3, <2>2 DEF Within
    <3>2. k \in 1 .. l - 1
      BY <1>1, <1>5, <3>1, FrameKinds
    <3>3. \A j \in k + 1 .. l - 1 : ~IsPause(fs[j])
      BY <1>1, <3>1
    <3>4. Within(fs, l - 1, n)
      BY <3>1, <3>2, <3>3 DEF Within
    <3> QED
      BY <1>1, <3>4, WithinSame
  <2> QED
    BY <2>1, <2>2
<1>6. ASSUME IsPause(Last(fs))
      PROVE  /\ n <= Last(fs).lvl
             /\ Last(fs).lvl > 0
             /\ \A m \in Nat : m < Last(fs).lvl => Within(gs, l - 1, m)
  <2>1. fs[l].lvl \in Nat /\ fs[l].lvl > 0 /\ Within(fs, l - 1, fs[l].lvl - 1)
    BY <1>1, <1>2, <1>6, FrameKinds
  <2>2. n <= fs[l].lvl
    <3>1. CASE n = 0
      BY <2>1, <3>1
    <3>2. CASE n # 0
      <4>1. PICK k \in 1 .. l :
              /\ \A j \in k + 1 .. l : ~IsPause(fs[j])
              /\ n <= fs[k].lvl
        BY <1>3, <3>2 DEF Within
      <4>2. k = l
        BY <1>1, <1>6, <4>1
      <4> QED
        BY <4>1, <4>2
    <3> QED
      BY <3>1, <3>2
  <2>3. ASSUME NEW m \in Nat, m < fs[l].lvl PROVE Within(gs, l - 1, m)
    <3>1. Within(fs, l - 1, m)
      <4>1. fs[l].lvl - 1 \in Nat /\ m <= fs[l].lvl - 1
        BY <2>1, <2>3
      <4>2. l - 1 \in 0 .. Len(fs)
        BY <1>1 DEF l
      <4> QED
        BY <1>1, <2>1, <4>1, <4>2, WithinLower
    <3> QED
      BY <1>1, <3>1, WithinSame
  <2> QED
    BY <1>1, <2>1, <2>2, <2>3
<1> QED
  BY <1>1, <1>4, <1>5, <1>6 DEF gs

LEMMA LeveledPushed ==
  ASSUME NEW fs \in Seq(Frame), Leveled(fs), NEW n \in Nat,
         Within(fs, Len(fs), n), NEW f \in Frame,
         IsPause(f) => f.lvl = n + 1
  PROVE  LET gs == Append(fs, f) IN
         /\ Leveled(gs)
         /\ Within(gs, Len(gs), IF IsPause(f) THEN n + 1 ELSE n)
PROOF
<1> DEFINE gs == Append(fs, f)
           l == Len(fs)
<1>1. /\ l \in Nat
      /\ Len(gs) = l + 1
      /\ gs[l + 1] = f
      /\ \A i \in 1 .. l : gs[i] = fs[i]
      /\ DOMAIN gs = 1 .. l + 1
      /\ DOMAIN fs = 1 .. l
  BY LastOfAppend, LenProperties
<1>2. Within(fs, l, n)
  OBVIOUS
<1>3. \A i \in 1 .. l :
        IsPause(fs[i]) => fs[i].lvl > 0 /\ Within(fs, i - 1, fs[i].lvl - 1)
  BY <1>1 DEF Leveled
<1> HIDE DEF gs, l
<1>4. Within(gs, l, n)
  BY <1>1, <1>2, WithinSame
<1>5. Leveled(gs)
  <2> SUFFICES ASSUME NEW i \in 1 .. l + 1, IsPause(gs[i])
               PROVE  gs[i].lvl > 0 /\ Within(gs, i - 1, gs[i].lvl - 1)
    BY <1>1 DEF Leveled
  <2>1. CASE i = l + 1
    <3>1. gs[i].lvl = n + 1 /\ i - 1 = l
      BY <1>1, <2>1
    <3>2. n + 1 - 1 = n /\ n + 1 > 0
      OBVIOUS
    <3> QED
      BY <1>4, <3>1, <3>2
  <2>2. CASE i \in 1 .. l
    <3>1. gs[i] = fs[i] /\ i - 1 \in Nat
      BY <1>1, <2>2
    <3>2. fs[i].lvl > 0 /\ Within(fs, i - 1, fs[i].lvl - 1)
      BY <1>3, <2>2, <3>1
    <3>3. \A k \in 1 .. i - 1 : gs[k] = fs[k]
      BY <1>1, <2>2
    <3>4. Within(gs, i - 1, fs[i].lvl - 1)
      BY <3>1, <3>2, <3>3, WithinSame
    <3> QED
      BY <3>1, <3>2, <3>4
  <2> QED
    BY <1>1, <2>1, <2>2
<1>6. CASE IsPause(f)
  <2>1. /\ l + 1 \in 1 .. l + 1
        /\ IsPause(gs[l + 1])
        /\ \A j \in l + 1 + 1 .. l + 1 : ~IsPause(gs[j])
        /\ n + 1 <= gs[l + 1].lvl
    BY <1>1, <1>6
  <2>2. Within(gs, l + 1, n + 1)
    BY <2>1 DEF Within
  <2> QED
    BY <1>1, <1>5, <1>6, <2>2 DEF gs
<1>7. CASE ~IsPause(f)
  <2>1. Within(gs, l + 1, n)
    <3>1. CASE n = 0
      BY <3>1 DEF Within
    <3>2. CASE n # 0
      <4>1. PICK k \in 1 .. l :
              /\ IsPause(gs[k])
              /\ \A j \in k + 1 .. l : ~IsPause(gs[j])
              /\ n <= gs[k].lvl
        BY <1>4, <3>2 DEF Within
      <4>2. \A j \in k + 1 .. l + 1 : ~IsPause(gs[j])
        BY <1>1, <1>7, <4>1
      <4>3. k \in 1 .. l + 1
        BY <1>1
      <4> QED
        BY <4>1, <4>2, <4>3 DEF Within
    <3> QED
      BY <3>1, <3>2
  <2> QED
    BY <1>1, <1>5, <1>7, <2>1 DEF gs
<1> QED
  BY <1>6, <1>7

\* The next statement of a frame has no part in it.
LEMMA LeveledAdvanced ==
  ASSUME NEW fs, WellFormed(fs), fs # <<>>, IsLaunch(Last(fs)), Leveled(fs),
         NEW n \in Nat, Within(fs, Len(fs), n), NEW ip \in Nat \ {0}
  PROVE  LET gs == Append(Front(fs), [Last(fs) EXCEPT !.ip = ip]) IN
         Leveled(gs) /\ Within(gs, Len(gs), n)
PROOF
<1> DEFINE hs == Front(fs)
           f == [Last(fs) EXCEPT !.ip = ip]
<1>1. Last(fs) \in Frame
  BY LastFront DEF WellFormed
<1>2. f \in Frame /\ ~IsPause(f)
  BY <1>1 DEF Frame, IsLaunch, IsPause
<1>3. hs \in Seq(Frame) /\ Leveled(hs) /\ Within(hs, Len(hs), n)
  BY Popped, LeveledPopped DEF WellFormed
<1> HIDE DEF hs, f
<1> QED
  BY <1>2, <1>3, LeveledPushed DEF hs, f

-----------------------------------------------------------------------------
LEMMA PauseInit == Init => PauseInv
PROOF
<1> SUFFICES ASSUME Init PROVE PauseInv
  OBVIOUS
<1>1. frames = <<>> /\ pauseLevel = 0 /\ mpc = "start"
  BY DEF Init, MainInit
<1> QED
  BY <1>1 DEF PauseInv, Leveled, Within, Throwing

\* Steps that leave the stack and the level alone.
LEMMA PauseFlat ==
  ASSUME StackInv, PauseInv,
         \/ StartPending \/ PeekQueues \/ AssignStored \/ WaitStored
         \/ GetCommand \/ NoBreak \/ Interrupt \/ ExecError \/ ExecExit
         \/ ExecAbort \/ RecursionError \/ MainLoop
         \/ \E p \in PauseCmds : StorePause(p)
  PROVE  PauseInv'
PROOF
<1>1. UNCHANGED <<frames, pauseLevel>>
  BY DEF StartPending, PeekQueues, AssignStored, WaitStored, GetCommand,
         NoBreak, Interrupt, ExecError, ExecExit, ExecAbort, RecursionError,
         MainLoop, StorePause, runnerVars
<1>2. ~Throwing' \/ (frames # <<>> /\ IsLaunch(Top))
  BY DEF StartPending, PeekQueues, AssignStored, WaitStored, GetCommand,
         NoBreak, Interrupt, ExecError, ExecExit, ExecAbort, RecursionError,
         MainLoop, StorePause, Statement, QuitScilab, Throwing, StackInv,
         TopMatches, InCommand
<1>3. IsLaunch(Top) => ~IsPause(Top)
  BY DEF IsLaunch, IsPause
<1> QED
  BY <1>1, <1>2, <1>3 DEF PauseInv, Top

LEMMA PausePush ==
  ASSUME StackInv, PauseInv,
         \/ StartCommand \/ ExecStep \/ ExecPause \/ ExecResume
         \/ ExecRecursion \/ RecursionCaught
  PROVE  PauseInv'
PROOF
<1>1. /\ WellFormed(frames)
      /\ frames \in Seq(Frame)
      /\ Leveled(frames)
      /\ Within(frames, Len(frames), pauseLevel)
      /\ pauseLevel \in Nat
      /\ curRunner \in Commands \cup {NoCmd}
  BY DEF StackInv, PauseInv, TypeOK, MainTypeOK
<1>2. CASE StartCommand
  <2>1. CASE NextCommand = NoCmd
    BY <1>1, <1>2, <2>1 DEF StartCommand, PauseInv, Throwing
  <2>2. CASE NextCommand # NoCmd
    <3> DEFINE f == LaunchFrame(NextCommand, curRunner, pauseLevel)
    <3>1. NextCommand \in Commands
      BY <1>2, <2>2, PopTypes DEF StackInv, TypeOK, StartCommand
    <3>2. f \in Frame /\ ~IsPause(f)
      BY <1>1, <3>1 DEF LaunchFrame, Frame, IsPause
    <3>3. /\ frames' = Append(frames, f)
          /\ mpc' = "break"
          /\ UNCHANGED pauseLevel
      BY <1>2, <2>2 DEF StartCommand
    <3> HIDE DEF f
    <3>4. Leveled(frames') /\ Within(frames', Len(frames'), pauseLevel)
      BY <1>1, <3>2, <3>3, LeveledPushed
    <3> QED
      BY <3>3, <3>4 DEF PauseInv, Throwing
  <2> QED
    BY <2>1, <2>2
<1>3. ASSUME \/ ExecStep \/ ExecPause \/ ExecResume \/ ExecRecursion
      PROVE  /\ WellFormed(Advance)
             /\ Advance \in Seq(Frame)
             /\ Leveled(Advance)
             /\ Within(Advance, Len(Advance), pauseLevel)
             /\ IsLaunch(Last(Advance))
             /\ AdvancePC \in {"break", "finish"}
  <2>1. frames # <<>> /\ IsLaunch(Last(frames))
    BY <1>3 DEF ExecStep, ExecPause, ExecResume, ExecRecursion, QuitPause,
                Statement, Top,
                StackInv, TopMatches, InCommand
  <2>2. Last(frames).ip + 1 \in Nat \ {0}
    <3>1. Last(frames) \in Frame
      BY <1>1, <2>1, LastFront
    <3>2. Last(frames).ip \in Nat \ {0}
      BY <2>1, <3>1 DEF Frame, IsLaunch
    <3> QED
      BY <3>2
  <2>3. Advance = Append(Front(frames),
                         [Last(frames) EXCEPT !.ip = Last(frames).ip + 1])
    BY DEF Advance, Top
  <2> QED
    BY <1>1, <2>1, <2>2, <2>3, Advanced, LeveledAdvanced
    DEF AdvancePC, AfterStatement, WellFormed
<1>4. CASE ExecStep
  BY <1>3, <1>4 DEF ExecStep, PauseInv, Throwing
<1>5. CASE ExecPause
  <2> DEFINE f == PauseFrame(pauseLevel + 1)
  <2>1. f \in Frame /\ IsPause(f) /\ f.lvl = pauseLevel + 1
    BY <1>1 DEF PauseFrame, Frame, IsPause
  <2>2. /\ frames' = Append(Advance, f)
        /\ pauseLevel' = pauseLevel + 1
        /\ mpc' = "pauseloop"
    BY <1>5 DEF ExecPause
  <2> HIDE DEF f
  <2>3. Leveled(frames') /\ Within(frames', Len(frames'), pauseLevel + 1)
    BY <1>1, <1>3, <1>5, <2>1, <2>2, LeveledPushed
  <2> QED
    BY <2>2, <2>3 DEF PauseInv, Throwing
<1>6. CASE ExecResume
  <2>1. /\ frames' = Advance
        /\ pauseLevel' = pauseLevel - 1
        /\ pauseLevel > 0
        /\ mpc' \in {"break", "finish"}
    BY <1>3, <1>6 DEF ExecResume, QuitPause
  <2>2. pauseLevel' \in Nat /\ pauseLevel' <= pauseLevel
    BY <1>1, <2>1
  <2>3. Len(Advance) \in 0 .. Len(Advance)
    BY <1>3, <1>6, LenProperties
  <2>4. Within(frames', Len(frames'), pauseLevel')
    BY <1>1, <1>3, <1>6, <2>1, <2>2, <2>3, WithinLower
  <2> QED
    BY <1>3, <1>6, <2>1, <2>4 DEF PauseInv, Throwing
<1>7. CASE ExecRecursion
  <2>1. ~IsPause(Last(Advance))
    BY <1>3, <1>7 DEF IsLaunch, IsPause
  <2> QED
    BY <1>3, <1>7, <2>1 DEF ExecRecursion, PauseInv, Top
<1>8. CASE RecursionCaught
  <2>1. PICK ip \in Top.ip .. Len(Program[Top.cmd]) + 1 :
          /\ frames' = Append(Front(frames), [Top EXCEPT !.ip = ip])
          /\ mpc' = AfterStatement(Top.cmd, ip)
    BY <1>8 DEF RecursionCaught
  <2>2. frames # <<>> /\ IsLaunch(Last(frames))
    BY <1>8 DEF RecursionCaught, Top, StackInv, TopMatches, Throwing
  <2>3. ip \in Nat \ {0}
    <3>1. Last(frames) \in Frame
      BY <1>1, <2>2, LastFront
    <3>2. Last(frames).ip \in Nat \ {0}
      BY <2>2, <3>1 DEF Frame, IsLaunch
    <3>3. ip \in Last(frames).ip .. Len(Program[Last(frames).cmd]) + 1
      BY <2>1 DEF Top
    <3> QED
      BY <3>2, <3>3
  <2>4. Leveled(frames') /\ Within(frames', Len(frames'), pauseLevel)
    BY <1>1, <2>1, <2>2, <2>3, LeveledAdvanced DEF Top
  <2>5. ~Throwing' /\ UNCHANGED pauseLevel
    BY <1>8, <2>1 DEF RecursionCaught, AfterStatement, Throwing
  <2> QED
    BY <2>4, <2>5 DEF PauseInv
<1> QED
  BY <1>2, <1>4, <1>5, <1>6, <1>7, <1>8

LEMMA PausePop ==
  ASSUME StackInv, PauseInv,
         \/ PauseLoop \/ Finish \/ AbortLaunch \/ ThrowThroughPause
         \/ RecursionInPause
  PROVE  PauseInv'
PROOF
<1>1. /\ WellFormed(frames)
      /\ frames \in Seq(Frame)
      /\ Leveled(frames)
      /\ Within(frames, Len(frames), pauseLevel)
      /\ pauseLevel \in Nat
  BY DEF StackInv, PauseInv, TypeOK, MainTypeOK
<1>2. frames # <<>>
  BY DEF PauseLoop, Finish, AbortLaunch, ThrowThroughPause, RecursionInPause,
         StackInv, TopMatches, InCommand, Throwing
<1>3. Leveled(Front(frames)) /\ WellFormed(Front(frames))
  BY <1>1, <1>2, LeveledPopped, Popped
<1>4. ASSUME NEW m \in Nat, m <= pauseLevel, IsLaunch(Last(frames))
      PROVE  Within(Front(frames), Len(Front(frames)), m)
  <2>1. Within(Front(frames), Len(Front(frames)), pauseLevel)
    BY <1>1, <1>2, <1>4, LeveledPopped
  <2>2. Front(frames) \in Seq(Frame)
    BY <1>3 DEF WellFormed
  <2>3. Len(Front(frames)) \in 0 .. Len(Front(frames))
    BY <2>2, LenProperties
  <2> QED
    BY <1>1, <1>4, <2>1, <2>2, <2>3, WithinLower
<1>5. CASE PauseLoop
  <2>1. CASE Top.lvl = pauseLevel
    BY <1>5, <2>1 DEF PauseLoop, PauseInv, Throwing
  <2>2. CASE Top.lvl # pauseLevel
    <3>1. /\ frames' = Front(frames)
          /\ UNCHANGED pauseLevel
          /\ mpc' \in {"break", "finish"}
          /\ IsPause(Last(frames))
      BY <1>5, <2>2 DEF PauseLoop, AfterStatement, StackInv, TopMatches, Top
    <3>2. /\ Last(frames).lvl \in Nat
          /\ pauseLevel <= Last(frames).lvl
          /\ Last(frames).lvl # pauseLevel
      BY <1>1, <1>2, <2>2, <3>1, LeveledPopped, LastFront, FrameKinds DEF Top
    <3>3. pauseLevel < Last(frames).lvl
      BY <1>1, <3>2
    <3>4. Within(frames', Len(frames'), pauseLevel)
      BY <1>1, <1>2, <3>1, <3>3, LeveledPopped
    <3> QED
      BY <1>3, <3>1, <3>4 DEF PauseInv, Throwing
  <2> QED
    BY <2>1, <2>2
<1>6. CASE Finish
  <2>1. /\ frames' = Front(frames)
        /\ UNCHANGED pauseLevel
        /\ ~Throwing'
        /\ IsLaunch(Last(frames))
    BY <1>6 DEF Finish, AfterReturn, Throwing, StackInv, TopMatches, InCommand,
                Top
  <2> QED
    BY <1>1, <1>3, <1>4, <2>1 DEF PauseInv
<1>7. CASE AbortLaunch \/ RecursionInPause
  <2>1. /\ frames' = Front(frames)
        /\ IsLaunch(Last(frames))
        /\ pauseLevel' = IF pauseLevel > 0 THEN pauseLevel - 1 ELSE 0
    BY <1>7 DEF AbortLaunch, RecursionInPause, Top
  <2>2. pauseLevel' \in Nat /\ pauseLevel' <= pauseLevel
    BY <1>1, <2>1
  <2>3. Within(frames', Len(frames'), pauseLevel')
    BY <1>4, <2>1, <2>2
  <2>4. ASSUME frames' # <<>>, IsPause(Last(frames'))
        PROVE  pauseLevel' < Last(frames').lvl
    <3>1. Within(frames', Len(frames'), pauseLevel)
      BY <1>1, <1>4, <2>1
    <3>2. pauseLevel <= Last(frames').lvl /\ Last(frames').lvl > 0
      BY <1>1, <1>3, <2>1, <2>4, <3>1, LeveledPopped
    <3>3. Last(frames').lvl \in Nat
      BY <1>3, <2>1, <2>4, LastFront, FrameKinds DEF WellFormed
    <3> QED
      BY <1>1, <2>1, <3>2, <3>3
  <2>5. Throwing' => frames' # <<>>
    BY <1>7, <2>1 DEF AbortLaunch, RecursionInPause, AfterThrow, Throwing
  <2> QED
    BY <1>3, <2>1, <2>3, <2>4, <2>5 DEF PauseInv, Top
<1>8. CASE ThrowThroughPause
  <2>1. /\ frames' = Front(frames)
        /\ UNCHANGED pauseLevel
        /\ IsPause(Last(frames))
        /\ pauseLevel < Last(frames).lvl
    BY <1>8 DEF ThrowThroughPause, PauseInv, Throwing, Top
  <2>2. Within(frames', Len(frames'), pauseLevel)
    BY <1>1, <1>2, <2>1, LeveledPopped
  <2>3. IsLaunch(Last(frames'))
    BY <1>1, <1>2, <2>1, Popped
  <2>4. ~IsPause(Last(frames'))
    BY <2>3 DEF IsLaunch, IsPause
  <2> QED
    BY <1>3, <2>1, <2>2, <2>4 DEF PauseInv, Top
<1> QED
  BY <1>5, <1>6, <1>7, <1>8

LEMMA PauseNext == StackInv /\ PauseInv /\ [Next]_vars => PauseInv'
PROOF
<1> SUFFICES ASSUME StackInv, PauseInv, [Next]_vars PROVE PauseInv'
  OBVIOUS
<1>1. CASE MainStep
  BY <1>1, PauseFlat, PausePush, PausePop DEF MainStep, MainNext
<1>2. CASE ~MainStep
  <2>1. UNCHANGED mainVars
    BY <1>2 DEF Next, ConsoleType, ConsoleGo, ClientStore, ClientCall, ClientGo,
                ClientLock, ClientPush, ClientParseFails, CtrlC, vars
  <2> QED
    BY <2>1 DEF mainVars, runnerVars, PauseInv, Throwing, Top
<1> QED
  BY <1>1, <1>2

\* A pause level always belongs to a pause loop that is still on the stack:
\* when resume, quit, abort or a recursion error ends a loop, launch and
\* pause_interpreter together leave exactly the levels the other loops need.
THEOREM PauseBackedCorrect == Spec => []PauseBacked
PROOF
<1>1. Init => StackInv /\ PauseInv
  BY StackInit, PauseInit
<1>2. StackInv /\ PauseInv /\ [Next]_vars => (StackInv /\ PauseInv)'
  BY StackNext, PauseNext
<1>3. StackInv /\ PauseInv => PauseBacked
  <2> SUFFICES ASSUME StackInv, PauseInv, pauseLevel > 0
               PROVE  \E i \in DOMAIN frames :
                        IsPause(frames[i]) /\ frames[i].lvl >= pauseLevel
    BY DEF PauseBacked
  <2>1. PICK k \in 1 .. Len(frames) :
          IsPause(frames[k]) /\ pauseLevel <= frames[k].lvl
    BY DEF PauseInv, Within
  <2>2. /\ DOMAIN frames = 1 .. Len(frames)
        /\ pauseLevel \in Nat
        /\ frames[k].lvl \in Nat
    BY LenProperties, ElementOfSeq, FrameKinds
    DEF StackInv, WellFormed, TypeOK, MainTypeOK
  <2> QED
    BY <2>1, <2>2
<1> QED
  BY <1>1, <1>2, <1>3, PTL DEF Spec

=============================================================================
