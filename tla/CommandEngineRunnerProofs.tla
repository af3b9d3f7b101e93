--------------------- MODULE CommandEngineRunnerProofs ----------------------
(***************************************************************************)
(* Theorems about m_CurrentRunner, about which command interrupts which    *)
(* one, about CommandService, which the engine implements, and about the   *)
(* console, which is not left waiting.  They fail after a recursion error  *)
(* inside a pause, where launch throws without putting the saved runner    *)
(* back, so they are about the behaviours with no such error.  The last    *)
(* part is about the prompt, in the sessions where it is released once.    *)
(***************************************************************************)
EXTENDS CommandEngineProofs

\* The command that frame i of fs belongs to, and RunnerRestored and
\* InterruptDiscipline of a stack given as an argument.
Owner(fs, i) ==
  IF i = 0 THEN NoCmd
  ELSE IF IsLaunch(fs[i]) THEN fs[i].cmd ELSE fs[i - 1].cmd

Saved(fs) ==
  \A i \in DOMAIN fs : IsLaunch(fs[i]) => fs[i].save = Owner(fs, i - 1)

Disciplined(fs) ==
  \A i \in 1 .. Len(fs) - 1 :
    IsLaunch(fs[i]) /\ IsLaunch(fs[i + 1]) =>
      /\ fs[i].cmd \in Interruptible
      /\ fs[i + 1].cmd \in Prioritary

Linked(fs) == Saved(fs) /\ Disciplined(fs)

\* On its way to the next command, a launch called by the statement loop of
\* a command (not by a pause loop) still has a prioritary command to take:
\* the loop has seen one, and only the interpreter takes commands.
Interrupting == mpc \in {"peek", "assign", "sleep", "get", "pop"}
WillYield ==
  Interrupting /\ frames # <<>> /\ IsLaunch(Top) =>
    /\ prioQueue # <<>>
    /\ Top.cmd \in Interruptible

RunnerInv ==
  /\ Linked(frames)
  /\ curRunner = Owner(frames, Len(frames))
  /\ WillYield

NoRecursionInPause == mpc = "recursion" => pauseLevel = 0

-----------------------------------------------------------------------------
LEMMA LinkedPopped ==
  ASSUME NEW fs, WellFormed(fs), fs # <<>>, Linked(fs)
  PROVE  /\ Linked(Front(fs))
         /\ Owner(Front(fs), Len(Front(fs))) =
              IF IsLaunch(Last(fs)) THEN Last(fs).save ELSE Owner(fs, Len(fs))
PROOF
<1> DEFINE gs == Front(fs)
           n == Len(fs)
<1>1. /\ fs \in Seq(Frame)
      /\ n \in Nat \ {0}
      /\ Last(fs) = fs[n]
      /\ gs \in Seq(Frame)
      /\ Len(gs) = n - 1
      /\ \A i \in 1 .. n - 1 : gs[i] = fs[i]
      /\ \A i \in 1 .. n : IsPause(fs[i]) => i > 1 /\ IsLaunch(fs[i - 1])
      /\ \A i \in 1 .. n : IsPause(fs[i]) <=> ~IsLaunch(fs[i])
      /\ DOMAIN gs = 1 .. n - 1
      /\ DOMAIN fs = 1 .. n
  <2>1. fs \in Seq(Frame)
    BY DEF WellFormed
  <2>2. \A i \in 1 .. n : fs[i] \in Frame
    BY <2>1, ElementOfSeq
  <2>3. \A f \in Frame : IsPause(f) <=> ~IsLaunch(f)
    BY DEF Frame, IsPause, IsLaunch
  <2> QED
    BY <2>1, <2>2, <2>3, LastFront, LenProperties DEF WellFormed
<1>2. Saved(fs) /\ Disciplined(fs)
  BY DEF Linked
<1> HIDE DEF gs, n
<1>3. \A i \in 0 .. n - 1 : Owner(gs, i) = Owner(fs, i)
  <2> SUFFICES ASSUME NEW i \in 1 .. n - 1 PROVE Owner(gs, i) = Owner(fs, i)
    BY <1>1 DEF Owner
  <2>1. CASE IsLaunch(fs[i])
    BY <1>1, <2>1 DEF Owner
  <2>2. CASE IsPause(fs[i])
    <3>1. i - 1 \in 1 .. n - 1
      BY <1>1, <2>2
    <3> QED
      BY <1>1, <2>2, <3>1 DEF Owner
  <2> QED
    BY <1>1, <2>1, <2>2
<1>4. Saved(gs)
  <2> SUFFICES ASSUME NEW i \in 1 .. n - 1, IsLaunch(gs[i])
               PROVE  gs[i].save = Owner(gs, i - 1)
    BY <1>1 DEF Saved
  <2>1. i \in 1 .. n /\ i - 1 \in 0 .. n - 1 /\ gs[i] = fs[i]
    BY <1>1
  <2>2. fs[i].save = Owner(fs, i - 1)
    BY <1>1, <1>2, <2>1 DEF Saved
  <2> QED
    BY <1>3, <2>1, <2>2
<1>5. Disciplined(gs)
  <2> SUFFICES ASSUME NEW i \in 1 .. n - 1 - 1,
                      IsLaunch(gs[i]), IsLaunch(gs[i + 1])
               PROVE  gs[i].cmd \in Interruptible /\ gs[i + 1].cmd \in Prioritary
    BY <1>1 DEF Disciplined
  <2>1. /\ i \in 1 .. n - 1
        /\ gs[i] = fs[i]
        /\ gs[i + 1] = fs[i + 1]
    BY <1>1
  <2> QED
    BY <1>2, <2>1 DEF Disciplined, n
<1>6. CASE IsLaunch(Last(fs))
  <2>1. fs[n].save = Owner(fs, n - 1)
    BY <1>1, <1>2, <1>6 DEF Saved
  <2> QED
    BY <1>1, <1>3, <1>4, <1>5, <1>6, <2>1 DEF Linked, gs
<1>7. CASE IsPause(Last(fs))
  <2>1. n > 1 /\ IsLaunch(fs[n - 1]) /\ ~IsLaunch(fs[n])
    BY <1>1, <1>7
  <2>2. Owner(fs, n) = fs[n - 1].cmd
    BY <1>1, <2>1 DEF Owner
  <2>3. Owner(gs, n - 1) = fs[n - 1].cmd
    BY <1>1, <2>1 DEF Owner
  <2> QED
    BY <1>1, <1>4, <1>5, <2>1, <2>2, <2>3 DEF Linked, gs, n
<1> QED
  BY <1>1, <1>6, <1>7

LEMMA LinkedPushed ==
  ASSUME NEW fs, WellFormed(fs), Linked(fs), NEW f \in Frame,
         IsLaunch(f) =>
           /\ f.save = Owner(fs, Len(fs))
           /\ fs # <<>> /\ IsLaunch(Last(fs)) =>
                Last(fs).cmd \in Interruptible /\ f.cmd \in Prioritary,
         IsPause(f) => fs # <<>> /\ IsLaunch(Last(fs))
  PROVE  LET gs == Append(fs, f) IN
         /\ Linked(gs)
         /\ Owner(gs, Len(gs)) =
              IF IsLaunch(f) THEN f.cmd ELSE Owner(fs, Len(fs))
PROOF
<1> DEFINE gs == Append(fs, f)
           n == Len(fs)
<1>1. /\ fs \in Seq(Frame)
      /\ n \in Nat
      /\ Len(gs) = n + 1
      /\ gs[n + 1] = f
      /\ \A i \in 1 .. n : gs[i] = fs[i]
      /\ DOMAIN gs = 1 .. n + 1
      /\ DOMAIN fs = 1 .. n
      /\ \A i \in 1 .. n : IsPause(fs[i]) => i > 1 /\ IsLaunch(fs[i - 1])
      /\ \A i \in 1 .. n : IsPause(fs[i]) <=> ~IsLaunch(fs[i])
      /\ IsPause(f) <=> ~IsLaunch(f)
  <2>1. fs \in Seq(Frame)
    BY DEF WellFormed
  <2>2. \A i \in 1 .. n : fs[i] \in Frame
    BY <2>1, ElementOfSeq
  <2>3. \A x \in Frame : IsPause(x) <=> ~IsLaunch(x)
    BY DEF Frame, IsPause, IsLaunch
  <2>4. /\ gs \in Seq(Frame)
        /\ Len(gs) = n + 1
        /\ gs[n + 1] = f
        /\ \A i \in 1 .. n : gs[i] = fs[i]
    BY <2>1, LastOfAppend
  <2> QED
    BY <2>1, <2>2, <2>3, <2>4, LenProperties DEF WellFormed
<1>2. Saved(fs) /\ Disciplined(fs)
  BY DEF Linked
<1>3. n > 0 => fs # <<>> /\ Last(fs) = fs[n]
  BY <1>1 DEF Last
<1>4. fs # <<>> => n > 0
  BY <1>1, LastFront
<1> HIDE DEF gs, n
<1>5. \A i \in 0 .. n : Owner(gs, i) = Owner(fs, i)
  <2> SUFFICES ASSUME NEW i \in 1 .. n PROVE Owner(gs, i) = Owner(fs, i)
    BY <1>1 DEF Owner
  <2>1. CASE IsLaunch(fs[i])
    BY <1>1, <2>1 DEF Owner
  <2>2. CASE IsPause(fs[i])
    <3>1. i - 1 \in 1 .. n
      BY <1>1, <2>2
    <3> QED
      BY <1>1, <2>2, <3>1 DEF Owner
  <2> QED
    BY <1>1, <2>1, <2>2
<1>6. Saved(gs)
  <2> SUFFICES ASSUME NEW i \in 1 .. n + 1, IsLaunch(gs[i])
               PROVE  gs[i].save = Owner(gs, i - 1)
    BY <1>1 DEF Saved
  <2>1. CASE i = n + 1
    <3>1. gs[i].save = Owner(fs, n)
      BY <1>1, <2>1 DEF n
    <3> QED
      BY <1>1, <1>5, <2>1, <3>1
  <2>2. CASE i \in 1 .. n
    <3>1. fs[i].save = Owner(fs, i - 1)
      BY <1>1, <1>2, <2>2 DEF Saved
    <3> QED
      BY <1>1, <1>5, <2>2, <3>1
  <2> QED
    BY <1>1, <2>1, <2>2
<1>7. Disciplined(gs)
  <2> SUFFICES ASSUME NEW i \in 1 .. n, IsLaunch(gs[i]), IsLaunch(gs[i + 1])
               PROVE  gs[i].cmd \in Interruptible /\ gs[i + 1].cmd \in Prioritary
    BY <1>1 DEF Disciplined
  <2>1. CASE i = n
    BY <1>1, <1>3, <2>1
  <2>2. CASE i \in 1 .. n - 1
    <3>1. gs[i] = fs[i] /\ gs[i + 1] = fs[i + 1]
      BY <1>1, <2>2
    <3> QED
      BY <1>2, <2>2, <3>1 DEF Disciplined, n
  <2> QED
    BY <1>1, <2>1, <2>2
<1>8. CASE IsLaunch(f)
  BY <1>1, <1>6, <1>7, <1>8 DEF Owner, Linked, gs
<1>9. CASE IsPause(f)
  <2>1. n > 0 /\ IsLaunch(fs[n])
    BY <1>3, <1>4, <1>9
  <2>2. Owner(gs, n + 1) = fs[n].cmd
    BY <1>1, <1>9, <2>1 DEF Owner
  <2>3. Owner(fs, n) = fs[n].cmd
    BY <1>1, <2>1 DEF Owner
  <2> QED
    BY <1>1, <1>6, <1>7, <1>9, <2>2, <2>3 DEF Linked, gs, n
<1> QED
  BY <1>1, <1>8, <1>9

\* A frame whose next statement changes belongs to the same command.
LEMMA LinkedAdvanced ==
  ASSUME NEW fs, WellFormed(fs), fs # <<>>, IsLaunch(Last(fs)), Linked(fs),
         NEW ip \in Nat \ {0}
  PROVE  LET gs == Append(Front(fs), [Last(fs) EXCEPT !.ip = ip]) IN
         /\ Linked(gs)
         /\ Owner(gs, Len(gs)) = Owner(fs, Len(fs))
PROOF
<1> DEFINE hs == Front(fs)
           f == [Last(fs) EXCEPT !.ip = ip]
<1>1. /\ fs \in Seq(Frame)
      /\ Len(fs) \in Nat \ {0}
      /\ Last(fs) = fs[Len(fs)]
      /\ Last(fs) \in Frame
      /\ Len(hs) = Len(fs) - 1
      /\ hs # <<>> => Last(hs) = fs[Len(fs) - 1]
  <2>1. /\ fs \in Seq(Frame)
        /\ Len(fs) \in Nat \ {0}
        /\ Last(fs) = fs[Len(fs)]
        /\ Last(fs) \in Frame
        /\ hs \in Seq(Frame)
        /\ Len(hs) = Len(fs) - 1
        /\ \A i \in 1 .. Len(fs) - 1 : hs[i] = fs[i]
    BY LastFront DEF WellFormed
  <2>2. ASSUME hs # <<>> PROVE Last(hs) = fs[Len(fs) - 1]
    <3>1. Len(hs) \in Nat \ {0} /\ Last(hs) = hs[Len(hs)]
      BY <2>1, <2>2, LastFront
    <3> QED
      BY <2>1, <3>1
  <2> QED
    BY <2>1, <2>2
<1>2. /\ f \in Frame
      /\ IsLaunch(f) /\ ~IsPause(f)
      /\ f.cmd = Last(fs).cmd
      /\ f.save = Last(fs).save
  BY <1>1 DEF Frame, IsLaunch, IsPause
<1>3. /\ WellFormed(hs)
      /\ Linked(hs)
      /\ Owner(hs, Len(hs)) = Last(fs).save
  BY Popped, LinkedPopped
<1>4. ASSUME hs # <<>>, IsLaunch(Last(hs))
      PROVE  Last(hs).cmd \in Interruptible /\ f.cmd \in Prioritary
  <2>1. hs \in Seq(Frame)
    BY <1>3 DEF WellFormed
  <2>2. Len(fs) - 1 \in 1 .. Len(fs) - 1
    BY <1>1, <1>4, <2>1, LastFront
  <2>3. IsLaunch(fs[Len(fs) - 1]) /\ IsLaunch(fs[Len(fs) - 1 + 1])
    BY <1>1, <1>4
  <2>4. /\ fs[Len(fs) - 1].cmd \in Interruptible
        /\ fs[Len(fs) - 1 + 1].cmd \in Prioritary
    BY <2>2, <2>3 DEF Linked, Disciplined
  <2>5. Len(fs) - 1 + 1 = Len(fs)
    BY <1>1
  <2> QED
    BY <1>1, <1>2, <1>4, <2>4, <2>5
<1> HIDE DEF f, hs
<1>5. /\ Linked(Append(hs, f))
      /\ Owner(Append(hs, f), Len(Append(hs, f))) = f.cmd
  BY <1>2, <1>3, <1>4, LinkedPushed
<1>6. Owner(fs, Len(fs)) = Last(fs).cmd
  BY <1>1 DEF Owner
<1> QED
  BY <1>2, <1>5, <1>6 DEF f, hs

-----------------------------------------------------------------------------
LEMMA RunnerInit == Init => RunnerInv
PROOF
<1> SUFFICES ASSUME Init PROVE RunnerInv
  OBVIOUS
<1>1. frames = <<>> /\ curRunner = NoCmd
  BY DEF Init, MainInit
<1> QED
  BY <1>1 DEF RunnerInv, Linked, Saved, Disciplined, Owner, WillYield

\* Steps that leave the stack and the runner alone.
LEMMA RunnerFlat ==
  ASSUME StackInv, RunnerInv,
         \/ StartPending \/ PeekQueues \/ AssignStored \/ WaitStored
         \/ GetCommand \/ NoBreak \/ Interrupt \/ ExecError \/ ExecExit
         \/ ExecAbort \/ RecursionError \/ MainLoop
         \/ \E p \in PauseCmds : StorePause(p)
  PROVE  RunnerInv'
PROOF
<1>1. UNCHANGED <<frames, curRunner>>
  BY DEF StartPending, PeekQueues, AssignStored, WaitStored, GetCommand,
         NoBreak, Interrupt, ExecError, ExecExit, ExecAbort, RecursionError,
         MainLoop, StorePause, runnerVars
<1>2. (Linked(frames) /\ curRunner = Owner(frames, Len(frames)))'
  BY <1>1 DEF RunnerInv
<1>3. WillYield'
  <2> SUFFICES ASSUME Interrupting', frames # <<>>, IsLaunch(Top)
               PROVE  prioQueue' # <<>> /\ Top.cmd \in Interruptible
    BY <1>1 DEF WillYield, Top
  <2>1. CASE Interrupting
    <3>1. UNCHANGED prioQueue
      BY <2>1 DEF Interrupting, StartPending, PeekQueues, AssignStored,
         WaitStored, GetCommand, NoBreak, Interrupt, ExecError, ExecExit,
         ExecAbort, RecursionError, MainLoop, StorePause, queues, Statement
    <3> QED
      BY <2>1, <3>1 DEF RunnerInv, WillYield
  <2>2. CASE ~Interrupting
    <3>1. mpc \notin {"start", "top"}
      BY DEF StackInv, TopMatches, Resting
    <3>2. Interrupt
      BY <2>2, <3>1 DEF Interrupting, StartPending, PeekQueues, AssignStored,
         WaitStored, GetCommand, NoBreak, Interrupt, ExecError, ExecExit,
         ExecAbort, RecursionError, MainLoop, StorePause
    <3>3. prioQueue # <<>> /\ curRunner \in Interruptible /\ UNCHANGED prioQueue
      BY <2>2, <3>2 DEF Interrupt, Interrupting, queues
    <3>4. curRunner = Top.cmd
      <4>1. Len(frames) \in Nat \ {0} /\ Top = frames[Len(frames)]
        BY LastFront DEF StackInv, WellFormed, Top
      <4> QED
        BY <4>1 DEF RunnerInv, Owner
    <3> QED
      BY <3>3, <3>4
  <2> QED
    BY <2>1, <2>2
<1> QED
  BY <1>2, <1>3 DEF RunnerInv

LEMMA RunnerPush ==
  ASSUME StackInv, RunnerInv,
         \/ StartCommand \/ ExecStep \/ ExecPause \/ ExecResume
         \/ ExecRecursion \/ RecursionCaught
  PROVE  RunnerInv'
PROOF
<1>1. WellFormed(frames) /\ Linked(frames) /\ curRunner = Owner(frames, Len(frames))
  BY DEF StackInv, RunnerInv
<1>2. frames # <<>> /\ IsLaunch(Last(frames)) => Last(frames) \in Frame
  BY <1>1, LastFront DEF WellFormed
<1>3. CASE StartCommand
  <2>1. CASE NextCommand = NoCmd
    BY <1>1, <1>3, <2>1 DEF StartCommand, RunnerInv, WillYield, Interrupting
  <2>2. CASE NextCommand # NoCmd
    <3> DEFINE f == LaunchFrame(NextCommand, curRunner, pauseLevel)
    <3>1. NextCommand \in Commands
      BY <1>3, <2>2, PopTypes DEF StackInv, TypeOK, StartCommand
    <3>2. f \in Frame /\ IsLaunch(f) /\ ~IsPause(f)
          /\ f.save = curRunner /\ f.cmd = NextCommand
      BY <3>1 DEF StackInv, TypeOK, MainTypeOK, LaunchFrame, Frame, IsLaunch,
                  IsPause
    <3>3. ASSUME frames # <<>>, IsLaunch(Last(frames))
          PROVE  Last(frames).cmd \in Interruptible /\ f.cmd \in Prioritary
      <4>1. prioQueue # <<>> /\ Last(frames).cmd \in Interruptible
        BY <1>3, <3>3 DEF StartCommand, RunnerInv, WillYield, Interrupting, Top
      <4>2. NextCommand \in Prioritary
        BY <1>3, <4>1, PopTypes DEF StackInv, TypeOK, StartCommand
      <4> QED
        BY <3>2, <4>1, <4>2
    <3>4. frames' = Append(frames, f) /\ curRunner' = NextCommand /\ mpc' = "break"
      BY <1>3, <2>2 DEF StartCommand
    <3> HIDE DEF f
    <3>5. Linked(frames') /\ Owner(frames', Len(frames')) = NextCommand
      BY <1>1, <3>2, <3>3, <3>4, LinkedPushed
    <3> QED
      BY <3>4, <3>5 DEF RunnerInv, WillYield, Interrupting
  <2> QED
    BY <2>1, <2>2
<1>4. ASSUME ExecStep \/ ExecPause \/ ExecResume \/ ExecRecursion
      PROVE  /\ frames # <<>> /\ IsLaunch(Last(frames))
             /\ Linked(Advance)
             /\ Owner(Advance, Len(Advance)) = curRunner
             /\ WellFormed(Advance) /\ Advance # <<>>
             /\ IsLaunch(Last(Advance))
             /\ AdvancePC \in {"break", "finish"}
  <2>1. frames # <<>> /\ IsLaunch(Last(frames))
    BY <1>4 DEF ExecStep, ExecPause, ExecResume, ExecRecursion, QuitPause,
                Statement, Top,
                StackInv, TopMatches, InCommand
  <2>2. Last(frames).ip + 1 \in Nat \ {0}
    BY <1>2, <2>1 DEF Frame, IsLaunch
  <2>3. Advance = Append(Front(frames),
                         [Last(frames) EXCEPT !.ip = Last(frames).ip + 1])
    BY DEF Advance, Top
  <2> QED
    BY <1>1, <2>1, <2>2, <2>3, Advanced, LinkedAdvanced
    DEF AdvancePC, AfterStatement
<1>5. CASE ExecStep \/ ExecResume \/ ExecRecursion
  BY <1>4, <1>5 DEF ExecStep, ExecResume, ExecRecursion, RunnerInv, WillYield,
                    Interrupting
<1>6. CASE ExecPause
  <2> DEFINE f == PauseFrame(pauseLevel + 1)
  <2>1. f \in Frame /\ IsPause(f) /\ ~IsLaunch(f)
    BY DEF StackInv, TypeOK, MainTypeOK, PauseFrame, Frame, IsLaunch, IsPause
  <2>2. frames' = Append(Advance, f) /\ UNCHANGED curRunner /\ mpc' = "pauseloop"
    BY <1>6 DEF ExecPause
  <2> HIDE DEF f
  <2>3. Linked(frames') /\ Owner(frames', Len(frames')) = curRunner
    BY <1>4, <1>6, <2>1, <2>2, LinkedPushed
  <2> QED
    BY <2>2, <2>3 DEF RunnerInv, WillYield, Interrupting
<1>7. CASE RecursionCaught
  <2>1. PICK ip \in Top.ip .. Len(Program[Top.cmd]) + 1 :
          /\ frames' = Append(Front(frames), [Top EXCEPT !.ip = ip])
          /\ mpc' = AfterStatement(Top.cmd, ip)
    BY <1>7 DEF RecursionCaught
  <2>2. frames # <<>> /\ IsLaunch(Last(frames))
    BY <1>7 DEF RecursionCaught, Top, StackInv, TopMatches, Throwing
  <2>3. ip \in Nat \ {0}
    BY <1>2, <2>2 DEF Frame, IsLaunch, Top
  <2>4. Linked(frames') /\ Owner(frames', Len(frames')) = Owner(frames, Len(frames))
    BY <1>1, <2>1, <2>2, <2>3, LinkedAdvanced DEF Top
  <2> QED
    BY <1>1, <1>7, <2>1, <2>4
    DEF RecursionCaught, RunnerInv, WillYield, Interrupting, AfterStatement
<1> QED
  BY <1>3, <1>5, <1>6, <1>7

LEMMA RunnerPop ==
  ASSUME StackInv, RunnerInv, NoRecursionInPause,
         \/ PauseLoop \/ Finish \/ AbortLaunch \/ ThrowThroughPause
         \/ RecursionInPause
  PROVE  RunnerInv'
PROOF
<1>1. /\ WellFormed(frames)
      /\ Linked(frames)
      /\ curRunner = Owner(frames, Len(frames))
      /\ pauseLevel \in Nat
  BY DEF StackInv, RunnerInv, TypeOK, MainTypeOK
<1>2. \A f \in Frame : IsPause(f) <=> ~IsLaunch(f)
  BY DEF Frame, IsPause, IsLaunch
<1>3. CASE PauseLoop
  <2>1. frames # <<>> /\ IsPause(Last(frames)) /\ Last(frames) \in Frame
    BY <1>1, <1>3, LastFront DEF PauseLoop, StackInv, TopMatches, Top, WellFormed
  <2>2. CASE Top.lvl = pauseLevel
    BY <1>1, <1>2, <1>3, <2>1, <2>2
    DEF PauseLoop, RunnerInv, WillYield, Interrupting, Top
  <2>3. CASE Top.lvl # pauseLevel
    <3>1. /\ frames' = Front(frames)
          /\ mpc' \in {"break", "finish"}
          /\ UNCHANGED curRunner
      BY <1>3, <2>3 DEF PauseLoop, AfterStatement
    <3>2. Linked(frames') /\ Owner(frames', Len(frames')) = curRunner
      BY <1>1, <1>2, <2>1, <3>1, LinkedPopped
    <3> QED
      BY <3>1, <3>2 DEF RunnerInv, WillYield, Interrupting
  <2> QED
    BY <2>2, <2>3
<1>4. CASE Finish \/ AbortLaunch
  <2>1. /\ frames # <<>>
        /\ IsLaunch(Last(frames))
        /\ frames' = Front(frames)
        /\ curRunner' = Last(frames).save
    BY <1>4 DEF Finish, AbortLaunch, StackInv, TopMatches, InCommand, Throwing,
                Top
  <2>2. Linked(frames') /\ Owner(frames', Len(frames')) = curRunner'
    BY <1>1, <2>1, LinkedPopped
  <2>3. ~Interrupting'
    BY <1>4 DEF Finish, AbortLaunch, AfterReturn, AfterThrow, Interrupting
  <2> QED
    BY <2>2, <2>3 DEF RunnerInv, WillYield
<1>5. CASE ThrowThroughPause
  <2>1. /\ frames # <<>>
        /\ IsPause(Last(frames))
        /\ Last(frames) \in Frame
        /\ frames' = Front(frames)
        /\ UNCHANGED <<mpc, curRunner>>
        /\ mpc \in {"abort", "recursion"}
    BY <1>1, <1>5, LastFront
    DEF ThrowThroughPause, StackInv, TopMatches, Throwing, Top, WellFormed
  <2>2. Linked(frames') /\ Owner(frames', Len(frames')) = curRunner'
    BY <1>1, <1>2, <2>1, LinkedPopped
  <2> QED
    BY <2>1, <2>2 DEF RunnerInv, WillYield, Interrupting
<1>6. ~RecursionInPause
  BY <1>1 DEF RecursionInPause, NoRecursionInPause
<1> QED
  BY <1>3, <1>4, <1>5, <1>6

LEMMA RunnerNext ==
  StackInv /\ RunnerInv /\ NoRecursionInPause /\ [Next]_vars => RunnerInv'
PROOF
<1> SUFFICES ASSUME StackInv, RunnerInv, NoRecursionInPause, [Next]_vars
             PROVE  RunnerInv'
  OBVIOUS
<1>1. CASE MainStep
  BY <1>1, RunnerFlat, RunnerPush, RunnerPop DEF MainStep, MainNext
<1>2. ASSUME UNCHANGED mainVars, prioQueue # <<>> => prioQueue' # <<>>
      PROVE  RunnerInv'
  BY <1>2 DEF mainVars, runnerVars, RunnerInv, WillYield, Interrupting, Top
<1>3. CASE ConsoleType
  BY <1>2, <1>3 DEF ConsoleType, ConsoleRead, queues
<1>4. ASSUME NEW c \in Commands, Push(c)
      PROVE  prioQueue # <<>> => prioQueue' # <<>>
  BY <1>4, AppendProperties DEF Push, StackInv, TypeOK, StoreTypeOK
<1>5. CASE ConsoleGo
  <2>1. UNCHANGED mainVars
    BY <1>5 DEF ConsoleGo
  <2>2. CASE ConsolePush
    <3>1. ccmd \in Commands
      BY <2>2, KindAssumption, CommandAssumption
      DEF ConsolePush, StackInv, ConsoleHolds
    <3> QED
      BY <1>2, <1>4, <2>1, <2>2, <3>1 DEF ConsolePush
  <2>3. CASE ~ConsolePush
    BY <1>2, <1>5, <2>1, <2>3
    DEF ConsoleGo, ConsoleStep, ConsoleStart, ConsoleAnnounce,
        ConsoleWaitStart, ConsoleStarted, ConsoleReady, ConsoleCheck,
        ConsoleLock, ConsoleWait, ConsoleReleased, ConsoleLeave, ConsoleExit,
        queues
  <2> QED
    BY <2>2, <2>3
<1>6. CASE \E t \in Clients : ClientStore(t) \/ ClientGo(t)
  <2>1. PICK t \in Clients : ClientStore(t) \/ ClientGo(t)
    BY <1>6
  <2>2. UNCHANGED mainVars
    BY <2>1 DEF ClientStore, ClientCall, ClientGo, ClientLock, ClientPush,
                ClientParseFails
  <2>3. CASE ClientPush(t)
    <3>1. tcmd[t] \in Commands
      BY <2>3, KindAssumption DEF ClientPush, StackInv, ClientsHold
    <3> QED
      BY <1>2, <1>4, <2>2, <2>3, <3>1 DEF ClientPush
  <2>4. CASE ~ClientPush(t)
    BY <1>2, <2>1, <2>2, <2>4
    DEF ClientStore, ClientCall, ClientGo, ClientLock, ClientParseFails, queues
  <2> QED
    BY <2>3, <2>4
<1>7. CASE CtrlC \/ UNCHANGED vars
  BY <1>2, <1>7 DEF CtrlC, vars, queues
<1> QED
  BY <1>1, <1>3, <1>5, <1>6, <1>7 DEF Next

LEMMA RunnerCorrect == Spec /\ []NoRecursionInPause => []RunnerInv
PROOF
<1>1. Init => StackInv /\ RunnerInv
  BY StackInit, RunnerInit
<1>2. StackInv /\ RunnerInv /\ NoRecursionInPause /\ [Next]_vars
      => (StackInv /\ RunnerInv)'
  BY StackNext, RunnerNext
<1> QED
  BY <1>1, <1>2, PTL DEF Spec

\* Without a recursion error in a pause, m_CurrentRunner is always the
\* command being executed, and each launch will put back the command it
\* interrupted, whatever pauses, errors and aborts come in between.
THEOREM RunnerRestoredCorrect ==
  Spec /\ []NoRecursionInPause => []RunnerRestored
PROOF
<1>1. RunnerInv => RunnerRestored
  BY DEF RunnerInv, Linked, Saved, RunnerRestored, CmdAt, Owner
<1> QED
  BY <1>1, RunnerCorrect, PTL

\* Without a recursion error in a pause, only a prioritary command interrupts
\* another one, and only one that was stored interruptible, although the
\* statement loop tests the queue without the lock.
THEOREM InterruptDisciplineCorrect ==
  Spec /\ []NoRecursionInPause => []InterruptDiscipline
PROOF
<1>1. RunnerInv => InterruptDiscipline
  BY DEF RunnerInv, Linked, Disciplined, InterruptDiscipline
<1> QED
  BY <1>1, RunnerCorrect, PTL

-----------------------------------------------------------------------------
(* The engine implements the command service: the stack of the service is  *)
(* the commands of the frames, the suspension of a command being its pause *)
(* loop.                                                                   *)

ActiveOf(fs) == [i \in DOMAIN fs |-> fs[i].cmd]

LEMMA ActiveIsSeq ==
  ASSUME NEW fs \in Seq(Frame)
  PROVE  /\ ActiveOf(fs) \in Seq(Commands \cup {NoCmd})
         /\ Len(ActiveOf(fs)) = Len(fs)
         /\ \A i \in 1 .. Len(fs) : ActiveOf(fs)[i] = fs[i].cmd
         /\ fs # <<>> => /\ ActiveOf(fs) # <<>>
                         /\ Last(ActiveOf(fs)) = Last(fs).cmd
         /\ fs = <<>> => ActiveOf(fs) = <<>>
PROOF
<1>1. Len(fs) \in Nat /\ DOMAIN fs = 1 .. Len(fs)
  BY LenProperties
<1>2. \A i \in 1 .. Len(fs) : fs[i].cmd \in Commands \cup {NoCmd}
  <2>1. \A f \in Frame : f.cmd \in Commands \cup {NoCmd}
    BY DEF Frame
  <2> QED
    BY <1>1, <2>1, ElementOfSeq
<1>3. ActiveOf(fs) = [i \in 1 .. Len(fs) |-> fs[i].cmd]
  BY <1>1 DEF ActiveOf
<1>4. ActiveOf(fs) \in Seq(Commands \cup {NoCmd})
  BY <1>1, <1>2, <1>3, IsASeq
<1>5. Len(ActiveOf(fs)) = Len(fs) /\ \A i \in 1 .. Len(fs) : ActiveOf(fs)[i] = fs[i].cmd
  BY <1>1, <1>3, <1>4, LenProperties
<1>6. ASSUME fs # <<>> PROVE ActiveOf(fs) # <<>> /\ Last(ActiveOf(fs)) = Last(fs).cmd
  <2>1. Len(fs) \in Nat \ {0} /\ Last(fs) = fs[Len(fs)]
    BY <1>6, LastFront
  <2>2. ActiveOf(fs) # <<>>
    BY <1>4, <1>5, <2>1, EmptySeq
  <2>3. Last(ActiveOf(fs)) = ActiveOf(fs)[Len(ActiveOf(fs))]
    BY <1>4, <2>2, LastFront
  <2> QED
    BY <1>5, <2>1, <2>2, <2>3
<1>7. fs = <<>> => ActiveOf(fs) = <<>>
  BY <1>4, <1>5, EmptySeq
<1> QED
  BY <1>4, <1>5, <1>6, <1>7

LEMMA ActivePushed ==
  ASSUME NEW fs \in Seq(Frame), NEW f \in Frame
  PROVE  ActiveOf(Append(fs, f)) = Append(ActiveOf(fs), f.cmd)
PROOF
<1> DEFINE gs == Append(fs, f)
           a == ActiveOf(fs)
<1>1. /\ gs \in Seq(Frame)
      /\ Len(gs) = Len(fs) + 1
      /\ gs[Len(fs) + 1] = f
      /\ \A i \in 1 .. Len(fs) : gs[i] = fs[i]
      /\ Len(fs) \in Nat
  BY AppendProperties, LenProperties
<1> HIDE DEF gs
<1>2. /\ a \in Seq(Commands \cup {NoCmd}) /\ Len(a) = Len(fs)
      /\ \A i \in 1 .. Len(fs) : a[i] = fs[i].cmd
  BY ActiveIsSeq
<1>3. /\ ActiveOf(gs) \in Seq(Commands \cup {NoCmd}) /\ Len(ActiveOf(gs)) = Len(gs)
      /\ \A i \in 1 .. Len(gs) : ActiveOf(gs)[i] = gs[i].cmd
  BY <1>1, ActiveIsSeq
<1>4. f.cmd \in Commands \cup {NoCmd}
  BY DEF Frame
<1> HIDE DEF a
<1>5. /\ Append(a, f.cmd) \in Seq(Commands \cup {NoCmd})
      /\ Len(Append(a, f.cmd)) = Len(fs) + 1
      /\ Append(a, f.cmd)[Len(fs) + 1] = f.cmd
      /\ \A i \in 1 .. Len(fs) : Append(a, f.cmd)[i] = a[i]
  BY <1>2, <1>4, AppendProperties
<1>6. \A i \in 1 .. Len(fs) + 1 : ActiveOf(gs)[i] = Append(a, f.cmd)[i]
  <2> SUFFICES ASSUME NEW i \in 1 .. Len(fs) + 1
               PROVE  ActiveOf(gs)[i] = Append(a, f.cmd)[i]
    OBVIOUS
  <2>1. ActiveOf(gs)[i] = gs[i].cmd
    BY <1>1, <1>3
  <2>2. CASE i = Len(fs) + 1
    <3>1. gs[i].cmd = f.cmd
      <4>1. gs[i] = f
        BY <1>1, <2>2
      <4> QED
        BY <4>1
    <3>2. Append(a, f.cmd)[i] = f.cmd
      BY <1>5, <2>2
    <3> QED
      BY <2>1, <3>1, <3>2, Zenon
  <2>3. CASE i \in 1 .. Len(fs)
    <3>1. gs[i] = fs[i] /\ a[i] = fs[i].cmd /\ Append(a, f.cmd)[i] = a[i]
      BY <1>1, <1>2, <1>5, <2>3
    <3> QED
      BY <2>1, <3>1, Zenon
  <2>4. i = Len(fs) + 1 \/ i \in 1 .. Len(fs)
    <3>1. Len(fs) \in Nat
      BY <1>1
    <3> QED
      BY <3>1
  <2> QED
    BY <2>2, <2>3, <2>4
<1>7. ActiveOf(gs) = Append(a, f.cmd)
  BY <1>1, <1>3, <1>5, <1>6, SeqEqual
<1> QED
  BY <1>7 DEF gs, a

LEMMA ActivePopped ==
  ASSUME NEW fs \in Seq(Frame), fs # <<>>
  PROVE  ActiveOf(Front(fs)) = Front(ActiveOf(fs))
PROOF
<1> DEFINE gs == Front(fs)
           a == ActiveOf(fs)
           n == Len(fs)
<1>1. /\ gs \in Seq(Frame) /\ n \in Nat \ {0}
      /\ Len(gs) = n - 1
      /\ \A i \in 1 .. n - 1 : gs[i] = fs[i]
  BY LastFront
<1>2. /\ a \in Seq(Commands \cup {NoCmd}) /\ Len(a) = n /\ a # <<>>
      /\ \A i \in 1 .. n : a[i] = fs[i].cmd
  BY ActiveIsSeq
<1> HIDE DEF gs, a, n
<1>3. /\ ActiveOf(gs) \in Seq(Commands \cup {NoCmd}) /\ Len(ActiveOf(gs)) = n - 1
      /\ \A i \in 1 .. n - 1 : ActiveOf(gs)[i] = gs[i].cmd
  BY <1>1, ActiveIsSeq
<1>4. /\ Front(a) \in Seq(Commands \cup {NoCmd}) /\ Len(Front(a)) = n - 1
      /\ \A i \in 1 .. n - 1 : Front(a)[i] = a[i]
  BY <1>2, LastFront
<1>5. \A i \in 1 .. n - 1 : ActiveOf(gs)[i] = Front(a)[i]
  BY <1>1, <1>2, <1>3, <1>4
<1>6. ActiveOf(gs) = Front(a)
  BY <1>3, <1>4, <1>5, SeqEqual
<1> QED
  BY <1>6 DEF gs, a

\* The service does not see which statement is next.
LEMMA ActiveAdvanced ==
  ASSUME NEW fs \in Seq(Frame), fs # <<>>, IsLaunch(Last(fs)), NEW ip \in Nat \ {0}
  PROVE  ActiveOf(Append(Front(fs), [Last(fs) EXCEPT !.ip = ip])) = ActiveOf(fs)
PROOF
<1> DEFINE f == [Last(fs) EXCEPT !.ip = ip]
           a == ActiveOf(fs)
<1>1. Last(fs) \in Frame /\ Front(fs) \in Seq(Frame)
  BY LastFront
<1>2. f \in Frame /\ f.cmd = Last(fs).cmd
  BY <1>1 DEF Frame, IsLaunch
<1> HIDE DEF f
<1>3. ActiveOf(Append(Front(fs), f)) = Append(ActiveOf(Front(fs)), f.cmd)
  BY <1>1, <1>2, ActivePushed
<1>4. ActiveOf(Front(fs)) = Front(a)
  BY ActivePopped
<1>5. /\ a \in Seq(Commands \cup {NoCmd}) /\ a # <<>>
      /\ Last(a) = Last(fs).cmd
  BY ActiveIsSeq
<1> HIDE DEF a
<1>6. Append(Front(a), Last(a)) = a
  <2> DEFINE b == Append(Front(a), Last(a))
             n == Len(a)
  <2>1. /\ n \in Nat \ {0} /\ Last(a) = a[n] /\ Last(a) \in Commands \cup {NoCmd}
        /\ Front(a) \in Seq(Commands \cup {NoCmd}) /\ Len(Front(a)) = n - 1
        /\ \A i \in 1 .. n - 1 : Front(a)[i] = a[i]
    BY <1>5, LastFront, ElementOfSeq
  <2> HIDE DEF n
  <2>2. /\ b \in Seq(Commands \cup {NoCmd}) /\ Len(b) = n - 1 + 1
        /\ b[n - 1 + 1] = Last(a)
        /\ \A i \in 1 .. n - 1 : b[i] = Front(a)[i]
    BY <2>1, AppendProperties
  <2> HIDE DEF b
  <2>3. \A i \in 1 .. n : b[i] = a[i]
    <3> SUFFICES ASSUME NEW i \in 1 .. n PROVE b[i] = a[i]
      OBVIOUS
    <3>1. CASE i = n
      BY <2>1, <2>2, <3>1
    <3>2. CASE i \in 1 .. n - 1
      BY <2>1, <2>2, <3>2
    <3> QED
      BY <2>1, <3>1, <3>2
  <2>4. Len(b) = n /\ Len(a) = n
    BY <2>1, <2>2 DEF n
  <2>5. b = a
    BY <1>5, <2>2, <2>3, <2>4, SeqEqual
  <2> QED
    BY <2>5 DEF b
<1> QED
  BY <1>2, <1>3, <1>4, <1>5, <1>6 DEF f, a

-----------------------------------------------------------------------------
(* Each step is a step of the service, or one that it does not see.        *)

ServiceStep == Service!Next \/ UNCHANGED Service!vars

\* What the service sees of a step.
LEMMA ServiceUnseen ==
  ASSUME UNCHANGED <<prioQueue, normQueue>>, ActiveOf(frames)' = ActiveOf(frames)
  PROVE  ServiceStep
PROOF
  BY DEF ServiceStep, Service!vars, Active, ActiveOf

LEMMA ServiceSubmits ==
  ASSUME UNCHANGED frames, NEW c \in Commands, Push(c)
  PROVE  ServiceStep
PROOF
<1>1. UNCHANGED Active
  BY DEF Active
<1>2. Service!Submit(c)
  BY <1>1 DEF Push, Service!Submit
<1> QED
  BY <1>2 DEF ServiceStep, Service!Next

LEMMA ServiceLeaves ==
  ASSUME StackInv, frames # <<>>, frames' = Front(frames), UNCHANGED <<prioQueue, normQueue>>
  PROVE  ServiceStep
PROOF
<1>1. frames \in Seq(Frame)
  BY DEF StackInv, WellFormed
<1>2. Active # <<>> /\ Active' = Front(Active)
  <2>1. ActiveOf(frames) # <<>>
    BY <1>1, ActiveIsSeq
  <2>2. ActiveOf(Front(frames)) = Front(ActiveOf(frames))
    BY <1>1, ActivePopped
  <2> QED
    BY <2>1, <2>2 DEF Active, ActiveOf
<1>3. Service!Leave
  BY <1>2 DEF Service!Leave, Service!Front, Front
<1> QED
  BY <1>3 DEF ServiceStep, Service!Next

\* A command starts when nothing runs, over a pause loop, or, being
\* prioritary, over an interruptible command.
LEMMA ServiceBegins ==
  ASSUME StackInv, RunnerInv, StartCommand
  PROVE  ServiceStep
PROOF
<1>1. /\ frames \in Seq(Frame) /\ StoreTypeOK /\ PopCommand /\ mpc = "pop"
      /\ curRunner \in Commands \cup {NoCmd} /\ pauseLevel \in Nat
  BY DEF StackInv, WellFormed, StartCommand, TypeOK, MainTypeOK
<1>2. CASE NextCommand = NoCmd
  <2>1. /\ prioQueue # <<>> => Head(prioQueue) # NoCmd
        /\ normQueue # <<>> => Head(normQueue) # NoCmd
    <3>1. /\ prioQueue \in Seq(Prioritary)
          /\ normQueue \in Seq(Normal)
      BY <1>1 DEF StoreTypeOK
    <3>2. prioQueue # <<>> => Head(prioQueue) \in Prioritary
      BY <3>1, HeadTailProperties
    <3>3. normQueue # <<>> => Head(normQueue) \in Normal
      BY <3>1, HeadTailProperties
    <3>4. NoCmd \notin Prioritary /\ NoCmd \notin Normal
      BY CommandAssumption DEF Normal
    <3> QED
      BY <3>2, <3>3, <3>4, Zenon
  <2>2. prioQueue = <<>> /\ normQueue = <<>>
    BY <1>2, <2>1 DEF NextCommand
  <2>3. UNCHANGED <<prioQueue, normQueue, frames>>
    BY <1>1, <1>2, <2>2 DEF PopCommand, StartCommand
  <2> QED
    BY <2>3, ServiceUnseen DEF ActiveOf
<1>3. CASE NextCommand # NoCmd
  <2> DEFINE f == LaunchFrame(NextCommand, curRunner, pauseLevel)
  <2>1. NextCommand \in Commands /\ (prioQueue # <<>> => NextCommand \in Prioritary)
    BY <1>1, <1>3, PopTypes
  <2>2. f \in Frame /\ f.cmd = NextCommand /\ frames' = Append(frames, f)
    BY <1>1, <1>3, <2>1 DEF StartCommand, LaunchFrame, Frame
  <2> HIDE DEF f
  <2>3. ActiveOf(Append(frames, f)) = Append(ActiveOf(frames), NextCommand)
    BY <1>1, <2>2, ActivePushed
  <2>4. Active' = Append(Active, NextCommand)
    BY <2>2, <2>3 DEF Active, ActiveOf
  <2>5. CASE frames # <<>> /\ IsLaunch(Last(frames))
    <3>1. prioQueue # <<>> /\ Last(frames).cmd \in Interruptible
      BY <1>1, <2>5 DEF RunnerInv, WillYield, Interrupting, Top
    <3>2. Last(ActiveOf(frames)) = Last(frames).cmd /\ ActiveOf(frames) # <<>>
      BY <1>1, <2>5, ActiveIsSeq
    <3>3. Service!AtPrompt \/ Service!MayInterrupt
      BY <3>1, <3>2 DEF Service!AtPrompt, Service!MayInterrupt, Service!Last, Last, Active,
         ActiveOf
    <3>4. prioQueue' = Tail(prioQueue) /\ UNCHANGED normQueue /\ NextCommand = Head(prioQueue)
      BY <1>1, <3>1 DEF PopCommand, NextCommand
    <3>5. Service!BeginPrioritary
      BY <2>4, <3>1, <3>3, <3>4 DEF Service!BeginPrioritary
    <3> QED
      BY <3>5 DEF ServiceStep, Service!Next
  <2>6. CASE frames = <<>> \/ ~IsLaunch(Last(frames))
    <3>1. Service!AtPrompt
      <4>1. CASE frames = <<>>
        <5>1. Active = <<>>
          BY <1>1, <4>1, ActiveIsSeq DEF Active, ActiveOf
        <5> QED
          BY <5>1 DEF Service!AtPrompt
      <4>2. CASE frames # <<>>
        <5>1. Last(frames) \in Frame
          BY <1>1, <4>2, LastFront
        <5>2. Last(frames).cmd = NoCmd
          BY <2>6, <4>2, <5>1 DEF Frame, IsLaunch
        <5>3. Last(ActiveOf(frames)) = NoCmd
          BY <1>1, <4>2, <5>2, ActiveIsSeq
        <5> QED
          BY <5>3 DEF Service!AtPrompt, Service!Last, Last, Active, ActiveOf
      <4> QED
        BY <4>1, <4>2
    <3>2. CASE prioQueue # <<>>
      <4>1. prioQueue' = Tail(prioQueue) /\ UNCHANGED normQueue /\ NextCommand = Head(prioQueue)
        BY <1>1, <3>2 DEF PopCommand, NextCommand
      <4>2. Service!BeginPrioritary
        BY <2>4, <3>1, <3>2, <4>1 DEF Service!BeginPrioritary
      <4> QED
        BY <4>2 DEF ServiceStep, Service!Next
    <3>3. CASE prioQueue = <<>>
      <4>1. normQueue # <<>> /\ NextCommand = Head(normQueue)
        BY <1>3, <3>3 DEF NextCommand
      <4>2. normQueue' = Tail(normQueue) /\ UNCHANGED prioQueue
        BY <1>1, <3>3, <4>1 DEF PopCommand
      <4>3. Service!BeginNormal
        BY <2>4, <3>1, <3>3, <4>1, <4>2 DEF Service!BeginNormal
      <4> QED
        BY <4>3 DEF ServiceStep, Service!Next
    <3> QED
      BY <3>2, <3>3
  <2> QED
    BY <2>5, <2>6
<1> QED
  BY <1>2, <1>3

\* A command is suspended by its pause.
LEMMA ServiceSuspends ==
  ASSUME StackInv, ExecPause
  PROVE  ServiceStep
PROOF
<1>1. /\ frames # <<>> /\ IsLaunch(Last(frames))
      /\ frames \in Seq(Frame) /\ pauseLevel \in Nat
  BY DEF StackInv, WellFormed, TypeOK, MainTypeOK, ExecPause, Statement, TopMatches,
         InCommand, Top
<1>2. Last(frames) \in Frame /\ Front(frames) \in Seq(Frame)
  BY <1>1, LastFront
<1>3. Last(frames).cmd \in Commands /\ Last(frames).ip + 1 \in Nat \ {0}
  BY <1>1, <1>2 DEF Frame, IsLaunch
<1> DEFINE g == [Last(frames) EXCEPT !.ip = Last(frames).ip + 1]
           f == PauseFrame(pauseLevel + 1)
<1>4. g \in Frame
  BY <1>1, <1>2, <1>3 DEF Frame, IsLaunch
<1>5. f \in Frame /\ f.cmd = NoCmd
  BY <1>1 DEF Frame, PauseFrame
<1>6. frames' = Append(Append(Front(frames), g), f)
  BY DEF ExecPause, Advance, Top
<1>7. UNCHANGED <<prioQueue, normQueue>>
  BY DEF ExecPause, queues
<1>8. ActiveOf(Append(Front(frames), g)) = ActiveOf(frames)
  BY <1>1, <1>3, ActiveAdvanced
<1> HIDE DEF f, g
<1>9. Append(Front(frames), g) \in Seq(Frame)
  BY <1>2, <1>4, AppendProperties
<1>10. ActiveOf(frames') = Append(ActiveOf(frames), NoCmd)
  BY <1>5, <1>6, <1>8, <1>9, ActivePushed
<1>11. ActiveOf(frames) # <<>> /\ Last(ActiveOf(frames)) # NoCmd
  <2>1. ActiveOf(frames) # <<>> /\ Last(ActiveOf(frames)) = Last(frames).cmd
    BY <1>1, ActiveIsSeq
  <2> QED
    BY <1>3, <2>1, CommandAssumption
<1>12. ~Service!AtPrompt
  BY <1>11 DEF Service!AtPrompt, Service!Last, Last, Active, ActiveOf
<1>13. Active' = Append(Active, NoCmd)
  BY <1>10 DEF Active, ActiveOf
<1>14. Service!Suspend
  BY <1>7, <1>12, <1>13 DEF Service!Suspend
<1> QED
  BY <1>14 DEF ServiceStep, Service!Next

\* The steps of the interpreter inside a command.
LEMMA ServiceAdvances ==
  ASSUME StackInv, ExecStep \/ ExecResume \/ ExecRecursion \/ RecursionCaught
  PROVE  ServiceStep
PROOF
<1>1. frames \in Seq(Frame) /\ UNCHANGED <<prioQueue, normQueue>>
  BY DEF StackInv, WellFormed, ExecStep, ExecResume, ExecRecursion, RecursionCaught, queues
<1>2. ASSUME frames # <<>>, IsLaunch(Last(frames)), NEW ip \in Nat \ {0},
             frames' = Append(Front(frames), [Last(frames) EXCEPT !.ip = ip])
      PROVE  ServiceStep
  <2>1. ActiveOf(frames') = ActiveOf(frames)
    BY <1>1, <1>2, ActiveAdvanced
  <2> QED
    BY <1>1, <2>1, ServiceUnseen DEF ActiveOf
<1>3. ASSUME frames # <<>>, IsLaunch(Last(frames))
      PROVE  Last(frames).ip \in Nat \ {0}
  <2>1. Last(frames) \in Frame
    BY <1>1, <1>3, LastFront
  <2> QED
    BY <1>3, <2>1 DEF Frame, IsLaunch
<1>4. CASE ExecStep \/ ExecResume \/ ExecRecursion
  <2>1. frames # <<>> /\ IsLaunch(Last(frames))
    BY <1>4 DEF ExecStep, ExecResume, ExecRecursion, QuitPause, Statement, Top, StackInv,
       TopMatches, InCommand
  <2>2. Last(frames).ip + 1 \in Nat \ {0}
    BY <1>3, <2>1
  <2>3. frames' = Append(Front(frames), [Last(frames) EXCEPT !.ip = Last(frames).ip + 1])
    BY <1>4 DEF ExecStep, ExecResume, ExecRecursion, Advance, Top
  <2> QED
    BY <1>2, <2>1, <2>2, <2>3
<1>5. CASE RecursionCaught
  <2>1. frames # <<>> /\ IsLaunch(Last(frames))
    BY <1>5 DEF RecursionCaught, Top, StackInv, TopMatches, Throwing
  <2>2. PICK ip \in Top.ip .. Len(Program[Top.cmd]) + 1 :
          frames' = Append(Front(frames), [Top EXCEPT !.ip = ip])
    BY <1>5 DEF RecursionCaught
  <2>3. ip \in Nat \ {0}
    BY <1>3, <2>1, <2>2 DEF Top
  <2> QED
    BY <1>2, <2>1, <2>2, <2>3 DEF Top
<1> QED
  BY <1>4, <1>5

LEMMA ServiceMain ==
  ASSUME StackInv, RunnerInv, MainStep
  PROVE  ServiceStep
PROOF
<1>1. CASE \/ StartPending \/ PeekQueues \/ AssignStored \/ WaitStored
           \/ GetCommand \/ NoBreak \/ Interrupt \/ ExecError \/ ExecExit
           \/ ExecAbort \/ RecursionError \/ MainLoop
  <2>1. UNCHANGED <<prioQueue, normQueue, frames>>
    BY <1>1 DEF StartPending, PeekQueues, AssignStored, WaitStored, GetCommand, NoBreak,
       Interrupt, ExecError, ExecExit, ExecAbort, RecursionError, MainLoop, queues, runnerVars
  <2> QED
    BY <2>1, ServiceUnseen DEF ActiveOf
<1>2. CASE PauseLoop \/ Finish \/ AbortLaunch \/ ThrowThroughPause \/ RecursionInPause
  <2>1. UNCHANGED <<prioQueue, normQueue>>
    BY <1>2 DEF PauseLoop, Finish, AbortLaunch, ThrowThroughPause, RecursionInPause, queues
  <2>2. frames # <<>>
    BY <1>2 DEF PauseLoop, Finish, AbortLaunch, ThrowThroughPause, RecursionInPause,
       StackInv, TopMatches, InCommand, Throwing
  <2>3. frames' = Front(frames) \/ UNCHANGED frames
    BY <1>2 DEF PauseLoop, Finish, AbortLaunch, ThrowThroughPause, RecursionInPause
  <2>4. CASE frames' = Front(frames)
    BY <2>1, <2>2, <2>4, ServiceLeaves
  <2>5. CASE UNCHANGED frames
    BY <2>1, <2>5, ServiceUnseen DEF ActiveOf
  <2> QED
    BY <2>3, <2>4, <2>5
<1>3. CASE \E p \in PauseCmds \ Live : StorePause(p)
  <2>1. PICK p \in PauseCmds : StorePause(p)
    BY <1>3
  <2>2. p \in Commands /\ Push(p) /\ UNCHANGED frames
    BY <2>1, KindAssumption, CommandAssumption DEF StorePause, runnerVars
  <2> QED
    BY <2>2, ServiceSubmits
<1> QED
  BY <1>1, <1>2, <1>3, ServiceBegins, ServiceSuspends, ServiceAdvances DEF MainStep, MainNext

LEMMA ServiceNext ==
  ASSUME StackInv, RunnerInv, [Next]_vars
  PROVE  [Service!Next]_Service!vars
PROOF
<1>1. CASE ConsoleType \/ CtrlC \/ UNCHANGED vars
  <2>1. UNCHANGED <<prioQueue, normQueue, frames>>
    BY <1>1 DEF ConsoleType, ConsoleRead, CtrlC, vars, queues, mainVars, runnerVars
  <2> QED
    BY <2>1, ServiceUnseen DEF ActiveOf, ServiceStep
<1>2. CASE ConsoleGo
  <2>1. UNCHANGED frames
    BY <1>2 DEF ConsoleGo, mainVars, runnerVars
  <2>2. CASE ConsolePush
    <3>1. ccmd \in Commands /\ Push(ccmd)
      BY <2>2, KindAssumption, CommandAssumption DEF ConsolePush, StackInv, ConsoleHolds
    <3> QED
      BY <2>1, <3>1, ServiceSubmits DEF ServiceStep
  <2>3. CASE ~ConsolePush
    <3>1. UNCHANGED <<prioQueue, normQueue>>
      BY <1>2, <2>3
      DEF ConsoleGo, ConsoleStep, ConsoleStart, ConsoleAnnounce, ConsoleWaitStart,
          ConsoleStarted, ConsoleReady, ConsoleCheck, ConsoleLock, ConsoleWait,
          ConsoleReleased, ConsoleLeave, ConsoleExit, queues
    <3> QED
      BY <2>1, <3>1, ServiceUnseen DEF ActiveOf, ServiceStep
  <2> QED
    BY <2>2, <2>3
<1>3. CASE \E t \in Clients : ClientStore(t) \/ ClientGo(t)
  <2>1. PICK t \in Clients : ClientStore(t) \/ ClientGo(t)
    BY <1>3
  <2>2. UNCHANGED frames
    BY <2>1 DEF ClientStore, ClientCall, ClientGo, ClientLock, ClientPush,
                ClientParseFails, mainVars, runnerVars
  <2>3. CASE ClientPush(t)
    <3>1. tcmd[t] \in Commands /\ Push(tcmd[t])
      BY <2>3, KindAssumption DEF ClientPush, StackInv, ClientsHold
    <3> QED
      BY <2>2, <3>1, ServiceSubmits DEF ServiceStep
  <2>4. CASE ~ClientPush(t)
    <3>1. UNCHANGED <<prioQueue, normQueue>>
      BY <2>1, <2>4
      DEF ClientStore, ClientCall, ClientGo, ClientLock, ClientParseFails, queues
    <3> QED
      BY <2>2, <3>1, ServiceUnseen DEF ActiveOf, ServiceStep
  <2> QED
    BY <2>3, <2>4
<1> QED
  BY <1>1, <1>2, <1>3, ServiceMain DEF Next, ServiceStep

LEMMA ServiceInit == Init => Service!Init
PROOF
<1> SUFFICES ASSUME Init PROVE Service!Init
  OBVIOUS
<1>1. prioQueue = StartPrio /\ normQueue = StartNorm /\ frames = <<>>
  BY DEF Init, StoreInit, MainInit
<1>2. Active = <<>>
  <2>1. frames \in Seq(Frame)
    BY <1>1, EmptySeq
  <2> QED
    BY <1>1, <2>1, ActiveIsSeq DEF Active, ActiveOf
<1> QED
  BY <1>1, <1>2 DEF Service!Init

\* Without a recursion error in a pause, the engine implements the command
\* service: the commands stored by any thread are started once each, first
\* in first out by priority, over nothing, a pause or a command that lets
\* itself be interrupted, and only the innermost command ends.
THEOREM ImplementsServiceCorrect ==
  Spec /\ []NoRecursionInPause => ImplementsService
PROOF
<1>1. StackInv /\ RunnerInv /\ [Next]_vars => [Service!Next]_Service!vars
  BY ServiceNext
<1>2. Spec => []StackInv
  BY StackCorrect
<1> QED
  BY <1>1, <1>2, ServiceInit, RunnerCorrect, PTL
  DEF Spec, ImplementsService, Service!Spec

-----------------------------------------------------------------------------
(* The console is not forgotten.  A console command that ends releases the *)
(* prompt, unless launch leaves that to the command it interrupted: then   *)
(* that one is a console command too, and still on the stack.  The first   *)
(* command has none below it; it releases the prompt because it started,   *)
(* and ends, at pause level 0.                                             *)

ConsoleIn(q) == \E i \in 1 .. Len(q) : Origin[q[i]] = "CONSOLE"
ConsoleOn(fs) ==
  \E i \in 1 .. Len(fs) : IsLaunch(fs[i]) /\ Origin[fs[i].cmd] = "CONSOLE"
Releaser == ConsoleIn(prioQueue) \/ ConsoleIn(normQueue) \/ ConsoleOn(frames)

BottomLevel(fs) == fs # <<>> => fs[1].lvl = 0

ReleaseInv ==
  /\ BottomLevel(frames)
  /\ cpc = "waiting" /\ ~consoleDone => Releaser

LEMMA ReleaserMeaning ==
  Releaser <=> \E c \in Queued \cup Running : Origin[c] = "CONSOLE"
PROOF
<1>1. ASSUME NEW q PROVE ConsoleIn(q) <=> \E c \in ToSet(q) : Origin[c] = "CONSOLE"
  BY DEF ConsoleIn, ToSet
<1>2. ConsoleOn(frames) <=> \E c \in Running : Origin[c] = "CONSOLE"
  BY DEF ConsoleOn, Running
<1> QED
  BY <1>1, <1>2 DEF Releaser, Queued

LEMMA ConsoleInAppend ==
  ASSUME NEW S, NEW q \in Seq(S), NEW e \in S, ConsoleIn(q)
  PROVE  ConsoleIn(Append(q, e))
PROOF
<1>1. PICK i \in 1 .. Len(q) : Origin[q[i]] = "CONSOLE"
  BY DEF ConsoleIn
<1>2. i \in 1 .. Len(Append(q, e)) /\ Append(q, e)[i] = q[i]
  BY AppendProperties, LenProperties
<1> QED
  BY <1>1, <1>2 DEF ConsoleIn

LEMMA ConsoleInTail ==
  ASSUME NEW S, NEW q \in Seq(S), q # <<>>, ConsoleIn(q)
  PROVE  Origin[Head(q)] = "CONSOLE" \/ ConsoleIn(Tail(q))
PROOF
<1>1. PICK i \in 1 .. Len(q) : Origin[q[i]] = "CONSOLE"
  BY DEF ConsoleIn
<1>2. Len(q) \in Nat \ {0} /\ Head(q) = q[1]
  BY EmptySeq
<1>3. CASE i = 1
  BY <1>1, <1>2, <1>3
<1>4. CASE i # 1
  <2>1. Len(Tail(q)) = Len(q) - 1 /\ \A j \in 1 .. Len(q) - 1 : Tail(q)[j] = q[j + 1]
    BY HeadTailProperties
  <2>2. i - 1 \in 1 .. Len(q) - 1 /\ i - 1 + 1 = i
    BY <1>2, <1>4
  <2>3. Tail(q)[i - 1] = q[i]
    BY <2>1, <2>2
  <2> QED
    BY <1>1, <2>1, <2>2, <2>3 DEF ConsoleIn
<1> QED
  BY <1>3, <1>4

LEMMA ConsoleOnPushed ==
  ASSUME NEW fs \in Seq(Frame), NEW f \in Frame
  PROVE  /\ ConsoleOn(fs) => ConsoleOn(Append(fs, f))
         /\ IsLaunch(f) /\ Origin[f.cmd] = "CONSOLE" => ConsoleOn(Append(fs, f))
PROOF
<1> DEFINE gs == Append(fs, f)
<1>1. /\ Len(fs) \in Nat
      /\ Len(gs) = Len(fs) + 1
      /\ gs[Len(fs) + 1] = f
      /\ \A i \in 1 .. Len(fs) : gs[i] = fs[i]
  BY AppendProperties, LenProperties
<1> HIDE DEF gs
<1>2. ASSUME ConsoleOn(fs) PROVE ConsoleOn(gs)
  <2>1. PICK i \in 1 .. Len(fs) : IsLaunch(fs[i]) /\ Origin[fs[i].cmd] = "CONSOLE"
    BY <1>2 DEF ConsoleOn
  <2>2. i \in 1 .. Len(gs) /\ gs[i] = fs[i]
    BY <1>1
  <2> QED
    BY <2>1, <2>2 DEF ConsoleOn
<1>3. ASSUME IsLaunch(f), Origin[f.cmd] = "CONSOLE" PROVE ConsoleOn(gs)
  <2>1. Len(fs) + 1 \in 1 .. Len(gs)
    BY <1>1
  <2> QED
    BY <1>1, <1>3, <2>1 DEF ConsoleOn
<1> QED
  BY <1>2, <1>3 DEF gs

LEMMA ConsoleOnPopped ==
  ASSUME NEW fs \in Seq(Frame), fs # <<>>, ConsoleOn(fs)
  PROVE  \/ ConsoleOn(Front(fs))
         \/ IsLaunch(Last(fs)) /\ Origin[Last(fs).cmd] = "CONSOLE"
PROOF
<1>1. /\ Len(fs) \in Nat \ {0} /\ Last(fs) = fs[Len(fs)]
      /\ Len(Front(fs)) = Len(fs) - 1
      /\ \A i \in 1 .. Len(fs) - 1 : Front(fs)[i] = fs[i]
  BY LastFront
<1>2. PICK i \in 1 .. Len(fs) : IsLaunch(fs[i]) /\ Origin[fs[i].cmd] = "CONSOLE"
  BY DEF ConsoleOn
<1>3. CASE i = Len(fs)
  BY <1>1, <1>2, <1>3
<1>4. CASE i # Len(fs)
  <2>1. i \in 1 .. Len(Front(fs)) /\ Front(fs)[i] = fs[i]
    BY <1>1, <1>4
  <2> QED
    BY <1>2, <2>1 DEF ConsoleOn
<1> QED
  BY <1>3, <1>4

LEMMA BottomKept ==
  ASSUME NEW fs \in Seq(Frame), BottomLevel(fs), NEW f \in Frame,
         fs = <<>> => f.lvl = 0
  PROVE  BottomLevel(Append(fs, f)) /\ (fs # <<>> => BottomLevel(Front(fs)))
PROOF
<1>1. /\ Len(fs) \in Nat
      /\ Append(fs, f)[Len(fs) + 1] = f
      /\ \A i \in 1 .. Len(fs) : Append(fs, f)[i] = fs[i]
      /\ fs = <<>> <=> Len(fs) = 0
  BY AppendProperties, LenProperties, EmptySeq
<1>2. BottomLevel(Append(fs, f))
  <2>1. CASE fs = <<>>
    <3>1. Append(fs, f)[1] = f
      BY <1>1, <2>1
    <3> QED
      BY <2>1, <3>1 DEF BottomLevel
  <2>2. CASE fs # <<>>
    <3>1. Append(fs, f)[1] = fs[1]
      BY <1>1, <2>2
    <3> QED
      BY <2>2, <3>1 DEF BottomLevel
  <2> QED
    BY <2>1, <2>2
<1>3. ASSUME fs # <<>>, Front(fs) # <<>> PROVE Front(fs)[1].lvl = 0
  <2>1. /\ Front(fs) \in Seq(Frame) /\ Len(Front(fs)) = Len(fs) - 1
        /\ \A i \in 1 .. Len(fs) - 1 : Front(fs)[i] = fs[i]
    BY <1>3, LastFront
  <2>2. Len(Front(fs)) # 0
    BY <1>3, <2>1, EmptySeq
  <2>3. Front(fs)[1] = fs[1]
    BY <1>1, <2>1, <2>2
  <2> QED
    BY <1>3, <2>3 DEF BottomLevel
<1> QED
  BY <1>2, <1>3 DEF BottomLevel

\* A frame whose next statement changes is still the same command, at the
\* same pause level.
LEMMA ReleaserAdvanced ==
  ASSUME NEW fs \in Seq(Frame), fs # <<>>, IsLaunch(Last(fs)), BottomLevel(fs),
         NEW ip \in Nat \ {0}
  PROVE  LET gs == Append(Front(fs), [Last(fs) EXCEPT !.ip = ip]) IN
         BottomLevel(gs) /\ (ConsoleOn(fs) => ConsoleOn(gs))
PROOF
<1> DEFINE f == [Last(fs) EXCEPT !.ip = ip]
<1>1. /\ Last(fs) \in Frame /\ Front(fs) \in Seq(Frame)
      /\ Len(fs) \in Nat \ {0} /\ Last(fs) = fs[Len(fs)]
      /\ Len(Front(fs)) = Len(fs) - 1
  BY LastFront
<1>2. f \in Frame /\ IsLaunch(f) /\ f.cmd = Last(fs).cmd /\ f.lvl = Last(fs).lvl
  BY <1>1 DEF Frame, IsLaunch
<1> HIDE DEF f
<1>3. ConsoleOn(fs) => ConsoleOn(Append(Front(fs), f))
  <2>1. SUFFICES ASSUME ConsoleOn(fs) PROVE ConsoleOn(Append(Front(fs), f))
    OBVIOUS
  <2>2. CASE ConsoleOn(Front(fs))
    <3>1. Front(fs) \in Seq(Frame) /\ f \in Frame
      BY <1>1, <1>2
    <3> QED
      BY <2>2, <3>1, ConsoleOnPushed
  <2>3. CASE IsLaunch(f) /\ Origin[f.cmd] = "CONSOLE"
    BY <1>1, <1>2, <2>3, ConsoleOnPushed
  <2>4. \/ ConsoleOn(Front(fs))
        \/ IsLaunch(Last(fs)) /\ Origin[Last(fs).cmd] = "CONSOLE"
    BY <2>1, ConsoleOnPopped
  <2> QED
    BY <1>2, <2>2, <2>3, <2>4
<1>4. BottomLevel(Append(Front(fs), f))
  <2>1. BottomLevel(Front(fs))
    BY <1>1, BottomKept
  <2>2. ASSUME Front(fs) = <<>> PROVE f.lvl = 0
    <3>1. Len(Front(fs)) = 0
      BY <2>2
    <3>2. Len(fs) = 1
      BY <1>1, <3>1
    <3>3. Last(fs) = fs[1]
      BY <1>1, <3>2, Zenon
    <3> QED
      BY <1>2, <3>3 DEF BottomLevel
  <2> QED
    BY <1>1, <1>2, <2>1, <2>2, BottomKept
<1> QED
  BY <1>3, <1>4 DEF f

\* Steps that leave the stack alone, or push a pause on it.
LEMMA ReleaseKept ==
  ASSUME StackInv, BottomLevel(frames),
         \/ StartPending \/ PeekQueues \/ AssignStored \/ WaitStored
         \/ GetCommand \/ NoBreak \/ Interrupt \/ ExecError \/ ExecExit
         \/ ExecAbort \/ RecursionError \/ MainLoop
         \/ \E p \in PauseCmds : StorePause(p)
  PROVE  BottomLevel(frames') /\ (Releaser => Releaser')
PROOF
<1>1. UNCHANGED frames
  BY DEF StartPending, PeekQueues, AssignStored, WaitStored, GetCommand,
         NoBreak, Interrupt, ExecError, ExecExit, ExecAbort, RecursionError,
         MainLoop, StorePause, runnerVars
<1>2. CASE UNCHANGED <<prioQueue, normQueue>>
  BY <1>1, <1>2 DEF Releaser
<1>3. CASE \E p \in PauseCmds : StorePause(p)
  <2>1. PICK p \in PauseCmds : Push(p)
    BY <1>3 DEF StorePause
  <2>2. p \in Prioritary /\ prioQueue \in Seq(Prioritary)
    BY KindAssumption DEF StackInv, TypeOK, StoreTypeOK
  <2>3. prioQueue' = Append(prioQueue, p) /\ UNCHANGED normQueue
    BY <2>1, <2>2 DEF Push
  <2>4. ConsoleIn(prioQueue) => ConsoleIn(prioQueue')
    BY <2>2, <2>3, ConsoleInAppend
  <2> QED
    BY <1>1, <2>3, <2>4 DEF Releaser
<1> QED
  BY <1>1, <1>2, <1>3
  DEF StartPending, PeekQueues, AssignStored, WaitStored, GetCommand,
      NoBreak, Interrupt, ExecError, ExecExit, ExecAbort, RecursionError,
      MainLoop, queues

LEMMA ReleaseAdvanced ==
  ASSUME StackInv, BottomLevel(frames),
         ExecStep \/ ExecResume \/ ExecRecursion \/ RecursionCaught \/ ExecPause
  PROVE  BottomLevel(frames') /\ (Releaser => Releaser')
PROOF
<1>1. frames \in Seq(Frame) /\ UNCHANGED <<prioQueue, normQueue>> /\ pauseLevel \in Nat
  BY DEF StackInv, WellFormed, TypeOK, MainTypeOK, ExecStep, ExecResume, ExecRecursion,
     RecursionCaught, ExecPause, queues
<1>2. frames # <<>> /\ IsLaunch(Last(frames))
  BY DEF ExecStep, ExecResume, ExecRecursion, RecursionCaught, ExecPause, QuitPause,
     Statement, Top, StackInv, TopMatches, InCommand, Throwing
<1>3. Last(frames).ip \in Nat \ {0}
  <2>1. Last(frames) \in Frame
    BY <1>1, <1>2, LastFront
  <2> QED
    BY <1>2, <2>1 DEF Frame, IsLaunch
<1>4. ASSUME NEW gs, BottomLevel(gs), ConsoleOn(frames) => ConsoleOn(gs), frames' = gs
      PROVE  BottomLevel(frames') /\ (Releaser => Releaser')
  BY <1>1, <1>4 DEF Releaser
<1>5. CASE ExecStep \/ ExecResume \/ ExecRecursion
  <2>1. frames' = Append(Front(frames), [Last(frames) EXCEPT !.ip = Last(frames).ip + 1])
    BY <1>5 DEF ExecStep, ExecResume, ExecRecursion, Advance, Top
  <2>2. Last(frames).ip + 1 \in Nat \ {0}
    BY <1>3
  <2> QED
    BY <1>1, <1>2, <1>4, <2>1, <2>2, ReleaserAdvanced
<1>6. CASE RecursionCaught
  <2>1. PICK ip \in Top.ip .. Len(Program[Top.cmd]) + 1 :
          frames' = Append(Front(frames), [Top EXCEPT !.ip = ip])
    BY <1>6 DEF RecursionCaught
  <2>2. ip \in Nat \ {0}
    BY <1>3, <2>1 DEF Top
  <2> QED
    BY <1>1, <1>2, <1>4, <2>1, <2>2, ReleaserAdvanced DEF Top
<1>7. CASE ExecPause
  <2> DEFINE g == [Last(frames) EXCEPT !.ip = Last(frames).ip + 1]
             f == PauseFrame(pauseLevel + 1)
             hs == Append(Front(frames), g)
  <2>1. frames' = Append(hs, f)
    BY <1>7 DEF ExecPause, Advance, Top
  <2>2. BottomLevel(hs) /\ (ConsoleOn(frames) => ConsoleOn(hs))
    BY <1>1, <1>2, <1>3, ReleaserAdvanced
  <2>3. f \in Frame
    BY <1>1 DEF PauseFrame, Frame
  <2>4. hs \in Seq(Frame) /\ hs # <<>>
    <3>1. Last(frames) \in Frame /\ Front(frames) \in Seq(Frame)
      BY <1>1, <1>2, LastFront
    <3>2. g \in Frame
      BY <1>2, <1>3, <3>1 DEF Frame, IsLaunch
    <3> QED
      BY <3>1, <3>2, AppendProperties
  <2> HIDE DEF f, hs
  <2>5. BottomLevel(Append(hs, f)) /\ (ConsoleOn(hs) => ConsoleOn(Append(hs, f)))
    BY <2>2, <2>3, <2>4, BottomKept, ConsoleOnPushed
  <2> QED
    BY <1>4, <2>1, <2>2, <2>5
<1> QED
  BY <1>5, <1>6, <1>7

\* A console command that is taken from the queue is on the stack.
LEMMA ReleaseStarted ==
  ASSUME StackInv, PauseInv, BottomLevel(frames), StartCommand
  PROVE  BottomLevel(frames') /\ (Releaser => Releaser')
PROOF
<1>1. /\ frames \in Seq(Frame) /\ StoreTypeOK /\ PopCommand
      /\ prioQueue \in Seq(Prioritary) /\ normQueue \in Seq(Normal)
      /\ curRunner \in Commands \cup {NoCmd} /\ pauseLevel \in Nat
  BY DEF StackInv, WellFormed, StartCommand, TypeOK, MainTypeOK, StoreTypeOK
<1>2. /\ prioQueue # <<>> =>
           /\ NextCommand = Head(prioQueue)
           /\ prioQueue' = Tail(prioQueue) /\ UNCHANGED normQueue
      /\ prioQueue = <<>> /\ normQueue # <<>> =>
           /\ NextCommand = Head(normQueue)
           /\ normQueue' = Tail(normQueue) /\ UNCHANGED prioQueue
      /\ prioQueue = <<>> /\ normQueue = <<>> => UNCHANGED <<prioQueue, normQueue>>
  BY <1>1 DEF PopCommand, NextCommand
<1>3. ~ConsoleIn(<<>>)
  BY DEF ConsoleIn
<1>4. \/ ConsoleIn(prioQueue) \/ ConsoleIn(normQueue)
      => \/ ConsoleIn(prioQueue') \/ ConsoleIn(normQueue')
         \/ (prioQueue # <<>> \/ normQueue # <<>>) /\ Origin[NextCommand] = "CONSOLE"
  <2>1. CASE prioQueue # <<>>
    <3>1. ConsoleIn(prioQueue) => Origin[Head(prioQueue)] = "CONSOLE" \/ ConsoleIn(Tail(prioQueue))
      BY <1>1, <2>1, ConsoleInTail
    <3> QED
      BY <1>2, <2>1, <3>1
  <2>2. CASE prioQueue = <<>> /\ normQueue # <<>>
    <3>1. ConsoleIn(normQueue) => Origin[Head(normQueue)] = "CONSOLE" \/ ConsoleIn(Tail(normQueue))
      BY <1>1, <2>2, ConsoleInTail
    <3> QED
      BY <1>2, <1>3, <2>2, <3>1
  <2>3. CASE prioQueue = <<>> /\ normQueue = <<>>
    BY <1>3, <2>3
  <2> QED
    BY <2>1, <2>2, <2>3
<1>5. (prioQueue # <<>> \/ normQueue # <<>>) => NextCommand # NoCmd
  <2>1. prioQueue # <<>> => Head(prioQueue) \in Prioritary
    BY <1>1, HeadTailProperties
  <2>2. normQueue # <<>> => Head(normQueue) \in Normal
    BY <1>1, HeadTailProperties
  <2>3. NoCmd \notin Prioritary /\ NoCmd \notin Normal
    BY CommandAssumption DEF Normal
  <2> QED
    BY <1>2, <2>1, <2>2, <2>3
<1>6. CASE NextCommand = NoCmd
  <2>1. UNCHANGED frames
    BY <1>6 DEF StartCommand
  <2> QED
    BY <1>4, <1>5, <1>6, <2>1 DEF Releaser
<1>7. CASE NextCommand # NoCmd
  <2> DEFINE f == LaunchFrame(NextCommand, curRunner, pauseLevel)
  <2>1. NextCommand \in Commands
    BY <1>1, <1>7, PopTypes
  <2>2. /\ f \in Frame /\ IsLaunch(f) /\ f.cmd = NextCommand
        /\ f.lvl = pauseLevel /\ frames' = Append(frames, f)
    BY <1>1, <1>7, <2>1 DEF StartCommand, LaunchFrame, Frame, IsLaunch
  <2> HIDE DEF f
  <2>3. ASSUME frames = <<>> PROVE f.lvl = 0
    <3>1. Within(frames, 0, pauseLevel)
      BY <2>3 DEF PauseInv
    <3> QED
      BY <2>2, <3>1 DEF Within
  <2>4. BottomLevel(frames')
    BY <1>1, <2>2, <2>3, BottomKept
  <2>5. ConsoleOn(frames) => ConsoleOn(frames')
    BY <1>1, <2>2, ConsoleOnPushed
  <2>6. Origin[NextCommand] = "CONSOLE" => ConsoleOn(frames')
    BY <1>1, <2>2, ConsoleOnPushed
  <2> QED
    BY <1>4, <2>4, <2>5, <2>6 DEF Releaser
<1> QED
  BY <1>6, <1>7

\* A console command that ends releases the prompt, or leaves a console
\* command below it.
LEMMA ReleaseEnded ==
  ASSUME StackInv, RunnerInv, PauseInv, BottomLevel(frames), Finish \/ AbortLaunch
  PROVE  /\ BottomLevel(frames')
         /\ Releaser => Releaser' \/ consoleDone' = TRUE
PROOF
<1> DEFINE n == Len(frames)
<1>1. /\ frames \in Seq(Frame) /\ frames # <<>> /\ IsLaunch(Last(frames))
      /\ frames' = Front(frames)
      /\ UNCHANGED <<prioQueue, normQueue>>
  BY DEF StackInv, WellFormed, TopMatches, InCommand, Throwing, Top, Finish, AbortLaunch,
     queues
<1>2. /\ n \in Nat \ {0} /\ Last(frames) = frames[n] /\ Last(frames) \in Frame
      /\ Front(frames) \in Seq(Frame) /\ Len(Front(frames)) = n - 1
      /\ \A i \in 1 .. n - 1 : Front(frames)[i] = frames[i]
  BY <1>1, LastFront
<1>3. BottomLevel(frames')
  BY <1>1, <1>2, BottomKept
<1>4. SUFFICES ASSUME Releaser, ~Releaser' PROVE consoleDone' = TRUE
  BY <1>3
<1>5. Origin[Last(frames).cmd] = "CONSOLE" /\ ~ConsoleOn(Front(frames))
  <2>1. ConsoleOn(frames) /\ ~ConsoleOn(Front(frames))
    BY <1>1, <1>4 DEF Releaser
  <2> QED
    BY <1>1, <2>1, ConsoleOnPopped
<1>6. curRunner = Last(frames).cmd
  BY <1>1, <1>2 DEF RunnerInv, Owner
<1>7. ReleasesPrompt(Top)
  <2>1. SUFFICES ASSUME Top.lvl # pauseLevel,
                        Top.save = NoCmd \/ Origin[Top.save] = "CONSOLE"
                 PROVE  FALSE
    BY DEF ReleasesPrompt
  <2>2. Top = frames[n] /\ IsLaunch(frames[n])
    BY <1>1, <1>2 DEF Top
  <2>3. Top.save = Owner(frames, n - 1)
    <3>1. n \in DOMAIN frames
      BY <1>1, <1>2, LenProperties
    <3> QED
      BY <2>2, <3>1 DEF RunnerInv, Linked, Saved
  <2>4. CASE n = 1
    <3>1. ~IsPause(frames[1])
      BY <2>2, <2>4 DEF IsLaunch, IsPause
    <3>2. Within(frames, 1, pauseLevel)
      BY <2>4 DEF PauseInv
    <3>3. pauseLevel = 0
      <4>1. \A k \in 1 .. 1 : k = 1
        OBVIOUS
      <4> QED
        BY <3>1, <3>2, <4>1 DEF Within
    <3>4. Top.lvl = 0
      BY <1>1, <2>2, <2>4 DEF BottomLevel
    <3> QED
      BY <2>1, <3>3, <3>4
  <2>5. CASE n > 1
    <3>1. PICK j \in 1 .. n - 1 :
            IsLaunch(frames[j]) /\ Owner(frames, n - 1) = frames[j].cmd
      <4>1. n - 1 \in 1 .. n - 1 /\ n - 1 # 0
        BY <1>2, <2>5
      <4>2. CASE IsLaunch(frames[n - 1])
        BY <4>1, <4>2 DEF Owner
      <4>3. CASE ~IsLaunch(frames[n - 1])
        <5>1. n - 1 \in 1 .. Len(frames) /\ DOMAIN frames = 1 .. Len(frames)
          BY <1>1, <1>2, <2>5, LenProperties
        <5>2. frames[n - 1] \in Frame
          BY <1>1, <5>1, ElementOfSeq
        <5>3. IsPause(frames[n - 1])
          BY <4>3, <5>2, FrameKinds
        <5>4. n - 1 > 1 /\ IsLaunch(frames[n - 1 - 1])
          BY <5>1, <5>3 DEF StackInv, WellFormed
        <5>5. n - 1 - 1 \in 1 .. n - 1
          BY <1>2, <5>4
        <5>6. Owner(frames, n - 1) = frames[n - 1 - 1].cmd
          BY <4>1, <4>3 DEF Owner
        <5> QED
          BY <5>4, <5>5, <5>6
      <4> QED
        BY <4>2, <4>3
    <3>2. j \in 1 .. Len(frames) /\ frames[j] \in Frame
      BY <1>1, <1>2, ElementOfSeq
    <3>3. frames[j].cmd \in Commands
      BY <3>1, <3>2 DEF Frame, IsLaunch
    <3>4. Origin[frames[j].cmd] = "CONSOLE"
      BY <2>1, <2>3, <3>1, <3>3, CommandAssumption
    <3>5. ConsoleOn(Front(frames))
      BY <1>2, <3>1, <3>4 DEF ConsoleOn
    <3> QED
      BY <1>5, <3>5
  <2> QED
    BY <1>2, <2>4, <2>5
<1>8. SendExecDone
  BY <1>7 DEF Finish, AbortLaunch
<1> QED
  BY <1>5, <1>6, <1>8 DEF SendExecDone, SendConsoleExecDoneSignal

LEMMA ReleaseUnpaused ==
  ASSUME StackInv, BottomLevel(frames), PauseLoop \/ ThrowThroughPause
  PROVE  BottomLevel(frames') /\ (Releaser => Releaser')
PROOF
<1>1. /\ frames \in Seq(Frame) /\ frames # <<>> /\ IsPause(Last(frames))
      /\ UNCHANGED <<prioQueue, normQueue>>
      /\ frames' = frames \/ frames' = Front(frames)
  BY DEF StackInv, WellFormed, TopMatches, Throwing, Top, PauseLoop, ThrowThroughPause, queues
<1>2. CASE frames' = frames
  BY <1>1, <1>2 DEF Releaser
<1>3. CASE frames' = Front(frames)
  <2>1. Last(frames) \in Frame /\ ~IsLaunch(Last(frames))
    BY <1>1, LastFront, FrameKinds
  <2>2. BottomLevel(frames')
    BY <1>1, <1>3, <2>1, BottomKept
  <2>3. ConsoleOn(frames) => ConsoleOn(frames')
    BY <1>1, <1>3, <2>1, ConsoleOnPopped
  <2> QED
    BY <1>1, <2>2, <2>3 DEF Releaser
<1> QED
  BY <1>1, <1>2, <1>3

LEMMA ReleaseMain ==
  ASSUME StackInv, RunnerInv, PauseInv, NoRecursionInPause, BottomLevel(frames), MainStep
  PROVE  /\ BottomLevel(frames')
         /\ Releaser => Releaser' \/ consoleDone' = TRUE
PROOF
<1>1. ~RecursionInPause
  BY DEF RecursionInPause, NoRecursionInPause, StackInv, TypeOK, MainTypeOK
<1>2. CASE \/ StartPending \/ PeekQueues \/ AssignStored \/ WaitStored
           \/ GetCommand \/ NoBreak \/ Interrupt \/ ExecError \/ ExecExit
           \/ ExecAbort \/ RecursionError \/ MainLoop
           \/ \E p \in PauseCmds : StorePause(p)
  BY <1>2, ReleaseKept
<1>3. CASE ExecStep \/ ExecResume \/ ExecRecursion \/ RecursionCaught \/ ExecPause
  BY <1>3, ReleaseAdvanced
<1>4. CASE Finish \/ AbortLaunch
  BY <1>4, ReleaseEnded
<1>5. CASE PauseLoop \/ ThrowThroughPause
  BY <1>5, ReleaseUnpaused
<1> QED
  BY <1>1, <1>2, <1>3, <1>4, <1>5, ReleaseStarted DEF MainStep, MainNext

LEMMA ReleaseNext ==
  ASSUME StackInv, RunnerInv, PauseInv, ConsoleCommandHeld, NoRecursionInPause,
         ReleaseInv, [Next]_vars
  PROVE  ReleaseInv'
PROOF
<1>1. BottomLevel(frames)
  BY DEF ReleaseInv
<1>2. CASE MainStep
  <2>1. BottomLevel(frames') /\ (Releaser => Releaser' \/ consoleDone' = TRUE)
    BY <1>1, <1>2, ReleaseMain
  <2>2. UNCHANGED cpc
    BY <1>2 DEF MainStep, consoleVars
  <2>3. consoleDone' = consoleDone \/ consoleDone' = TRUE
    BY <1>2 DEF MainStep, MainNext, StartPending, PeekQueues, AssignStored, WaitStored,
       GetCommand, StartCommand, NoBreak, Interrupt, StorePause, ExecStep, ExecError,
       ExecPause, ExecResume, ExecExit, ExecAbort, ExecRecursion, PauseLoop, Finish,
       AbortLaunch, ThrowThroughPause, RecursionInPause, RecursionError,
       RecursionCaught, MainLoop, SendExecDone, SendConsoleExecDoneSignal, signals
  <2> QED
    BY <2>1, <2>2, <2>3 DEF ReleaseInv
<1>3. ASSUME UNCHANGED <<frames, normQueue, prioQueue>>
      PROVE  BottomLevel(frames') /\ (Releaser => Releaser')
  BY <1>1, <1>3 DEF Releaser
<1>4. ASSUME NEW c \in Commands, Push(c), UNCHANGED frames
      PROVE  BottomLevel(frames') /\ (Releaser => Releaser')
  <2>1. prioQueue \in Seq(Prioritary) /\ normQueue \in Seq(Normal)
    BY DEF StackInv, TypeOK, StoreTypeOK
  <2>2. CASE c \in Prioritary
    <3>1. prioQueue' = Append(prioQueue, c) /\ UNCHANGED normQueue
      BY <1>4, <2>2 DEF Push
    <3>2. ConsoleIn(prioQueue) => ConsoleIn(prioQueue')
      BY <2>1, <2>2, <3>1, ConsoleInAppend
    <3> QED
      BY <1>1, <1>4, <3>1, <3>2 DEF Releaser
  <2>3. CASE c \notin Prioritary
    <3>1. normQueue' = Append(normQueue, c) /\ UNCHANGED prioQueue
      BY <1>4, <2>3 DEF Push
    <3>2. c \in Normal
      BY <2>3 DEF Normal
    <3>3. ConsoleIn(normQueue) => ConsoleIn(normQueue')
      BY <2>1, <3>1, <3>2, ConsoleInAppend
    <3> QED
      BY <1>1, <1>4, <3>1, <3>3 DEF Releaser
  <2> QED
    BY <2>2, <2>3
<1>5. CASE ConsoleGo
  <2>1. UNCHANGED frames
    BY <1>5 DEF ConsoleGo, mainVars, runnerVars
  <2>2. CASE ConsoleWait
    <3>1. UNCHANGED <<prioQueue, normQueue>> /\ cpc = "wait"
      BY <2>2 DEF ConsoleWait, queues
    <3>2. ccmd \in ToSet(prioQueue) /\ Origin[ccmd] = "CONSOLE"
      BY <3>1, KindAssumption DEF ConsoleCommandHeld, StackInv, ConsoleHolds
    <3>3. ConsoleIn(prioQueue)
      <4>1. PICK i \in DOMAIN prioQueue : ccmd = prioQueue[i]
        BY <3>2 DEF ToSet
      <4>2. i \in 1 .. Len(prioQueue)
        BY <4>1, LenProperties DEF StackInv, TypeOK, StoreTypeOK
      <4> QED
        BY <3>2, <4>1, <4>2 DEF ConsoleIn
    <3>4. Releaser'
      BY <3>1, <3>3 DEF Releaser
    <3> QED
      BY <1>1, <2>1, <3>4 DEF ReleaseInv
  <2>3. CASE ConsolePush
    <3>1. cpc' # "waiting"
      BY <2>3 DEF ConsolePush
    <3> QED
      BY <1>1, <2>1, <3>1 DEF ReleaseInv
  <2>4. CASE ~ConsoleWait /\ ~ConsolePush
    <3>1. cpc' # "waiting"
      BY <1>5, <2>4
      DEF ConsoleGo, ConsoleStep, ConsoleStart, ConsoleAnnounce, ConsoleWaitStart,
          ConsoleStarted, ConsoleReady, ConsoleCheck, ConsoleLock,
          ConsoleReleased, ConsoleLeave, ConsoleExit
    <3> QED
      BY <1>1, <2>1, <3>1 DEF ReleaseInv
  <2> QED
    BY <2>2, <2>3, <2>4
<1>6. CASE ConsoleType
  <2>1. UNCHANGED frames /\ cpc' = "check"
    BY <1>6 DEF ConsoleType, ConsoleRead, mainVars, runnerVars
  <2> QED
    BY <1>1, <2>1 DEF ReleaseInv
<1>7. CASE \E t \in Clients : ClientStore(t) \/ ClientGo(t)
  <2>1. PICK t \in Clients : ClientStore(t) \/ ClientGo(t)
    BY <1>7
  <2>2. UNCHANGED frames /\ UNCHANGED cpc /\ UNCHANGED consoleDone
    BY <2>1 DEF ClientStore, ClientCall, ClientGo, ClientLock, ClientPush,
                ClientParseFails, mainVars, runnerVars, consoleVars, signals
  <2>3. CASE ClientPush(t)
    <3>1. tcmd[t] \in Commands /\ Push(tcmd[t])
      BY <2>3, KindAssumption DEF ClientPush, StackInv, ClientsHold
    <3>2. BottomLevel(frames') /\ (Releaser => Releaser')
      BY <1>4, <2>2, <3>1
    <3> QED
      BY <2>2, <3>2 DEF ReleaseInv
  <2>4. CASE ~ClientPush(t)
    <3>1. UNCHANGED <<prioQueue, normQueue>>
      BY <2>1, <2>4
      DEF ClientStore, ClientCall, ClientGo, ClientLock, ClientParseFails, queues
    <3>2. BottomLevel(frames') /\ (Releaser => Releaser')
      BY <1>3, <2>2, <3>1
    <3> QED
      BY <2>2, <3>2 DEF ReleaseInv
  <2> QED
    BY <2>3, <2>4
<1>8. CASE CtrlC \/ UNCHANGED vars
  <2>1. UNCHANGED <<frames, normQueue, prioQueue, cpc, consoleDone>>
    BY <1>8 DEF CtrlC, vars, mainVars, runnerVars, consoleVars, signals, queues
  <2>2. BottomLevel(frames') /\ (Releaser => Releaser')
    BY <1>3, <2>1
  <2> QED
    BY <2>1, <2>2 DEF ReleaseInv
<1> QED
  BY <1>2, <1>5, <1>6, <1>7, <1>8 DEF Next

\* With nothing queued at startup and no recursion error in a pause, a
\* console that waits and has not been signalled is not forgotten: a console
\* command is queued or running, and whichever way it ends, the one that ends
\* last releases the prompt.
THEOREM ConsoleNotForgottenCorrect ==
  ASSUME QuietStart
  PROVE  Spec /\ []NoRecursionInPause => []ConsoleNotForgotten
PROOF
<1>1. Init => ReleaseInv
  BY DEF Init, MainInit, ConsoleInit, ReleaseInv, BottomLevel
<1>2. /\ StackInv /\ RunnerInv /\ PauseInv /\ ConsoleCommandHeld /\ NoRecursionInPause
      /\ ReleaseInv /\ [Next]_vars
      => ReleaseInv'
  BY ReleaseNext
<1>3. ReleaseInv => ConsoleNotForgotten
  BY ReleaserMeaning DEF ReleaseInv, ConsoleNotForgotten
<1>4. Spec => []ConsoleCommandHeld
  BY ConsoleCommandHeldCorrect
<1>5. Spec => []StackInv
  BY StackCorrect
<1>6. Spec => []PauseInv
  <2>1. StackInv /\ PauseInv /\ [Next]_vars => PauseInv'
    BY PauseNext
  <2> QED
    BY <1>5, <2>1, PauseInit, PTL DEF Spec
<1> QED
  BY <1>1, <1>2, <1>3, <1>4, <1>5, <1>6, RunnerCorrect, PTL DEF Spec

-----------------------------------------------------------------------------
(* The prompt.  It is one right to type, which goes round: the console has *)
(* it, or a command typed at the console is queued, or the innermost such  *)
(* command runs.  A pause gives it back and its end takes it away again.   *)

\* The sessions in which that holds: nobody aborts, presses Ctrl-C or nests
\* too deep; only what is typed at the console pauses, resumes and leaves
\* Scilab; what the clients store is not interruptible; and -f or -e left one
\* command.
Orderly ==
  /\ PauseCmds = {}
  /\ ClientCmds \cap Interruptible = {}
  /\ \A c \in ConsoleCmds : \A i \in DOMAIN Program[c] :
       Program[c][i] \subseteq {"step", "error", "pause", "resume", "quit", "exit"}
  /\ \A c \in ClientCmds : \A i \in DOMAIN Program[c] :
       Program[c][i] \subseteq {"step", "error"}
  /\ Len(StartPrio) <= 1
  /\ \A i \in 1 .. Len(StartPrio) : StartPrio[i] \in ConsoleCmds
  /\ \A i \in 1 .. Len(StartNorm) : StartNorm[i] \in ClientCmds

Stored == ConsoleCmds \cup ClientCmds

\* The queues: what is in q, and whether a console command is, or two are.
Holds(q, S) == \A i \in 1 .. Len(q) : q[i] \in S
Due(q) == \E i \in 1 .. Len(q) : q[i] \in ConsoleCmds
Single(q) ==
  \A i, j \in 1 .. Len(q) :
    q[i] \in ConsoleCmds /\ q[j] \in ConsoleCmds => i = j

\* What f can be when it is frame i of fs: a console command begins in the
\* main loop or in a pause loop at its level, a pause belongs to a console
\* command, and a command is interrupted before one of its statements.
InRange(f) == f.ip <= Len(Program[f.cmd])
Typed(f) == IsLaunch(f) /\ f.cmd \in ConsoleCmds
Fits(fs, i, f) ==
  /\ IsLaunch(f) => f.cmd \in Stored
  /\ Typed(f) /\ i > 1 => IsPause(fs[i - 1]) /\ f.lvl = fs[i - 1].lvl
  /\ IsPause(f) => i > 1 /\ Typed(fs[i - 1])
  /\ IsLaunch(f) /\ i > 1 /\ IsLaunch(fs[i - 1]) => InRange(fs[i - 1])

Shaped(fs) == \A i \in 1 .. Len(fs) : Fits(fs, i, fs[i])

\* PromptDiscipline: each console command is inside a pause that goes on.
Covered(fs, n) ==
  \A i \in 1 .. Len(fs) : Typed(fs[i]) =>
    \E j \in i + 1 .. Len(fs) : IsPause(fs[j]) /\ fs[j].lvl <= n

\* The console has the right to type, or has been told so.
Open ==
  \/ cpc \in {"ready", "prompt", "check", "lock", "push"}
  \/ cpc \in {"waiting", "startwaiting"} /\ consoleDone

QueueInv ==
  Holds(prioQueue, Stored) /\ Holds(normQueue, ClientCmds) /\ Single(prioQueue)

AtPoint ==
  /\ Interrupting /\ frames # <<>> /\ IsPause(Top) => Top.lvl = pauseLevel
  /\ \/ mpc \in {"break", "interrupt", "exec"}
     \/ Interrupting /\ frames # <<>> /\ IsLaunch(Top)
     => InRange(Top)

Right ==
  /\ Open => ~Due(prioQueue)
  /\ mpc # "abort" /\ (Open \/ Due(prioQueue)) => Covered(frames, pauseLevel)

\* Only exit, or quit with no pause, leaves all commands, and then nothing
\* more is typed.
Ending ==
  /\ mpc # "recursion"
  /\ mpc = "abort" => forceQuit
  /\ forceQuit => cpc \notin {"check", "lock", "push"} /\ ~Due(prioQueue)

NotBegun == cpc \in {"start", "announce"} => mpc = "start" /\ ~startPending

PromptInv == Shaped(frames) /\ QueueInv /\ AtPoint /\ Right /\ NotBegun /\ Ending

-----------------------------------------------------------------------------
LEMMA QueuePushed ==
  ASSUME NEW S, NEW q \in Seq(S), NEW e \in S, NEW T, Holds(q, T), e \in T
  PROVE  /\ Holds(Append(q, e), T)
         /\ e \notin ConsoleCmds =>
              /\ Due(Append(q, e)) => Due(q)
              /\ Single(q) => Single(Append(q, e))
         /\ ~Due(q) => Single(Append(q, e))
PROOF
<1> DEFINE r == Append(q, e)
<1>1. /\ Len(q) \in Nat /\ Len(r) = Len(q) + 1 /\ r[Len(q) + 1] = e
      /\ \A i \in 1 .. Len(q) : r[i] = q[i]
  BY AppendProperties, LenProperties
<1> HIDE DEF r
<1>2. \A i \in 1 .. Len(r) :
        \/ i = Len(q) + 1 /\ r[i] = e
        \/ i \in 1 .. Len(q) /\ r[i] = q[i]
  BY <1>1
<1>3. Holds(r, T)
  BY <1>2 DEF Holds
<1>4. ASSUME e \notin ConsoleCmds PROVE Due(r) => Due(q)
  BY <1>2, <1>4 DEF Due
<1>5. ASSUME e \notin ConsoleCmds, Single(q) PROVE Single(r)
  BY <1>2, <1>5 DEF Single
<1>6. ASSUME ~Due(q) PROVE Single(r)
  BY <1>2, <1>6 DEF Single, Due
<1> QED
  BY <1>3, <1>4, <1>5, <1>6 DEF r

LEMMA QueuePopped ==
  ASSUME NEW S, NEW q \in Seq(S), q # <<>>, NEW T, Holds(q, T)
  PROVE  /\ Head(q) \in T /\ Holds(Tail(q), T)
         /\ Due(Tail(q)) => Due(q)
         /\ Single(q) => Single(Tail(q))
         /\ Single(q) /\ Head(q) \in ConsoleCmds => Due(q) /\ ~Due(Tail(q))
PROOF
<1> DEFINE r == Tail(q)
<1>1. /\ Len(q) \in Nat \ {0} /\ Len(r) = Len(q) - 1 /\ Head(q) = q[1]
      /\ \A i \in 1 .. Len(q) - 1 : r[i] = q[i + 1]
  BY HeadTailProperties, EmptySeq
<1> HIDE DEF r
<1>2. \A i \in 1 .. Len(r) : i + 1 \in 1 .. Len(q) /\ i + 1 # 1 /\ r[i] = q[i + 1]
  BY <1>1
<1>3. 1 \in 1 .. Len(q)
  BY <1>1
<1>4. Head(q) \in T /\ Holds(r, T)
  BY <1>1, <1>2, <1>3 DEF Holds
<1>5. Due(r) => Due(q)
  BY <1>2 DEF Due
<1>6. ASSUME Single(q) PROVE Single(r)
  <2> SUFFICES ASSUME NEW i \in 1 .. Len(r), NEW j \in 1 .. Len(r),
                      r[i] \in ConsoleCmds, r[j] \in ConsoleCmds
               PROVE  i = j
    BY DEF Single
  <2>1. i + 1 = j + 1
    BY <1>2, <1>6 DEF Single
  <2> QED
    BY <2>1
<1>7. ASSUME Single(q), Head(q) \in ConsoleCmds PROVE Due(q) /\ ~Due(r)
  BY <1>1, <1>2, <1>3, <1>7 DEF Single, Due
<1> QED
  BY <1>4, <1>5, <1>6, <1>7 DEF r

LEMMA ShapePushed ==
  ASSUME NEW fs \in Seq(Frame), NEW f \in Frame, Shaped(fs),
         Fits(fs, Len(fs) + 1, f)
  PROVE  Shaped(Append(fs, f))
PROOF
<1> DEFINE gs == Append(fs, f)
<1>1. /\ Len(fs) \in Nat /\ Len(gs) = Len(fs) + 1 /\ gs[Len(fs) + 1] = f
      /\ \A i \in 1 .. Len(fs) : gs[i] = fs[i]
  BY AppendProperties, LenProperties
<1> HIDE DEF gs
<1>2. ASSUME NEW i \in 1 .. Len(gs) PROVE Fits(gs, i, gs[i])
  <2>1. i > 1 => gs[i - 1] = fs[i - 1]
    BY <1>1
  <2>2. Fits(fs, i, gs[i])
    <3>1. CASE i = Len(fs) + 1
      BY <1>1, <3>1
    <3>2. CASE i \in 1 .. Len(fs)
      BY <1>1, <3>2 DEF Shaped
    <3> QED
      BY <1>1, <3>1, <3>2
  <2> QED
    BY <2>1, <2>2 DEF Fits
<1> QED
  BY <1>2 DEF Shaped, gs

LEMMA ShapePopped ==
  ASSUME NEW fs \in Seq(Frame), fs # <<>>, Shaped(fs)
  PROVE  /\ Shaped(Front(fs))
         /\ Fits(fs, Len(fs), Last(fs))
         /\ Fits(Front(fs), Len(fs), Last(fs))
         /\ Len(fs) > 1 => Front(fs) # <<>> /\ Last(Front(fs)) = fs[Len(fs) - 1]
PROOF
<1> DEFINE gs == Front(fs)
<1>1. /\ Len(fs) \in Nat \ {0} /\ Len(gs) = Len(fs) - 1 /\ Last(fs) = fs[Len(fs)]
      /\ gs \in Seq(Frame)
      /\ \A i \in 1 .. Len(fs) - 1 : gs[i] = fs[i]
  BY LastFront
<1> HIDE DEF gs
<1>2. Shaped(gs)
  <2> SUFFICES ASSUME NEW i \in 1 .. Len(gs) PROVE Fits(gs, i, gs[i])
    BY DEF Shaped
  <2>1. i \in 1 .. Len(fs) /\ gs[i] = fs[i] /\ (i > 1 => gs[i - 1] = fs[i - 1])
    BY <1>1
  <2>2. Fits(fs, i, fs[i])
    BY <2>1 DEF Shaped
  <2> QED
    BY <2>1, <2>2 DEF Fits
<1>3. Fits(fs, Len(fs), Last(fs))
  BY <1>1 DEF Shaped
<1>4. Fits(gs, Len(fs), Last(fs))
  <2>1. Len(fs) > 1 => gs[Len(fs) - 1] = fs[Len(fs) - 1]
    BY <1>1
  <2> QED
    BY <1>3, <2>1 DEF Fits
<1>5. ASSUME Len(fs) > 1 PROVE gs # <<>> /\ Last(gs) = fs[Len(fs) - 1]
  <2>1. gs # <<>>
    BY <1>1, <1>5, EmptySeq
  <2>2. Last(gs) = gs[Len(gs)]
    BY <1>1, <2>1, LastFront
  <2> QED
    BY <1>1, <1>5, <2>1, <2>2
<1> QED
  BY <1>2, <1>3, <1>4, <1>5 DEF gs

LEMMA CoverPushed ==
  ASSUME NEW fs \in Seq(Frame), NEW f \in Frame, NEW n, Covered(fs, n), ~Typed(f)
  PROVE  Covered(Append(fs, f), n)
PROOF
<1> DEFINE gs == Append(fs, f)
<1>1. /\ Len(fs) \in Nat /\ Len(gs) = Len(fs) + 1 /\ gs[Len(fs) + 1] = f
      /\ \A i \in 1 .. Len(fs) : gs[i] = fs[i]
  BY AppendProperties, LenProperties
<1> HIDE DEF gs
<1> SUFFICES ASSUME NEW i \in 1 .. Len(gs), Typed(gs[i])
             PROVE  \E j \in i + 1 .. Len(gs) : IsPause(gs[j]) /\ gs[j].lvl <= n
  BY DEF Covered, gs
<1>2. i \in 1 .. Len(fs) /\ gs[i] = fs[i]
  BY <1>1
<1>3. PICK j \in i + 1 .. Len(fs) : IsPause(fs[j]) /\ fs[j].lvl <= n
  BY <1>2 DEF Covered
<1>4. j \in i + 1 .. Len(gs) /\ gs[j] = fs[j]
  BY <1>1, <1>2, <1>3
<1> QED
  BY <1>3, <1>4

LEMMA CoverPopped ==
  ASSUME NEW fs \in Seq(Frame), fs # <<>>, NEW n, Covered(fs, n),
         IsPause(Last(fs)) => ~(Last(fs).lvl <= n)
  PROVE  Covered(Front(fs), n)
PROOF
<1> DEFINE gs == Front(fs)
<1>1. /\ Len(fs) \in Nat \ {0} /\ Len(gs) = Len(fs) - 1 /\ Last(fs) = fs[Len(fs)]
      /\ \A i \in 1 .. Len(fs) - 1 : gs[i] = fs[i]
  BY LastFront
<1> HIDE DEF gs
<1> SUFFICES ASSUME NEW i \in 1 .. Len(gs), Typed(gs[i])
             PROVE  \E j \in i + 1 .. Len(gs) : IsPause(gs[j]) /\ gs[j].lvl <= n
  BY DEF Covered, gs
<1>2. i \in 1 .. Len(fs) /\ gs[i] = fs[i]
  BY <1>1
<1>3. PICK j \in i + 1 .. Len(fs) : IsPause(fs[j]) /\ fs[j].lvl <= n
  BY <1>2 DEF Covered
<1>4. j # Len(fs)
  BY <1>1, <1>3
<1>5. j \in i + 1 .. Len(gs) /\ gs[j] = fs[j]
  BY <1>1, <1>2, <1>3, <1>4
<1> QED
  BY <1>3, <1>5

\* A pause that goes on covers what is below it, and nothing covers a
\* console command that runs.
LEMMA CoverTop ==
  ASSUME NEW fs \in Seq(Frame), fs # <<>>, NEW n
  PROVE  /\ IsPause(Last(fs)) /\ Last(fs).lvl <= n => Covered(fs, n)
         /\ Typed(Last(fs)) => ~Covered(fs, n)
PROOF
<1>1. /\ Len(fs) \in Nat \ {0} /\ Last(fs) = fs[Len(fs)] /\ Last(fs) \in Frame
  BY LastFront
<1>2. IsPause(Last(fs)) => ~Typed(Last(fs))
  BY <1>1, FrameKinds DEF Typed
<1>3. ASSUME IsPause(Last(fs)), Last(fs).lvl <= n PROVE Covered(fs, n)
  <2> SUFFICES ASSUME NEW i \in 1 .. Len(fs), Typed(fs[i])
               PROVE  \E j \in i + 1 .. Len(fs) : IsPause(fs[j]) /\ fs[j].lvl <= n
    BY DEF Covered
  <2>1. i # Len(fs)
    BY <1>1, <1>2, <1>3
  <2>2. Len(fs) \in i + 1 .. Len(fs)
    BY <1>1, <2>1
  <2> QED
    BY <1>1, <1>3, <2>2
<1>4. ASSUME Typed(Last(fs)), Covered(fs, n) PROVE FALSE
  <2>1. Len(fs) \in 1 .. Len(fs) /\ Typed(fs[Len(fs)])
    BY <1>1, <1>4
  <2>2. PICK j \in Len(fs) + 1 .. Len(fs) : IsPause(fs[j])
    BY <1>4, <2>1 DEF Covered
  <2> QED
    BY <1>1, <2>2
<1> QED
  BY <1>3, <1>4

-----------------------------------------------------------------------------
LEMMA PromptKinds ==
  /\ Stored \subseteq Commands
  /\ \A c \in ConsoleCmds : Origin[c] = "CONSOLE" /\ c \in Prioritary
  /\ \A c \in ClientCmds : Origin[c] # "CONSOLE" /\ c \notin ConsoleCmds
PROOF
  BY KindAssumption, CommandAssumption DEF Stored

\* What the statements of a session do.
LEMMA PromptStatement ==
  ASSUME Orderly, StackInv, PromptInv, NEW instr, Statement(instr)
  PROVE  /\ instr \in {"step", "error", "pause", "resume", "quit", "exit"}
         /\ instr \in {"pause", "resume", "quit", "exit"} => Typed(Top)
PROOF
<1>1. /\ frames # <<>> /\ IsLaunch(Top) /\ frames \in Seq(Frame)
      /\ Top = Last(frames) /\ Top \in Frame
  BY LastFront DEF Statement, StackInv, TopMatches, InCommand, WellFormed, Top
<1>2. Top.cmd \in Stored
  <2>1. Fits(frames, Len(frames), Last(frames))
    BY <1>1, ShapePopped DEF PromptInv
  <2> QED
    BY <1>1, <2>1 DEF Fits
<1>3. Top.ip \in DOMAIN Program[Top.cmd]
  <2>1. Top.ip <= Len(Program[Top.cmd])
    BY DEF Statement, PromptInv, AtPoint, InRange
  <2>2. Top.ip \in Nat \ {0}
    BY <1>1 DEF Frame, IsLaunch
  <2>3. Top.cmd \in Commands
    BY <1>2, PromptKinds
  <2>4. Program[Top.cmd] \in Seq(SUBSET Instructions)
    BY <2>3, CommandAssumption
  <2>5. /\ DOMAIN Program[Top.cmd] = 1 .. Len(Program[Top.cmd])
        /\ Len(Program[Top.cmd]) \in Nat
    BY <2>4, LenProperties
  <2> QED
    BY <2>1, <2>2, <2>5
<1>4. CASE Top.cmd \in ConsoleCmds
  <2>1. Program[Top.cmd][Top.ip]
          \subseteq {"step", "error", "pause", "resume", "quit", "exit"}
    BY <1>3, <1>4 DEF Orderly
  <2> QED
    BY <1>1, <1>4, <2>1 DEF Statement, Typed
<1>5. CASE Top.cmd \in ClientCmds
  <2>1. Program[Top.cmd][Top.ip] \subseteq {"step", "error"}
    BY <1>3, <1>5 DEF Orderly
  <2> QED
    BY <2>1 DEF Statement
<1> QED
  BY <1>2, <1>4, <1>5 DEF Stored

\* What a session does not do.
LEMMA PromptCalm ==
  ASSUME Orderly, StackInv, PromptInv
  PROVE  /\ ~ExecAbort /\ ~ExecRecursion
         /\ ~RecursionInPause /\ ~RecursionError /\ ~RecursionCaught
         /\ \A p \in PauseCmds : ~StorePause(p)
PROOF
<1>1. mpc # "recursion"
  BY DEF PromptInv, Ending
<1>2. ~RecursionInPause /\ ~RecursionError /\ ~RecursionCaught
  BY <1>1 DEF RecursionInPause, RecursionError, RecursionCaught
<1>3. \A instr : Statement(instr) => instr \notin {"abort", "recursion"}
  BY PromptStatement
<1>4. ~ExecAbort /\ ~ExecRecursion
  BY <1>3 DEF ExecAbort, ExecRecursion
<1> QED
  BY <1>2, <1>4 DEF Orderly

\* The interpreter sets the flag in exit only, and takes commands away.
LEMMA EndingKept ==
  ASSUME PromptInv, UNCHANGED <<cpc, forceQuit>>,
         Due(prioQueue') => Due(prioQueue), mpc' \notin {"abort", "recursion"}
  PROVE  Ending'
PROOF
  BY DEF PromptInv, Ending

\* Steps that leave the stack, the queues and the signal alone.
LEMMA PromptFlat ==
  ASSUME Orderly, StackInv, RunnerInv, PromptInv,
         \/ StartPending \/ PeekQueues \/ AssignStored \/ WaitStored
         \/ GetCommand \/ NoBreak \/ Interrupt \/ ExecError \/ MainLoop,
         UNCHANGED cpc
  PROVE  PromptInv'
PROOF
<1>1. /\ UNCHANGED <<frames, pauseLevel, prioQueue, normQueue, consoleDone, cpc>>
      /\ mpc # "abort" /\ mpc' \notin {"abort", "recursion"} /\ UNCHANGED forceQuit
  BY DEF StartPending, PeekQueues, AssignStored, WaitStored, GetCommand,
         NoBreak, Interrupt, ExecError, MainLoop, Statement, runnerVars, queues,
         signals, flags
<1>2. Shaped(frames') /\ QueueInv' /\ Right'
  <2>1. Shaped(frames) /\ QueueInv /\ Right
    BY DEF PromptInv
  <2>2. Shaped(frames') /\ QueueInv'
    BY <1>1, <2>1 DEF QueueInv
  <2>3. Open' = Open
    BY <1>1 DEF Open
  <2> QED
    BY <1>1, <2>1, <2>2, <2>3 DEF Right
<1>3. NotBegun'
  <2>1. cpc \in {"start", "announce"} => mpc = "start" /\ ~startPending
    BY DEF PromptInv, NotBegun
  <2> QED
    BY <1>1, <2>1
    DEF NotBegun, StartPending, PeekQueues, AssignStored, WaitStored, GetCommand,
        NoBreak, Interrupt, ExecError, MainLoop, Statement
<1>4. AtPoint'
  <2>1. AtPoint
    BY DEF PromptInv
  <2>2. /\ mpc \in {"start", "top"} => frames = <<>>
        /\ mpc \in {"break", "interrupt", "exec"} => frames # <<>> /\ IsLaunch(Top)
    BY DEF StackInv, TopMatches, Resting, InCommand
  <2>3. IsLaunch(Top) => ~IsPause(Top)
    BY DEF IsLaunch, IsPause
  <2>4. Top' = Top
    BY <1>1 DEF Top
  <2>5. CASE StartPending \/ MainLoop
    BY <1>1, <2>2, <2>5
    DEF StartPending, MainLoop, AtPoint, Interrupting
  <2>6. CASE PeekQueues \/ AssignStored \/ WaitStored \/ GetCommand
    <3>1. Interrupting /\ Interrupting' /\ mpc' \notin {"break", "interrupt", "exec"}
      BY <2>6 DEF PeekQueues, AssignStored, WaitStored, GetCommand, Interrupting
    <3> QED
      BY <1>1, <2>1, <2>4, <3>1 DEF AtPoint, InRange
  <2>7. CASE NoBreak \/ Interrupt \/ ExecError
    <3>1. mpc \in {"break", "interrupt", "exec"}
      BY <2>7 DEF NoBreak, Interrupt, ExecError, Statement
    <3>2. InRange(Top) /\ ~IsPause(Top)
      BY <2>1, <2>2, <2>3, <3>1 DEF AtPoint
    <3> QED
      BY <2>4, <3>1, <3>2 DEF AtPoint, InRange, IsPause
  <2> QED
    BY <2>5, <2>6, <2>7
<1>5. Ending'
  BY <1>1, EndingKept
<1> QED
  BY <1>2, <1>3, <1>4, <1>5 DEF PromptInv

\* The frame of the command that runs, at its next statement.
LEMMA PromptAdvanced ==
  ASSUME StackInv, PromptInv, frames # <<>>, IsLaunch(Top)
  PROVE  /\ Advance \in Seq(Frame) /\ Advance # <<>>
         /\ Shaped(Advance)
         /\ IsLaunch(Last(Advance)) /\ (Typed(Top) => Typed(Last(Advance)))
         /\ AdvancePC \in {"break", "finish"}
         /\ AdvancePC = "break" => InRange(Last(Advance))
         /\ Covered(frames, pauseLevel) => Covered(Advance, pauseLevel)
PROOF
<1> DEFINE f == [Top EXCEPT !.ip = @ + 1]
           hs == Front(frames)
<1>1. /\ frames \in Seq(Frame) /\ Top = Last(frames) /\ Top \in Frame
      /\ hs \in Seq(Frame) /\ Len(hs) = Len(frames) - 1 /\ Len(frames) \in Nat \ {0}
  BY LastFront DEF StackInv, WellFormed, Top
<1>2. /\ f \in Frame /\ IsLaunch(f) /\ ~IsPause(f)
      /\ f.cmd = Top.cmd /\ f.lvl = Top.lvl /\ f.ip = Top.ip + 1
  <2>1. Top.ip \in Nat \ {0}
    BY <1>1 DEF Frame, IsLaunch
  <2>2. ASSUME NEW ip \in Nat \ {0}
        PROVE  LET g == [Top EXCEPT !.ip = ip] IN
               /\ g \in Frame /\ IsLaunch(g)
               /\ g.cmd = Top.cmd /\ g.lvl = Top.lvl /\ g.ip = ip
    BY <1>1 DEF Frame, IsLaunch
  <2>3. Top.ip + 1 \in Nat \ {0}
    BY <2>1
  <2>4. /\ f \in Frame /\ IsLaunch(f)
        /\ f.cmd = Top.cmd /\ f.lvl = Top.lvl /\ f.ip = Top.ip + 1
    BY <2>2, <2>3
  <2> QED
    BY <2>4 DEF IsLaunch, IsPause
<1>3. Shaped(hs) /\ Fits(hs, Len(frames), Top)
  BY <1>1, ShapePopped DEF PromptInv
<1>4. Advance = Append(hs, f)
  BY DEF Advance
<1> HIDE DEF f, hs
<1>5. Advance \in Seq(Frame) /\ Advance # <<>> /\ Last(Advance) = f
  BY <1>1, <1>2, <1>4, LastOfAppend
<1>6. Shaped(Advance)
  <2>1. Len(hs) + 1 = Len(frames)
    BY <1>1
  <2>2. Fits(hs, Len(hs) + 1, f)
    BY <1>2, <1>3, <2>1 DEF Fits, Typed
  <2> QED
    BY <1>1, <1>2, <1>3, <1>4, <2>2, ShapePushed
<1>7. AdvancePC \in {"break", "finish"} /\ (AdvancePC = "break" => InRange(f))
  BY <1>2 DEF AdvancePC, AfterStatement, InRange
<1>8. ASSUME Covered(frames, pauseLevel) PROVE Covered(Advance, pauseLevel)
  <2>1. ~Typed(Top)
    BY <1>1, <1>8, CoverTop
  <2>2. ~Typed(f)
    BY <1>2, <2>1 DEF Typed
  <2>3. ~IsPause(Last(frames))
    BY <1>1 DEF IsLaunch, IsPause
  <2>4. Covered(hs, pauseLevel)
    BY <1>1, <1>8, <2>3, CoverPopped DEF hs
  <2> QED
    BY <1>1, <1>2, <1>4, <2>2, <2>4, CoverPushed
<1> QED
  BY <1>2, <1>5, <1>6, <1>7, <1>8 DEF Typed

LEMMA PromptExec ==
  ASSUME Orderly, StackInv, PromptInv, UNCHANGED cpc,
         ExecStep \/ ExecResume \/ ExecPause
  PROVE  PromptInv'
PROOF
<1>1. /\ mpc = "exec" /\ frames # <<>> /\ IsLaunch(Top)
      /\ frames \in Seq(Frame) /\ Top = Last(frames)
      /\ pauseLevel \in Nat
      /\ UNCHANGED <<prioQueue, normQueue, cpc, startPending, forceQuit>>
      /\ mpc' \notin {"abort", "recursion"}
  BY DEF ExecStep, ExecResume, ExecPause, QuitPause, Statement, StackInv, TopMatches,
     InCommand, WellFormed, Top, TypeOK, MainTypeOK, queues, signals, flags,
     AdvancePC, AfterStatement
<1>2. /\ Advance \in Seq(Frame) /\ Advance # <<>>
      /\ Shaped(Advance)
      /\ IsLaunch(Last(Advance)) /\ (Typed(Top) => Typed(Last(Advance)))
      /\ AdvancePC \in {"break", "finish"}
      /\ AdvancePC = "break" => InRange(Last(Advance))
      /\ Covered(frames, pauseLevel) => Covered(Advance, pauseLevel)
  BY <1>1, PromptAdvanced
<1>3. QueueInv' /\ NotBegun' /\ Ending'
  BY <1>1, EndingKept DEF PromptInv, QueueInv, NotBegun
<1>4. Right
  BY DEF PromptInv
<1>5. ASSUME frames' = Advance, mpc' = AdvancePC
      PROVE  Shaped(frames') /\ AtPoint'
  BY <1>2, <1>5 DEF AtPoint, Interrupting, Top
<1>6. CASE ExecStep
  <2>1. frames' = Advance /\ mpc' = AdvancePC /\ UNCHANGED <<pauseLevel, consoleDone>>
    BY <1>6 DEF ExecStep, signals
  <2>2. Open' = Open
    BY <1>1, <2>1 DEF Open
  <2>3. Right'
    BY <1>1, <1>2, <1>4, <2>1, <2>2 DEF Right
  <2> QED
    BY <1>3, <1>5, <2>1, <2>3 DEF PromptInv
<1>7. CASE ExecResume
  <2>1. Typed(Top)
    BY <1>7, PromptStatement DEF ExecResume, QuitPause
  <2>2. ~Open /\ ~Due(prioQueue)
    BY <1>1, <1>4, <2>1, CoverTop DEF Right
  <2>3. frames' = Advance /\ mpc' = AdvancePC /\ UNCHANGED consoleDone
    BY <1>7 DEF ExecResume, signals
  <2>4. Open' = Open
    BY <1>1, <2>3 DEF Open
  <2>5. Right'
    BY <1>1, <2>2, <2>4 DEF Right
  <2> QED
    BY <1>3, <1>5, <2>3, <2>5 DEF PromptInv
<1>8. CASE ExecPause
  <2> DEFINE f == PauseFrame(pauseLevel + 1)
  <2>1. Typed(Top)
    BY <1>8, PromptStatement DEF ExecPause
  <2>2. ~Due(prioQueue)
    BY <1>1, <1>4, <2>1, CoverTop DEF Right
  <2>3. /\ frames' = Append(Advance, f) /\ mpc' = "pauseloop"
        /\ pauseLevel' = pauseLevel + 1
    BY <1>8 DEF ExecPause
  <2>4. f \in Frame /\ IsPause(f) /\ ~IsLaunch(f) /\ f.lvl = pauseLevel + 1
    BY <1>1 DEF PauseFrame, Frame, IsPause, IsLaunch
  <2> HIDE DEF f
  <2>5. Len(Advance) \in Nat \ {0} /\ Last(Advance) = Advance[Len(Advance)]
    BY <1>2, LastFront
  <2>6. Fits(Advance, Len(Advance) + 1, f)
    <3>1. Len(Advance) + 1 > 1 /\ Len(Advance) + 1 - 1 = Len(Advance)
      BY <2>5
    <3>2. Typed(Advance[Len(Advance) + 1 - 1])
      BY <1>2, <2>1, <2>5, <3>1
    <3> QED
      BY <2>4, <3>1, <3>2 DEF Fits, Typed
  <2>7. Shaped(frames')
    BY <1>2, <2>3, <2>4, <2>6, ShapePushed
  <2>8. frames' \in Seq(Frame) /\ frames' # <<>> /\ Last(frames') = f
    BY <1>2, <2>3, <2>4, LastOfAppend
  <2>9. Covered(frames', pauseLevel')
    <3>1. f.lvl <= pauseLevel'
      BY <1>1, <2>3, <2>4
    <3> QED
      BY <2>4, <2>8, <3>1, CoverTop
  <2>10. AtPoint'
    BY <2>3 DEF AtPoint, Interrupting
  <2>11. Right'
    BY <1>1, <2>2, <2>9 DEF Right
  <2> QED
    BY <1>3, <2>7, <2>10, <2>11 DEF PromptInv
<1> QED
  BY <1>6, <1>7, <1>8

\* A pause loop that ends was not covering anything.
LEMMA PromptPauseLoop ==
  ASSUME StackInv, PauseInv, PromptInv, UNCHANGED cpc, PauseLoop
  PROVE  PromptInv'
PROOF
<1>1. /\ mpc = "pauseloop" /\ frames # <<>> /\ IsPause(Top)
      /\ frames \in Seq(Frame) /\ WellFormed(frames) /\ Top = Last(frames) /\ Top \in Frame
      /\ Leveled(frames) /\ Within(frames, Len(frames), pauseLevel)
      /\ pauseLevel \in Nat /\ Top.lvl \in Nat
      /\ UNCHANGED <<prioQueue, normQueue, cpc, consoleDone, startPending, pauseLevel>>
      /\ mpc' \notin {"abort", "recursion"} /\ UNCHANGED forceQuit
  <2>1. frames # <<>> /\ frames \in Seq(Frame)
    BY DEF PauseLoop, StackInv, TopMatches, WellFormed
  <2>2. Top = Last(frames) /\ Top \in Frame
    BY <2>1, LastFront DEF Top
  <2> QED
    BY <2>1, <2>2, FrameKinds DEF PauseLoop, StackInv, TopMatches,
       WellFormed, Top, TypeOK, MainTypeOK, PauseInv, queues, signals, flags,
       AfterStatement
<1>2. QueueInv' /\ NotBegun' /\ Open' = Open /\ Ending'
  BY <1>1, EndingKept DEF PromptInv, QueueInv, NotBegun, Open
<1>3. Right /\ Shaped(frames)
  BY DEF PromptInv
<1>4. CASE Top.lvl = pauseLevel
  <2>1. frames' = frames /\ mpc' = "peek"
    BY <1>4 DEF PauseLoop
  <2>2. AtPoint'
    <3>1. ~IsLaunch(Top)
      BY <1>1 DEF IsLaunch, IsPause
    <3>2. Top' = Top
      BY <2>1 DEF Top
    <3> QED
      BY <1>1, <1>4, <2>1, <3>1, <3>2 DEF AtPoint, Interrupting
  <2> QED
    BY <1>1, <1>2, <1>3, <2>1, <2>2 DEF PromptInv, Right
<1>5. CASE Top.lvl # pauseLevel
  <2>1. /\ frames' = Front(frames)
        /\ mpc' = AfterStatement(Last(frames').cmd, Last(frames').ip)
    BY <1>5 DEF PauseLoop
  <2>2. pauseLevel <= Top.lvl
    BY <1>1, LeveledPopped
  <2>3. ~(Last(frames).lvl <= pauseLevel)
    BY <1>1, <1>5, <2>2
  <2>4. Covered(frames, pauseLevel) => Covered(frames', pauseLevel)
    BY <1>1, <2>1, <2>3, CoverPopped
  <2>5. Shaped(frames')
    BY <1>1, <1>3, <2>1, ShapePopped
  <2>6. AtPoint'
    BY <2>1 DEF AtPoint, AfterStatement, InRange, Interrupting, Top
  <2> QED
    BY <1>1, <1>2, <1>3, <2>4, <2>5, <2>6 DEF PromptInv, Right
<1> QED
  BY <1>4, <1>5

\* The command that launch takes: a console command is the only one queued,
\* and begins with nothing below it or in a pause loop at its level.
LEMMA PromptStart ==
  ASSUME Orderly, StackInv, RunnerInv, PromptInv, UNCHANGED cpc, StartCommand
  PROVE  PromptInv'
PROOF
<1>1. /\ mpc = "pop" /\ frames \in Seq(Frame)
      /\ prioQueue \in Seq(Prioritary) /\ normQueue \in Seq(Normal)
      /\ pauseLevel \in Nat /\ curRunner \in Commands \cup {NoCmd}
      /\ UNCHANGED <<cpc, consoleDone, startPending, pauseLevel>>
      /\ mpc' \notin {"abort", "recursion"} /\ UNCHANGED forceQuit
      /\ PopCommand
  BY DEF StartCommand, StackInv, WellFormed, TypeOK, StoreTypeOK, MainTypeOK, signals
<1>2. /\ Shaped(frames) /\ Right /\ AtPoint /\ QueueInv /\ Open' = Open
      /\ NotBegun'
  <2>1. cpc \notin {"start", "announce"}
    BY <1>1 DEF PromptInv, NotBegun
  <2> QED
    BY <1>1, <2>1 DEF PromptInv, Open, NotBegun
<1>3. QueueInv' /\ (Due(prioQueue') => Due(prioQueue)) /\ Ending'
  <2> SUFFICES QueueInv' /\ (Due(prioQueue') => Due(prioQueue))
    BY <1>1, EndingKept
  <2>1. CASE prioQueue # <<>>
    <3>1. prioQueue' = Tail(prioQueue) /\ UNCHANGED normQueue
      BY <1>1, <2>1 DEF PopCommand
    <3> QED
      BY <1>1, <1>2, <2>1, <3>1, QueuePopped DEF QueueInv
  <2>2. CASE prioQueue = <<>> /\ normQueue # <<>>
    <3>1. normQueue' = Tail(normQueue) /\ UNCHANGED prioQueue
      BY <1>1, <2>2 DEF PopCommand
    <3> QED
      BY <1>1, <1>2, <2>2, <3>1, QueuePopped DEF QueueInv
  <2>3. CASE prioQueue = <<>> /\ normQueue = <<>>
    <3>1. UNCHANGED <<prioQueue, normQueue>>
      BY <1>1, <2>3 DEF PopCommand
    <3> QED
      BY <1>2, <3>1 DEF QueueInv
  <2> QED
    BY <2>1, <2>2, <2>3
<1>4. CASE NextCommand = NoCmd
  <2>1. frames' = frames /\ mpc' = "crash"
    BY <1>4 DEF StartCommand
  <2>2. AtPoint'
    BY <2>1 DEF AtPoint, Interrupting
  <2> QED
    BY <1>1, <1>2, <1>3, <2>1, <2>2 DEF PromptInv, Right
<1>5. CASE NextCommand # NoCmd
  <2> DEFINE c == NextCommand
             f == LaunchFrame(c, curRunner, pauseLevel)
  <2>1. /\ c \in Stored
        /\ c \in ConsoleCmds => Due(prioQueue) /\ ~Due(prioQueue')
    <3>1. CASE prioQueue # <<>>
      <4>1. c = Head(prioQueue) /\ prioQueue' = Tail(prioQueue)
        BY <1>1, <3>1 DEF PopCommand, NextCommand
      <4> QED
        BY <1>1, <1>2, <3>1, <4>1, QueuePopped DEF QueueInv
    <3>2. CASE prioQueue = <<>>
      <4>1. c = Head(normQueue) /\ normQueue # <<>>
        BY <1>5, <3>2 DEF NextCommand
      <4>2. c \in ClientCmds
        BY <1>1, <1>2, <4>1, QueuePopped DEF QueueInv
      <4> QED
        BY <4>2, PromptKinds DEF Stored
    <3> QED
      BY <3>1, <3>2
  <2>2. /\ frames' = Append(frames, f) /\ mpc' = "break"
    BY <1>5 DEF StartCommand
  <2>3. c \in Commands
    BY <2>1, PromptKinds
  <2>4. /\ f \in Frame /\ IsLaunch(f) /\ ~IsPause(f)
        /\ f.cmd = c /\ f.lvl = pauseLevel /\ f.ip = 1
    BY <1>1, <2>3 DEF LaunchFrame, Frame, IsLaunch, IsPause
  <2>5. InRange(f)
    <3>1. Len(Program[c]) > 0 /\ Program[c] \in Seq(SUBSET Instructions)
      BY <2>3, CommandAssumption
    <3>2. Len(Program[c]) \in Nat
      BY <3>1, LenProperties
    <3> QED
      BY <2>4, <3>1, <3>2 DEF InRange
  <2> HIDE DEF c, f
  <2>6. ASSUME frames # <<>>
        PROVE  /\ Top = frames[Len(frames)] /\ Top \in Frame /\ Len(frames) \in Nat \ {0}
               /\ IsLaunch(Top) => InRange(Top) /\ Top.cmd \in Interruptible
               /\ IsPause(Top) => Top.lvl = pauseLevel
    <3>1. Top = frames[Len(frames)] /\ Top \in Frame /\ Len(frames) \in Nat \ {0}
      BY <1>1, <2>6, LastFront DEF Top
    <3>2. Interrupting
      BY <1>1 DEF Interrupting
    <3> QED
      BY <1>2, <2>6, <3>1, <3>2 DEF AtPoint, RunnerInv, WillYield
  <2>7. ASSUME frames # <<>>, c \in ConsoleCmds
        PROVE  IsPause(Top)
    <3>1. Covered(frames, pauseLevel)
      BY <1>1, <1>2, <2>1, <2>7 DEF Right
    <3>2. ~Typed(Top)
      BY <1>1, <2>7, <3>1, CoverTop DEF Top
    <3>3. IsLaunch(Top) => Top.cmd \in Stored
      <4>1. Fits(frames, Len(frames), Last(frames))
        BY <1>1, <1>2, <2>7, ShapePopped
      <4> QED
        BY <4>1 DEF Fits, Top
    <3>4. IsLaunch(Top) => Top.cmd \notin ClientCmds
      BY <2>6, <2>7 DEF Orderly
    <3>5. ~IsLaunch(Top)
      BY <3>2, <3>3, <3>4 DEF Stored, Typed
    <3> QED
      BY <2>6, <2>7, <3>5, FrameKinds
  <2>8. Fits(frames, Len(frames) + 1, f)
    <3>1. CASE frames = <<>>
      <4>1. ~(Len(frames) + 1 > 1)
        BY <3>1
      <4> QED
        BY <2>1, <2>4, <4>1 DEF Fits
    <3>2. CASE frames # <<>>
      <4>1. frames[Len(frames) + 1 - 1] = Top
        BY <2>6, <3>2
      <4>2. Typed(f) => IsPause(Top) /\ f.lvl = Top.lvl
        BY <2>4, <2>6, <2>7, <3>2 DEF Typed
      <4>3. IsLaunch(Top) => InRange(Top)
        BY <2>6, <3>2
      <4> QED
        BY <2>1, <2>4, <4>1, <4>2, <4>3 DEF Fits
    <3> QED
      BY <3>1, <3>2
  <2>9. Shaped(frames')
    BY <1>1, <1>2, <2>2, <2>4, <2>8, ShapePushed
  <2>10. AtPoint'
    <3>1. Last(frames') = f
      BY <1>1, <2>2, <2>4, LastOfAppend
    <3> QED
      BY <2>2, <2>5, <3>1 DEF AtPoint, Top, Interrupting
  <2>11. Right'
    <3>1. CASE c \in ConsoleCmds
      BY <1>2, <2>1, <3>1 DEF Right
    <3>2. CASE c \notin ConsoleCmds
      <4>1. Covered(frames, pauseLevel) => Covered(frames', pauseLevel)
        BY <1>1, <2>2, <2>4, <3>2, CoverPushed DEF Typed
      <4> QED
        BY <1>1, <1>2, <1>3, <4>1 DEF Right
    <3> QED
      BY <3>1, <3>2
  <2> QED
    BY <1>2, <1>3, <2>9, <2>10, <2>11 DEF PromptInv
<1> QED
  BY <1>4, <1>5

\* The end of a command: it releases the prompt only in the main loop, or in
\* a pause loop that goes on.
LEMMA PromptFinish ==
  ASSUME Orderly, StackInv, RunnerInv, PromptInv, UNCHANGED cpc, Finish
  PROVE  PromptInv'
PROOF
<1> DEFINE n == Len(frames)
           hs == Front(frames)
<1>1. /\ mpc = "finish" /\ frames # <<>> /\ IsLaunch(Top) /\ ~IsPause(Top)
      /\ frames \in Seq(Frame) /\ Top = Last(frames)
      /\ pauseLevel \in Nat
      /\ UNCHANGED <<prioQueue, normQueue, cpc, startPending, pauseLevel, forceQuit>>
      /\ frames' = hs /\ mpc' = AfterReturn(hs)
      /\ mpc' \notin {"abort", "recursion"}
  BY DEF Finish, StackInv, TopMatches, InCommand, WellFormed, Top, TypeOK, MainTypeOK,
     queues, flags, IsLaunch, IsPause, AfterReturn
<1>2. /\ n \in Nat \ {0} /\ Top = frames[n] /\ Top \in Frame
      /\ hs \in Seq(Frame) /\ Len(hs) = n - 1
      /\ \A i \in 1 .. n - 1 : hs[i] = frames[i]
  BY <1>1, LastFront
<1>3. Right /\ Shaped(frames) /\ QueueInv' /\ NotBegun' /\ Ending'
  BY <1>1, EndingKept DEF PromptInv, QueueInv, NotBegun
<1>4. /\ Shaped(hs) /\ Fits(frames, n, Top)
      /\ n > 1 => hs # <<>> /\ Last(hs) = frames[n - 1]
  BY <1>1, <1>3, ShapePopped
<1>5. hs # <<>> => n > 1
  BY <1>2, EmptySeq
<1> HIDE DEF n, hs
<1>6. AtPoint'
  <2>1. hs # <<>> /\ IsLaunch(Last(hs)) => InRange(Last(hs))
    BY <1>1, <1>4, <1>5 DEF Fits
  <2>2. /\ mpc' \in {"top", "pauseloop", "interrupt"}
        /\ mpc' = "interrupt" => hs # <<>> /\ ~IsPause(Last(hs))
    BY <1>1 DEF AfterReturn
  <2>3. hs # <<>> => Last(hs) \in Frame
    BY <1>2, LastFront
  <2>4. mpc' = "interrupt" => InRange(Last(hs))
    BY <2>1, <2>2, <2>3, FrameKinds
  <2> QED
    BY <1>1, <2>2, <2>4 DEF AtPoint, Top, Interrupting
<1>7. Covered(frames, pauseLevel) => Covered(hs, pauseLevel)
  BY <1>1, CoverPopped DEF hs
<1>8. curRunner = Top.cmd
  BY <1>1, <1>2 DEF RunnerInv, Owner, n
<1>9. CASE ~Typed(Top)
  <2>1. Top.cmd \in ClientCmds
    BY <1>1, <1>4, <1>9 DEF Fits, Typed, Stored
  <2>2. UNCHANGED consoleDone
    BY <1>8, <2>1, PromptKinds DEF Finish, SendExecDone
  <2>3. Open' = Open
    BY <1>1, <2>2 DEF Open
  <2>4. Right'
    BY <1>1, <1>3, <1>7, <2>3 DEF Right
  <2> QED
    BY <1>1, <1>3, <1>4, <1>6, <2>4 DEF PromptInv
<1>10. CASE Typed(Top)
  <2>1. ~Open /\ ~Due(prioQueue)
    BY <1>1, <1>3, <1>10, CoverTop DEF Right
  <2>2. CASE ~ReleasesPrompt(Top)
    <3>1. UNCHANGED consoleDone
      BY <2>2 DEF Finish
    <3>2. Open' = Open
      BY <1>1, <3>1 DEF Open
    <3>3. Right'
      BY <1>1, <2>1, <3>2 DEF Right
    <3> QED
      BY <1>1, <1>3, <1>4, <1>6, <3>3 DEF PromptInv
  <2>3. CASE ReleasesPrompt(Top)
    <3>1. CASE hs = <<>>
      <4>1. Covered(hs, pauseLevel)
        BY <3>1 DEF Covered
      <4> QED
        BY <1>1, <1>3, <1>4, <1>6, <2>1, <4>1 DEF PromptInv, Right
    <3>2. CASE hs # <<>>
      <4>1. IsPause(frames[n - 1]) /\ Top.lvl = frames[n - 1].lvl
        BY <1>4, <1>5, <1>10, <3>2 DEF Fits
      <4>2. Top.save = frames[n - 2].cmd /\ Typed(frames[n - 2])
        <5>1. n - 1 \in 1 .. n /\ n - 1 # 0
          BY <1>2, <1>5, <3>2
        <5>2. Fits(frames, n - 1, frames[n - 1])
          BY <1>3, <5>1 DEF Shaped, n
        <5>3. Typed(frames[n - 1 - 1])
          BY <4>1, <5>2 DEF Fits
        <5>4. n - 1 - 1 = n - 2
          BY <1>2
        <5>5. n \in DOMAIN frames
          BY <1>1, <1>2, LenProperties DEF n
        <5>6. Top.save = Owner(frames, n - 1)
          BY <1>1, <1>2, <5>5 DEF RunnerInv, Linked, Saved
        <5>7. ~IsLaunch(frames[n - 1])
          BY <4>1 DEF IsLaunch, IsPause
        <5> QED
          BY <5>1, <5>3, <5>4, <5>6, <5>7 DEF Owner
      <4>3. Origin[Top.save] = "CONSOLE"
        BY <4>2, PromptKinds DEF Typed
      <4>4. Top.lvl = pauseLevel
        BY <2>3, <4>3 DEF ReleasesPrompt
      <4>5. Last(hs) = frames[n - 1]
        BY <1>4, <1>5, <3>2
      <4>6. Last(hs).lvl <= pauseLevel
        <5>1. Last(hs).lvl = pauseLevel
          BY <4>1, <4>4, <4>5, Zenon
        <5>2. pauseLevel <= pauseLevel
          BY <1>1
        <5> QED
          BY <5>1, <5>2
      <4>7. Covered(hs, pauseLevel)
        BY <1>2, <3>2, <4>1, <4>5, <4>6, CoverTop
      <4> QED
        BY <1>1, <1>3, <1>4, <1>6, <2>1, <4>7 DEF PromptInv, Right
    <3> QED
      BY <3>1, <3>2
  <2> QED
    BY <2>2, <2>3
<1> QED
  BY <1>9, <1>10

\* exit: the console is waiting, so nothing it has typed is queued.
LEMMA PromptExit ==
  ASSUME Orderly, StackInv, PromptInv, UNCHANGED cpc, ExecExit
  PROVE  PromptInv'
PROOF
<1>1. /\ mpc = "exec" /\ mpc' = "abort" /\ frames # <<>> /\ frames \in Seq(Frame)
      /\ Top = Last(frames)
      /\ UNCHANGED <<frames, pauseLevel, prioQueue, normQueue, consoleDone, cpc>>
      /\ startPending' = startPending
  BY DEF ExecExit, QuitScilab, Statement, StackInv, TopMatches, InCommand, WellFormed,
     Top, runnerVars, queues, signals
<1>2. Typed(Top)
  BY PromptStatement DEF ExecExit, QuitScilab
<1>3. Shaped(frames) /\ QueueInv /\ Right /\ NotBegun
  BY DEF PromptInv
<1>4. ~Open /\ ~Due(prioQueue)
  BY <1>1, <1>2, <1>3, CoverTop DEF Right
<1>5. Open' = Open
  BY <1>1 DEF Open
<1>6. Right' /\ QueueInv' /\ NotBegun' /\ Shaped(frames')
  BY <1>1, <1>3, <1>4, <1>5 DEF Right, QueueInv, NotBegun
<1>7. AtPoint'
  BY <1>1 DEF AtPoint, Interrupting
<1>8. Ending'
  <2>1. forceQuit'
    BY DEF ExecExit
  <2> QED
    BY <1>1, <1>4, <2>1 DEF Ending, Open
<1> QED
  BY <1>6, <1>7, <1>8 DEF PromptInv

\* The commands that exit leaves, up to the main loop.
LEMMA PromptAbort ==
  ASSUME StackInv, PromptInv, UNCHANGED cpc, AbortLaunch \/ ThrowThroughPause
  PROVE  PromptInv'
PROOF
<1>1. /\ mpc = "abort" /\ frames # <<>> /\ frames \in Seq(Frame)
      /\ frames' = Front(frames)
      /\ mpc' = "abort" \/ (mpc' = "top" /\ frames' = <<>>)
      /\ UNCHANGED <<prioQueue, normQueue, cpc, startPending, forceQuit>>
  BY DEF AbortLaunch, ThrowThroughPause, AfterThrow, PromptInv, Ending, StackInv,
     TopMatches, Throwing, WellFormed, queues, signals, flags
<1>2. Shaped(frames) /\ QueueInv /\ NotBegun /\ Ending
  BY DEF PromptInv
<1>3. ~Due(prioQueue) /\ forceQuit
  BY <1>1, <1>2 DEF Ending
<1>4. Shaped(frames')
  BY <1>1, <1>2, ShapePopped
<1>5. QueueInv' /\ NotBegun' /\ Ending'
  BY <1>1, <1>2, <1>3 DEF QueueInv, NotBegun, Ending
<1>6. mpc' # "abort" => Covered(frames', pauseLevel')
  BY <1>1 DEF Covered
<1>7. Right'
  BY <1>1, <1>3, <1>6 DEF Right
<1>8. AtPoint'
  BY <1>1 DEF AtPoint, Interrupting
<1> QED
  BY <1>4, <1>5, <1>7, <1>8 DEF PromptInv

LEMMA PromptMain ==
  ASSUME Orderly, StackInv, RunnerInv, PauseInv, PromptInv, MainStep
  PROVE  PromptInv'
PROOF
<1>1. UNCHANGED cpc
  BY DEF MainStep, consoleVars
<1>2. CASE \/ StartPending \/ PeekQueues \/ AssignStored \/ WaitStored
           \/ GetCommand \/ NoBreak \/ Interrupt \/ ExecError \/ MainLoop
  BY <1>1, <1>2, PromptFlat
<1>3. CASE ExecStep \/ ExecResume \/ ExecPause
  BY <1>1, <1>3, PromptExec
<1>4. CASE PauseLoop
  BY <1>1, <1>4, PromptPauseLoop
<1>5. CASE StartCommand
  BY <1>1, <1>5, PromptStart
<1>6. CASE Finish
  BY <1>1, <1>6, PromptFinish
<1>7. CASE ExecExit
  BY <1>1, <1>7, PromptExit
<1>8. CASE AbortLaunch \/ ThrowThroughPause
  BY <1>1, <1>8, PromptAbort
<1> QED
  BY <1>2, <1>3, <1>4, <1>5, <1>6, <1>7, <1>8, PromptCalm DEF MainStep, MainNext

\* What the console does with its right: it keeps it until it stores a
\* command, and has it again once it is signalled.
LEMMA PromptConsole ==
  ASSUME Orderly, StackInv, PromptInv, ConsoleGo \/ ConsoleType
  PROVE  PromptInv'
PROOF
<1>1. /\ UNCHANGED <<frames, pauseLevel, mpc>>
      /\ forceQuit' = forceQuit
  BY DEF ConsoleGo, ConsoleType, mainVars, runnerVars, ConsoleStep, ConsoleStart,
     ConsoleAnnounce, ConsoleWaitStart, ConsoleStarted, ConsoleReady, ConsoleCheck,
     ConsoleLock, ConsolePush, ConsoleWait, ConsoleReleased, ConsoleLeave, ConsoleExit,
     ConsoleRead, flags
<1>2. Shaped(frames) /\ QueueInv /\ AtPoint /\ Right /\ NotBegun /\ Ending
  BY DEF PromptInv
<1>3. Shaped(frames') /\ AtPoint'
  <2>1. Top' = Top /\ Interrupting' = Interrupting
    BY <1>1 DEF Top, Interrupting
  <2> QED
    BY <1>1, <1>2, <2>1 DEF AtPoint, InRange
<1>4. CASE ConsolePush
  <2>1. /\ cpc = "push" /\ cpc' = "wait" /\ Push(ccmd)
        /\ ccmd \in ConsoleCmds /\ ccmd \in Prioritary
        /\ prioQueue \in Seq(Prioritary)
    BY <1>4, PromptKinds
    DEF ConsolePush, StackInv, ConsoleHolds, TypeOK, StoreTypeOK
  <2>2. prioQueue' = Append(prioQueue, ccmd) /\ UNCHANGED normQueue
    BY <2>1 DEF Push
  <2>3. /\ ~Due(prioQueue) /\ ~forceQuit
        /\ mpc # "abort" => Covered(frames, pauseLevel)
    BY <1>2, <2>1 DEF Right, Open, Ending
  <2>4. QueueInv'
    BY <1>2, <2>1, <2>2, <2>3, QueuePushed DEF QueueInv, Stored
  <2>5. ~Open' /\ NotBegun'
    BY <2>1 DEF Open, NotBegun
  <2>6. Ending'
    BY <1>1, <1>2, <2>3 DEF Ending
  <2>7. Right'
    BY <1>1, <2>3, <2>5 DEF Right
  <2> QED
    BY <1>3, <2>4, <2>5, <2>6, <2>7 DEF PromptInv
<1>5. CASE ~ConsolePush
  <2>1. UNCHANGED <<prioQueue, normQueue>>
    BY <1>5 DEF ConsoleGo, ConsoleType, ConsoleStep, ConsoleStart, ConsoleAnnounce,
       ConsoleWaitStart, ConsoleStarted, ConsoleReady, ConsoleCheck, ConsoleLock,
       ConsoleWait, ConsoleReleased, ConsoleLeave, ConsoleExit, ConsoleRead, queues
  <2>2. QueueInv'
    BY <1>2, <2>1 DEF QueueInv
  <2>3. NotBegun'
    BY <1>1, <1>2, <1>5 DEF NotBegun, ConsoleGo, ConsoleType, ConsoleStep, ConsoleStart,
       ConsoleAnnounce, ConsoleWaitStart, ConsoleStarted, ConsoleReady, ConsoleCheck,
       ConsoleLock, ConsoleWait, ConsoleReleased, ConsoleLeave, ConsoleExit,
       ConsoleRead, signals
  <2>6. Ending'
    <3>1. forceQuit => cpc' \notin {"check", "lock", "push"}
      BY <1>2, <1>5 DEF Ending, ConsoleGo, ConsoleType, ConsoleStep, ConsoleStart,
         ConsoleAnnounce, ConsoleWaitStart, ConsoleStarted, ConsoleReady, ConsoleCheck,
         ConsoleLock, ConsoleWait, ConsoleReleased, ConsoleLeave, ConsoleExit,
         ConsoleRead
    <3> QED
      BY <1>1, <1>2, <2>1, <3>1 DEF Ending
  <2>4. CASE ConsoleStart
    <3>1. cpc = "start" /\ (cpc' = "ready" => IsEmptyCommandQueue)
      BY <2>4 DEF ConsoleStart
    <3>2. frames = <<>>
      BY <1>2, <3>1 DEF NotBegun, StackInv, TopMatches, Resting
    <3>3. Covered(frames, pauseLevel)
      BY <3>2 DEF Covered
    <3>4. Open' => ~Due(prioQueue)
      BY <2>4, <3>1 DEF ConsoleStart, Open, IsEmptyCommandQueue, Due
    <3> QED
      BY <1>1, <1>3, <2>1, <2>2, <2>3, <2>6, <3>3, <3>4 DEF PromptInv, Right
  <2>5. CASE ~ConsoleStart
    <3>1. Open' => Open
      BY <1>5, <2>5 DEF Open, ConsoleGo, ConsoleType, ConsoleStep,
         ConsoleAnnounce, ConsoleWaitStart, ConsoleStarted, ConsoleReady, ConsoleCheck,
         ConsoleLock, ConsoleWait, ConsoleReleased, ConsoleLeave, ConsoleExit,
         ConsoleRead, signals
    <3> QED
      BY <1>1, <1>2, <1>3, <2>1, <2>2, <2>3, <2>6, <3>1 DEF PromptInv, Right
  <2> QED
    BY <2>4, <2>5
<1> QED
  BY <1>4, <1>5

\* Clients store what cannot be mistaken for a console command.
LEMMA PromptClient ==
  ASSUME StackInv, PromptInv,
         \/ \E t \in Clients : ClientStore(t) \/ ClientGo(t)
         \/ CtrlC \/ UNCHANGED vars
  PROVE  PromptInv'
PROOF
<1>1. /\ UNCHANGED <<frames, pauseLevel, mpc, cpc, consoleDone, startPending>>
      /\ forceQuit' = forceQuit
  BY DEF ClientStore, ClientCall, ClientGo, ClientLock, ClientPush, ClientParseFails,
     CtrlC, vars, mainVars, runnerVars, consoleVars, signals, flags
<1>2. Shaped(frames) /\ QueueInv /\ AtPoint /\ Right /\ NotBegun /\ Ending
  BY DEF PromptInv
<1>3. Shaped(frames') /\ AtPoint' /\ NotBegun' /\ Open' = Open
  <2>1. Top' = Top /\ Interrupting' = Interrupting
    BY <1>1 DEF Top, Interrupting
  <2> QED
    BY <1>1, <1>2, <2>1 DEF AtPoint, InRange, NotBegun, Open
<1>4. QueueInv' /\ (Due(prioQueue') => Due(prioQueue))
  <2>1. CASE UNCHANGED <<prioQueue, normQueue>>
    BY <1>2, <2>1 DEF QueueInv
  <2>2. CASE \E t \in Clients : ClientPush(t)
    <3>1. PICK t \in Clients : ClientPush(t)
      BY <2>2
    <3>2. /\ tcmd[t] \in ClientCmds /\ tcmd[t] \in Commands /\ Push(tcmd[t])
          /\ tcmd[t] \notin ConsoleCmds /\ tcmd[t] \in Stored
      BY <3>1, PromptKinds, KindAssumption DEF ClientPush, StackInv, ClientsHold, Stored
    <3>3. prioQueue \in Seq(Prioritary) /\ normQueue \in Seq(Normal)
      BY DEF StackInv, TypeOK, StoreTypeOK
    <3>4. CASE tcmd[t] \in Prioritary
      <4>1. prioQueue' = Append(prioQueue, tcmd[t]) /\ UNCHANGED normQueue
        BY <3>2, <3>4 DEF Push
      <4> QED
        BY <1>2, <3>2, <3>3, <3>4, <4>1, QueuePushed DEF QueueInv
    <3>5. CASE tcmd[t] \notin Prioritary
      <4>1. normQueue' = Append(normQueue, tcmd[t]) /\ UNCHANGED prioQueue
        BY <3>2, <3>5 DEF Push
      <4>2. tcmd[t] \in Normal
        BY <3>2, <3>5 DEF Normal
      <4> QED
        BY <1>2, <3>2, <3>3, <4>1, <4>2, QueuePushed DEF QueueInv
    <3> QED
      BY <3>4, <3>5
  <2> QED
    BY <2>1, <2>2 DEF ClientStore, ClientCall, ClientGo, ClientLock, ClientParseFails,
       CtrlC, vars, queues
<1>5. Right'
  BY <1>1, <1>2, <1>3, <1>4 DEF Right
<1>6. Ending'
  BY <1>1, <1>2, <1>4 DEF Ending
<1> QED
  BY <1>3, <1>4, <1>5, <1>6 DEF PromptInv

LEMMA PromptInit == Orderly /\ Init => PromptInv
PROOF
<1> SUFFICES ASSUME Orderly, Init PROVE PromptInv
  OBVIOUS
<1>1. /\ frames = <<>> /\ cpc = "start" /\ mpc = "start" /\ ~startPending
      /\ prioQueue = StartPrio /\ normQueue = StartNorm
  BY DEF Init, StoreInit, MainInit, ConsoleInit
<1>2. Shaped(frames) /\ Covered(frames, pauseLevel)
  BY <1>1 DEF Shaped, Covered
<1>3. QueueInv
  <2>1. Holds(StartPrio, Stored) /\ Holds(StartNorm, ClientCmds)
    BY DEF Orderly, Holds, Stored
  <2>2. Single(StartPrio)
    <3>1. Len(StartPrio) \in Nat /\ Len(StartPrio) <= 1
      BY CommandAssumption, LenProperties DEF Orderly
    <3>2. \A i, j \in 1 .. Len(StartPrio) : i = j
      BY <3>1
    <3> QED
      BY <3>2 DEF Single
  <2> QED
    BY <1>1, <2>1, <2>2 DEF QueueInv
<1>4. AtPoint /\ NotBegun /\ ~Open
  BY <1>1 DEF AtPoint, Interrupting, NotBegun, Open
<1>5. Ending
  BY <1>1 DEF Ending, Init, StoreInit
<1> QED
  BY <1>2, <1>3, <1>4, <1>5 DEF PromptInv, Right

LEMMA PromptCorrect ==
  ASSUME Orderly
  PROVE  Spec => [](StackInv /\ PromptInv)
PROOF
<1> DEFINE I == StackInv /\ PauseInv /\ RunnerInv /\ PromptInv
<1>1. Init => I
  BY StackInit, PauseInit, RunnerInit, PromptInit
<1>2. I /\ [Next]_vars => I'
  <2> SUFFICES ASSUME I, [Next]_vars PROVE I'
    OBVIOUS
  <2>1. StackInv' /\ PauseInv'
    BY StackNext, PauseNext
  <2>2. NoRecursionInPause
    BY DEF PromptInv, Ending, NoRecursionInPause
  <2>3. RunnerInv'
    BY <2>2, RunnerNext
  <2>4. PromptInv'
    BY PromptMain, PromptConsole, PromptClient DEF Next
  <2> QED
    BY <2>1, <2>3, <2>4
<1>3. I => StackInv /\ PromptInv
  OBVIOUS
<1> QED
  BY <1>1, <1>2, <1>3, PTL DEF Spec

\* What the three properties have in common: a stack of commands that come
\* from the console, a client or the startup.
LEMMA FramesTyped ==
  ASSUME StackInv, PromptInv, NEW i \in DOMAIN frames, IsLaunch(frames[i])
  PROVE  /\ i \in 1 .. Len(frames) /\ Len(frames) \in Nat
         /\ Origin[frames[i].cmd] = "CONSOLE" <=> Typed(frames[i])
PROOF
<1>1. i \in 1 .. Len(frames) /\ Len(frames) \in Nat
  BY LenProperties DEF StackInv, WellFormed
<1>2. frames[i].cmd \in Stored
  BY <1>1 DEF PromptInv, Shaped, Fits
<1> QED
  BY <1>1, <1>2, PromptKinds DEF Stored, Typed

\* The prompt is never shown over a running console command, whatever the
\* order in which the threads store, launch, pause, resume and signal.
THEOREM PromptDisciplineCorrect ==
  ASSUME Orderly
  PROVE  Spec => []PromptDiscipline
PROOF
<1>1. StackInv /\ PromptInv => PromptDiscipline
  <2> SUFFICES ASSUME StackInv, PromptInv, AtPrompt, mpc # "abort",
                      NEW i \in DOMAIN frames, IsLaunch(frames[i]), Origin[frames[i].cmd] = "CONSOLE"
               PROVE  \E j \in i + 1 .. Len(frames) :
                        IsPause(frames[j]) /\ frames[j].lvl <= pauseLevel
    BY DEF PromptDiscipline
  <2>1. Covered(frames, pauseLevel)
    BY DEF PromptInv, Right, Open, AtPrompt
  <2> QED
    BY <2>1, FramesTyped DEF Covered
<1> QED
  BY <1>1, PromptCorrect, PTL

\* A console command interrupts another one only in a pause: the console
\* stores the next one when it has been told that the last one is over.
THEOREM ConsoleSequentialCorrect ==
  ASSUME Orderly
  PROVE  Spec => []ConsoleSequential
PROOF
<1>1. StackInv /\ PromptInv => ConsoleSequential
  <2> SUFFICES ASSUME StackInv, PromptInv,
                      NEW i \in DOMAIN frames, NEW j \in DOMAIN frames, i < j,
                      IsLaunch(frames[i]), IsLaunch(frames[j]),
                      Origin[frames[j].cmd] = "CONSOLE"
               PROVE  \E k \in i + 1 .. j - 1 : IsPause(frames[k])
    BY DEF ConsoleSequential
  <2>1. /\ i \in 1 .. Len(frames) /\ j \in 1 .. Len(frames) /\ Len(frames) \in Nat
        /\ Typed(frames[j])
    BY FramesTyped
  <2>2. IsPause(frames[j - 1])
    BY <2>1 DEF PromptInv, Shaped, Fits
  <2>3. j - 1 # i
    BY <2>2 DEF IsLaunch, IsPause
  <2>4. j - 1 \in i + 1 .. j - 1
    BY <2>1, <2>3
  <2> QED
    BY <2>2, <2>4
<1> QED
  BY <1>1, PromptCorrect, PTL

\* The first prompt is shown after the commands of -f and -e have ended, or
\* have stopped in a pause.
THEOREM StartupFileFirstCorrect ==
  ASSUME Orderly
  PROVE  Spec => []StartupFileFirst
PROOF
<1>1. StackInv /\ PromptInv => StartupFileFirst
  <2> SUFFICES ASSUME StackInv, PromptInv, cpc = "ready", NEW c \in ToSet(StartPrio)
               PROVE  /\ c \notin Queued
                      /\ c \in Running /\ mpc # "abort" =>
                           \E i \in DOMAIN frames : IsPause(frames[i])
    BY DEF StartupFileFirst
  <2>1. c \in ConsoleCmds /\ c \in Prioritary
    <3>1. PICK i \in DOMAIN StartPrio : c = StartPrio[i]
      BY DEF ToSet
    <3>2. i \in 1 .. Len(StartPrio)
      BY CommandAssumption, LenProperties
    <3> QED
      BY <3>1, <3>2, PromptKinds DEF Orderly
  <2>2. /\ ~Due(prioQueue) /\ QueueInv
        /\ mpc # "abort" => Covered(frames, pauseLevel)
    BY DEF PromptInv, Right, Open
  <2>3. c \notin ToSet(prioQueue)
    <3>1. DOMAIN prioQueue = 1 .. Len(prioQueue)
      BY LenProperties DEF StackInv, TypeOK, StoreTypeOK
    <3> QED
      BY <2>1, <2>2, <3>1 DEF ToSet, Due
  <2>4. c \notin ToSet(normQueue)
    <3>1. DOMAIN normQueue = 1 .. Len(normQueue)
      BY LenProperties DEF StackInv, TypeOK, StoreTypeOK
    <3> QED
      BY <2>1, <2>2, <3>1, PromptKinds DEF ToSet, QueueInv, Holds
  <2>5. ASSUME c \in Running, mpc # "abort"
        PROVE  \E i \in DOMAIN frames : IsPause(frames[i])
    <3>1. PICK i \in DOMAIN frames : IsLaunch(frames[i]) /\ c = frames[i].cmd
      BY <2>5 DEF Running
    <3>2. i \in 1 .. Len(frames) /\ Len(frames) \in Nat
      BY <3>1, FramesTyped
    <3>3. PICK j \in i + 1 .. Len(frames) : IsPause(frames[j])
      BY <2>1, <2>2, <2>5, <3>1, <3>2 DEF Covered, Typed
    <3>4. j \in DOMAIN frames
      BY <3>2, LenProperties DEF StackInv, WellFormed
    <3> QED
      BY <3>3, <3>4
  <2> QED
    BY <2>3, <2>4, <2>5 DEF Queued
<1> QED
  BY <1>1, PromptCorrect, PTL

=============================================================================
