--------------------------- MODULE DebuggerProofs ---------------------------
(***************************************************************************)
(* Theorems about Debugger, for any number of commands, calls and stops.   *)
(*                                                                         *)
(* Two stacks grow and shrink together: the functions being called, with a *)
(* pause for each stop, and the launches and stops of the interpreter.     *)
(* The counts alone are not inductive.  A launch that an abort or an error *)
(* leaves cuts the calls back to the depth it began at, so what is         *)
(* inductive is that the calls below that depth have as many pauses as     *)
(* there are stops below the launch.  The last part is about steps.        *)
(***************************************************************************)
EXTENDS Debugger, SequenceTheorems, FiniteSetTheorems, TLAPS

-----------------------------------------------------------------------------
(* Counting the members of a set of positions up to one of them.           *)

Upto(T, m) == Cardinality(T \cap (1 .. m))

LEMMA UptoFinite ==
  ASSUME NEW T, NEW m \in Nat
  PROVE  IsFiniteSet(T \cap (1 .. m)) /\ Upto(T, m) \in Nat
PROOF
<1>1. IsFiniteSet(1 .. m)
  BY FS_Interval
<1>2. IsFiniteSet(T \cap (1 .. m))
  BY <1>1, FS_Subset
<1> QED
  BY <1>2, FS_CardinalityType DEF Upto

LEMMA UptoZero == ASSUME NEW T PROVE Upto(T, 0) = 0
PROOF
<1>1. T \cap (1 .. 0) = {}
  OBVIOUS
<1> QED
  BY <1>1, FS_EmptySet DEF Upto

LEMMA UptoNext ==
  ASSUME NEW T, NEW m \in Nat
  PROVE  /\ m + 1 \in T => Upto(T, m + 1) = Upto(T, m) + 1
         /\ m + 1 \notin T => Upto(T, m + 1) = Upto(T, m)
PROOF
<1>1. CASE m + 1 \in T
  <2>1. T \cap (1 .. m + 1) = (T \cap (1 .. m)) \cup {m + 1}
    BY <1>1
  <2>2. m + 1 \notin T \cap (1 .. m)
    OBVIOUS
  <2> QED
    BY <1>1, <2>1, <2>2, UptoFinite, FS_AddElement DEF Upto
<1>2. CASE m + 1 \notin T
  <2>1. T \cap (1 .. m + 1) = T \cap (1 .. m)
    BY <1>2
  <2> QED
    BY <1>2, <2>1 DEF Upto
<1> QED
  BY <1>1, <1>2

LEMMA UptoMonotone ==
  ASSUME NEW T, NEW m \in Nat, NEW k \in Nat, m <= k
  PROVE  Upto(T, m) <= Upto(T, k)
PROOF
<1>1. T \cap (1 .. m) \subseteq T \cap (1 .. k)
  OBVIOUS
<1> QED
  BY <1>1, UptoFinite, FS_Subset DEF Upto

LEMMA UptoAll ==
  ASSUME NEW m \in Nat, NEW T \in SUBSET (1 .. m)
  PROVE  Upto(T, m) = Cardinality(T) /\ IsFiniteSet(T) /\ Cardinality(T) \in Nat
PROOF
<1>1. T \cap (1 .. m) = T
  OBVIOUS
<1> QED
  BY <1>1, UptoFinite DEF Upto

\* What is above a position does not count.
LEMMA UptoSame ==
  ASSUME NEW T, NEW U, NEW m \in Nat, NEW k \in Nat, k <= m,
         T \cap (1 .. m) = U \cap (1 .. m)
  PROVE  Upto(T, k) = Upto(U, k)
PROOF
<1>1. T \cap (1 .. k) = U \cap (1 .. k)
  OBVIOUS
<1> QED
  BY <1>1 DEF Upto

-----------------------------------------------------------------------------
(* The positions of a kind of call, and the calls that are left.           *)

At(w, e) == {i \in DOMAIN w : w[i] = e}

LEMMA AtAppend ==
  ASSUME NEW E, NEW w \in Seq(E), NEW x \in E
  PROVE  /\ Append(w, x) \in Seq(E)
         /\ Len(Append(w, x)) = Len(w) + 1
         /\ At(Append(w, x), x) = At(w, x) \cup {Len(w) + 1}
         /\ \A e : e # x => At(Append(w, x), e) = At(w, e)
PROOF
<1> DEFINE v == Append(w, x)
<1>1. /\ v \in Seq(E) /\ Len(v) = Len(w) + 1
      /\ v[Len(w) + 1] = x
      /\ \A i \in 1 .. Len(w) : v[i] = w[i]
  BY AppendProperties
<1>2. Len(w) \in Nat /\ DOMAIN w = 1 .. Len(w) /\ DOMAIN v = 1 .. Len(w) + 1
  BY <1>1, LenProperties
<1> HIDE DEF v
<1>3. ASSUME NEW e PROVE At(v, e) = {i \in 1 .. Len(w) + 1 : v[i] = e}
  BY <1>2 DEF At
<1>4. At(v, x) = At(w, x) \cup {Len(w) + 1}
  <2>1. ASSUME NEW i PROVE i \in At(v, x) <=> i \in At(w, x) \cup {Len(w) + 1}
    <3>1. CASE i \in 1 .. Len(w)
      BY <1>1, <1>2, <3>1 DEF At
    <3>2. CASE i \notin 1 .. Len(w)
      BY <1>1, <1>2, <3>2 DEF At
    <3> QED
      BY <3>1, <3>2
  <2> QED
    BY <2>1
<1>5. ASSUME NEW e, e # x PROVE At(v, e) = At(w, e)
  <2>1. ASSUME NEW i PROVE i \in At(v, e) <=> i \in At(w, e)
    <3>1. CASE i \in 1 .. Len(w)
      BY <1>1, <1>2, <3>1 DEF At
    <3>2. CASE i \notin 1 .. Len(w)
      BY <1>1, <1>2, <1>5, <3>2 DEF At
    <3> QED
      BY <3>1, <3>2
  <2> QED
    BY <2>1
<1> QED
  BY <1>1, <1>4, <1>5 DEF v

LEMMA AtCut ==
  ASSUME NEW E, NEW w \in Seq(E), NEW d \in 0 .. Len(w)
  PROVE  /\ SubSeq(w, 1, d) \in Seq(E)
         /\ Len(SubSeq(w, 1, d)) = d
         /\ \A i \in 1 .. d : SubSeq(w, 1, d)[i] = w[i]
         /\ \A e : At(SubSeq(w, 1, d), e) = At(w, e) \cap (1 .. d)
PROOF
<1> DEFINE v == SubSeq(w, 1, d)
<1>1. Len(w) \in Nat /\ DOMAIN w = 1 .. Len(w)
  BY LenProperties
<1>2. \A i \in 1 .. d : w[i] \in E
  BY <1>1, ElementOfSeq
<1>3. /\ v \in Seq(E)
      /\ Len(v) = IF 1 <= d THEN d - 1 + 1 ELSE 0
      /\ \A i \in 1 .. d - 1 + 1 : v[i] = w[1 + i - 1]
  BY <1>1, <1>2, SubSeqProperties
<1> HIDE DEF v
<1>4. Len(v) = d
  <2>1. v \in Seq(E) /\ Len(v) \in Nat
    BY <1>3, LenProperties
  <2>2. Len(v) = IF 1 <= d THEN d - 1 + 1 ELSE 0
    BY <1>3
  <2> HIDE <1>3
  <2> QED
    BY <1>1, <2>1, <2>2
<1>5. ASSUME NEW i \in 1 .. d PROVE v[i] = w[i]
  <2>1. i \in 1 .. d - 1 + 1 /\ 1 + i - 1 = i
    BY <1>1
  <2>2. v[i] = w[1 + i - 1]
    BY <1>3, <2>1
  <2> QED
    BY <2>1, <2>2
<1>6. DOMAIN v = 1 .. d
  BY <1>3, <1>4, LenProperties
<1>7. ASSUME NEW e PROVE At(v, e) = At(w, e) \cap (1 .. d)
  BY <1>1, <1>5, <1>6 DEF At
<1> QED
  BY <1>3, <1>4, <1>5, <1>7 DEF v

-----------------------------------------------------------------------------
(* The inductive invariant.                                                *)

Calls    == {"macro", "pause"}
Commands == {"run", "resume", "print", "abort"}
Returns  == {"yield", "exec", "end", "check", "leave", "thrown"}

LaunchFrame == [kind : {"launch"}, cmd : Commands, lvl : Nat, depth : Nat]
StopFrame   == [kind : {"stop"}, lvl : Nat, ret : Returns]
Frame       == LaunchFrame \cup StopFrame

StopAt(fs) == {i \in DOMAIN fs : IsStop(fs[i])}
Pauses(w)  == At(w, "pause")

\* How many functions and pauses were called when what is above frame i began.
Reached(fs, w, i) == IF i = Len(fs) THEN Len(w) ELSE fs[i + 1].depth

\* The pauses below the depth of a launch are those of the stops below it.
Launched(fs, w, i) ==
  /\ fs[i].depth <= Len(w)
  /\ Upto(Pauses(w), fs[i].depth) = Upto(StopAt(fs), i - 1)

\* A stop is above a launch, and its pause is still there.
Stopped(fs, w, i) ==
  /\ i > 1 /\ ~IsStop(fs[i - 1])
  /\ Reached(fs, w, i) \in Pauses(w)

Balanced(fs, w) ==
  /\ fs \in Seq(Frame) /\ w \in Seq(Calls)
  /\ Cardinality(Pauses(w)) = Cardinality(StopAt(fs))
  /\ \A i \in DOMAIN fs : ~IsStop(fs[i]) => Launched(fs, w, i)
  /\ \A i \in DOMAIN fs : IsStop(fs[i]) => Stopped(fs, w, i)
  /\ \A i, j \in DOMAIN fs :
       i < j /\ ~IsStop(fs[i]) /\ ~IsStop(fs[j]) => fs[i].depth <= fs[j].depth
  /\ fs = <<>> => w = <<>>
  /\ fs # <<>> => fs[1].depth = 0

\* A frame above another one begins at its pause level, or at the next one.
Levels(fs, p) ==
  /\ \A i \in DOMAIN fs : fs[i].lvl <= Upto(StopAt(fs), i)
  /\ \A i \in DOMAIN fs : IsStop(fs[i]) => fs[i].lvl > 0
  /\ \A i \in 2 .. Len(fs) :
       fs[i].lvl <= fs[i - 1].lvl + (IF IsStop(fs[i]) THEN 1 ELSE 0)
  /\ IF fs = <<>> THEN p = 0 ELSE p <= fs[Len(fs)].lvl

InLaunch == Returns \cup {"body", "after", "returned", "error", "silent", "done", "stop"}

\* What is on top where the interpreter is.
OnTop ==
  /\ pc \in InLaunch \cup {"main", "wait", "unwind"}
  /\ pc = "main" => frames = <<>>
  /\ pc \in InLaunch => frames # <<>> /\ ~IsStop(frames[Len(frames)])
  /\ pc = "wait" => frames # <<>> /\ IsStop(frames[Len(frames)])
  /\ pc = "done" => Len(where) = frames[Len(frames)].depth
  /\ pc = "stop" => back \in Returns
  /\ pc = "unwind" /\ frames # <<>> /\ IsStop(frames[Len(frames)])
       => PauseLevel < frames[Len(frames)].lvl

StackTypes ==
  /\ pauses \in Seq(0 .. MaxCalls)
  /\ Count("macro") <= MaxCalls
  /\ level \in Nat

StackInv ==
  /\ StackTypes
  /\ Balanced(frames, where)
  /\ Levels(frames, PauseLevel)
  /\ OnTop

Flags ==
  /\ enabled \in BOOLEAN /\ interrupted \in BOOLEAN
  /\ interrupted => Stops # {}

Inputs ==
  /\ console \in Commands \cup {"prompt", "wait", "left"}
  /\ queue \in Seq(Commands)
  /\ gui \in {"idle", "checked"}
  /\ typed \in 0 .. MaxTyped /\ called \in 0 .. MaxCallbacks
  /\ action \in Steps \cup {"Continue", "Aborted"}
  /\ asked.kind \in Steps \cup {"nothing", "abort"}
  /\ asked.since \in {"none", "catch"}

IInv == StackInv /\ Flags /\ Inputs

-----------------------------------------------------------------------------
(* Frames.                                                                 *)

LEMMA FrameKinds ==
  ASSUME NEW f \in Frame
  PROVE  /\ f.lvl \in Nat
         /\ IsStop(f) <=> f \in StopFrame
         /\ ~IsStop(f) <=> f \in LaunchFrame
         /\ ~IsStop(f) => f.depth \in Nat /\ f.cmd \in Commands
         /\ IsStop(f) => f.ret \in Returns
PROOF
  BY DEF Frame, StopFrame, LaunchFrame, IsStop

LEMMA StopAppend ==
  ASSUME NEW fs \in Seq(Frame), NEW f \in Frame
  PROVE  LET g == Append(fs, f)
         IN  /\ g \in Seq(Frame) /\ g # <<>>
             /\ Len(g) = Len(fs) + 1 /\ DOMAIN g = 1 .. Len(fs) + 1
             /\ g[Len(fs) + 1] = f
             /\ \A i \in 1 .. Len(fs) : g[i] = fs[i]
             /\ StopAt(g) = StopAt(fs) \cup (IF IsStop(f) THEN {Len(fs) + 1} ELSE {})
PROOF
<1> DEFINE g == Append(fs, f)
<1>1. /\ g \in Seq(Frame) /\ Len(g) = Len(fs) + 1
      /\ g[Len(fs) + 1] = f
      /\ \A i \in 1 .. Len(fs) : g[i] = fs[i]
  BY AppendProperties
<1>2. /\ Len(fs) \in Nat /\ DOMAIN fs = 1 .. Len(fs)
      /\ DOMAIN g = 1 .. Len(fs) + 1
  BY <1>1, LenProperties
<1> HIDE DEF g
<1>3. g # <<>>
  BY <1>1, <1>2, EmptySeq
<1>4. ASSUME NEW i
      PROVE  i \in StopAt(g)
               <=> i \in StopAt(fs) \cup (IF IsStop(f) THEN {Len(fs) + 1} ELSE {})
  <2>1. CASE i \in 1 .. Len(fs)
    BY <1>1, <1>2, <2>1 DEF StopAt
  <2>2. CASE i = Len(fs) + 1
    BY <1>1, <1>2, <2>2 DEF StopAt
  <2>3. CASE i \notin 1 .. Len(fs) + 1
    BY <1>1, <1>2, <2>3 DEF StopAt
  <2> QED
    BY <1>2, <2>1, <2>2, <2>3
<1>5. StopAt(g) = StopAt(fs) \cup (IF IsStop(f) THEN {Len(fs) + 1} ELSE {})
  BY <1>4
<1> QED
  BY <1>1, <1>2, <1>3, <1>5 DEF g

LEMMA StopFront ==
  ASSUME NEW fs \in Seq(Frame), fs # <<>>
  PROVE  LET g == Front(fs)
         IN  /\ g \in Seq(Frame)
             /\ Len(fs) \in Nat /\ Len(fs) >= 1
             /\ Len(g) = Len(fs) - 1 /\ DOMAIN g = 1 .. Len(fs) - 1
             /\ \A i \in 1 .. Len(fs) - 1 : g[i] = fs[i]
             /\ StopAt(g) = StopAt(fs) \cap (1 .. Len(fs) - 1)
PROOF
<1>1. Len(fs) \in Nat /\ Len(fs) >= 1 /\ DOMAIN fs = 1 .. Len(fs)
  BY LenProperties, EmptySeq
<1> DEFINE g == SubSeq(fs, 1, Len(fs) - 1)
<1>2. Len(fs) - 1 \in 0 .. Len(fs)
  BY <1>1
<1>3. /\ g \in Seq(Frame) /\ Len(g) = Len(fs) - 1
      /\ \A i \in 1 .. Len(fs) - 1 : g[i] = fs[i]
  BY <1>2, AtCut
<1>4. DOMAIN g = 1 .. Len(fs) - 1
  BY <1>3, LenProperties
<1> HIDE DEF g
<1>5. StopAt(g) = StopAt(fs) \cap (1 .. Len(fs) - 1)
  BY <1>1, <1>3, <1>4 DEF StopAt
<1> QED
  BY <1>1, <1>3, <1>4, <1>5 DEF g, Front

-----------------------------------------------------------------------------
(* The operations on the two stacks keep them balanced.                    *)

LEMMA BalancedShape ==
  ASSUME NEW fs, NEW w, Balanced(fs, w)
  PROVE  /\ fs \in Seq(Frame) /\ w \in Seq(Calls)
         /\ Len(fs) \in Nat /\ DOMAIN fs = 1 .. Len(fs)
         /\ Len(w) \in Nat /\ DOMAIN w = 1 .. Len(w)
         /\ \A i \in 1 .. Len(fs) : fs[i] \in Frame
         /\ StopAt(fs) \in SUBSET (1 .. Len(fs))
         /\ Pauses(w) \in SUBSET (1 .. Len(w))
         /\ Upto(Pauses(w), Len(w)) = Upto(StopAt(fs), Len(fs))
PROOF
<1>1. fs \in Seq(Frame) /\ w \in Seq(Calls)
  BY DEF Balanced
<1>2. /\ Len(fs) \in Nat /\ DOMAIN fs = 1 .. Len(fs)
      /\ Len(w) \in Nat /\ DOMAIN w = 1 .. Len(w)
  BY <1>1, LenProperties
<1>3. \A i \in 1 .. Len(fs) : fs[i] \in Frame
  BY <1>1, <1>2, ElementOfSeq
<1>4. StopAt(fs) \in SUBSET (1 .. Len(fs)) /\ Pauses(w) \in SUBSET (1 .. Len(w))
  BY <1>2 DEF StopAt, Pauses, At
<1>5. Upto(Pauses(w), Len(w)) = Upto(StopAt(fs), Len(fs))
  BY <1>2, <1>4, UptoAll DEF Balanced
<1> QED
  BY <1>1, <1>2, <1>3, <1>4, <1>5

\* A launch begins at the depth of the calls.
LEMMA PushLaunch ==
  ASSUME NEW fs, NEW w, NEW f \in LaunchFrame, Balanced(fs, w), f.depth = Len(w)
  PROVE  Balanced(Append(fs, f), w)
PROOF
<1> DEFINE g == Append(fs, f)
           n == Len(fs)
<1>1. /\ fs \in Seq(Frame) /\ w \in Seq(Calls)
      /\ n \in Nat /\ DOMAIN fs = 1 .. n /\ Len(w) \in Nat
      /\ \A i \in 1 .. n : fs[i] \in Frame
      /\ Upto(Pauses(w), Len(w)) = Upto(StopAt(fs), n)
  BY BalancedShape
<1>2. f \in Frame /\ ~IsStop(f)
  BY FrameKinds DEF Frame
<1>3. /\ g \in Seq(Frame) /\ g # <<>>
      /\ Len(g) = n + 1 /\ DOMAIN g = 1 .. n + 1
      /\ g[n + 1] = f
      /\ \A i \in 1 .. n : g[i] = fs[i]
      /\ StopAt(g) = StopAt(fs)
  BY <1>1, <1>2, StopAppend
<1>4. \A i \in 1 .. n + 1 : i = n + 1 \/ i \in 1 .. n
  BY <1>1
<1> HIDE DEF g
<1>5. ASSUME NEW i \in DOMAIN g, ~IsStop(g[i])
      PROVE  Launched(g, w, i)
  <2>1. CASE i = n + 1
    <3>1. g[i].depth = Len(w) /\ i - 1 = n
      BY <1>1, <1>3, <2>1
    <3> QED
      BY <1>1, <1>3, <3>1 DEF Launched
  <2>2. CASE i \in 1 .. n
    BY <1>1, <1>3, <1>5, <2>2 DEF Launched, Balanced
  <2> QED
    BY <1>3, <1>4, <2>1, <2>2
<1>6. ASSUME NEW i \in DOMAIN g, IsStop(g[i])
      PROVE  Stopped(g, w, i)
  <2>1. i \in 1 .. n
    BY <1>2, <1>3, <1>4, <1>6
  <2>2. Stopped(fs, w, i)
    BY <1>1, <1>3, <1>6, <2>1 DEF Balanced
  <2>3. Reached(g, w, i) = Reached(fs, w, i)
    <3>1. CASE i = n
      <4>1. Reached(g, w, i) = g[n + 1].depth
        BY <1>1, <1>3, <3>1 DEF Reached
      <4>2. Reached(fs, w, i) = Len(w)
        BY <3>1 DEF Reached
      <4> QED
        BY <1>3, <4>1, <4>2
    <3>2. CASE i # n
      <4>1. i + 1 \in 1 .. n /\ i # n + 1
        BY <1>1, <2>1, <3>2
      <4> QED
        BY <1>3, <3>2, <4>1 DEF Reached
    <3> QED
      BY <3>1, <3>2
  <2>4. i > 1 /\ i - 1 \in 1 .. n
    BY <1>1, <2>1, <2>2 DEF Stopped
  <2>5. ~IsStop(g[i - 1])
    BY <1>3, <2>2, <2>4 DEF Stopped
  <2> QED
    BY <2>2, <2>3, <2>4, <2>5 DEF Stopped
<1>7. ASSUME NEW i \in DOMAIN g, NEW j \in DOMAIN g,
             i < j, ~IsStop(g[i]), ~IsStop(g[j])
      PROVE  g[i].depth <= g[j].depth
  <2>1. i \in 1 .. n
    BY <1>1, <1>3, <1>7
  <2>2. CASE j = n + 1
    <3>1. Launched(fs, w, i)
      BY <1>1, <1>3, <1>7, <2>1 DEF Balanced
    <3> QED
      BY <1>3, <2>1, <2>2, <3>1 DEF Launched
  <2>3. CASE j \in 1 .. n
    BY <1>1, <1>3, <1>7, <2>1, <2>3 DEF Balanced
  <2> QED
    BY <1>3, <1>4, <2>2, <2>3
<1>8. g[1].depth = 0
  <2>1. CASE n = 0
    <3>1. w = <<>>
      BY <1>1, <2>1, EmptySeq DEF Balanced
    <3> QED
      BY <1>3, <2>1, <3>1
  <2>2. CASE n # 0
    <3>1. fs # <<>> /\ 1 \in 1 .. n
      BY <1>1, <2>2, EmptySeq
    <3> QED
      BY <1>3, <3>1 DEF Balanced
  <2> QED
    BY <2>1, <2>2
<1>9. Cardinality(Pauses(w)) = Cardinality(StopAt(g))
  BY <1>3 DEF Balanced
<1> QED
  BY <1>1, <1>3, <1>5, <1>6, <1>7, <1>8, <1>9 DEF Balanced, g

\* The first k frames stay, with the calls that were there when their launches
\* began, the pause of the stop on top, and a pause for each stop.
LEMMA Keep ==
  ASSUME NEW fs, NEW w, Balanced(fs, w),
         NEW k \in 0 .. Len(fs),
         NEW g \in Seq(Frame), Len(g) = k, \A i \in 1 .. k : g[i] = fs[i],
         StopAt(g) = StopAt(fs) \cap (1 .. k),
         NEW v \in Seq(Calls),
         NEW d \in 0 .. Len(v),
         Pauses(v) \cap (1 .. d) = Pauses(w) \cap (1 .. d),
         \A i \in 1 .. k : ~IsStop(fs[i]) => fs[i].depth <= d,
         Cardinality(Pauses(v)) = Upto(StopAt(fs), k),
         k > 0 /\ IsStop(fs[k]) => Len(v) \in Pauses(v),
         k = 0 => v = <<>>
  PROVE  Balanced(g, v)
PROOF
<1>1. /\ Len(fs) \in Nat /\ DOMAIN fs = 1 .. Len(fs)
      /\ \A i \in 1 .. Len(fs) : fs[i] \in Frame
      /\ Pauses(w) \in SUBSET (1 .. Len(w))
  BY BalancedShape
<1>2. k \in Nat /\ k <= Len(fs) /\ \A i \in 1 .. k : i \in 1 .. Len(fs)
  BY <1>1
<1>3. DOMAIN g = 1 .. k /\ Len(v) \in Nat
  BY LenProperties
<1>4. d \in Nat /\ d <= Len(v)
  BY <1>3
<1>5. StopAt(g) \cap (1 .. k) = StopAt(fs) \cap (1 .. k)
  OBVIOUS
<1>6. Cardinality(Pauses(v)) = Cardinality(StopAt(g))
  BY DEF Upto
<1>7. ASSUME NEW i \in DOMAIN g, ~IsStop(g[i])
      PROVE  Launched(g, v, i)
  <2>1. i \in 1 .. k /\ g[i] = fs[i] /\ i \in DOMAIN fs
    BY <1>1, <1>2, <1>3
  <2>2. Launched(fs, w, i) /\ fs[i].depth <= d /\ fs[i].depth \in Nat
    BY <1>1, <1>7, <2>1, FrameKinds DEF Balanced
  <2>3. Upto(Pauses(v), fs[i].depth) = Upto(Pauses(w), fs[i].depth)
    BY <1>4, <2>2, UptoSame
  <2>4. i - 1 \in Nat /\ i - 1 <= k
    BY <1>2, <2>1
  <2>5. Upto(StopAt(g), i - 1) = Upto(StopAt(fs), i - 1)
    BY <1>2, <1>5, <2>4, UptoSame
  <2>6. fs[i].depth <= Len(v)
    BY <1>3, <1>4, <2>2
  <2> QED
    BY <2>1, <2>2, <2>3, <2>5, <2>6 DEF Launched
<1>8. ASSUME NEW i \in DOMAIN g, IsStop(g[i])
      PROVE  Stopped(g, v, i)
  <2>1. i \in 1 .. k /\ g[i] = fs[i] /\ i \in DOMAIN fs
    BY <1>1, <1>2, <1>3
  <2>2. Stopped(fs, w, i)
    BY <1>8, <2>1 DEF Balanced
  <2>3. i > 1 /\ i - 1 \in 1 .. k /\ ~IsStop(g[i - 1])
    <3>1. i > 1 /\ i - 1 \in 1 .. k
      BY <1>2, <2>1, <2>2 DEF Stopped
    <3> QED
      BY <2>2, <3>1 DEF Stopped
  <2>4. Reached(g, v, i) \in Pauses(v)
    <3>1. CASE i = k
      <4>1. k > 0 /\ IsStop(fs[k])
        BY <1>2, <1>8, <2>1, <3>1
      <4> QED
        BY <3>1, <4>1 DEF Reached
    <3>2. CASE i # k
      <4>1. /\ i + 1 \in 1 .. k /\ i # Len(fs) /\ i + 1 - 1 = i
            /\ i + 1 \in DOMAIN fs /\ fs[i + 1] \in Frame
        BY <1>1, <1>2, <2>1, <3>2
      <4>2. ~IsStop(fs[i + 1])
        <5>1. SUFFICES ASSUME IsStop(fs[i + 1]) PROVE FALSE
          OBVIOUS
        <5>2. Stopped(fs, w, i + 1)
          BY <4>1, <5>1 DEF Balanced
        <5> QED
          BY <1>8, <2>1, <4>1, <5>2 DEF Stopped
      <4>3. fs[i + 1].depth \in Pauses(w)
        BY <2>2, <4>1 DEF Stopped, Reached
      <4>4. fs[i + 1].depth <= d /\ fs[i + 1].depth \in Nat
        BY <4>1, <4>2, FrameKinds
      <4>5. fs[i + 1].depth \in 1 .. d
        BY <1>1, <1>4, <4>3, <4>4
      <4>6. fs[i + 1].depth \in Pauses(v)
        BY <4>3, <4>5
      <4> QED
        BY <3>2, <4>1, <4>6 DEF Reached
    <3> QED
      BY <3>1, <3>2
  <2> QED
    BY <2>3, <2>4 DEF Stopped
<1>9. ASSUME NEW i \in DOMAIN g, NEW j \in DOMAIN g,
             i < j, ~IsStop(g[i]), ~IsStop(g[j])
      PROVE  g[i].depth <= g[j].depth
  <2>1. i \in 1 .. k /\ j \in 1 .. k /\ i \in DOMAIN fs /\ j \in DOMAIN fs
    BY <1>1, <1>2, <1>3
  <2>2. g[i] = fs[i] /\ g[j] = fs[j]
    BY <2>1
  <2> QED
    BY <1>9, <2>1, <2>2 DEF Balanced
<1>10. g = <<>> => v = <<>>
  BY <1>2, EmptySeq
<1>11. ASSUME g # <<>> PROVE g[1].depth = 0
  <2>1. k # 0
    BY <1>11, EmptySeq
  <2>2. 1 \in 1 .. k /\ Len(fs) # 0
    BY <1>1, <1>2, <2>1
  <2>3. fs # <<>>
    BY <2>2, EmptySeq
  <2> QED
    BY <2>2, <2>3 DEF Balanced
<1> QED
  BY <1>6, <1>7, <1>8, <1>9, <1>10, <1>11 DEF Balanced

\* A function is called by what runs in the launch on top.
LEMMA EnterMacro ==
  ASSUME NEW fs, NEW w, Balanced(fs, w), fs # <<>>, ~IsStop(fs[Len(fs)])
  PROVE  Balanced(fs, Append(w, "macro"))
PROOF
<1> DEFINE v == Append(w, "macro")
           n == Len(fs)
<1>1. /\ fs \in Seq(Frame) /\ w \in Seq(Calls)
      /\ n \in Nat /\ DOMAIN fs = 1 .. n /\ Len(w) \in Nat
      /\ StopAt(fs) \in SUBSET (1 .. n)
  BY BalancedShape
<1>2. v \in Seq(Calls) /\ Len(v) = Len(w) + 1 /\ Pauses(v) = Pauses(w)
  BY <1>1, AtAppend DEF Calls, Pauses
<1> HIDE DEF v
<1>3. n # 0 /\ n \in 0 .. n /\ Len(w) \in 0 .. Len(v)
  BY <1>1, <1>2, EmptySeq
<1>4. \A i \in 1 .. n : ~IsStop(fs[i]) => fs[i].depth <= Len(w)
  BY <1>1 DEF Balanced, Launched
<1>5. StopAt(fs) = StopAt(fs) \cap (1 .. n)
  BY <1>1
<1>6. Cardinality(Pauses(v)) = Upto(StopAt(fs), n)
  BY <1>1, <1>2, UptoAll DEF Balanced
<1>7. Balanced(fs, v)
  BY <1>1, <1>2, <1>3, <1>4, <1>5, <1>6, Keep
<1> QED
  BY <1>7 DEF v

\* Functions are left down to the depth of the launch on top, or above it.
LEMMA LeaveFunctions ==
  ASSUME NEW fs, NEW w, Balanced(fs, w), fs # <<>>, ~IsStop(fs[Len(fs)]),
         NEW d \in fs[Len(fs)].depth .. Len(w)
  PROVE  Balanced(fs, SubSeq(w, 1, d))
PROOF
<1> DEFINE v == SubSeq(w, 1, d)
           n == Len(fs)
<1>1. /\ fs \in Seq(Frame) /\ w \in Seq(Calls)
      /\ n \in Nat /\ DOMAIN fs = 1 .. n /\ Len(w) \in Nat
      /\ \A i \in 1 .. n : fs[i] \in Frame
      /\ StopAt(fs) \in SUBSET (1 .. n)
      /\ Pauses(w) \in SUBSET (1 .. Len(w))
      /\ Upto(Pauses(w), Len(w)) = Upto(StopAt(fs), n)
  BY BalancedShape
<1>2. n # 0 /\ n \in DOMAIN fs
  BY <1>1, EmptySeq
<1>3. fs[n].depth \in Nat /\ Launched(fs, w, n)
  BY <1>1, <1>2, FrameKinds DEF Balanced
<1>4. d \in Nat /\ d <= Len(w) /\ fs[n].depth <= d /\ d \in 0 .. Len(w)
  BY <1>1, <1>3
<1>5. /\ v \in Seq(Calls) /\ Len(v) = d
      /\ Pauses(v) = Pauses(w) \cap (1 .. d)
  BY <1>1, <1>4, AtCut DEF Pauses
<1> HIDE DEF v
<1>6. ASSUME NEW i \in 1 .. n, ~IsStop(fs[i]) PROVE fs[i].depth <= d
  <2>1. fs[i].depth \in Nat
    BY <1>1, <1>6, FrameKinds
  <2>2. fs[i].depth <= fs[n].depth
    <3>1. CASE i = n
      BY <1>3, <3>1
    <3>2. CASE i # n
      <4>1. n \in Nat
        BY <1>1
      <4>2. i < n
        BY <4>1, <3>2
      <4>3. i \in DOMAIN fs
        BY <1>1
      <4> QED
        BY <1>2, <1>6, <4>2, <4>3 DEF Balanced
    <3> QED
      BY <3>1, <3>2
  <2> QED
    BY <1>3, <1>4, <2>1, <2>2
<1>7. Cardinality(Pauses(v)) = Upto(StopAt(fs), n)
  <2>1. Upto(Pauses(w), fs[n].depth) = Upto(StopAt(fs), n - 1)
    BY <1>3 DEF Launched
  <2>2. Upto(StopAt(fs), n) = Upto(StopAt(fs), n - 1)
    <3>1. n - 1 \in Nat /\ n - 1 + 1 = n /\ n \notin StopAt(fs)
      BY <1>1, <1>2 DEF StopAt
    <3> QED
      BY <3>1, UptoNext
  <2>3. /\ Upto(Pauses(w), fs[n].depth) <= Upto(Pauses(w), d)
        /\ Upto(Pauses(w), d) <= Upto(Pauses(w), Len(w))
    BY <1>1, <1>3, <1>4, UptoMonotone
  <2>4. /\ Upto(Pauses(w), d) \in Nat
        /\ Upto(StopAt(fs), n) \in Nat
    BY <1>1, <1>4, UptoFinite
  <2>5. Upto(Pauses(w), d) = Upto(StopAt(fs), n)
    BY <1>1, <2>1, <2>2, <2>3, <2>4
  <2> QED
    BY <1>5, <2>5 DEF Upto
<1>8. StopAt(fs) = StopAt(fs) \cap (1 .. n)
  BY <1>1
<1>9. /\ n \in 0 .. Len(fs) /\ d \in 0 .. Len(v)
      /\ Pauses(v) \cap (1 .. d) = Pauses(w) \cap (1 .. d)
  BY <1>1, <1>4, <1>5
<1>10. Balanced(fs, v)
  BY <1>1, <1>2, <1>5, <1>6, <1>7, <1>8, <1>9, Keep
<1> QED
  BY <1>10 DEF v

\* A launch ends: so do the functions that it called.
LEMMA PopLaunch ==
  ASSUME NEW fs, NEW w, Balanced(fs, w), fs # <<>>, ~IsStop(fs[Len(fs)])
  PROVE  Balanced(Front(fs), SubSeq(w, 1, fs[Len(fs)].depth))
PROOF
<1> DEFINE n == Len(fs)
           d == fs[n].depth
           g == Front(fs)
           v == SubSeq(w, 1, d)
<1>1. /\ fs \in Seq(Frame) /\ w \in Seq(Calls)
      /\ n \in Nat /\ DOMAIN fs = 1 .. n /\ Len(w) \in Nat
      /\ \A i \in 1 .. n : fs[i] \in Frame
      /\ StopAt(fs) \in SUBSET (1 .. n)
      /\ Pauses(w) \in SUBSET (1 .. Len(w))
  BY BalancedShape
<1>2. /\ g \in Seq(Frame) /\ n >= 1 /\ Len(g) = n - 1
      /\ \A i \in 1 .. n - 1 : g[i] = fs[i]
      /\ StopAt(g) = StopAt(fs) \cap (1 .. n - 1)
  BY <1>1, StopFront
<1>3. n \in DOMAIN fs /\ n - 1 \in Nat /\ n - 1 \in 0 .. n
  BY <1>1, <1>2
<1>4. d \in Nat /\ Launched(fs, w, n)
  BY <1>1, <1>3, FrameKinds DEF Balanced
<1>5. d \in 0 .. Len(w)
  BY <1>1, <1>4 DEF Launched
<1>6. /\ v \in Seq(Calls) /\ Len(v) = d
      /\ Pauses(v) = Pauses(w) \cap (1 .. d)
  BY <1>1, <1>5, AtCut DEF Pauses
<1> HIDE DEF d, g, v
<1>7. ASSUME NEW i \in 1 .. n - 1, ~IsStop(fs[i]) PROVE fs[i].depth <= d
  <2>1. i < n /\ i \in DOMAIN fs
    BY <1>1
  <2> QED
    BY <1>3, <1>7, <2>1 DEF Balanced, d
<1>8. Cardinality(Pauses(v)) = Upto(StopAt(fs), n - 1)
  <2>1. Upto(Pauses(w), d) = Upto(StopAt(fs), n - 1)
    BY <1>4 DEF Launched, d
  <2> QED
    BY <1>6, <2>1 DEF Upto
<1>9. ASSUME n - 1 > 0, IsStop(fs[n - 1]) PROVE Len(v) \in Pauses(v)
  <2>1. n - 1 \in DOMAIN fs /\ n - 1 # n /\ n - 1 + 1 = n
    <3>1. n \in Nat
      BY <1>1
    <3>2. n - 1 \in 1 .. n /\ n - 1 # n /\ n - 1 + 1 = n
      BY <3>1, <1>9
    <3> QED
      BY <1>1, <3>2
  <2>2. Stopped(fs, w, n - 1)
    BY <1>9, <2>1 DEF Balanced
  <2>3. d \in Pauses(w)
    BY <2>1, <2>2 DEF Stopped, Reached, d
  <2>4. d \in 1 .. d
    BY <1>1, <1>4, <2>3
  <2> QED
    BY <1>6, <2>3, <2>4
<1>10. ASSUME n - 1 = 0 PROVE v = <<>>
  <2>1. n = 1
    <3>1. n \in Nat
      BY <1>1
    <3> QED
      BY <3>1, <1>10
  <2>2. d = 0
    BY <2>1 DEF Balanced, d
  <2> QED
    BY <1>6, <2>2, EmptySeq
<1>11. /\ d \in 0 .. Len(v)
       /\ Pauses(v) \cap (1 .. d) = Pauses(w) \cap (1 .. d)
  BY <1>4, <1>6
<1>12. Balanced(g, v)
  <2> DEFINE k == n - 1
  <2>1. k > 0 /\ IsStop(fs[k]) => Len(v) \in Pauses(v)
    BY <1>9
  <2>2. \A i \in 1 .. k : ~IsStop(fs[i]) => fs[i].depth <= d
    BY <1>7
  <2>3. k \in 0 .. Len(fs) /\ Len(g) = k /\ \A i \in 1 .. k : g[i] = fs[i]
    BY <1>2, <1>3
  <2>4. /\ StopAt(g) = StopAt(fs) \cap (1 .. k)
        /\ Cardinality(Pauses(v)) = Upto(StopAt(fs), k)
    BY <1>2, <1>8
  <2>5. k = 0 => v = <<>>
    BY <1>10
  <2>6. g \in Seq(Frame) /\ v \in Seq(Calls)
    BY <1>2, <1>6
  <2> HIDE DEF k
  <2> QED
    BY <2>1, <2>2, <2>3, <2>4, <2>5, <2>6, <1>11, Keep
<1> QED
  BY <1>12 DEF g, v, d

\* A stop is left, and its pause, which is the last of the calls.
LEMMA PopStop ==
  ASSUME NEW fs, NEW w, Balanced(fs, w), fs # <<>>, IsStop(fs[Len(fs)])
  PROVE  /\ Balanced(Front(fs), Front(w))
         /\ Len(fs) > 1 /\ ~IsStop(fs[Len(fs) - 1])
         /\ w # <<>>
PROOF
<1> DEFINE n == Len(fs)
           m == Len(w)
           k == n - 1
           d == m - 1
           g == Front(fs)
           v == SubSeq(w, 1, d)
<1>1. /\ fs \in Seq(Frame) /\ w \in Seq(Calls)
      /\ n \in Nat /\ DOMAIN fs = 1 .. n /\ m \in Nat
      /\ \A i \in 1 .. n : fs[i] \in Frame
      /\ StopAt(fs) \in SUBSET (1 .. n)
      /\ Pauses(w) \in SUBSET (1 .. m)
      /\ Upto(Pauses(w), m) = Upto(StopAt(fs), n)
  BY BalancedShape
<1>2. /\ g \in Seq(Frame) /\ n >= 1 /\ Len(g) = k
      /\ \A i \in 1 .. k : g[i] = fs[i]
      /\ StopAt(g) = StopAt(fs) \cap (1 .. k)
  BY <1>1, StopFront
<1>3. n \in DOMAIN fs /\ n \in StopAt(fs)
  BY <1>1, <1>2 DEF StopAt
<1>4. Stopped(fs, w, n)
  BY <1>3 DEF Balanced
<1>5. n > 1 /\ ~IsStop(fs[k]) /\ m \in Pauses(w)
  BY <1>4 DEF Stopped, Reached
<1>6. m \in 1 .. m
  BY <1>1, <1>5
<1>7. n \in Nat /\ m \in Nat
  BY <1>1
<1>8. k \in Nat /\ k + 1 = n /\ k > 0 /\ k \in 0 .. n
  BY <1>5, <1>7
<1>9. d \in Nat /\ d + 1 = m /\ d \in 0 .. m
  BY <1>6, <1>7
<1>10. /\ v \in Seq(Calls) /\ Len(v) = d
       /\ Pauses(v) = Pauses(w) \cap (1 .. d)
  BY <1>1, <1>9, AtCut DEF Pauses
<1> HIDE DEF k, d, g, v
<1>11. /\ Upto(StopAt(fs), n) = Upto(StopAt(fs), k) + 1
       /\ Upto(Pauses(w), m) = Upto(Pauses(w), d) + 1
       /\ Upto(StopAt(fs), k) \in Nat /\ Upto(Pauses(w), d) \in Nat
  BY <1>3, <1>5, <1>8, <1>9, UptoNext, UptoFinite
<1>12. Upto(Pauses(w), d) = Upto(StopAt(fs), k)
  BY <1>1, <1>11
<1>13. Cardinality(Pauses(v)) = Upto(StopAt(fs), k)
  BY <1>10, <1>12 DEF Upto
<1>14. ASSUME NEW i \in 1 .. k, ~IsStop(fs[i]) PROVE fs[i].depth <= d
  <2>1. i \in DOMAIN fs /\ i - 1 \in Nat /\ i - 1 <= k
    BY <1>1, <1>8
  <2>2. Launched(fs, w, i) /\ fs[i].depth \in Nat
    BY <1>1, <1>14, <2>1, FrameKinds DEF Balanced
  <2>3. Upto(Pauses(w), fs[i].depth) <= Upto(Pauses(w), d)
    <3>1. Upto(StopAt(fs), i - 1) <= Upto(StopAt(fs), k)
      BY <1>8, <2>1, UptoMonotone
    <3> QED
      BY <1>12, <2>2, <3>1 DEF Launched
  <2>4. fs[i].depth # m
    <3>1. Upto(Pauses(w), m) > Upto(Pauses(w), d)
      BY <1>11
    <3>2. ~ Upto(Pauses(w), m) <= Upto(Pauses(w), d)
      BY <1>11, <3>1
    <3> QED
      BY <2>3, <3>2
  <2>5. fs[i].depth <= m
    BY <2>2 DEF Launched
  <2>6. fs[i].depth \in Nat
    BY <2>2
  <2> QED
    BY <1>7, <1>9, <2>4, <2>5, <2>6
<1>15. /\ d \in 0 .. Len(v)
       /\ Pauses(v) \cap (1 .. d) = Pauses(w) \cap (1 .. d)
  BY <1>9, <1>10
<1>16. k # 0 /\ k \in 0 .. Len(fs)
  BY <1>8
<1>17. Balanced(g, v)
  BY <1>2, <1>5, <1>10, <1>13, <1>14, <1>15, <1>16, Keep
<1>18. w # <<>>
  BY <1>9, EmptySeq
<1> QED
  BY <1>5, <1>17, <1>18 DEF g, v, k, d, Front

\* The interpreter stops in a launch: a pause is called.
LEMMA PushStop ==
  ASSUME NEW fs, NEW w, NEW f \in StopFrame, Balanced(fs, w),
         fs # <<>>, ~IsStop(fs[Len(fs)])
  PROVE  Balanced(Append(fs, f), Append(w, "pause"))
PROOF
<1> DEFINE g == Append(fs, f)
           n == Len(fs)
           m == Len(w)
           v == Append(w, "pause")
<1>1. /\ fs \in Seq(Frame) /\ w \in Seq(Calls)
      /\ n \in Nat /\ DOMAIN fs = 1 .. n /\ m \in Nat
      /\ \A i \in 1 .. n : fs[i] \in Frame
      /\ StopAt(fs) \in SUBSET (1 .. n)
      /\ Pauses(w) \in SUBSET (1 .. m)
      /\ Upto(Pauses(w), m) = Upto(StopAt(fs), n)
  BY BalancedShape
<1>2. f \in Frame /\ IsStop(f)
  BY FrameKinds DEF Frame
<1>3. /\ g \in Seq(Frame) /\ g # <<>>
      /\ Len(g) = n + 1 /\ DOMAIN g = 1 .. n + 1
      /\ g[n + 1] = f
      /\ \A i \in 1 .. n : g[i] = fs[i]
      /\ StopAt(g) = StopAt(fs) \cup {n + 1}
  BY <1>1, <1>2, StopAppend
<1>4. /\ v \in Seq(Calls) /\ Len(v) = m + 1
      /\ Pauses(v) = Pauses(w) \cup {m + 1}
  BY <1>1, AtAppend DEF Calls, Pauses
<1>5. n \in Nat /\ m \in Nat
  BY <1>1
<1>6. n # 0
  BY <1>1, EmptySeq
<1> HIDE DEF g, v
<1>7. \A i \in 1 .. n + 1 : i = n + 1 \/ i \in 1 .. n
  BY <1>5
<1>8. Cardinality(Pauses(v)) = Cardinality(StopAt(g))
  <2>1. m + 1 \notin Pauses(w) /\ n + 1 \notin StopAt(fs)
    BY <1>1
  <2>2. IsFiniteSet(Pauses(w)) /\ IsFiniteSet(StopAt(fs))
    BY <1>1, UptoAll
  <2>3. Cardinality(Pauses(w)) = Cardinality(StopAt(fs))
    BY DEF Balanced
  <2>4. Cardinality(Pauses(v)) = Cardinality(Pauses(w)) + 1
    BY <1>4, <2>1, <2>2, FS_AddElement
  <2>5. Cardinality(StopAt(g)) = Cardinality(StopAt(fs)) + 1
    BY <1>3, <2>1, <2>2, FS_AddElement
  <2> QED
    BY <2>3, <2>4, <2>5
<1>9. /\ Pauses(v) \cap (1 .. m) = Pauses(w) \cap (1 .. m)
      /\ StopAt(g) \cap (1 .. n) = StopAt(fs) \cap (1 .. n)
  BY <1>3, <1>4, <1>5
<1>10. ASSUME NEW i \in DOMAIN g, ~IsStop(g[i])
       PROVE  i \in 1 .. n /\ i \in DOMAIN fs /\ g[i] = fs[i]
  BY <1>1, <1>2, <1>3, <1>7, <1>10
<1>11. ASSUME NEW i \in DOMAIN g, ~IsStop(g[i])
       PROVE  Launched(g, v, i)
  <2>1. i \in 1 .. n /\ i \in DOMAIN fs /\ g[i] = fs[i]
    BY <1>10, <1>11
  <2>2. Launched(fs, w, i) /\ fs[i].depth \in Nat
    BY <1>1, <1>11, <2>1, FrameKinds DEF Balanced
  <2>3. fs[i].depth <= m /\ i - 1 \in Nat /\ i - 1 <= n
    BY <1>5, <2>1, <2>2 DEF Launched
  <2>4. /\ Upto(Pauses(v), fs[i].depth) = Upto(Pauses(w), fs[i].depth)
        /\ Upto(StopAt(g), i - 1) = Upto(StopAt(fs), i - 1)
    BY <1>5, <1>9, <2>2, <2>3, UptoSame
  <2>5. fs[i].depth <= Len(v)
    BY <1>4, <1>5, <2>2, <2>3
  <2> QED
    BY <2>1, <2>2, <2>4, <2>5 DEF Launched
<1>12. ASSUME NEW i \in DOMAIN g, IsStop(g[i])
       PROVE  Stopped(g, v, i)
  <2>1. CASE i = n + 1
    <3>1. i > 1 /\ i - 1 = n /\ n \in 1 .. n
      BY <1>5, <1>6, <2>1
    <3>2. g[n] = fs[n]
      BY <1>3, <3>1
    <3>3. Reached(g, v, i) = Len(v)
      BY <1>3, <2>1 DEF Reached
    <3> QED
      BY <1>4, <3>1, <3>2, <3>3 DEF Stopped
  <2>2. CASE i \in 1 .. n
    <3>1. i \in DOMAIN fs /\ IsStop(fs[i])
      BY <1>1, <1>3, <1>12, <2>2
    <3>2. i # n
      BY <3>1
    <3>3. i + 1 \in 1 .. n /\ i # n + 1
      BY <1>5, <2>2, <3>2
    <3>4. Stopped(fs, w, i)
      BY <3>1 DEF Balanced
    <3>5. Reached(g, v, i) = fs[i + 1].depth /\ Reached(fs, w, i) = fs[i + 1].depth
      BY <1>3, <3>2, <3>3 DEF Reached
    <3>6. i > 1 /\ i - 1 \in 1 .. n
      BY <1>5, <2>2, <3>4 DEF Stopped
    <3>7. ~IsStop(g[i - 1])
      BY <1>3, <3>4, <3>6 DEF Stopped
    <3> QED
      BY <1>4, <3>4, <3>5, <3>6, <3>7 DEF Stopped
  <2> QED
    BY <1>3, <1>7, <2>1, <2>2
<1>13. ASSUME NEW i \in DOMAIN g, NEW j \in DOMAIN g,
              i < j, ~IsStop(g[i]), ~IsStop(g[j])
       PROVE  g[i].depth <= g[j].depth
  <2>1. i \in DOMAIN fs /\ g[i] = fs[i] /\ j \in DOMAIN fs /\ g[j] = fs[j]
    BY <1>10, <1>13
  <2> QED
    BY <1>13, <2>1 DEF Balanced
<1>14. g[1].depth = 0
  <2>1. 1 \in 1 .. n
    BY <1>5, <1>6
  <2> QED
    BY <1>3, <2>1 DEF Balanced
<1> QED
  BY <1>3, <1>4, <1>8, <1>11, <1>12, <1>13, <1>14 DEF Balanced, g, v

-----------------------------------------------------------------------------
(* The operations on the frames keep the pause levels in order.            *)

LEMMA LevelsPush ==
  ASSUME NEW fs \in Seq(Frame), NEW f \in Frame, NEW p \in Nat, Levels(fs, p),
         f.lvl = p + (IF IsStop(f) THEN 1 ELSE 0)
  PROVE  Levels(Append(fs, f), f.lvl)
PROOF
<1> DEFINE g == Append(fs, f)
           n == Len(fs)
<1>1. n \in Nat /\ DOMAIN fs = 1 .. n /\ \A i \in 1 .. n : fs[i] \in Frame
  BY LenProperties, ElementOfSeq
<1>2. /\ g \in Seq(Frame) /\ g # <<>>
      /\ Len(g) = n + 1 /\ DOMAIN g = 1 .. n + 1
      /\ g[n + 1] = f
      /\ \A i \in 1 .. n : g[i] = fs[i]
      /\ StopAt(g) = StopAt(fs) \cup (IF IsStop(f) THEN {n + 1} ELSE {})
  BY StopAppend
<1>3. n \in Nat
  BY <1>1
<1>4. f.lvl \in Nat
  BY FrameKinds
<1> HIDE DEF g
<1>5. \A i \in 1 .. n + 1 : i = n + 1 \/ i \in 1 .. n
  BY <1>3
<1>6. StopAt(g) \cap (1 .. n) = StopAt(fs) \cap (1 .. n)
  BY <1>2, <1>3
<1>7. Upto(StopAt(fs), n) \in Nat /\ Upto(StopAt(g), n) = Upto(StopAt(fs), n)
  <2>1. Upto(StopAt(fs), n) \in Nat
    BY <1>3, UptoFinite
  <2> QED
    BY <1>6, <2>1 DEF Upto
<1>8. p <= Upto(StopAt(fs), n) /\ (n > 0 => p <= fs[n].lvl)
  <2>1. CASE n = 0
    <3>1. p = 0
      BY <2>1, EmptySeq DEF Levels
    <3> QED
      BY <1>7, <2>1, <3>1
  <2>2. CASE n # 0
    <3>1. fs # <<>> /\ n \in 1 .. n
      BY <1>3, <2>2, EmptySeq
    <3>2. p <= fs[n].lvl /\ fs[n].lvl <= Upto(StopAt(fs), n) /\ fs[n] \in Frame
      BY <1>1, <3>1 DEF Levels
    <3>3. fs[n].lvl \in Nat
      BY <3>2, FrameKinds
    <3> QED
      BY <1>7, <3>2, <3>3
  <2> QED
    BY <2>1, <2>2
<1>9. f.lvl <= Upto(StopAt(g), n + 1)
  <2>1. CASE IsStop(f)
    <3>1. n + 1 \in StopAt(g)
      BY <1>2, <2>1
    <3>2. Upto(StopAt(g), n + 1) = Upto(StopAt(fs), n) + 1
      BY <1>3, <1>7, <3>1, UptoNext
    <3> QED
      BY <1>7, <1>8, <2>1, <3>2
  <2>2. CASE ~IsStop(f)
    <3>1. n + 1 \notin StopAt(g)
      BY <1>2, <2>2 DEF StopAt
    <3>2. Upto(StopAt(g), n + 1) = Upto(StopAt(fs), n)
      BY <1>3, <1>7, <3>1, UptoNext
    <3> QED
      BY <1>7, <1>8, <2>2, <3>2
  <2> QED
    BY <2>1, <2>2
<1>10. ASSUME NEW i \in DOMAIN g PROVE g[i].lvl <= Upto(StopAt(g), i)
  <2>1. CASE i = n + 1
    BY <1>2, <1>9, <2>1
  <2>2. CASE i \in 1 .. n
    <3>1. i \in Nat /\ i <= n /\ i \in DOMAIN fs
      BY <1>1, <2>2
    <3>2. Upto(StopAt(g), i) = Upto(StopAt(fs), i)
      BY <1>3, <1>6, <3>1, UptoSame
    <3> QED
      BY <1>2, <2>2, <3>1, <3>2 DEF Levels
  <2> QED
    BY <1>2, <1>5, <2>1, <2>2
<1>11. ASSUME NEW i \in DOMAIN g, IsStop(g[i]) PROVE g[i].lvl > 0
  <2>1. CASE i = n + 1
    BY <1>2, <1>11, <2>1
  <2>2. CASE i \in 1 .. n
    BY <1>1, <1>2, <1>11, <2>2 DEF Levels
  <2> QED
    BY <1>2, <1>5, <2>1, <2>2
<1>12. ASSUME NEW i \in 2 .. Len(g)
       PROVE  g[i].lvl <= g[i - 1].lvl + (IF IsStop(g[i]) THEN 1 ELSE 0)
  <2>1. i \in 1 .. n + 1 /\ i > 1 /\ i - 1 \in 1 .. n
    BY <1>2, <1>3
  <2>2. CASE i = n + 1
    <3>1. i - 1 = n /\ n > 0 /\ n \in 1 .. n
      BY <1>3, <2>1, <2>2
    <3>2. g[i - 1] = fs[n] /\ fs[n].lvl \in Nat
      BY <1>1, <1>2, <3>1, FrameKinds
    <3>3. g[i] = f /\ p <= fs[n].lvl
      BY <1>2, <1>8, <2>2, <3>1
    <3> QED
      BY <3>2, <3>3
  <2>3. CASE i \in 1 .. n
    <3>1. g[i] = fs[i] /\ g[i - 1] = fs[i - 1]
      BY <1>2, <2>1, <2>3
    <3>2. i \in 2 .. n
      BY <2>1, <2>3
    <3> QED
      BY <3>1, <3>2 DEF Levels
  <2> QED
    BY <1>5, <2>1, <2>2, <2>3
<1>13. f.lvl <= g[Len(g)].lvl
  BY <1>2, <1>4
<1> QED
  BY <1>2, <1>10, <1>11, <1>12, <1>13 DEF Levels, g

LEMMA LevelsPop ==
  ASSUME NEW fs, NEW w, Balanced(fs, w), fs # <<>>,
         NEW p \in Nat, NEW q \in Nat, Levels(fs, p), q <= p,
         IsStop(fs[Len(fs)]) => q < fs[Len(fs)].lvl
  PROVE  Levels(Front(fs), q)
PROOF
<1> DEFINE g == Front(fs)
           n == Len(fs)
           k == n - 1
<1>1. /\ fs \in Seq(Frame)
      /\ n \in Nat /\ DOMAIN fs = 1 .. n
      /\ \A i \in 1 .. n : fs[i] \in Frame
  BY BalancedShape
<1>2. /\ g \in Seq(Frame) /\ n >= 1
      /\ Len(g) = k /\ DOMAIN g = 1 .. k
      /\ \A i \in 1 .. k : g[i] = fs[i]
      /\ StopAt(g) = StopAt(fs) \cap (1 .. k)
  BY <1>1, StopFront
<1>3. n \in Nat /\ n >= 1
  BY <1>1, <1>2
<1>4. k \in Nat /\ k + 1 = n /\ \A i \in 1 .. k : i \in 1 .. n
  BY <1>3
<1>5. StopAt(g) \cap (1 .. k) = StopAt(fs) \cap (1 .. k)
  BY <1>2
<1>6. n \in 1 .. n /\ n \in DOMAIN fs /\ fs[n].lvl \in Nat
  BY <1>1, <1>3, FrameKinds
<1>7. p <= fs[n].lvl
  BY DEF Levels
<1> HIDE DEF g, k
<1>8. ASSUME NEW i \in DOMAIN g PROVE g[i].lvl <= Upto(StopAt(g), i)
  <2>1. i \in 1 .. k /\ g[i] = fs[i] /\ i \in DOMAIN fs
    BY <1>1, <1>2, <1>4
  <2>2. i \in Nat /\ i <= k
    BY <1>4, <2>1
  <2>3. Upto(StopAt(g), i) = Upto(StopAt(fs), i)
    BY <1>4, <1>5, <2>2, UptoSame
  <2> QED
    BY <2>1, <2>3 DEF Levels
<1>9. ASSUME NEW i \in DOMAIN g, IsStop(g[i]) PROVE g[i].lvl > 0
  BY <1>1, <1>2, <1>4, <1>9 DEF Levels
<1>10. ASSUME NEW i \in 2 .. Len(g)
       PROVE  g[i].lvl <= g[i - 1].lvl + (IF IsStop(g[i]) THEN 1 ELSE 0)
  <2>1. i \in 1 .. k /\ i - 1 \in 1 .. k /\ i \in 2 .. n
    BY <1>2, <1>4
  <2>2. g[i] = fs[i] /\ g[i - 1] = fs[i - 1]
    BY <1>2, <2>1
  <2> QED
    BY <2>1, <2>2 DEF Levels
<1>11. IF g = <<>> THEN q = 0 ELSE q <= g[Len(g)].lvl
  <2>1. CASE k = 0
    <3>1. n = 1 /\ g = <<>>
      BY <1>2, <1>4, <2>1, EmptySeq
    <3>2. n \notin StopAt(fs)
      <4>1. SUFFICES ASSUME n \in StopAt(fs) PROVE FALSE
        OBVIOUS
      <4>2. IsStop(fs[n])
        BY <4>1 DEF StopAt
      <4>3. Stopped(fs, w, n)
        BY <1>6, <4>2 DEF Balanced
      <4>4. n > 1
        BY <4>3 DEF Stopped
      <4> QED
        BY <3>1, <4>4
    <3>3. Upto(StopAt(fs), n) = 0
      <4>1. Upto(StopAt(fs), 0 + 1) = Upto(StopAt(fs), 0)
        BY <3>1, <3>2, UptoNext
      <4> QED
        BY <3>1, <4>1, UptoZero
    <3>4. fs[n].lvl <= Upto(StopAt(fs), n)
      BY <1>6 DEF Levels
    <3>5. q = 0
      BY <1>6, <1>7, <3>3, <3>4
    <3> QED
      BY <3>1, <3>5
  <2>2. CASE k # 0
    <3>1. g # <<>> /\ k \in 1 .. k
      BY <1>2, <1>4, <2>2, EmptySeq
    <3>2. g[k] = fs[k] /\ fs[k].lvl \in Nat
      BY <1>1, <1>2, <1>4, <3>1, FrameKinds
    <3>3. n \in 2 .. n /\ n - 1 = k
      BY <1>3, <1>4, <2>2
    <3>4. fs[n].lvl <= fs[k].lvl + (IF IsStop(fs[n]) THEN 1 ELSE 0)
      BY <3>3 DEF Levels
    <3>5. q <= fs[k].lvl
      <4>1. CASE IsStop(fs[n])
        BY <1>6, <3>2, <3>4, <4>1
      <4>2. CASE ~IsStop(fs[n])
        BY <1>6, <1>7, <3>2, <3>4, <4>2
      <4> QED
        BY <4>1, <4>2
    <3> QED
      BY <1>2, <3>1, <3>2, <3>5
  <2> QED
    BY <2>1, <2>2
<1> QED
  BY <1>8, <1>9, <1>10, <1>11 DEF Levels, g

LEMMA LevelsLess ==
  ASSUME NEW fs, NEW w, Balanced(fs, w),
         NEW p \in Nat, NEW q \in Nat, Levels(fs, p), q <= p
  PROVE  Levels(fs, q)
PROOF
<1>1. CASE fs = <<>>
  BY <1>1 DEF Levels
<1>2. CASE fs # <<>>
  <2>1. Len(fs) \in Nat /\ \A i \in 1 .. Len(fs) : fs[i] \in Frame
    BY BalancedShape
  <2>2. Len(fs) \in 1 .. Len(fs)
    BY <1>2, <2>1, BalancedShape, EmptySeq
  <2>3. fs[Len(fs)].lvl \in Nat
    BY <2>1, <2>2, FrameKinds
  <2> QED
    BY <1>2, <2>3 DEF Levels
<1> QED
  BY <1>1, <1>2

LEMMA LevelsBound ==
  ASSUME NEW fs, NEW w, Balanced(fs, w), NEW p \in Nat, Levels(fs, p)
  PROVE  p <= Cardinality(StopAt(fs))
PROOF
<1>1. /\ fs \in Seq(Frame)
      /\ Len(fs) \in Nat /\ DOMAIN fs = 1 .. Len(fs)
      /\ \A i \in 1 .. Len(fs) : fs[i] \in Frame
      /\ StopAt(fs) \in SUBSET (1 .. Len(fs))
  BY BalancedShape
<1>2. /\ Upto(StopAt(fs), Len(fs)) = Cardinality(StopAt(fs))
      /\ Cardinality(StopAt(fs)) \in Nat
  BY <1>1, UptoAll
<1>3. CASE fs = <<>>
  BY <1>2, <1>3 DEF Levels
<1>4. CASE fs # <<>>
  <2>1. Len(fs) \in Nat /\ Len(fs) # 0
    BY <1>1, <1>4, EmptySeq
  <2>2. Len(fs) \in 1 .. Len(fs) /\ Len(fs) \in DOMAIN fs
    BY <1>1, <2>1
  <2>3. p <= fs[Len(fs)].lvl /\ fs[Len(fs)].lvl <= Upto(StopAt(fs), Len(fs))
    BY <1>4, <2>2 DEF Levels
  <2>4. fs[Len(fs)].lvl \in Nat
    BY <1>1, <2>2, FrameKinds
  <2> QED
    BY <1>2, <2>3, <2>4
<1> QED
  BY <1>3, <1>4

-----------------------------------------------------------------------------
(* The steps.                                                              *)

LEMMA StackFacts ==
  ASSUME StackInv
  PROVE  /\ Balanced(frames, where) /\ Levels(frames, PauseLevel)
         /\ frames \in Seq(Frame) /\ where \in Seq(Calls)
         /\ Len(frames) \in Nat /\ Len(where) \in Nat
         /\ pauses \in Seq(0 .. MaxCalls) /\ PauseLevel \in Nat
         /\ frames # <<>> => frames[Len(frames)] \in Frame
         /\ Last(frames) = frames[Len(frames)]
PROOF
<1>1. /\ Balanced(frames, where) /\ Levels(frames, PauseLevel)
      /\ pauses \in Seq(0 .. MaxCalls)
  BY DEF StackInv, StackTypes
<1>2. /\ frames \in Seq(Frame) /\ where \in Seq(Calls)
      /\ Len(frames) \in Nat /\ Len(where) \in Nat
      /\ \A i \in 1 .. Len(frames) : frames[i] \in Frame
  BY <1>1, BalancedShape
<1>3. PauseLevel \in Nat
  BY <1>1, LenProperties DEF PauseLevel
<1>4. ASSUME frames # <<>> PROVE frames[Len(frames)] \in Frame
  <2>1. Len(frames) \in Nat /\ Len(frames) # 0
    BY <1>2, <1>4, EmptySeq
  <2>2. Len(frames) \in 1 .. Len(frames)
    BY <2>1
  <2> QED
    BY <1>2, <2>2
<1> QED
  BY <1>1, <1>2, <1>3, <1>4 DEF Last

LEMMA CountCut ==
  ASSUME NEW w \in Seq(Calls), NEW d \in 0 .. Len(w),
         Cardinality(At(w, "macro")) <= MaxCalls
  PROVE  Cardinality(At(SubSeq(w, 1, d), "macro")) <= MaxCalls
PROOF
<1>1. At(SubSeq(w, 1, d), "macro") \subseteq At(w, "macro")
  BY AtCut
<1>2. Len(w) \in Nat /\ At(w, "macro") \in SUBSET (1 .. Len(w))
  BY LenProperties DEF At
<1>3. IsFiniteSet(At(w, "macro")) /\ Cardinality(At(w, "macro")) \in Nat
  BY <1>2, UptoAll
<1>4. /\ Cardinality(At(SubSeq(w, 1, d), "macro")) \in Nat
      /\ Cardinality(At(SubSeq(w, 1, d), "macro")) <= Cardinality(At(w, "macro"))
  BY <1>1, <1>3, FS_Subset, FS_CardinalityType
<1>5. MaxCalls \in Nat
  BY DebuggerAssumption
<1> QED
  BY <1>3, <1>4, <1>5

\* The interpreter goes on in the launch on top.
StaysInLaunch ==
  \/ pc' \in (InLaunch \ {"done", "stop"}) \cup {"unwind"}
  \/ pc' = "stop" /\ back' \in Returns
  \/ pc' = "done" /\ Len(where') = frames[Len(frames)].depth

LEMMA OnTopStays ==
  ASSUME StackInv, pc \in InLaunch, UNCHANGED frames, StaysInLaunch
  PROVE  OnTop'
PROOF
<1>1. frames' # <<>> /\ ~IsStop(frames'[Len(frames')])
  BY DEF StackInv, OnTop
<1>2. frames[Len(frames)].depth = frames'[Len(frames')].depth
  OBVIOUS
<1>3. CASE pc' \in (InLaunch \ {"done", "stop"}) \cup {"unwind"}
  BY <1>1, <1>3 DEF OnTop, InLaunch, Returns
<1>4. CASE pc' = "stop" /\ back' \in Returns
  BY <1>1, <1>4 DEF OnTop, InLaunch, Returns
<1>5. CASE pc' = "done" /\ Len(where') = frames[Len(frames)].depth
  BY <1>1, <1>2, <1>5 DEF OnTop, InLaunch, Returns
<1> QED
  BY <1>3, <1>4, <1>5 DEF StaysInLaunch

\* Only the place of the interpreter changes.
LEMMA QuietStep ==
  ASSUME StackInv, UNCHANGED <<pauses, where, frames, level>>, OnTop'
  PROVE  StackInv'
PROOF
<1>1. StackTypes'
  BY DEF StackInv, StackTypes, Count
<1>2. PauseLevel' = PauseLevel
  BY DEF PauseLevel
<1>3. Balanced(frames', where') /\ Levels(frames', PauseLevel')
  BY <1>2 DEF StackInv
<1> QED
  BY <1>1, <1>3 DEF StackInv

Quiet ==
  \/ EnterBody \/ Check \/ Statement \/ Simple \/ Block \/ Fail
  \/ ExecAbort \/ After \/ End \/ ErrorStops

LEMMA QuietKeeps == StackInv /\ Quiet => StackInv'
PROOF
<1> SUFFICES ASSUME StackInv, Quiet PROVE StackInv'
  OBVIOUS
<1>1. UNCHANGED <<pauses, where, frames, level>>
  BY DEF Quiet, EnterBody, Check, Statement, Simple, Block, Fail, ExecAbort, After,
         End, ErrorStops, stack, manager
<1>2. pc \in InLaunch
  BY DEF Quiet, EnterBody, Check, Statement, Simple, Block, Fail, ExecAbort, After,
         End, ErrorStops, Code, InLaunch, Returns
<1>3. StaysInLaunch
  <2>1. CASE EnterBody \/ Statement \/ Simple \/ Block \/ Fail \/ ExecAbort
    BY <2>1 DEF EnterBody, Statement, Simple, Block, Fail, ExecAbort, Goto,
                StaysInLaunch, InLaunch, Returns
  <2>2. CASE Check
    BY <2>2 DEF Check, Goto, StopThen, StaysInLaunch, InLaunch, Returns
  <2>3. CASE After
    BY <2>3 DEF After, Goto, StopThen, StaysInLaunch, InLaunch, Returns
  <2>4. CASE End
    BY <2>4 DEF End, Goto, StopThen, StaysInLaunch, InLaunch, Returns
  <2>5. CASE ErrorStops
    BY <2>5 DEF ErrorStops, Goto, StopThen, StaysInLaunch, InLaunch, Returns
  <2> QED
    BY <2>1, <2>2, <2>3, <2>4, <2>5 DEF Quiet
<1> QED
  BY <1>1, <1>2, <1>3, OnTopStays, QuietStep

\* Functions are left, down to d calls, and nothing else changes on the stacks.
LEMMA FunctionsLeft ==
  ASSUME StackInv, pc \in InLaunch,
         NEW d \in frames[Len(frames)].depth .. Len(where),
         where' = SubSeq(where, 1, d),
         UNCHANGED <<pauses, frames, level>>, StaysInLaunch
  PROVE  StackInv'
PROOF
<1>1. /\ Balanced(frames, where) /\ Levels(frames, PauseLevel)
      /\ where \in Seq(Calls) /\ Len(where) \in Nat
  BY StackFacts
<1>2. frames # <<>> /\ ~IsStop(frames[Len(frames)])
  BY DEF StackInv, OnTop
<1>3. frames[Len(frames)].depth \in Nat
  BY <1>2, StackFacts, FrameKinds
<1>4. Balanced(frames', where')
  BY <1>1, <1>2, LeaveFunctions
<1>5. Count("macro")' <= MaxCalls
  <2>1. d \in 0 .. Len(where)
    BY <1>1, <1>3
  <2>2. Cardinality(At(where, "macro")) <= MaxCalls
    BY DEF StackInv, StackTypes, Count, At
  <2>3. Cardinality(At(where', "macro")) <= MaxCalls
    BY <1>1, <2>1, <2>2, CountCut
  <2> QED
    BY <2>3 DEF Count, At
<1>6. OnTop'
  BY OnTopStays
<1>7. Levels(frames', PauseLevel')
  BY <1>1 DEF PauseLevel
<1> QED
  BY <1>4, <1>5, <1>6, <1>7 DEF StackInv, StackTypes

LEMMA TopDepth ==
  ASSUME StackInv, pc \in InLaunch
  PROVE  /\ frames # <<>> /\ ~IsStop(frames[Len(frames)])
         /\ frames[Len(frames)].depth \in Nat
         /\ frames[Len(frames)].depth <= Len(where)
         /\ Len(where) \in Nat
         /\ Last(frames) = frames[Len(frames)]
PROOF
<1>1. frames # <<>> /\ ~IsStop(frames[Len(frames)])
  BY DEF StackInv, OnTop
<1>2. frames[Len(frames)].depth \in Nat /\ Len(where) \in Nat
  BY <1>1, StackFacts, FrameKinds
<1>3. Len(frames) \in DOMAIN frames
  <2>1. /\ Len(frames) \in Nat /\ DOMAIN frames = 1 .. Len(frames)
    BY StackFacts, LenProperties
  <2>2. Len(frames) # 0
    BY <1>1, StackFacts, EmptySeq
  <2> QED
    BY <2>1, <2>2
<1>4. Launched(frames, where, Len(frames))
  BY <1>1, <1>3, StackFacts DEF Balanced
<1> QED
  BY <1>1, <1>2, <1>4 DEF Launched, Last

LEMMA CallKeeps == StackInv /\ Call => StackInv'
PROOF
<1> SUFFICES ASSUME StackInv, Call PROVE StackInv'
  OBVIOUS
<1>1. /\ pc \in InLaunch
      /\ UNCHANGED <<pauses, frames, level>>
  BY DEF Call, Code, InLaunch, Returns, manager
<1>2. StaysInLaunch
  BY DEF Call, Goto, StaysInLaunch, InLaunch, Returns
<1>3. OnTop'
  BY <1>1, <1>2, OnTopStays
<1>4. CASE UNCHANGED where
  BY <1>1, <1>3, <1>4, QuietStep
<1>5. CASE Count("macro") < MaxCalls /\ where' = Append(where, "macro")
  <2>1. Balanced(frames', where')
    BY <1>1, <1>5, StackFacts, TopDepth, EnterMacro
  <2>2. Levels(frames', PauseLevel')
    BY <1>1, StackFacts DEF PauseLevel
  <2>3. Count("macro")' <= MaxCalls
    <3>1. /\ where \in Seq(Calls) /\ Len(where) \in Nat
          /\ DOMAIN where = 1 .. Len(where)
      BY StackFacts, LenProperties
    <3>2. At(where, "macro") \in SUBSET (1 .. Len(where))
      BY <3>1 DEF At
    <3>3. IsFiniteSet(At(where, "macro")) /\ Cardinality(At(where, "macro")) \in Nat
      BY <3>1, <3>2, UptoAll
    <3>4. At(where', "macro") = At(where, "macro") \cup {Len(where) + 1}
      BY <1>5, <3>1, AtAppend DEF Calls
    <3>5. Len(where) + 1 \notin At(where, "macro")
      BY <3>1, <3>2
    <3>6. Cardinality(At(where', "macro")) = Cardinality(At(where, "macro")) + 1
      BY <3>3, <3>4, <3>5, FS_AddElement
    <3>7. Cardinality(At(where, "macro")) < MaxCalls
      BY <1>5 DEF Count, At
    <3>8. Cardinality(At(where', "macro")) <= MaxCalls
      BY <3>3, <3>6, <3>7, DebuggerAssumption
    <3> QED
      BY <3>8 DEF Count, At
  <2> QED
    BY <1>1, <1>3, <2>1, <2>2, <2>3 DEF StackInv, StackTypes
<1> QED
  BY <1>4, <1>5 DEF Call

LEMMA LeaveKeeps == StackInv /\ (Leave \/ Thrown) => StackInv'
PROOF
<1> SUFFICES ASSUME StackInv, Leave \/ Thrown PROVE StackInv'
  OBVIOUS
<1>1. /\ pc \in InLaunch
      /\ UNCHANGED <<pauses, frames, level>>
  BY DEF Leave, Thrown, InLaunch, Returns, manager
<1> DEFINE d == frames[Len(frames)].depth
<1>2. /\ d \in Nat /\ d <= Len(where) /\ Len(where) \in Nat
      /\ Last(frames).depth = d
  BY <1>1, TopDepth
<1> HIDE DEF d
<1>3. CASE Len(where) > d
  <2>1. where' = SubSeq(where, 1, Len(where) - 1)
    BY <1>2, <1>3 DEF Leave, Thrown, Front
  <2>2. StaysInLaunch
    BY <1>2, <1>3 DEF Leave, Thrown, Goto, StaysInLaunch, InLaunch, Returns
  <2>3. Len(where) - 1 \in d .. Len(where)
    BY <1>2, <1>3
  <2> QED
    BY <1>1, <2>1, <2>2, <2>3, FunctionsLeft DEF d
<1>4. CASE ~ Len(where) > d
  <2>1. Len(where) = d
    BY <1>2, <1>4
  <2>2. UNCHANGED where /\ pc' = "done"
    BY <1>2, <1>4 DEF Leave, Thrown, Goto
  <2>3. StaysInLaunch
    BY <2>1, <2>2 DEF StaysInLaunch, d
  <2> QED
    BY <1>1, <2>2, <2>3, OnTopStays, QuietStep
<1> QED
  BY <1>3, <1>4

LEMMA CaughtKeeps == StackInv /\ Caught => StackInv'
PROOF
<1> SUFFICES ASSUME StackInv, Caught PROVE StackInv'
  OBVIOUS
<1>1. /\ pc \in InLaunch
      /\ UNCHANGED <<pauses, frames, level>>
  BY DEF Caught, InLaunch, Returns, manager
<1>2. /\ frames[Len(frames)].depth \in Nat /\ Len(where) \in Nat
      /\ frames[Len(frames)].depth <= Len(where)
      /\ Last(frames) = frames[Len(frames)]
  BY <1>1, TopDepth
<1>3. PICK d \in Last(frames).depth .. Len(where) :
        /\ where' = SubSeq(where, 1, d)
        /\ \/ Goto("body")
           \/ d = Last(frames).depth /\ Goto("done")
  BY DEF Caught
<1>4. d \in 0 .. Len(where) /\ d \in frames[Len(frames)].depth .. Len(where)
  BY <1>2, <1>3
<1>5. Len(where') = d
  BY <1>3, <1>4, StackFacts, AtCut
<1>6. StaysInLaunch
  <2>1. CASE Goto("body")
    BY <2>1 DEF Goto, StaysInLaunch, InLaunch, Returns
  <2>2. CASE d = Last(frames).depth /\ Goto("done")
    BY <1>2, <1>5, <2>2 DEF Goto, StaysInLaunch
  <2> QED
    BY <1>3, <2>1, <2>2
<1> QED
  BY <1>1, <1>3, <1>4, <1>6, FunctionsLeft

LEMMA ResumeKeeps == StackInv /\ ExecResume => StackInv'
PROOF
<1> SUFFICES ASSUME StackInv, ExecResume PROVE StackInv'
  OBVIOUS
<1>1. /\ pc \in InLaunch
      /\ UNCHANGED <<where, frames, level>>
  BY DEF ExecResume, InLaunch, Returns, manager
<1>2. StaysInLaunch
  BY DEF ExecResume, Goto, StaysInLaunch, InLaunch, Returns
<1>3. OnTop'
  BY <1>1, <1>2, OnTopStays
<1>4. CASE UNCHANGED pauses
  BY <1>1, <1>3, <1>4, QuietStep
<1>5. CASE pauses # <<>> /\ pauses' = Front(pauses)
  <2>1. /\ pauses' \in Seq(0 .. MaxCalls)
        /\ PauseLevel' \in Nat /\ PauseLevel' <= PauseLevel
    <3>1. pauses \in Seq(0 .. MaxCalls) /\ Len(pauses) \in Nat /\ Len(pauses) # 0
      BY <1>5, StackFacts, LenProperties, EmptySeq
    <3>2. Len(pauses) - 1 \in 0 .. Len(pauses)
      BY <3>1
    <3>3. pauses' = SubSeq(pauses, 1, Len(pauses) - 1)
      BY <1>5 DEF Front
    <3>4. pauses' \in Seq(0 .. MaxCalls) /\ Len(pauses') = Len(pauses) - 1
      BY <3>1, <3>2, <3>3, AtCut
    <3> QED
      BY <3>1, <3>4 DEF PauseLevel
  <2>2. Levels(frames', PauseLevel')
    BY <1>1, <2>1, StackFacts, LevelsLess
  <2> QED
    BY <1>1, <1>3, <2>1, <2>2 DEF StackInv, StackTypes, Count
<1> QED
  BY <1>4, <1>5 DEF ExecResume

LEMMA MainLoopKeeps == StackInv /\ MainLoop => StackInv'
PROOF
<1> SUFFICES ASSUME StackInv, MainLoop PROVE StackInv'
  OBVIOUS
<1>1. UNCHANGED <<pauses, where, frames, level>>
  BY DEF MainLoop, stack, manager
<1>2. OnTop'
  BY DEF MainLoop, Goto, OnTop, InLaunch, Returns, stack
<1> QED
  BY <1>1, <1>2, QuietStep

LEMMA TopOfAppend ==
  ASSUME NEW fs \in Seq(Frame), NEW f \in Frame
  PROVE  /\ Append(fs, f) # <<>>
         /\ Append(fs, f)[Len(Append(fs, f))] = f
PROOF
<1> DEFINE g == Append(fs, f)
<1>1. g # <<>> /\ Len(g) = Len(fs) + 1 /\ g[Len(fs) + 1] = f
  BY StopAppend
<1> HIDE DEF g
<1>2. g[Len(g)] = f
  BY <1>1
<1> QED
  BY <1>1, <1>2 DEF g

LEMMA TopOfFront ==
  ASSUME NEW fs \in Seq(Frame), Len(fs) > 1
  PROVE  /\ Front(fs) # <<>>
         /\ Front(fs)[Len(Front(fs))] = fs[Len(fs) - 1]
PROOF
<1> DEFINE g == Front(fs)
<1>1. fs # <<>> /\ Len(fs) \in Nat
  BY EmptySeq, LenProperties
<1>2. /\ Len(g) = Len(fs) - 1
      /\ \A i \in 1 .. Len(fs) - 1 : g[i] = fs[i]
  BY <1>1, StopFront
<1> HIDE DEF g
<1>3. Len(g) # 0 /\ Len(g) \in 1 .. Len(fs) - 1
  BY <1>1, <1>2
<1>4. g # <<>> /\ g[Len(g)] = fs[Len(fs) - 1]
  BY <1>2, <1>3, EmptySeq
<1> QED
  BY <1>4 DEF g

LEMMA LaunchKeeps == StackInv /\ queue \in Seq(Commands) /\ Launch => StackInv'
PROOF
<1> SUFFICES ASSUME StackInv, queue \in Seq(Commands), Launch PROVE StackInv'
  OBVIOUS
<1> DEFINE f == [kind |-> "launch", cmd |-> Head(queue),
                 lvl |-> PauseLevel, depth |-> Len(where)]
<1>1. /\ Balanced(frames, where) /\ Levels(frames, PauseLevel)
      /\ frames \in Seq(Frame) /\ PauseLevel \in Nat /\ Len(where) \in Nat
  BY StackFacts
<1>2. /\ frames' = Append(frames, f) /\ pc' = "body"
      /\ UNCHANGED <<pauses, where, level>>
  BY DEF Launch, Goto
<1>3. Head(queue) \in Commands
  BY HeadTailProperties DEF Launch
<1>4. f \in LaunchFrame /\ f.depth = Len(where) /\ f.lvl = PauseLevel
  BY <1>1, <1>3 DEF LaunchFrame
<1> HIDE DEF f
<1>5. f \in Frame /\ ~IsStop(f)
  BY <1>4, FrameKinds DEF Frame
<1>6. Balanced(frames', where')
  BY <1>1, <1>2, <1>4, PushLaunch
<1>7. Levels(frames', PauseLevel')
  <2>1. f.lvl = PauseLevel + (IF IsStop(f) THEN 1 ELSE 0)
    BY <1>1, <1>4, <1>5
  <2>2. Levels(Append(frames, f), f.lvl)
    BY <1>1, <1>5, <2>1, LevelsPush
  <2> QED
    BY <1>2, <1>4, <2>2 DEF PauseLevel
<1>8. OnTop'
  <2>1. frames' # <<>> /\ frames'[Len(frames')] = f
    BY <1>1, <1>2, <1>5, TopOfAppend
  <2> QED
    BY <1>2, <1>5, <2>1 DEF OnTop, InLaunch, Returns
<1> QED
  BY <1>2, <1>6, <1>7, <1>8 DEF StackInv, StackTypes, Count

LEMMA StopKeeps == StackInv /\ Stop => StackInv'
PROOF
<1> SUFFICES ASSUME StackInv, Stop PROVE StackInv'
  OBVIOUS
<1> DEFINE f == [kind |-> "stop", lvl |-> PauseLevel + 1, ret |-> back]
<1>1. /\ Balanced(frames, where) /\ Levels(frames, PauseLevel)
      /\ frames \in Seq(Frame) /\ where \in Seq(Calls) /\ PauseLevel \in Nat
      /\ pauses \in Seq(0 .. MaxCalls)
  BY StackFacts
<1>2. /\ frames' = Append(frames, f) /\ pc' = "wait"
      /\ where' = Append(where, "pause")
      /\ pauses' = Append(pauses, Count("macro"))
      /\ UNCHANGED level
  BY DEF Stop, Goto, manager
<1>3. /\ back \in Returns
      /\ frames # <<>> /\ ~IsStop(frames[Len(frames)])
  BY DEF Stop, StackInv, OnTop, InLaunch
<1>4. f \in StopFrame /\ f.lvl = PauseLevel + 1
  BY <1>1, <1>3 DEF StopFrame
<1> HIDE DEF f
<1>5. f \in Frame /\ IsStop(f)
  BY <1>4, FrameKinds DEF Frame
<1>6. Balanced(frames', where')
  BY <1>1, <1>2, <1>3, <1>4, PushStop
<1>7. Count("macro") \in 0 .. MaxCalls
  <2>1. Len(where) \in Nat /\ At(where, "macro") \in SUBSET (1 .. Len(where))
    BY <1>1, LenProperties DEF At
  <2>2. Cardinality(At(where, "macro")) \in Nat
    BY <2>1, UptoAll
  <2>3. Count("macro") = Cardinality(At(where, "macro"))
    BY DEF Count, At
  <2>4. Count("macro") <= MaxCalls
    BY DEF StackInv, StackTypes
  <2> QED
    BY <2>2, <2>3, <2>4, DebuggerAssumption
<1>8. /\ pauses' \in Seq(0 .. MaxCalls)
      /\ PauseLevel' = PauseLevel + 1
  BY <1>1, <1>2, <1>7, AppendProperties DEF PauseLevel
<1>9. Count("macro")' <= MaxCalls
  <2>1. At(where', "macro") = At(where, "macro")
    <3>1. "pause" \in Calls
      BY DEF Calls
    <3>2. \A e : e # "pause" => At(Append(where, "pause"), e) = At(where, e)
      BY <1>1, <3>1, AtAppend
    <3> QED
      BY <1>2, <3>2
  <2> QED
    BY <2>1 DEF StackInv, StackTypes, Count, At
<1>10. Levels(frames', PauseLevel')
  <2>1. f.lvl = PauseLevel + (IF IsStop(f) THEN 1 ELSE 0)
    BY <1>4, <1>5
  <2>2. Levels(Append(frames, f), f.lvl)
    BY <1>1, <1>5, <2>1, LevelsPush
  <2> QED
    BY <1>2, <1>4, <1>8, <2>2
<1>11. OnTop'
  <2>1. frames' # <<>> /\ frames'[Len(frames')] = f
    BY <1>1, <1>2, <1>5, TopOfAppend
  <2> QED
    BY <1>2, <1>5, <2>1 DEF OnTop, InLaunch, Returns
<1>12. level' \in Nat
  BY <1>2 DEF StackInv, StackTypes
<1> QED
  BY <1>6, <1>8, <1>9, <1>10, <1>11, <1>12 DEF StackInv, StackTypes

\* The stop on top is left.
LEMMA StopLeft ==
  ASSUME StackInv, frames # <<>>, IsStop(frames[Len(frames)]),
         PauseLevel < frames[Len(frames)].lvl,
         frames' = Front(frames), where' = Front(where), UNCHANGED pauses
  PROVE  /\ Balanced(frames', where') /\ Levels(frames', PauseLevel')
         /\ frames' # <<>> /\ ~IsStop(frames'[Len(frames')])
         /\ Count("macro")' <= MaxCalls
         /\ Len(where') \in Nat
PROOF
<1>1. /\ Balanced(frames, where) /\ Levels(frames, PauseLevel)
      /\ frames \in Seq(Frame) /\ where \in Seq(Calls) /\ PauseLevel \in Nat
      /\ Len(where) \in Nat
  BY StackFacts
<1>2. /\ Balanced(frames', where')
      /\ Len(frames) > 1 /\ ~IsStop(frames[Len(frames) - 1])
      /\ where # <<>>
  BY <1>1, PopStop
<1>3. Levels(frames', PauseLevel')
  <2>1. PauseLevel <= PauseLevel
    BY <1>1
  <2>2. Levels(Front(frames), PauseLevel)
    BY <1>1, <2>1, LevelsPop
  <2> QED
    BY <2>2 DEF PauseLevel
<1>4. frames' # <<>> /\ ~IsStop(frames'[Len(frames')])
  BY <1>1, <1>2, TopOfFront
<1>5. Len(where) - 1 \in 0 .. Len(where) /\ where' = SubSeq(where, 1, Len(where) - 1)
  <2>1. Len(where) # 0
    BY <1>1, <1>2, EmptySeq
  <2> QED
    BY <1>1, <2>1 DEF Front
<1>6. Count("macro")' <= MaxCalls
  <2>1. Cardinality(At(where, "macro")) <= MaxCalls
    BY DEF StackInv, StackTypes, Count, At
  <2>2. Cardinality(At(where', "macro")) <= MaxCalls
    BY <1>1, <1>5, <2>1, CountCut
  <2> QED
    BY <2>2 DEF Count, At
<1>7. Len(where') \in Nat
  BY <1>2, BalancedShape
<1> QED
  BY <1>2, <1>3, <1>4, <1>6, <1>7

\* The launch on top ends, with as many pauses or fewer.
LEMMA LaunchLeft ==
  ASSUME StackInv, frames # <<>>, ~IsStop(frames[Len(frames)]),
         frames' = Front(frames),
         where' = SubSeq(where, 1, frames[Len(frames)].depth),
         PauseLevel' \in Nat, PauseLevel' <= PauseLevel
  PROVE  /\ Balanced(frames', where')
         /\ Levels(frames', PauseLevel) /\ Levels(frames', PauseLevel')
         /\ Count("macro")' <= MaxCalls
PROOF
<1>1. /\ Balanced(frames, where) /\ Levels(frames, PauseLevel)
      /\ frames \in Seq(Frame) /\ where \in Seq(Calls) /\ PauseLevel \in Nat
      /\ Len(where) \in Nat
  BY StackFacts
<1>2. Balanced(frames', where')
  BY <1>1, PopLaunch
<1>3. Levels(frames', PauseLevel) /\ Levels(frames', PauseLevel')
  <2>1. PauseLevel <= PauseLevel
    BY <1>1
  <2> QED
    BY <1>1, <2>1, LevelsPop
<1>4. frames[Len(frames)].depth \in 0 .. Len(where)
  <2>1. frames[Len(frames)].depth \in Nat
    BY StackFacts, FrameKinds
  <2>2. Len(frames) \in DOMAIN frames
    <3>1. /\ Len(frames) \in Nat /\ DOMAIN frames = 1 .. Len(frames)
          /\ Len(frames) # 0
      BY <1>1, LenProperties, EmptySeq
    <3> QED
      BY <3>1
  <2>3. Launched(frames, where, Len(frames))
    BY <1>1, <2>2 DEF Balanced
  <2> QED
    BY <1>1, <2>1, <2>3 DEF Launched
<1>5. Count("macro")' <= MaxCalls
  <2>1. Cardinality(At(where, "macro")) <= MaxCalls
    BY DEF StackInv, StackTypes, Count, At
  <2>2. Cardinality(At(where', "macro")) <= MaxCalls
    BY <1>1, <1>4, <2>1, CountCut
  <2> QED
    BY <2>2 DEF Count, At
<1> QED
  BY <1>2, <1>3, <1>5

LEMMA GoOnKeeps == StackInv /\ GoOn => StackInv'
PROOF
<1> SUFFICES ASSUME StackInv, GoOn PROVE StackInv'
  OBVIOUS
<1>1. /\ frames # <<>> /\ IsStop(frames[Len(frames)])
      /\ frames[Len(frames)] \in Frame /\ Last(frames) = frames[Len(frames)]
      /\ PauseLevel \in Nat /\ Levels(frames, PauseLevel)
  BY StackFacts DEF GoOn, StackInv, OnTop
<1>2. PauseLevel < frames[Len(frames)].lvl
  <2>1. frames[Len(frames)].lvl \in Nat
    BY <1>1, FrameKinds
  <2>2. PauseLevel <= frames[Len(frames)].lvl
    BY <1>1 DEF Levels
  <2>3. PauseLevel # frames[Len(frames)].lvl
    BY <1>1 DEF GoOn
  <2> QED
    BY <1>1, <2>1, <2>2, <2>3
<1>3. /\ frames' = Front(frames) /\ where' = Front(where) /\ UNCHANGED pauses
  BY DEF GoOn
<1>4. /\ Balanced(frames', where') /\ Levels(frames', PauseLevel')
      /\ frames' # <<>> /\ ~IsStop(frames'[Len(frames')])
      /\ Count("macro")' <= MaxCalls
      /\ Len(where') \in Nat
  BY <1>1, <1>2, <1>3, StopLeft
<1>5. pc' \in Returns \cup {"unwind"}
  <2>1. Last(frames).ret \in Returns
    BY <1>1, FrameKinds
  <2> QED
    BY <2>1 DEF GoOn, Goto
<1>6. OnTop'
  BY <1>4, <1>5 DEF OnTop, InLaunch, Returns
<1>7. level' \in Nat
  <2>1. level \in Nat
    BY DEF StackInv, StackTypes
  <2> QED
    BY <1>4, <2>1 DEF GoOn
<1>8. StackTypes'
  BY <1>3, <1>4, <1>7 DEF StackInv, StackTypes
<1> QED
  BY <1>4, <1>6, <1>8 DEF StackInv

LEMMA FinishKeeps == StackInv /\ Finish => StackInv'
PROOF
<1> SUFFICES ASSUME StackInv, Finish PROVE StackInv'
  OBVIOUS
<1>1. /\ frames # <<>> /\ ~IsStop(frames[Len(frames)])
      /\ Len(where) = frames[Len(frames)].depth
  BY DEF Finish, StackInv, OnTop, InLaunch
<1>2. /\ frames' = Front(frames) /\ UNCHANGED <<where, pauses, level>>
      /\ pc' = NextPc(frames')
  BY DEF Finish, Goto
<1>3. where' = SubSeq(where, 1, frames[Len(frames)].depth)
  BY <1>1, <1>2, StackFacts, SubSeqFull
<1>4. PauseLevel' = PauseLevel /\ PauseLevel' \in Nat /\ PauseLevel' <= PauseLevel
  BY <1>2, StackFacts DEF PauseLevel
<1>5. /\ Balanced(frames', where')
      /\ Levels(frames', PauseLevel')
      /\ Count("macro")' <= MaxCalls
  BY <1>1, <1>2, <1>3, <1>4, LaunchLeft
<1>6. OnTop'
  <2>1. CASE frames' = <<>>
    BY <1>2, <2>1 DEF NextPc, OnTop, InLaunch, Returns
  <2>2. CASE frames' # <<>>
    <3>1. Last(frames') = frames'[Len(frames')]
      BY DEF Last
    <3>2. CASE IsStop(frames'[Len(frames')])
      BY <1>2, <2>2, <3>1, <3>2 DEF NextPc, OnTop, InLaunch, Returns
    <3>3. CASE ~IsStop(frames'[Len(frames')])
      BY <1>2, <2>2, <3>1, <3>3 DEF NextPc, OnTop, InLaunch, Returns
    <3> QED
      BY <3>2, <3>3
  <2> QED
    BY <2>1, <2>2
<1>7. StackTypes'
  BY <1>2, <1>5 DEF StackInv, StackTypes
<1> QED
  BY <1>5, <1>6, <1>7 DEF StackInv

LEMMA UnwindKeeps == StackInv /\ Unwind => StackInv'
PROOF
<1> SUFFICES ASSUME StackInv, Unwind PROVE StackInv'
  OBVIOUS
<1>1. /\ frames # <<>> /\ frames' = Front(frames)
      /\ pc = "unwind" /\ pc' = "unwind" /\ UNCHANGED level
      /\ Last(frames) = frames[Len(frames)]
  BY StackFacts DEF Unwind
<1>2. CASE IsStop(frames[Len(frames)])
  <2>1. where' = Front(where) /\ UNCHANGED pauses
    BY <1>1, <1>2 DEF Unwind
  <2>2. PauseLevel < frames[Len(frames)].lvl
    BY <1>1, <1>2 DEF StackInv, OnTop
  <2>3. /\ Balanced(frames', where') /\ Levels(frames', PauseLevel')
        /\ frames' # <<>> /\ ~IsStop(frames'[Len(frames')])
        /\ Count("macro")' <= MaxCalls
    BY <1>1, <1>2, <2>1, <2>2, StopLeft
  <2>4. OnTop'
    BY <1>1, <2>3 DEF OnTop, InLaunch, Returns
  <2>5. StackTypes'
    BY <1>1, <2>1, <2>3 DEF StackInv, StackTypes
  <2> QED
    BY <2>3, <2>4, <2>5 DEF StackInv
<1>3. CASE ~IsStop(frames[Len(frames)])
  <2>1. /\ where' = SubSeq(where, 1, frames[Len(frames)].depth)
        /\ IF pauses # <<>> THEN pauses' = Front(pauses) ELSE UNCHANGED pauses
    BY <1>1, <1>3 DEF Unwind
  <2>2. /\ pauses \in Seq(0 .. MaxCalls) /\ PauseLevel = Len(pauses)
        /\ PauseLevel \in Nat
    BY StackFacts DEF PauseLevel
  <2>3. /\ pauses' \in Seq(0 .. MaxCalls) /\ PauseLevel' \in Nat
        /\ PauseLevel' <= PauseLevel
        /\ PauseLevel' < PauseLevel \/ PauseLevel' = 0
    <3>1. CASE pauses = <<>>
      <4>1. UNCHANGED pauses
        BY <2>1, <3>1
      <4>2. PauseLevel = 0 /\ PauseLevel' = PauseLevel
        BY <2>2, <3>1, <4>1, EmptySeq DEF PauseLevel
      <4> QED
        BY <2>2, <4>1, <4>2
    <3>2. CASE pauses # <<>>
      <4>1. Len(pauses) \in Nat /\ Len(pauses) # 0
        BY <2>2, <3>2, EmptySeq
      <4>2. Len(pauses) - 1 \in 0 .. Len(pauses)
        BY <4>1
      <4>3. pauses' = SubSeq(pauses, 1, Len(pauses) - 1)
        BY <2>1, <3>2 DEF Front
      <4>4. pauses' \in Seq(0 .. MaxCalls) /\ Len(pauses') = Len(pauses) - 1
        BY <2>2, <4>2, <4>3, AtCut
      <4>5. PauseLevel' = PauseLevel - 1 /\ PauseLevel # 0
        BY <2>2, <4>1, <4>4 DEF PauseLevel
      <4> QED
        BY <2>2, <4>4, <4>5
    <3> QED
      BY <3>1, <3>2
  <2>4. /\ Balanced(frames', where')
        /\ Levels(frames', PauseLevel) /\ Levels(frames', PauseLevel')
        /\ Count("macro")' <= MaxCalls
    BY <1>1, <1>3, <2>1, <2>3, LaunchLeft
  <2>5. ASSUME frames' # <<>>, IsStop(frames'[Len(frames')])
        PROVE  PauseLevel' < frames'[Len(frames')].lvl
    <3>1. /\ Len(frames') \in Nat /\ Len(frames') # 0 /\ DOMAIN frames' = 1 .. Len(frames')
          /\ \A i \in 1 .. Len(frames') : frames'[i] \in Frame
      BY <2>4, <2>5, BalancedShape, EmptySeq
    <3>2. Len(frames') \in 1 .. Len(frames') /\ Len(frames') \in DOMAIN frames'
      BY <3>1
    <3>3. frames'[Len(frames')].lvl \in Nat
      BY <3>1, <3>2, FrameKinds
    <3>4. /\ frames'[Len(frames')].lvl > 0
          /\ PauseLevel <= frames'[Len(frames')].lvl
      BY <2>4, <2>5, <3>2 DEF Levels
    <3> QED
      BY <2>2, <2>3, <3>3, <3>4
  <2>6. OnTop'
    BY <1>1, <2>5 DEF OnTop, InLaunch, Returns
  <2>7. StackTypes'
    BY <1>1, <2>3, <2>4 DEF StackInv, StackTypes
  <2> QED
    BY <2>4, <2>6, <2>7 DEF StackInv
<1> QED
  BY <1>2, <1>3

LEMMA CurrentNat ==
  ASSUME StackInv, Flags
  PROVE  Current \in Nat
PROOF
<1>1. /\ Len(where) \in Nat /\ Balanced(frames, where)
      /\ StopAt(frames) \in SUBSET (1 .. Len(frames)) /\ Len(frames) \in Nat
      /\ Pauses(where) \in SUBSET (1 .. Len(where))
  BY StackFacts, BalancedShape
<1>2. CASE ~interrupted
  BY <1>1, <1>2 DEF Current
<1>3. CASE interrupted
  <2>1. StopAt(frames) # {}
    BY <1>3 DEF Flags, Stops, StopAt
  <2>2. IsFiniteSet(StopAt(frames)) /\ IsFiniteSet(Pauses(where))
    BY <1>1, UptoAll
  <2>3. Cardinality(Pauses(where)) # 0
    BY <1>1, <2>1, <2>2, FS_EmptySet DEF Balanced
  <2>4. Pauses(where) # {}
    BY <2>3, FS_EmptySet
  <2>5. Len(where) # 0
    BY <1>1, <2>4
  <2>6. Len(where) - 1 \in Nat
    BY <1>1, <2>5
  <2> QED
    BY <1>3, <2>6 DEF Current
<1> QED
  BY <1>2, <1>3

Console ==
  \/ Run \/ Resume \/ Show \/ Store
  \/ \E kind \in Steps : Step(kind)
  \/ \E quits \in BOOLEAN : Abort(quits)
  \/ CallbackChecks \/ CallbackStores

LEMMA ConsoleKeeps == StackInv /\ Flags /\ Console => StackInv' /\ Flags'
PROOF
<1> SUFFICES ASSUME StackInv, Flags, Console PROVE StackInv' /\ Flags'
  OBVIOUS
<1>1. UNCHANGED <<stack, pc, back>>
  BY DEF Console, Run, Resume, Show, Store, Step, Abort, CallbackChecks,
         CallbackStores, Typing
<1>2. level' \in Nat
  <2>1. level \in Nat /\ Current \in Nat
    BY CurrentNat DEF StackInv, StackTypes
  <2>2. level' \in {level, Current}
    BY DEF Console, Run, Resume, Show, Store, Step, Abort, CallbackChecks,
           CallbackStores, manager
  <2> QED
    BY <2>1, <2>2
<1>3. UNCHANGED <<interrupted, pauses, where, frames>>
  BY <1>1 DEF stack
<1>4. StackTypes'
  BY <1>2, <1>3 DEF StackInv, StackTypes, Count
<1>5. PauseLevel' = PauseLevel
  BY <1>3 DEF PauseLevel
<1>6. Balanced(frames', where') /\ Levels(frames', PauseLevel')
  BY <1>3, <1>5 DEF StackInv
<1>7. OnTop'
  BY <1>1, <1>3, <1>5 DEF StackInv, OnTop
<1>8. enabled' \in BOOLEAN
  <2>1. CASE \E quits \in BOOLEAN : Abort(quits)
    BY <2>1 DEF Abort, Flags
  <2>2. CASE ~ \E quits \in BOOLEAN : Abort(quits)
    <3>1. UNCHANGED enabled
      BY <2>2 DEF Console, Run, Resume, Show, Store, Step, CallbackChecks,
                  CallbackStores, manager
    <3> QED
      BY <3>1 DEF Flags
  <2> QED
    BY <2>1, <2>2
<1>9. Stops' = Stops
  BY <1>3 DEF Stops
<1>10. Flags'
  BY <1>3, <1>8, <1>9 DEF Flags
<1> QED
  BY <1>4, <1>6, <1>7, <1>10 DEF StackInv

LEMMA StopsOfFront ==
  ASSUME NEW fs \in Seq(Frame), fs # <<>>, ~IsStop(fs[Len(fs)])
  PROVE  StopAt(Front(fs)) = StopAt(fs)
PROOF
<1>1. /\ Len(fs) \in Nat /\ Len(fs) >= 1
      /\ StopAt(Front(fs)) = StopAt(fs) \cap (1 .. Len(fs) - 1)
  BY StopFront
<1>2. DOMAIN fs = 1 .. Len(fs)
  BY LenProperties
<1>3. ASSUME NEW i \in StopAt(fs) PROVE i \in 1 .. Len(fs) - 1
  <2>1. i \in 1 .. Len(fs) /\ i # Len(fs)
    BY <1>2, <1>3 DEF StopAt
  <2>2. Len(fs) \in Nat
    BY <1>1
  <2> QED
    BY <2>1, <2>2
<1> QED
  BY <1>1, <1>3

\* The execution is only interrupted in a stop.
LEMMA InterpreterFlags ==
  ASSUME StackInv, StackInv', Flags, Interpreter
  PROVE  Flags'
PROOF
<1>1. UNCHANGED enabled
  BY DEF Interpreter, Launch, EnterBody, Check, Statement, Simple, Block, Call, Fail,
         ExecResume, ExecAbort, After, End, Leave, Caught, ErrorStops, Thrown, Stop,
         GoOn, Finish, Unwind, MainLoop, manager
<1>2. interrupted' \in BOOLEAN
  BY DEF Flags, Interpreter, Launch, EnterBody, Check, Statement, Simple, Block, Call,
         Fail, ExecResume, ExecAbort, After, End, Leave, Caught, ErrorStops, Thrown,
         Stop, GoOn, Finish, Unwind, MainLoop, stack
<1>3. ASSUME interrupted' PROVE Stops' # {}
  <2>1. CASE Stop
    <3>1. frames' # <<>> /\ IsStop(frames'[Len(frames')])
      BY <2>1 DEF Stop, Goto, StackInv, OnTop, InLaunch, Returns
    <3>2. frames' \in Seq(Frame)
      BY DEF StackInv, Balanced
    <3>3. Len(frames') \in DOMAIN frames'
      <4>1. Len(frames') \in Nat /\ Len(frames') # 0 /\ DOMAIN frames' = 1 .. Len(frames')
        BY <3>1, <3>2, LenProperties, EmptySeq
      <4> QED
        BY <4>1
    <3> QED
      BY <3>1, <3>3 DEF Stops
  <2>2. CASE GoOn
    BY <1>3, <2>2 DEF GoOn
  <2>3. CASE Launch
    <3>1. /\ interrupted
          /\ frames' = Append(frames, [kind |-> "launch", cmd |-> Head(queue),
                                       lvl |-> PauseLevel, depth |-> Len(where)])
      BY <1>3, <2>3 DEF Launch
    <3>2. PICK i \in DOMAIN frames : IsStop(frames[i])
      BY <3>1 DEF Flags, Stops
    <3>3. frames \in Seq(Frame) /\ frames' \in Seq(Frame)
      BY DEF StackInv, Balanced
    <3>4. /\ Len(frames) \in Nat /\ DOMAIN frames = 1 .. Len(frames)
          /\ DOMAIN frames' = 1 .. Len(frames')
      BY <3>3, LenProperties
    <3>5. Len(frames') = Len(frames) + 1 /\ frames'[i] = frames[i]
      BY <3>1, <3>2, <3>3, <3>4, AppendProperties
    <3>6. i \in DOMAIN frames'
      BY <3>2, <3>4, <3>5
    <3> QED
      BY <3>2, <3>5, <3>6 DEF Stops
  <2>4. CASE Finish \/ Unwind
    <3>1. /\ frames # <<>> /\ frames' = Front(frames)
          /\ Last(frames) = frames[Len(frames)] /\ frames \in Seq(Frame)
      BY <2>4, StackFacts DEF Finish, Unwind, StackInv, OnTop, InLaunch
    <3>2. interrupted /\ ~IsStop(frames[Len(frames)])
      BY <1>3, <2>4, <3>1 DEF Finish, Unwind, StackInv, OnTop, InLaunch
    <3>3. StopAt(frames') = StopAt(frames)
      BY <3>1, <3>2, StopsOfFront
    <3> QED
      BY <3>2, <3>3 DEF Flags, Stops, StopAt
  <2>5. CASE ~(Stop \/ GoOn \/ Launch \/ Finish \/ Unwind)
    <3>1. UNCHANGED <<interrupted, frames>>
      BY <2>5 DEF Interpreter, EnterBody, Check, Statement, Simple, Block, Call, Fail,
         ExecResume, ExecAbort, After, End, Leave, Caught, ErrorStops, Thrown,
         MainLoop, stack
    <3> QED
      BY <1>3, <3>1 DEF Flags, Stops
  <2> QED
    BY <2>1, <2>2, <2>3, <2>4, <2>5
<1> QED
  BY <1>1, <1>2, <1>3 DEF Flags

LEMMA ConsoleInputs ==
  ASSUME Inputs, Flags, Console
  PROVE  Inputs'
PROOF
<1>1. console' \in Commands \cup {"prompt", "wait", "left"}
  BY DEF Inputs, Commands, Console, Run, Resume, Show, Store, Step, Abort,
         CallbackChecks, CallbackStores, Typing, Prompt
<1>2. queue' \in Seq(Commands)
  <2>1. CASE Store
    <3>1. console \in Commands
      BY <2>1 DEF Store, Commands
    <3>2. Append(queue, console) \in Seq(Commands)
      BY <3>1, AppendProperties DEF Inputs
    <3> QED
      BY <2>1, <3>2 DEF Store, Inputs
  <2>2. CASE CallbackStores
    <3>1. Append(queue, "run") \in Seq(Commands)
      BY AppendProperties DEF Inputs, Commands
    <3> QED
      BY <2>2, <3>1 DEF CallbackStores
  <2>3. CASE ~(Store \/ CallbackStores)
    BY <2>3 DEF Inputs, Console, Run, Resume, Show, Step, Abort, CallbackChecks, Typing
  <2> QED
    BY <2>1, <2>2, <2>3
<1>3. gui' \in {"idle", "checked"}
  BY DEF Inputs, Console, Run, Resume, Show, Store, Step, Abort,
         CallbackChecks, CallbackStores, Typing, inputs
<1>4. typed' \in 0 .. MaxTyped
  <2>1. MaxTyped \in Nat /\ typed \in 0 .. MaxTyped
    BY DebuggerAssumption DEF Inputs
  <2>2. UNCHANGED typed \/ (typed < MaxTyped /\ typed' = typed + 1)
    BY DEF Console, Run, Resume, Show, Store, Step, Abort,
           CallbackChecks, CallbackStores, Typing, inputs
  <2> QED
    BY <2>1, <2>2
<1>5. called' \in 0 .. MaxCallbacks
  <2>1. MaxCallbacks \in Nat /\ called \in 0 .. MaxCallbacks
    BY DebuggerAssumption DEF Inputs
  <2>2. UNCHANGED called \/ (called < MaxCallbacks /\ called' = called + 1)
    BY DEF Console, Run, Resume, Show, Store, Step, Abort,
           CallbackChecks, CallbackStores, Typing, inputs
  <2> QED
    BY <2>1, <2>2
<1>6. action' \in Steps \cup {"Continue", "Aborted"}
  BY DEF Inputs, Console, Run, Resume, Show, Store, Step, Abort,
         CallbackChecks, CallbackStores, Typing, manager, NotAborted
<1>7. asked'.kind \in Steps \cup {"nothing", "abort"} /\ asked'.since \in {"none", "catch"}
  BY DEF Inputs, Console, Run, Resume, Show, Store, Step, Abort,
         CallbackChecks, CallbackStores, Typing, Nothing, Asked, AskedNoAbort
<1> QED
  BY <1>1, <1>2, <1>3, <1>4, <1>5, <1>6, <1>7 DEF Inputs

LEMMA InterpreterInputs ==
  ASSUME Inputs, Flags, Interpreter
  PROVE  Inputs'
PROOF
<1>1. console' \in Commands \cup {"prompt", "wait", "left"}
  BY DEF Inputs, Interpreter, Launch, EnterBody, Check, Statement, Simple, Block, Call,
         Fail, ExecResume, ExecAbort, After, End, Leave, Caught, ErrorStops, Thrown,
         Stop, GoOn, Finish, Unwind, MainLoop, Released, Prompt
<1>2. queue' \in Seq(Commands)
  <2>1. CASE Launch
    BY <2>1, HeadTailProperties DEF Launch, Inputs
  <2>2. CASE ~Launch
    BY <2>2 DEF Inputs, Interpreter, EnterBody, Check, Statement, Simple, Block, Call,
         Fail, ExecResume, ExecAbort, After, End, Leave, Caught, ErrorStops, Thrown,
         Stop, GoOn, Finish, Unwind, MainLoop
  <2> QED
    BY <2>1, <2>2
<1>3. UNCHANGED inputs
  BY DEF Interpreter, Launch, EnterBody, Check, Statement, Simple, Block, Call,
         Fail, ExecResume, ExecAbort, After, End, Leave, Caught, ErrorStops, Thrown,
         Stop, GoOn, Finish, Unwind, MainLoop
<1>4. action' \in Steps \cup {"Continue", "Aborted"}
  <2>1. action' \in {action, NotAborted, "Continue", "StepOut", "Aborted"}
    BY DEF Interpreter, Launch, EnterBody, Check, Statement, Simple, Block, Call,
         Fail, ExecResume, ExecAbort, After, End, Leave, Caught, ErrorStops, Thrown,
         Stop, GoOn, Finish, Unwind, MainLoop, manager
  <2> QED
    BY <2>1 DEF NotAborted, Inputs, Steps
<1>5. asked'.kind \in Steps \cup {"nothing", "abort"} /\ asked'.since \in {"none", "catch"}
  <2>1. CASE GoOn
    <3>1. asked' = asked \/ \E d : asked' = Asked("StepOut", d)
      BY <2>1 DEF GoOn
    <3> QED
      BY <3>1 DEF Asked, Steps, Inputs
  <2>2. CASE Caught
    <3>1. \/ asked' = asked
          \/ asked' = [kind |-> asked.kind, depth |-> asked.depth, since |-> "catch"]
      BY <2>2 DEF Caught
    <3> QED
      BY <3>1 DEF Inputs
  <2>3. CASE ~GoOn /\ ~Caught
    <3>1. asked' \in {asked, Nothing}
      BY <2>3 DEF Interpreter, Launch, EnterBody, Check, Statement, Simple, Block, Call,
         Fail, ExecResume, ExecAbort, After, End, Leave, ErrorStops, Thrown, Stop,
         Finish, Unwind, MainLoop, AskedNoAbort
    <3> QED
      BY <3>1 DEF Inputs, Nothing, Asked
  <2> QED
    BY <2>1, <2>2, <2>3
<1> QED
  BY <1>1, <1>2, <1>3, <1>4, <1>5 DEF Inputs, inputs

LEMMA InitIInv == Init => IInv
PROOF
<1> SUFFICES ASSUME Init PROVE IInv
  OBVIOUS
<1>1. where = <<>> /\ frames = <<>> /\ pauses = <<>> /\ queue = <<>> /\ pc = "main"
  BY DEF Init
<1>2. /\ frames \in Seq(Frame) /\ where \in Seq(Calls)
      /\ pauses \in Seq(0 .. MaxCalls) /\ queue \in Seq(Commands)
      /\ Len(where) = 0 /\ Len(frames) = 0 /\ PauseLevel = 0
      /\ DOMAIN where = {} /\ DOMAIN frames = {}
  BY <1>1, EmptySeq DEF PauseLevel
<1>3. Pauses(where) = {} /\ StopAt(frames) = {} /\ At(where, "macro") = {}
  BY <1>2 DEF Pauses, At, StopAt
<1>4. Cardinality({}) = 0
  BY FS_EmptySet
<1>5. Balanced(frames, where)
  BY <1>1, <1>2, <1>3 DEF Balanced
<1>6. Levels(frames, PauseLevel)
  BY <1>1, <1>2 DEF Levels
<1>7. StackTypes
  <2>1. Count("macro") = 0
    BY <1>3, <1>4 DEF Count, At
  <2> QED
    BY <1>2, <2>1, DebuggerAssumption DEF StackTypes, Init
<1>8. OnTop
  BY <1>1 DEF OnTop, InLaunch, Returns
<1>9. Flags
  BY DEF Flags, Init
<1>10. Inputs
  BY <1>2, DebuggerAssumption DEF Inputs, Init, Nothing, Asked, Commands, Steps
<1> QED
  BY <1>5, <1>6, <1>7, <1>8, <1>9, <1>10 DEF IInv, StackInv

LEMMA InterpreterKeeps ==
  ASSUME StackInv, queue \in Seq(Commands), Interpreter
  PROVE  StackInv'
PROOF
<1>1. \/ Quiet \/ Launch \/ Call \/ ExecResume \/ Leave \/ Caught
      \/ Thrown \/ Stop \/ GoOn \/ Finish \/ Unwind \/ MainLoop
  BY DEF Interpreter, Quiet
<1> QED
  BY <1>1, QuietKeeps, LaunchKeeps, CallKeeps, ResumeKeeps, LeaveKeeps, CaughtKeeps,
     StopKeeps, GoOnKeeps, FinishKeeps, UnwindKeeps, MainLoopKeeps

LEMMA NextIInv == IInv /\ [Next]_vars => IInv'
PROOF
<1> SUFFICES ASSUME IInv, [Next]_vars PROVE IInv'
  OBVIOUS
<1>1. StackInv /\ Flags /\ Inputs /\ queue \in Seq(Commands)
  BY DEF IInv, Inputs
<1>2. CASE Interpreter
  <2>1. StackInv'
    BY <1>1, <1>2, InterpreterKeeps
  <2> QED
    BY <1>1, <1>2, <2>1, InterpreterFlags, InterpreterInputs DEF IInv
<1>3. CASE Console
  BY <1>1, <1>3, ConsoleKeeps, ConsoleInputs DEF IInv
<1>4. CASE UNCHANGED vars
  <2>1. UNCHANGED <<pauses, where, frames, level>> /\ UNCHANGED <<pc, back>>
        /\ UNCHANGED <<interrupted, enabled, action, asked>>
        /\ UNCHANGED <<console, queue, gui, typed, called>>
    BY <1>4 DEF vars, inputs, manager, stack
  <2>2. OnTop'
    BY <1>1, <2>1 DEF StackInv, OnTop, PauseLevel
  <2>3. StackInv'
    BY <1>1, <2>1, <2>2, QuietStep
  <2>4. Flags' /\ Inputs'
    BY <1>1, <2>1 DEF Flags, Inputs, Stops
  <2> QED
    BY <2>3, <2>4 DEF IInv
<1> QED
  BY <1>2, <1>3, <1>4 DEF Next, Console

\* The calls have a pause for each stop, there are no more pauses than stops,
\* and nothing is left of either in the main loop, however resume, abort and
\* errors leave calls, launches and stops that are in one another.
THEOREM StopsCountedCorrect == Spec => []StopsCounted
PROOF
<1>1. IInv => StopsCounted
  <2> SUFFICES ASSUME IInv PROVE StopsCounted
    OBVIOUS
  <2>1. StackInv /\ Flags /\ Inputs
    BY DEF IInv
  <2>2. DebugTypeOK
    BY <2>1, StackFacts DEF DebugTypeOK, Flags, Inputs, StackInv, StackTypes, Calls,
       Commands
  <2>3. Count("pause") = Cardinality(Stops)
    BY <2>1 DEF StackInv, Balanced, Count, Stops, StopAt, Pauses, At
  <2>4. PauseLevel <= Cardinality(Stops)
    BY <2>1, StackFacts, LevelsBound DEF Stops, StopAt
  <2>5. interrupted => Stops # {}
    BY <2>1 DEF Flags
  <2>6. ASSUME pc = "main" PROVE frames = <<>> /\ where = <<>> /\ pauses = <<>>
    <3>1. frames = <<>>
      BY <2>1, <2>6 DEF StackInv, OnTop
    <3>2. where = <<>>
      BY <2>1, <3>1 DEF StackInv, Balanced
    <3>3. Len(pauses) = 0 /\ pauses \in Seq(0 .. MaxCalls)
      BY <2>1, <3>1, StackFacts DEF Levels, PauseLevel
    <3>4. pauses = <<>>
      BY <3>3, EmptySeq
    <3> QED
      BY <3>1, <3>2, <3>4
  <2> QED
    BY <2>2, <2>3, <2>4, <2>5, <2>6 DEF StopsCounted
<1> QED
  BY <1>1, InitIInv, NextIInv, PTL DEF Spec


-----------------------------------------------------------------------------
(* Steps.  What makes a step stop in time is that the interpreter is       *)
(* nowhere below the level the step was asked for without having looked:   *)
(* only a return and an error go down, and After and ErrorStops follow.    *)
(* An error that a caller catches goes down without a look, and since      *)
(* says so; then the fields alone make After stop.                         *)

Stepping == asked.kind \in Steps

\* A step is asked for from the prompt, which quit takes away.
Prompted ==
  /\ console = "prompt" => enabled
  /\ Stepping => enabled

\* The fields still hold the step, until it stops or everything is aborted,
\* and the stop it was asked in is still there when it is waited in.
Held ==
  /\ asked.depth \in Nat
  /\ pc \notin {"stop", "unwind"} => action = asked.kind /\ level = asked.depth
  /\ pc = "wait" => interrupted

Above ==
  /\ pc = "returned" => Current >= asked.depth - 1
  /\ pc \in {"thrown", "done"} => Current >= asked.depth \/ where = <<>>
  /\ pc \notin {"returned", "error", "thrown", "done", "stop", "unwind"} =>
       \/ Current >= asked.depth
       \/ where = <<>> /\ asked.depth = 1

StepInv == Prompted /\ (Stepping => Held /\ (asked.since = "catch" \/ Above))

LEMMA CurrentFacts ==
  ASSUME StackInv, Flags
  PROVE  /\ Len(where) \in Nat
         /\ Current \in Nat
         /\ interrupted => where # <<>> /\ Current = Len(where) - 1
         /\ ~interrupted => Current = Len(where)
PROOF
<1>1. Len(where) \in Nat /\ Current \in Nat
  BY StackFacts, CurrentNat
<1>2. interrupted => Current = Len(where) - 1
  BY DEF Current
<1>3. ASSUME interrupted PROVE where # <<>>
  <2>1. CASE where = <<>>
    <3>1. Len(where) = 0
      BY <2>1, EmptySeq
    <3>2. Current = 0 - 1
      BY <1>2, <1>3, <3>1
    <3> QED
      BY <1>1, <3>2
  <2> QED
    BY <2>1
<1> QED
  BY <1>1, <1>2, <1>3 DEF Current

LEMMA CurrentSame ==
  ASSUME UNCHANGED <<interrupted, where>>
  PROVE  Current' = Current
PROOF
  BY DEF Current

LEMMA PromptedKept ==
  ASSUME Flags, Prompted, Console \/ Interpreter
  PROVE  Prompted'
PROOF
<1>1. CASE \E quits \in BOOLEAN : Abort(quits)
  <2>1. console' = "abort" /\ asked'.kind = "abort"
    BY <1>1 DEF Abort, Typing, Asked
  <2> QED
    BY <2>1 DEF Prompted, Stepping, Steps
<1>2. CASE \E kind \in Steps : Step(kind)
  <2>1. console = "prompt" /\ console' = "resume" /\ UNCHANGED enabled
    BY <1>2 DEF Step, Typing
  <2> QED
    BY <2>1 DEF Prompted
<1>3. CASE ~ (\E quits \in BOOLEAN : Abort(quits)) /\ ~ (\E kind \in Steps : Step(kind))
  <2>1. UNCHANGED enabled
    BY <1>3 DEF Console, Run, Resume, Show, Store, CallbackChecks, CallbackStores,
         manager, Interpreter, Launch, EnterBody, Check, Statement, Simple, Block,
         Call, Fail, ExecResume, ExecAbort, After, End, Leave, Caught, ErrorStops,
         Thrown, Stop, GoOn, Finish, Unwind, MainLoop
  <2>2. console' \in {console, Prompt, "run", "resume", "print", "wait"}
    BY <1>3 DEF Console, Run, Resume, Show, Store, CallbackChecks, CallbackStores,
         Typing, Released, Interpreter, Launch, EnterBody, Check, Statement, Simple,
         Block, Call, Fail, ExecResume, ExecAbort, After, End, Leave, Caught,
         ErrorStops, Thrown, Stop, GoOn, Finish, Unwind, MainLoop
  <2>3. Stepping' => Stepping
    <3>1. CASE GoOn
      BY <3>1 DEF GoOn, Stepping, Steps
    <3>2. CASE Caught
      BY <3>2 DEF Caught, Stepping
    <3>3. CASE ~GoOn /\ ~Caught
      <4>1. asked' \in {asked, Nothing}
        BY <1>3, <3>3 DEF Console, Run, Resume, Show, Store, CallbackChecks,
           CallbackStores, Interpreter, Launch, EnterBody, Check, Statement, Simple,
           Block, Call, Fail, ExecResume, ExecAbort, After, End, Leave, ErrorStops,
           Thrown, Stop, Finish, Unwind, MainLoop, AskedNoAbort
      <4> QED
        BY <4>1 DEF Stepping, Steps, Nothing, Asked
    <3> QED
      BY <3>1, <3>2, <3>3
  <2>4. console' = "prompt" => enabled
    BY <2>2 DEF Prompt, Prompted
  <2> QED
    BY <2>1, <2>3, <2>4 DEF Prompted
<1> QED
  BY <1>1, <1>2, <1>3

LEMMA ConsoleSteps ==
  ASSUME StackInv, Flags, StepInv, Console, Stepping'
  PROVE  Held' /\ (asked'.since = "catch" \/ Above')
PROOF
<1>1. UNCHANGED <<interrupted, where>> /\ UNCHANGED pc
  BY DEF Console, Run, Resume, Show, Store, Step, Abort, CallbackChecks,
         CallbackStores, Typing, stack
<1>2. Current' = Current /\ Current \in Nat
  BY <1>1, CurrentSame, CurrentFacts
<1>3. CASE \E kind \in Steps : Step(kind)
  <2>1. PICK kind \in Steps : Step(kind)
    BY <1>3
  <2>2. /\ interrupted /\ action' = kind /\ level' = Current
        /\ asked' = Asked(kind, Current)
    BY <2>1 DEF Step
  <2>3. asked'.depth = Current /\ asked'.kind = kind
    BY <2>2 DEF Asked
  <2>4. interrupted'
    BY <1>1, <2>2
  <2>5. Held'
    BY <1>2, <2>2, <2>3, <2>4 DEF Held
  <2>6. Current' >= asked'.depth /\ Current' >= asked'.depth - 1
    BY <1>2, <2>3
  <2> QED
    BY <2>5, <2>6 DEF Above
<1>4. CASE ~ \E kind \in Steps : Step(kind)
  <2>1. asked' = asked /\ UNCHANGED level
    BY <1>4 DEF Console, Run, Resume, Show, Store, Abort, CallbackChecks,
         CallbackStores, manager, Stepping, Steps, Nothing, Asked, AskedNoAbort
  <2>2. Stepping /\ Held /\ (asked.since = "catch" \/ Above)
    BY <2>1 DEF Stepping, StepInv
  <2>3. action' \in {action, NotAborted}
    <3>1. CASE \E quits \in BOOLEAN : Abort(quits)
      <4>1. asked'.kind = "abort"
        BY <3>1 DEF Abort, Asked
      <4> QED
        BY <4>1 DEF Stepping, Steps
    <3>2. CASE ~ \E quits \in BOOLEAN : Abort(quits)
      BY <1>4, <3>2 DEF Console, Run, Resume, Show, Store, CallbackChecks,
         CallbackStores, manager
    <3> QED
      BY <3>1, <3>2
  <2>4. action = asked.kind => action' = action
    BY <2>2, <2>3 DEF NotAborted, Stepping, Steps
  <2>5. Held'
    BY <1>1, <2>1, <2>2, <2>4 DEF Held
  <2>6. asked'.since = "catch" \/ Above'
    BY <1>1, <1>2, <2>1, <2>2 DEF Above
  <2> QED
    BY <2>5, <2>6
<1> QED
  BY <1>3, <1>4

\* From here the interpreter has looked since it last went down.
Looked == pc \notin {"returned", "error", "thrown", "done", "stop", "unwind"}

\* The fields hold the step wherever it is.
LEMMA HeldStays ==
  ASSUME Held, Stepping, Stepping', Interpreter, ~GoOn
  PROVE  Held' /\ (asked.since = "catch" => asked'.since = "catch")
PROOF
<1>1. ~Stop /\ ~MainLoop
  BY DEF Stop, MainLoop, Stepping, Steps, Nothing, Asked
<1>2. asked'.kind = asked.kind /\ asked'.depth = asked.depth /\ UNCHANGED level
  BY <1>1 DEF Interpreter, Launch, EnterBody, Check, Statement, Simple, Block, Call,
     Fail, ExecResume, ExecAbort, After, End, Leave, Caught, ErrorStops, Thrown,
     Finish, Unwind, AskedNoAbort, Stepping, Steps, Nothing, Asked, manager
<1>3. asked.since = "catch" => asked'.since = "catch"
  BY <1>1 DEF Interpreter, Launch, EnterBody, Check, Statement, Simple, Block, Call,
     Fail, ExecResume, ExecAbort, After, End, Leave, Caught, ErrorStops, Thrown,
     Finish, Unwind, AskedNoAbort, Stepping, Steps, Nothing, Asked, manager
<1>4. CASE Unwind
  BY <1>2, <1>4 DEF Unwind, Held
<1>5. CASE Finish
  <2>1. interrupted
    BY <1>5 DEF Finish, Stepping, Steps, Nothing, Asked
  <2>2. UNCHANGED <<action, interrupted>> /\ pc = "done"
    BY <1>5, <2>1 DEF Finish
  <2> QED
    BY <1>2, <1>3, <2>1, <2>2 DEF Held
<1>6. CASE Launch
  <2>1. pc \notin {"stop", "unwind"} /\ pc' = "body"
    BY <1>6 DEF Launch, Goto
  <2>2. action' = action
    BY <1>6, <2>1 DEF Launch, NotAborted, Held, Stepping, Steps
  <2> QED
    BY <1>2, <1>3, <2>1, <2>2 DEF Held
<1>7. CASE ~Unwind /\ ~Finish /\ ~Launch
  <2>1. pc' \in {"stop", "unwind"} \/ action' = action
    BY <1>1, <1>7 DEF Interpreter, EnterBody, Check, Statement, Simple, Block, Call,
       Fail, ExecResume, ExecAbort, After, End, Leave, Caught, ErrorStops, Thrown,
       StopThen, Goto, manager
  <2>2. pc \notin {"stop", "unwind"} /\ pc' # "wait"
    BY <1>1, <1>7 DEF Interpreter, EnterBody, Check, Statement, Simple, Block, Call,
       Fail, ExecResume, ExecAbort, After, End, Leave, Caught, ErrorStops, Thrown,
       StopThen, Goto, Code
  <2> QED
    BY <1>2, <1>3, <2>1, <2>2 DEF Held
<1> QED
  BY <1>3, <1>4, <1>5, <1>6, <1>7

LEMMA StaysAbove ==
  ASSUME StackInv, Flags, Held, Above,
         UNCHANGED <<interrupted, where>>, UNCHANGED asked,
         pc' \in {"stop", "unwind"} \/ (Looked /\ pc' # "returned")
  PROVE  Above'
PROOF
<1>1. Current' = Current /\ Current \in Nat
  BY CurrentSame, CurrentFacts
<1>2. CASE pc' \in {"stop", "unwind"}
  BY <1>2 DEF Above
<1>3. CASE Looked /\ pc' # "returned"
  <2>1. Current >= asked.depth \/ (where = <<>> /\ asked.depth = 1)
    BY <1>3 DEF Above, Looked
  <2> QED
    BY <1>1, <1>3, <2>1 DEF Above
<1> QED
  BY <1>2, <1>3

\* What changes neither the calls nor what is asked for.
LEMMA LookedSteps ==
  ASSUME StackInv, Flags, Held, Above,
         \/ EnterBody \/ Check \/ Statement \/ Simple \/ Block \/ Fail \/ ExecResume
         \/ ExecAbort \/ End
  PROVE  Above'
PROOF
<1>1. UNCHANGED <<interrupted, where>> /\ UNCHANGED asked
  BY DEF EnterBody, Check, Statement, Simple, Block, Fail, ExecResume, ExecAbort, End,
     stack
<1>2. Looked
  BY DEF Looked, EnterBody, Check, Statement, Simple, Block, Fail, ExecResume,
     ExecAbort, End, Code
<1>3. pc' # "returned"
  BY DEF EnterBody, Check, Statement, Simple, Block, Fail, ExecResume, ExecAbort, End,
     StopThen, Goto
<1> QED
  BY <1>1, <1>2, <1>3, StaysAbove

\* A callback begins at the level where it finds the interpreter.
LEMMA LaunchSteps ==
  ASSUME StackInv, Flags, Held, Above, Stepping, Launch
  PROVE  Above'
PROOF
<1>1. UNCHANGED <<interrupted, where>> /\ pc' = "body"
  BY DEF Launch, Goto
<1>2. asked' = asked
  BY DEF Launch, AskedNoAbort, Stepping, Steps
<1>3. Looked
  BY DEF Launch, Looked
<1> QED
  BY <1>1, <1>2, <1>3, StaysAbove

LEMMA CallSteps ==
  ASSUME StackInv, Flags, Held, Above, Call
  PROVE  Above'
PROOF
<1>1. UNCHANGED interrupted /\ UNCHANGED <<level, asked, action>> /\ pc = "exec"
  BY DEF Call, manager, Code
<1>2. CASE action = "Aborted"
  <2>1. UNCHANGED where /\ pc' = "unwind"
    BY <1>2 DEF Call, Goto
  <2> QED
    BY <1>1, <2>1, StaysAbove
<1>3. CASE action # "Aborted"
  <2>1. where' = Append(where, "macro") /\ pc' = "body"
    BY <1>3 DEF Call, Goto
  <2>2. where \in Seq(Calls)
    BY DEF StackInv, Balanced
  <2>3. Len(where') = Len(where) + 1 /\ Len(where) \in Nat
    BY <2>1, <2>2, AppendProperties, LenProperties DEF Calls
  <2>4. Current \in Nat /\ Current' = Current + 1
    <3>1. Current \in Nat
      BY CurrentFacts
    <3>2. CASE interrupted
      <4>1. Current = Len(where) - 1 /\ Current' = Len(where') - 1
        BY <1>1, <3>2 DEF Current
      <4> QED
        BY <2>3, <3>1, <4>1
    <3>3. CASE ~interrupted
      <4>1. Current = Len(where) /\ Current' = Len(where')
        BY <1>1, <3>3 DEF Current
      <4> QED
        BY <2>3, <3>1, <4>1
    <3> QED
      BY <3>2, <3>3, <3>1
  <2>5. asked.depth \in Nat
    BY DEF Held
  <2>6. Current >= asked.depth \/ asked.depth = 1
    BY <1>1 DEF Above
  <2>7. Current' >= asked.depth
    BY <2>4, <2>5, <2>6
  <2> QED
    BY <1>1, <2>1, <2>7 DEF Above
<1> QED
  BY <1>2, <1>3

\* After a return the level may be one below that of the step: stepout, or
\* any other step, stops there, unless nothing is called any more.
LEMMA AfterSteps ==
  ASSUME StackInv, Flags, Held, Above, Stepping, enabled, After
  PROVE  Above'
PROOF
<1>1. /\ UNCHANGED <<interrupted, where>> /\ UNCHANGED <<level, asked>>
      /\ pc \in {"after", "returned"}
  BY DEF After, stack, manager
<1>2. CASE enabled /\ IsStepOut /\ HasSource
  <2>1. pc' = "stop"
    BY <1>2 DEF After, StopThen
  <2> QED
    BY <1>1, <2>1, StaysAbove
<1>3. CASE ~ (enabled /\ IsStepOut /\ HasSource)
  <2>1. action' = action /\ pc' \in {"exec", "check", "end"}
    BY <1>3 DEF After, Goto
  <2>2. CASE pc = "after"
    BY <1>1, <2>1, <2>2, StaysAbove DEF Looked
  <2>3. CASE pc = "returned"
    <3>1. asked.depth \in Nat /\ Current \in Nat /\ Current >= asked.depth - 1
      BY <2>3, CurrentFacts DEF Held, Above
    <3>2. action \in Steps /\ level = asked.depth
      BY <2>3 DEF Held, Stepping
    <3>3. Current >= asked.depth \/ where = <<>>
      BY <1>3, <3>1, <3>2 DEF IsStepOut, HasSource
    <3>4. CASE Current >= asked.depth
      BY <1>1, <2>1, <2>3, <3>4, CurrentSame DEF Above
    <3>5. CASE where = <<>>
      <4>1. Current = 0
        BY <3>5, CurrentFacts, EmptySeq
      <4>2. Current >= asked.depth \/ asked.depth = 1
        BY <3>1, <4>1
      <4> QED
        BY <1>1, <2>1, <2>3, <3>5, <4>2, CurrentSame DEF Above
    <3> QED
      BY <3>3, <3>4, <3>5
  <2> QED
    BY <1>1, <2>2, <2>3
<1> QED
  BY <1>2, <1>3

LEMMA ErrorSteps ==
  ASSUME StackInv, Flags, Held, Above, ErrorStops
  PROVE  Above'
PROOF
<1>1. UNCHANGED <<interrupted, where>> /\ UNCHANGED <<level, asked, action>> /\ pc = "error"
  BY DEF ErrorStops, stack, manager
<1>2. pc' \in {"stop", "unwind"} \/ (pc' = "thrown" /\ where = <<>>)
  BY DEF ErrorStops, StopThen, Goto
<1>3. CASE pc' \in {"stop", "unwind"}
  BY <1>1, <1>3, StaysAbove
<1>4. CASE pc' = "thrown" /\ where = <<>>
  BY <1>1, <1>4 DEF Above
<1> QED
  BY <1>2, <1>3, <1>4

LEMMA FrontLength ==
  ASSUME NEW w \in Seq(Calls), w # <<>>
  PROVE  Len(Front(w)) = Len(w) - 1
PROOF
<1>1. Len(w) \in Nat /\ Len(w) # 0
  BY EmptySeq, LenProperties
<1>2. Len(w) - 1 \in 0 .. Len(w)
  BY <1>1
<1> QED
  BY <1>2, AtCut DEF Front

LEMMA ReturnSteps ==
  ASSUME StackInv, Flags, Held, Above, Leave \/ Thrown
  PROVE  Above'
PROOF
<1>1. /\ UNCHANGED interrupted /\ UNCHANGED <<level, asked, action>>
      /\ pc \in {"leave", "thrown"}
  BY DEF Leave, Thrown, manager
<1>2. CASE Len(where) > Last(frames).depth
  <2>1. where' = Front(where)
    BY <1>2 DEF Leave, Thrown
  <2>2. CASE Thrown
    <3>1. pc' = "error"
      BY <1>2, <2>2 DEF Thrown, Goto
    <3> QED
      BY <3>1 DEF Above
  <2>3. CASE Leave
    <3>1. pc' = "returned" /\ pc = "leave"
      BY <1>2, <2>3 DEF Leave, Goto
    <3>2. /\ asked.depth \in Nat /\ Current \in Nat /\ Len(where) \in Nat
          /\ where \in Seq(Calls)
      BY CurrentFacts DEF Held, StackInv, Balanced
    <3>3. Last(frames).depth \in Nat
      BY <3>1, TopDepth DEF InLaunch, Returns
    <3>4. Len(where) # 0
      BY <1>2, <3>2, <3>3
    <3>5. where # <<>>
      BY <3>4, EmptySeq
    <3>6. Current >= asked.depth
      BY <3>1, <3>5 DEF Above
    <3>7. Len(where') = Len(where) - 1
      BY <2>1, <3>2, <3>5, FrontLength
    <3>8. Current' = Current - 1
      <4>1. CASE interrupted
        <5>1. Current = Len(where) - 1 /\ Current' = Len(where') - 1
          BY <1>1, <4>1 DEF Current
        <5> QED
          BY <3>2, <3>7, <5>1
      <4>2. CASE ~interrupted
        <5>1. Current = Len(where) /\ Current' = Len(where')
          BY <1>1, <4>2 DEF Current
        <5> QED
          BY <3>2, <3>7, <5>1
      <4> QED
        BY <4>1, <4>2
    <3>9. Current' >= asked.depth - 1
      BY <3>2, <3>6, <3>8
    <3> QED
      BY <1>1, <3>1, <3>9 DEF Above
  <2> QED
    BY <2>2, <2>3
<1>3. CASE ~ (Len(where) > Last(frames).depth)
  <2>1. UNCHANGED where /\ pc' = "done"
    BY <1>3 DEF Leave, Thrown, Goto
  <2>2. Current >= asked.depth \/ where = <<>>
    BY <1>1 DEF Above
  <2>3. Current' = Current
    BY <1>1, <2>1, CurrentSame
  <2> QED
    BY <1>1, <2>1, <2>2, <2>3 DEF Above
<1> QED
  BY <1>2, <1>3

\* A catch at the level of the step, or above it, changes nothing.
LEMMA CaughtSteps ==
  ASSUME StackInv, Flags, Held, Above, Caught
  PROVE  asked'.since = "catch" \/ Above'
PROOF
<1>1. UNCHANGED interrupted /\ pc = "silent" /\ pc' \in {"body", "done"}
  BY DEF Caught, Goto
<1>2. PICK d \in Last(frames).depth .. Len(where) : where' = SubSeq(where, 1, d)
  BY DEF Caught
<1>3. /\ Last(frames).depth \in Nat /\ Len(where) \in Nat /\ where \in Seq(Calls)
  BY <1>1, TopDepth DEF InLaunch, StackInv, Balanced
<1>4. d \in 0 .. Len(where)
  BY <1>2, <1>3
<1>5. Len(where') = d
  BY <1>2, <1>3, <1>4, AtCut
<1>6. CASE Current' < asked.depth
  BY <1>6 DEF Caught
<1>7. CASE ~(Current' < asked.depth)
  <2>1. asked' = asked
    BY <1>7 DEF Caught
  <2>2. Current' \in Int /\ asked.depth \in Nat
    BY <1>1, <1>4, <1>5 DEF Current, Held
  <2>3. Current' >= asked'.depth
    BY <1>7, <2>1, <2>2
  <2> QED
    BY <1>1, <2>3 DEF Above
<1> QED
  BY <1>6, <1>7

\* The pause of the stop goes and the interruption ends: the level is the
\* same before and after.
LEMMA GoOnSteps ==
  ASSUME StackInv, Flags, Held, asked.since = "catch" \/ Above, Stepping, GoOn
  PROVE  Held' /\ (asked'.since = "catch" \/ Above')
PROOF
<1>1. pc = "wait" /\ ~interrupted' /\ where' = Front(where)
  BY DEF GoOn
<1>2. interrupted /\ action \in Steps /\ level = asked.depth
  BY <1>1 DEF Held, Stepping
<1>3. /\ where # <<>> /\ Current = Len(where) - 1 /\ Len(where) \in Nat
      /\ where \in Seq(Calls) /\ Current \in Nat
  BY <1>2, CurrentFacts DEF StackInv, Balanced
<1>4. Len(where') = Len(where) - 1
  BY <1>1, <1>3, FrontLength
<1>5. Current' = Len(where')
  BY <1>1 DEF Current
<1>6. Current' = Current
  BY <1>3, <1>4, <1>5
<1>7. (asked.since = "catch" \/ Current >= asked.depth) /\ asked.depth \in Nat
  BY <1>1, <1>3 DEF Above, Held
<1>8. pc' # "wait"
  <2>1. pc' = Last(frames).ret
    BY <1>2 DEF GoOn, Goto, Steps
  <2>2. Last(frames).ret \in Returns
    <3>1. /\ frames \in Seq(Frame) /\ frames # <<>> /\ IsStop(frames[Len(frames)])
          /\ Last(frames) = frames[Len(frames)]
      BY <1>1, StackFacts DEF StackInv, OnTop, InLaunch, Returns
    <3>2. Len(frames) \in 1 .. Len(frames)
      BY <3>1, EmptySeq, LenProperties
    <3>3. frames[Len(frames)] \in Frame
      BY <3>1, <3>2, ElementOfSeq
    <3> QED
      BY <3>1, <3>3, FrameKinds
  <2> QED
    BY <2>1, <2>2 DEF Returns
<1> DEFINE over == /\ Last(frames).ret = "leave"
                   /\ action \in {"StepNext", "StepIn"}
                   /\ level = Len(where')
<1>9. CASE over
  <2>1. /\ action' = "StepOut" /\ level' = Len(where')
        /\ asked' = Asked("StepOut", Len(where'))
    BY <1>9 DEF GoOn, Stepping
  <2>2. asked'.depth = Len(where') /\ asked'.kind = "StepOut" /\ Len(where') \in Nat
    BY <1>3, <1>5, <1>6, <2>1 DEF Asked
  <2>3. Held'
    BY <1>8, <2>1, <2>2 DEF Held
  <2>4. Current' >= asked'.depth /\ Current' >= asked'.depth - 1
    BY <1>5, <2>2
  <2> QED
    BY <1>8, <2>3, <2>4 DEF Above
<1>10. CASE ~over
  <2>1. action' = action /\ level' = level /\ asked' = asked
    BY <1>10 DEF GoOn
  <2>2. Held'
    BY <1>1, <1>8, <2>1 DEF Held
  <2>3. CASE asked.since = "catch"
    BY <2>1, <2>2, <2>3
  <2>4. CASE Current >= asked.depth
    <3>1. Current' >= asked'.depth /\ Current' >= asked'.depth - 1
      BY <1>3, <1>6, <1>7, <2>1, <2>4
    <3> QED
      BY <2>2, <3>1 DEF Above
  <2> QED
    BY <1>7, <2>3, <2>4
<1> QED
  BY <1>9, <1>10

LEMMA FinishSteps ==
  ASSUME StackInv, Flags, Held, Above, Finish, Stepping'
  PROVE  Above'
PROOF
<1>1. interrupted
  BY DEF Finish, Stepping, Steps, Nothing, Asked
<1>2. /\ UNCHANGED <<interrupted, where>> /\ UNCHANGED <<level, asked, action>>
      /\ pc = "done"
  BY <1>1 DEF Finish
<1>3. where # <<>> /\ Current \in Nat
  BY <1>1, CurrentFacts
<1>4. Current >= asked.depth /\ asked.depth \in Nat
  BY <1>2, <1>3 DEF Above, Held
<1>5. Current' = Current
  BY <1>2, CurrentSame
<1>6. Current' >= asked'.depth /\ Current' >= asked'.depth - 1
  BY <1>2, <1>3, <1>4, <1>5
<1> QED
  BY <1>6 DEF Above

LEMMA InterpreterSteps ==
  ASSUME StackInv, Flags, StepInv, Interpreter, Stepping'
  PROVE  Held' /\ (asked'.since = "catch" \/ Above')
PROOF
<1>1. ~Stop /\ ~MainLoop
  BY DEF Stop, MainLoop, Stepping, Steps, Nothing, Asked
<1>2. Stepping
  <2>1. CASE GoOn
    BY <2>1 DEF GoOn, Stepping, Steps
  <2>2. CASE Caught
    BY <2>2 DEF Caught, Stepping
  <2>3. CASE ~GoOn /\ ~Caught
    <3>1. asked' \in {asked, Nothing}
      BY <2>3 DEF Interpreter, Launch, EnterBody, Check, Statement, Simple, Block,
         Call, Fail, ExecResume, ExecAbort, After, End, Leave, ErrorStops,
         Thrown, Stop, Finish, Unwind, MainLoop, AskedNoAbort
    <3> QED
      BY <3>1 DEF Stepping, Steps, Nothing, Asked
  <2> QED
    BY <2>1, <2>2, <2>3
<1>3. Held /\ (asked.since = "catch" \/ Above) /\ enabled
  BY <1>2 DEF StepInv, Prompted
<1>4. CASE GoOn
  BY <1>2, <1>3, <1>4, GoOnSteps
<1>5. CASE ~GoOn
  <2>1. Held' /\ (asked.since = "catch" => asked'.since = "catch")
    BY <1>2, <1>3, <1>5, HeldStays
  <2>2. CASE asked.since = "catch"
    BY <2>1, <2>2
  <2>3. CASE Above
    <3>1. ASSUME Unwind PROVE Above'
      BY <3>1 DEF Unwind, Above
    <3>2. \/ EnterBody \/ Check \/ Statement \/ Simple \/ Block \/ Fail
          \/ ExecResume \/ ExecAbort \/ End \/ Launch \/ Call \/ After \/ Leave
          \/ Caught \/ ErrorStops \/ Thrown \/ Finish \/ Unwind
      BY <1>1, <1>5 DEF Interpreter
    <3>3. asked'.since = "catch" \/ Above'
      BY <1>2, <1>3, <2>3, <3>1, <3>2, LookedSteps, LaunchSteps, CallSteps, AfterSteps,
         ErrorSteps, ReturnSteps, CaughtSteps, FinishSteps
    <3> QED
      BY <2>1, <3>3
  <2> QED
    BY <1>3, <2>2, <2>3
<1> QED
  BY <1>4, <1>5

LEMMA NextStepInv == IInv /\ StepInv /\ [Next]_vars => StepInv'
PROOF
<1> SUFFICES ASSUME IInv, StepInv, [Next]_vars PROVE StepInv'
  OBVIOUS
<1>1. StackInv /\ Flags
  BY DEF IInv
<1>2. CASE Console \/ Interpreter
  <2>1. Prompted'
    BY <1>1, <1>2, PromptedKept DEF StepInv
  <2>2. Stepping' => Held' /\ (asked'.since = "catch" \/ Above')
    BY <1>1, <1>2, ConsoleSteps, InterpreterSteps
  <2> QED
    BY <2>1, <2>2 DEF StepInv
<1>3. CASE UNCHANGED vars
  <2>1. UNCHANGED <<interrupted, where>> /\ UNCHANGED <<level, asked, action, pc>>
        /\ UNCHANGED <<console, enabled>>
    BY <1>3 DEF vars, manager, stack
  <2>2. Current' = Current
    BY <2>1, CurrentSame
  <2> QED
    BY <2>1, <2>2 DEF StepInv, Prompted, Stepping, Held, Above
<1> QED
  BY <1>2, <1>3 DEF Next, Console

-----------------------------------------------------------------------------
\* After a step no statement begins that it should have stopped at, but the
\* first of a catch below its level; none ends below its level without a stop,
\* those of a catch included; and it stops in the same function or a caller of
\* it, stepout in a caller, stepin anywhere.  This holds until something stops,
\* a command ends outside a stop, or the user types continue or abort, for
\* any calls, returns, caught errors and callbacks before that.
THEOREM StepsStopCorrect == Spec => StepsStop
PROOF
<1> DEFINE Kept ==
             /\ Begins =>
                  CASE asked.kind = "StepIn"   -> InCatch
                    [] asked.kind = "StepNext" -> InCatch \/ Current > asked.depth
                    [] asked.kind = "StepOut"  -> InCatch \/ Current >= asked.depth
                    [] OTHER -> TRUE
             /\ EndsUnstopped => Current >= asked.depth
             /\ StoppedByStep =>
                  CASE action = "StepIn"   -> TRUE
                    [] action = "StepNext" -> Current <= asked.depth
                    [] action = "StepOut"  -> Current < asked.depth
<1>1. ASSUME IInv, StepInv, [Next]_vars PROVE [Kept]_vars
  <2> SUFFICES ASSUME Next PROVE Kept
    BY <1>1
  <2>1. StackInv /\ Flags /\ Current \in Nat
    BY <1>1, CurrentFacts DEF IInv
  <2>2. Stepping => enabled /\ Held /\ (asked.since = "catch" \/ Above)
    BY <1>1 DEF StepInv, Prompted
  <2>3. ASSUME Begins, Stepping
        PROVE  /\ asked.kind = "StepIn" => InCatch
               /\ asked.kind = "StepNext" => InCatch \/ Current > asked.depth
               /\ asked.kind = "StepOut" => InCatch \/ Current >= asked.depth
    <3>1. pc = "check" /\ ~interrupted /\ HasSource
      BY <2>3 DEF Begins
    <3>2. action = asked.kind /\ level = asked.depth /\ asked.depth \in Nat
      BY <2>2, <2>3, <3>1 DEF Held
    <3>3. asked.since = "catch" \/ Current >= asked.depth
      BY <2>2, <2>3, <3>1 DEF Above, HasSource
    <3>4. Check
      BY <2>3 DEF Begins, Next, Interpreter, Launch, EnterBody, Statement, Simple,
         Block, Call, Fail, ExecResume, ExecAbort, After, End, Leave, Caught,
         ErrorStops, Thrown, Stop, GoOn, Finish, Unwind, MainLoop, Run, Resume, Show,
         Store, Step, Abort, CallbackChecks, CallbackStores, Typing, Code
    <3>5. ~IsStepIn /\ ~IsStepNext
      BY <2>2, <2>3, <3>1, <3>4 DEF Check, StopThen, Begins
    <3>6. asked.kind = "StepIn" => Current < asked.depth
      BY <2>1, <3>2, <3>5 DEF IsStepIn, IsStepNext
    <3>7. asked.kind = "StepNext" => Current # asked.depth
      BY <3>2, <3>5 DEF IsStepNext
    <3>8. CASE Current >= asked.depth
      BY <2>1, <3>2, <3>6, <3>7, <3>8
    <3>9. CASE ~(Current >= asked.depth)
      <4>1. Current < asked.depth
        BY <2>1, <3>2, <3>9
      <4> QED
        BY <3>3, <3>9, <4>1 DEF InCatch
    <3> QED
      BY <3>8, <3>9
  <2>4. ASSUME EndsUnstopped PROVE Current >= asked.depth
    <3>1. /\ pc \in {"after", "returned"} /\ pc' # pc /\ pc' # "stop" /\ HasSource
          /\ Stepping
      BY <2>4 DEF EndsUnstopped, Stepping
    <3>2. After
      BY <3>1 DEF Next, Interpreter, Launch, EnterBody, Check, Statement, Simple, Block,
         Call, Fail, ExecResume, ExecAbort, End, Leave, Caught, ErrorStops, Thrown,
         Stop, GoOn, Finish, Unwind, MainLoop, Run, Resume, Show, Store, Step, Abort,
         CallbackChecks, CallbackStores, Typing, Code
    <3>3. ~IsStepOut
      BY <2>2, <3>1, <3>2 DEF After, StopThen
    <3>4. action \in Steps /\ level = asked.depth /\ asked.depth \in Nat
      BY <2>2, <3>1 DEF Held, Stepping
    <3> QED
      BY <2>1, <3>3, <3>4 DEF IsStepOut
  <2>5. ASSUME StoppedByStep
        PROVE  /\ action = "StepNext" => Current <= asked.depth
               /\ action = "StepOut" => Current < asked.depth
    <3>1. Stepping /\ action = asked.kind
      BY <2>5 DEF StoppedByStep, Stepping
    <3>2. /\ action # "Continue" /\ action # "Aborted" /\ action' = "Continue"
          /\ pc' = "stop"
      BY <2>5 DEF StoppedByStep, Steps
    <3>3. Check \/ After \/ End
      BY <3>2 DEF Next, Interpreter, Launch, EnterBody, Statement, Simple, Block, Call,
         Fail, ExecResume, ExecAbort, Leave, Caught, ErrorStops, Thrown, Stop, GoOn,
         Finish, Unwind, MainLoop, Run, Resume, Show, Store, Step, Abort,
         CallbackChecks, CallbackStores, Goto, StopThen, manager, NotAborted, Steps,
         Typing, NextPc, Code
    <3>4. pc \notin {"stop", "unwind"}
      BY <3>3 DEF Check, After, End
    <3>5. level = asked.depth /\ asked.depth \in Nat
      BY <2>2, <3>1, <3>4 DEF Held
    <3>6. IsStepIn \/ IsStepNext \/ IsStepOut
      BY <3>2, <3>3 DEF Check, After, End
    <3>7. CASE Check \/ End
      <4>1. IsStepIn \/ IsStepNext
        BY <3>2, <3>7 DEF Check, End
      <4> QED
        BY <2>1, <3>5, <4>1 DEF IsStepIn, IsStepNext
    <3>8. CASE After
      <4>1. IsStepOut
        BY <3>2, <3>8 DEF After
      <4> QED
        BY <2>1, <3>5, <4>1 DEF IsStepOut
    <3> QED
      BY <3>3, <3>7, <3>8
  <2>6. StoppedByStep => action \in Steps
    BY DEF StoppedByStep
  <2> QED
    BY <2>3, <2>4, <2>5, <2>6 DEF Stepping, Steps
<1>2. Init => StepInv
  BY DEF Init, StepInv, Prompted, Stepping, Nothing, Asked, Steps
<1>3. Spec => [](IInv /\ StepInv)
  BY <1>2, InitIInv, NextIInv, NextStepInv, PTL DEF Spec
<1>4. Spec => [][Kept]_vars
  BY <1>1, <1>3, PTL DEF Spec
<1> QED
  BY <1>4 DEF StepsStop

=============================================================================
