------------------------ MODULE LibraryReloadProofs -------------------------
(***************************************************************************)
(* Theorems about LibraryReload, for any directories, files and listeners. *)
(*                                                                         *)
(* PendingHasFlush is not inductive: a timer is set for the directory of   *)
(* the change being delivered, so the monitor thread must be in onEvent    *)
(* with that change while it is noted and not scheduled; and the scheduler *)
(* takes the functions of one directory only, the one whose timer fired.   *)
(***************************************************************************)
EXTENDS LibraryReload, SequenceTheorems, TLAPS

OsOK ==
  /\ exists \subseteq Dirs
  /\ osKey \in [Dirs -> Keys \cup {NoKey}]
  /\ events \in [Keys -> SUBSET Files]
  /\ queued \subseteq Keys

MapOK ==
  /\ listeners \in [Dirs -> SUBSET Listeners]
  /\ keysByRoot \in [Dirs -> Keys \cup {NoKey}]
  /\ rootsByKey \in [Keys -> Dirs \cup {NoDir}]

\* The executor records a key for the directory it has registered.
RegisterOK ==
  /\ toRegister \in Seq(Dirs)
  /\ rdir \in Dirs \cup {NoDir}
  /\ rkey \in Keys \cup {NoKey}
  /\ rkey # NoKey => rdir \in Dirs

\* The monitor thread holds a key until it resets it, and a change while it
\* delivers it.
LoopOK ==
  /\ mpc \in {"take", "events", "deliver", "reset", "forget"}
  /\ mkey \in Keys \cup {NoKey}
  /\ mroot \in Dirs \cup {NoDir}
  /\ todo \subseteq Files
  /\ call \in Files \cup {NoFile}
  /\ callees \subseteq Listeners
  /\ mpc \in {"events", "deliver", "reset"} => mkey \in Keys
  /\ mpc = "deliver" => call \in Files
  /\ mpc = "forget" => mroot \in Dirs

WindowOK == suppressed \subseteq Files /\ recent \subseteq Files

\* The interpreter is in watch or unwatch for a directory.
CallerOK ==
  /\ dirToLib \subseteq Dirs
  /\ heard \subseteq Dirs
  /\ upc \in {"idle", "subscribe", "unsubscribe", "forget", "clear"}
  /\ udir \in Dirs \cup {NoDir}
  /\ asked \in [Dirs -> {"no", "first", "again"}]
  /\ upc # "idle" => udir \in Dirs

\* The monitor thread is in onEvent while it delivers to the reloader.
NotedOK ==
  /\ pendingFuncs \in [Dirs -> SUBSET Files]
  /\ scheduled \subseteq Dirs
  /\ lpc \in {"idle", "schedule"}
  /\ lpc = "schedule" => mpc = "deliver" /\ Reloader \in callees

FlushOK ==
  /\ fpc \in {"idle", "take", "put"}
  /\ fdir \in Dirs \cup {NoDir}
  /\ ffuncs \subseteq Files
  /\ fpc = "take" => fdir \in Dirs
  /\ fpc = "put" => ffuncs # {}

FlagsOK == enabled \in BOOLEAN /\ flib \in BOOLEAN
ReloadsOK == reloads \in Seq((SUBSET Files) \ {{}})

\* Who will flush the functions noted for d.
FlushToCome(d) ==
  \/ d \in scheduled
  \/ fpc = "take" /\ fdir = d
  \/ lpc = "schedule" /\ DirOf[call] = d
Covered == \A d \in Dirs : pendingFuncs[d] # {} => FlushToCome(d)

MonitorOK == OsOK /\ MapOK /\ RegisterOK /\ LoopOK /\ WindowOK
ReloaderOK == CallerOK /\ NotedOK /\ FlushOK /\ FlagsOK /\ ReloadsOK /\ Covered
IInv == MonitorOK /\ ReloaderOK

-----------------------------------------------------------------------------
LEMMA InitIInv == Init => IInv
PROOF
<1> SUFFICES ASSUME Init PROVE IInv
  OBVIOUS
<1> USE DEF Init, MonitorInit
<1>1. MonitorOK
  BY DEF MonitorOK, OsOK, MapOK, RegisterOK, LoopOK, WindowOK
<1>2. CallerOK /\ NotedOK /\ FlushOK /\ FlagsOK
  BY DEF CallerOK, NotedOK, FlushOK, FlagsOK
<1>3. ReloadsOK
  BY DEF ReloadsOK
<1>4. Covered
  BY DEF Covered
<1> QED
  BY <1>1, <1>2, <1>3, <1>4 DEF IInv, ReloaderOK

\* What the reloader keeps when only the monitor moves.
LEMMA ReloaderKept ==
  ASSUME IInv, UNCHANGED reloaderVars, UNCHANGED asked,
         lpc = "schedule" => UNCHANGED <<mpc, call, callees>>
  PROVE  ReloaderOK'
PROOF
<1> USE DEF IInv, ReloaderOK, reloaderVars, flushVars
<1>1. CallerOK'
  BY DEF CallerOK
<1>2. NotedOK'
  BY DEF NotedOK
<1>3. FlushOK' /\ FlagsOK' /\ ReloadsOK'
  BY DEF FlushOK, FlagsOK, ReloadsOK
<1>4. Covered'
  BY DEF Covered, FlushToCome
<1> QED
  BY <1>1, <1>2, <1>3, <1>4

\* What the monitor keeps when only the reloader moves.
LEMMA MonitorKept ==
  ASSUME IInv, UNCHANGED monitorVars
  PROVE  MonitorOK'
PROOF
<1> USE DEF IInv, MonitorOK, monitorVars, osVars, mapVars, registerVars, loopVars, windowVars
<1>1. OsOK' /\ MapOK'
  BY DEF OsOK, MapOK
<1>2. RegisterOK' /\ LoopOK' /\ WindowOK'
  BY DEF RegisterOK, LoopOK, WindowOK
<1> QED
  BY <1>1, <1>2

LEMMA ReportTypes ==
  ASSUME OsOK, NEW d \in Dirs, NEW changed \in SUBSET Files, Report(d, changed)
  PROVE  events' \in [Keys -> SUBSET Files] /\ queued' \subseteq Keys
PROOF
  BY DEF OsOK, Report

LEMMA CancelTypes ==
  ASSUME OsOK, NEW k, Cancel(k)
  PROVE  osKey' \in [Dirs -> Keys \cup {NoKey}]
PROOF
  BY DEF OsOK, Cancel

LEMMA SubscribeTypes ==
  ASSUME MonitorOK, NEW d \in Dirs, NEW l \in Listeners, Subscribe(d, l)
  PROVE  MonitorOK'
PROOF
<1> USE DEF MonitorOK, Subscribe, osVars, loopVars, windowVars
<1>1. OsOK' /\ LoopOK' /\ WindowOK'
  BY DEF OsOK, LoopOK, WindowOK
<1>2. MapOK'
  BY DEF MapOK
<1>3. RegisterOK'
  <2>1. toRegister' = toRegister \/ toRegister' = Append(toRegister, d)
    OBVIOUS
  <2>2. toRegister' \in Seq(Dirs)
    BY <2>1, AppendProperties DEF RegisterOK
  <2> QED
    BY <2>2 DEF RegisterOK
<1> QED
  BY <1>1, <1>2, <1>3

LEMMA UnsubscribeTypes ==
  ASSUME MonitorOK, NEW d \in Dirs, NEW l \in Listeners, Unsubscribe(d, l)
  PROVE  MonitorOK'
PROOF
<1> USE DEF MonitorOK, Unsubscribe, registerVars, loopVars, windowVars
<1>1. RegisterOK' /\ LoopOK' /\ WindowOK'
  BY DEF RegisterOK, LoopOK, WindowOK
<1>2. listeners' \in [Dirs -> SUBSET Listeners]
  BY DEF MapOK
<1>3. CASE UNCHANGED <<keysByRoot, rootsByKey, osKey>>
  BY <1>1, <1>2, <1>3 DEF MapOK, OsOK, osVars
<1>4. CASE /\ keysByRoot[d] # NoKey
           /\ keysByRoot' = [keysByRoot EXCEPT ![d] = NoKey]
           /\ rootsByKey' = [rootsByKey EXCEPT ![keysByRoot[d]] = NoDir]
           /\ Cancel(keysByRoot[d])
  <2>1. MapOK'
    BY <1>2, <1>4 DEF MapOK
  <2>2. OsOK'
    BY <1>4, CancelTypes DEF OsOK
  <2> QED
    BY <1>1, <2>1, <2>2
<1> QED
  BY <1>3, <1>4 DEF osVars

-----------------------------------------------------------------------------
LEMMA EnvironmentKeeps ==
  ASSUME IInv, Environment, UNCHANGED reloaderVars
  PROVE  IInv'
PROOF
<1>1. ASSUME NEW f \in Files, Change(f),
             UNCHANGED <<mapVars, registerVars, loopVars, windowVars, asked>>
      PROVE  IInv'
  <2>1. DirOf[f] \in Dirs /\ {f} \in SUBSET Files
    BY FileAssumption
  <2>2. OsOK'
    BY <1>1, <2>1, ReportTypes DEF Change, IInv, MonitorOK, OsOK
  <2>3. (MapOK /\ RegisterOK /\ LoopOK /\ WindowOK)'
    BY <1>1 DEF IInv, MonitorOK, MapOK, RegisterOK, LoopOK, WindowOK, mapVars, registerVars,
       loopVars, windowVars
  <2>4. ReloaderOK'
    BY <1>1, ReloaderKept DEF loopVars
  <2> QED
    BY <2>2, <2>3, <2>4 DEF IInv, MonitorOK
<1>2. ASSUME NEW f \in Files, Suppress(f) \/ SuppressionEnds(f) \/ DebounceEnds(f),
             UNCHANGED asked
      PROVE  IInv'
  <2>1. WindowOK'
    BY <1>2 DEF Suppress, SuppressionEnds, DebounceEnds, IInv, MonitorOK, WindowOK
  <2>2. UNCHANGED <<osVars, mapVars, registerVars, loopVars>>
    BY <1>2 DEF Suppress, SuppressionEnds, DebounceEnds
  <2>3. (OsOK /\ MapOK /\ RegisterOK /\ LoopOK)'
    BY <2>2 DEF IInv, MonitorOK, OsOK, MapOK, RegisterOK, LoopOK, osVars, mapVars,
       registerVars, loopVars
  <2>4. ReloaderOK'
    BY <1>2, <2>2, ReloaderKept DEF loopVars
  <2> QED
    BY <2>1, <2>3, <2>4 DEF IInv, MonitorOK
<1>3. ASSUME NEW d \in Dirs, NEW l \in Listeners, Subscribe(d, l) \/ Unsubscribe(d, l),
             UNCHANGED asked
      PROVE  IInv'
  <2>1. MonitorOK'
    BY <1>3, SubscribeTypes, UnsubscribeTypes DEF IInv
  <2>2. UNCHANGED loopVars
    BY <1>3 DEF Subscribe, Unsubscribe
  <2>3. ReloaderOK'
    BY <1>3, <2>2, ReloaderKept DEF loopVars
  <2> QED
    BY <2>1, <2>3 DEF IInv
<1>4. ASSUME NEW d \in Dirs, DirectoryComes(d), UNCHANGED asked
      PROVE  IInv'
  <2>1. UNCHANGED <<osKey, events, queued, mapVars, registerVars, loopVars, windowVars>>
        /\ exists' = exists \cup {d}
    BY <1>4 DEF DirectoryComes
  <2>2. MonitorOK'
    BY <2>1 DEF IInv, MonitorOK, OsOK, MapOK, RegisterOK, LoopOK, WindowOK, mapVars,
       registerVars, loopVars, windowVars
  <2>3. ReloaderOK'
    BY <1>4, <2>1, ReloaderKept DEF loopVars
  <2> QED
    BY <2>2, <2>3 DEF IInv
<1>5. ASSUME NEW d \in Dirs, DirectoryGoes(d), asked' = [asked EXCEPT ![d] = "no"]
      PROVE  IInv'
  <2>1. UNCHANGED <<mapVars, registerVars, loopVars, windowVars>>
    BY <1>5 DEF DirectoryGoes
  <2>2. OsOK'
    <3>1. {f \in Files : DirOf[f] = d} \in SUBSET Files
      OBVIOUS
    <3>2. events' \in [Keys -> SUBSET Files] /\ queued' \subseteq Keys
      BY <1>5, <3>1, ReportTypes DEF DirectoryGoes, IInv, MonitorOK
    <3> QED
      BY <1>5, <3>2 DEF DirectoryGoes, IInv, MonitorOK, OsOK
  <2>3. (MapOK /\ RegisterOK /\ LoopOK /\ WindowOK)'
    BY <2>1 DEF IInv, MonitorOK, MapOK, RegisterOK, LoopOK, WindowOK, mapVars, registerVars,
       loopVars, windowVars
  <2>4. CallerOK'
    BY <1>5 DEF IInv, ReloaderOK, CallerOK, reloaderVars
  <2>5. NotedOK' /\ Covered'
    BY <2>1 DEF IInv, ReloaderOK, NotedOK, Covered, FlushToCome, reloaderVars, loopVars, flushVars
  <2>6. FlushOK' /\ FlagsOK' /\ ReloadsOK'
    BY DEF IInv, ReloaderOK, FlushOK, FlagsOK, ReloadsOK, reloaderVars, flushVars
  <2> QED
    BY <2>2, <2>3, <2>4, <2>5, <2>6 DEF IInv, MonitorOK, ReloaderOK
<1> QED
  BY <1>1, <1>2, <1>3, <1>4, <1>5 DEF Environment

-----------------------------------------------------------------------------
LEMMA ExecutorKeeps ==
  ASSUME IInv, ExecutorStep
  PROVE  IInv'
PROOF
<1>1. RegisterStep /\ UNCHANGED asked /\ UNCHANGED reloaderVars
  BY DEF ExecutorStep
<1>2. UNCHANGED <<exists, events, queued, listeners, loopVars, windowVars>>
  BY <1>1 DEF RegisterStep, RegisterKey, RecordKey
<1>3. LoopOK' /\ WindowOK'
  BY <1>2 DEF IInv, MonitorOK, LoopOK, WindowOK, loopVars, windowVars
<1>4. ReloaderOK'
  BY <1>1, <1>2, ReloaderKept DEF loopVars
<1>5. CASE RegisterKey
  <2> DEFINE d == Head(toRegister)
  <2>1. d \in Dirs /\ toRegister' \in Seq(Dirs)
    BY <1>5, HeadTailProperties DEF RegisterKey, IInv, MonitorOK, RegisterOK
  <2> HIDE DEF d
  <2>2. CASE d \notin exists
    <3>1. UNCHANGED <<osKey, rootsByKey, rdir, rkey, keysByRoot>>
      BY <1>5, <2>2 DEF RegisterKey, d
    <3>2. OsOK' /\ MapOK' /\ RegisterOK'
      BY <1>2, <2>1, <3>1 DEF IInv, MonitorOK, OsOK, MapOK, RegisterOK
    <3> QED
      BY <1>3, <1>4, <3>2 DEF IInv, MonitorOK
  <2>3. CASE d \in exists
    <3>1. /\ rdir' = d /\ UNCHANGED keysByRoot
          /\ osKey[d] = NoKey => FreshKeys # {}
          /\ rkey' = IF osKey[d] # NoKey THEN osKey[d] ELSE CHOOSE k \in FreshKeys : TRUE
          /\ osKey' = [osKey EXCEPT ![d] = rkey']
          /\ rootsByKey' =
               [rootsByKey EXCEPT ![rkey'] = IF rkey' = osKey[d] THEN @ ELSE NoDir]
      BY <1>5, <2>3 DEF RegisterKey, d
    <3>2. rkey' \in Keys
      <4>1. osKey[d] \in Keys \cup {NoKey}
        BY <2>1 DEF IInv, MonitorOK, OsOK
      <4>2. FreshKeys \subseteq Keys
        BY DEF FreshKeys
      <4>3. FreshKeys # {} => (CHOOSE k \in FreshKeys : TRUE) \in FreshKeys
        OBVIOUS
      <4> QED
        BY <3>1, <4>1, <4>2, <4>3
    <3>3. OsOK'
      BY <1>2, <2>1, <3>1, <3>2 DEF IInv, MonitorOK, OsOK
    <3>4. MapOK'
      BY <1>2, <3>1, <3>2 DEF IInv, MonitorOK, MapOK
    <3>5. RegisterOK'
      BY <2>1, <3>1, <3>2 DEF RegisterOK
    <3> QED
      BY <1>3, <1>4, <3>3, <3>4, <3>5 DEF IInv, MonitorOK
  <2> QED
    BY <2>2, <2>3
<1>6. CASE RecordKey
  <2>1. rdir \in Dirs /\ rkey \in Keys
    BY <1>6 DEF RecordKey, IInv, MonitorOK, RegisterOK
  <2>2. OsOK'
    <3>1. Cancel(rkey) \/ UNCHANGED osKey
      BY <1>6 DEF RecordKey
    <3>2. osKey' \in [Dirs -> Keys \cup {NoKey}]
      BY <3>1, CancelTypes DEF IInv, MonitorOK, OsOK
    <3> QED
      BY <1>2, <3>2 DEF IInv, MonitorOK, OsOK
  <2>3. MapOK'
    BY <1>2, <1>6, <2>1 DEF RecordKey, IInv, MonitorOK, MapOK
  <2>4. RegisterOK'
    BY <1>6 DEF RecordKey, IInv, MonitorOK, RegisterOK
  <2> QED
    BY <1>3, <1>4, <2>2, <2>3, <2>4 DEF IInv, MonitorOK
<1> QED
  BY <1>1, <1>5, <1>6 DEF RegisterStep

\* The monitor thread moves on only when the reloader has returned.
LEMMA LoopKeeps ==
  ASSUME IInv, Reloader \notin callees, LoopStep, UNCHANGED asked, UNCHANGED reloaderVars
  PROVE  IInv'
PROOF
<1>1. lpc # "schedule"
  BY DEF IInv, ReloaderOK, NotedOK
<1>2. ReloaderOK'
  BY <1>1, ReloaderKept
<1>3. UNCHANGED <<exists, osKey, listeners, registerVars, suppressed>>
  BY DEF LoopStep, TakeKey, DropEvent, Dispatch, Delivered, EventsDone, ResetKey, ForgetKey,
     osVars, mapVars, windowVars
<1>4. RegisterOK'
  BY <1>3 DEF IInv, MonitorOK, RegisterOK, registerVars
<1> USE DEF IInv, MonitorOK
<1>5. CASE \E k \in Keys : TakeKey(k)
  <2>1. PICK k \in Keys : TakeKey(k)
    BY <1>5
  <2>2. OsOK'
    BY <1>3, <2>1 DEF TakeKey, OsOK
  <2>3. LoopOK'
    BY <2>1 DEF TakeKey, LoopOK, OsOK, MapOK
  <2>4. MapOK' /\ WindowOK'
    BY <2>1 DEF TakeKey, MapOK, WindowOK, mapVars, windowVars
  <2> QED
    BY <1>2, <1>4, <2>2, <2>3, <2>4
<1>6. CASE \E f \in Files : DropEvent(f) \/ Dispatch(f)
  <2>1. PICK f \in Files : DropEvent(f) \/ Dispatch(f)
    BY <1>6
  <2>2. OsOK' /\ MapOK'
    BY <2>1 DEF DropEvent, Dispatch, OsOK, MapOK, osVars, mapVars
  <2>3. WindowOK'
    BY <2>1 DEF DropEvent, Dispatch, WindowOK, windowVars
  <2>4. CASE DropEvent(f)
    BY <1>2, <1>4, <2>2, <2>3, <2>4 DEF DropEvent, LoopOK
  <2>5. CASE Dispatch(f)
    <3>1. mroot \in Dirs
      BY <2>5 DEF Dispatch, Dropped, LoopOK
    <3>2. listeners[mroot] \subseteq Listeners
      BY <3>1 DEF MapOK
    <3>3. LoopOK'
      BY <2>5, <3>2 DEF Dispatch, LoopOK
    <3> QED
      BY <1>2, <1>4, <2>2, <2>3, <3>3
  <2> QED
    BY <2>1, <2>4, <2>5
<1>7. CASE Delivered \/ EventsDone
  <2>1. OsOK' /\ MapOK' /\ WindowOK'
    BY <1>7 DEF Delivered, EventsDone, OsOK, MapOK, WindowOK, osVars, mapVars, windowVars
  <2>2. LoopOK'
    BY <1>7 DEF Delivered, EventsDone, LoopOK
  <2> QED
    BY <1>2, <1>4, <2>1, <2>2
<1>8. CASE ResetKey
  <2>1. mkey \in Keys
    BY <1>8 DEF ResetKey, LoopOK
  <2>2. WindowOK'
    BY <1>8 DEF ResetKey, WindowOK, windowVars
  <2>3. CASE Valid(mkey)
    <3>1. /\ queued' \subseteq Keys /\ UNCHANGED <<events, rootsByKey, keysByRoot>>
      BY <1>8, <2>1, <2>3 DEF ResetKey, OsOK
    <3>2. OsOK' /\ MapOK'
      BY <1>3, <3>1 DEF OsOK, MapOK
    <3>3. LoopOK'
      BY <1>8, <2>3 DEF ResetKey, LoopOK
    <3> QED
      BY <1>2, <1>4, <2>2, <3>2, <3>3
  <2>4. CASE ~Valid(mkey)
    <3>1. /\ UNCHANGED <<queued, keysByRoot>>
          /\ events' = [events EXCEPT ![mkey] = {}]
          /\ rootsByKey' = [rootsByKey EXCEPT ![mkey] = NoDir]
          /\ mroot' = rootsByKey[mkey]
          /\ mpc' = IF mroot' = NoDir THEN "take" ELSE "forget"
          /\ mkey' = NoKey
          /\ UNCHANGED <<todo, call, callees>>
      BY <1>8, <2>4 DEF ResetKey
    <3>2. OsOK'
      BY <1>3, <2>1, <3>1 DEF OsOK
    <3>3. MapOK'
      BY <1>3, <2>1, <3>1 DEF MapOK
    <3>4. LoopOK'
      BY <2>1, <3>1 DEF LoopOK, MapOK
    <3> QED
      BY <1>2, <1>4, <2>2, <3>2, <3>3, <3>4
  <2> QED
    BY <2>3, <2>4
<1>9. CASE ForgetKey
  <2>1. OsOK' /\ WindowOK'
    BY <1>9 DEF ForgetKey, OsOK, WindowOK, osVars, windowVars
  <2>2. MapOK'
    BY <1>9 DEF ForgetKey, MapOK, LoopOK
  <2>3. LoopOK'
    BY <1>9 DEF ForgetKey, LoopOK
  <2> QED
    BY <1>2, <1>4, <2>1, <2>2, <2>3
<1> QED
  BY <1>5, <1>6, <1>7, <1>8, <1>9 DEF LoopStep

-----------------------------------------------------------------------------
\* onEvent notes the change, with the timer still to be set.
LEMMA OnEventKeeps ==
  ASSUME IInv, OnEvent
  PROVE  IInv'
PROOF
<1> USE DEF IInv, ReloaderOK
<1>1. CallerOK' /\ FlushOK' /\ FlagsOK' /\ ReloadsOK'
  BY DEF OnEvent, CallerOK, FlushOK, FlagsOK, ReloadsOK, callerVars, flushVars
<1>2. call \in Files /\ DirOf[call] \in Dirs
  BY FileAssumption DEF OnEvent, MonitorOK, LoopOK
<1>3. CASE enabled
  <2>1. UNCHANGED monitorVars /\ lpc' = "schedule" /\ UNCHANGED <<scheduled, flushVars>>
        /\ pendingFuncs' = [pendingFuncs EXCEPT ![DirOf[call]] = @ \cup {call}]
    BY <1>3 DEF OnEvent
  <2>2. MonitorOK'
    BY <2>1, MonitorKept
  <2>3. UNCHANGED <<mpc, call, callees, fpc, fdir>>
    BY <2>1 DEF monitorVars, loopVars, flushVars
  <2>4. NotedOK'
    BY <1>2, <2>1, <2>3 DEF OnEvent, NotedOK
  <2>5. Covered'
    <3>1. SUFFICES ASSUME NEW d \in Dirs, pendingFuncs'[d] # {} PROVE FlushToCome(d)'
      BY DEF Covered
    <3>2. CASE d = DirOf[call]
      BY <2>1, <2>3, <3>2 DEF FlushToCome
    <3>3. CASE d # DirOf[call]
      <4>1. FlushToCome(d)
        BY <1>2, <2>1, <3>1, <3>3 DEF Covered, NotedOK
      <4>2. lpc # "schedule"
        BY DEF OnEvent
      <4> QED
        BY <2>1, <2>3, <4>1, <4>2 DEF FlushToCome
    <3> QED
      BY <3>2, <3>3
  <2> QED
    BY <1>1, <2>2, <2>4, <2>5
<1>4. CASE ~enabled
  <2>1. Called(Reloader) /\ UNCHANGED <<pendingFuncs, lpc, scheduled, flushVars>>
    BY <1>4 DEF OnEvent
  <2>2. MonitorOK'
    BY <2>1 DEF Called, MonitorOK, OsOK, MapOK, RegisterOK, LoopOK, WindowOK, osVars, mapVars,
       registerVars, windowVars
  <2>3. lpc = "idle"
    BY DEF OnEvent
  <2>4. NotedOK' /\ Covered'
    BY <2>1, <2>3 DEF Called, NotedOK, Covered, FlushToCome, flushVars
  <2> QED
    BY <1>1, <2>2, <2>4
<1> QED
  BY <1>3, <1>4

LEMMA ScheduleFlushKeeps ==
  ASSUME IInv, ScheduleFlush
  PROVE  IInv'
PROOF
<1> USE DEF IInv, ReloaderOK
<1>1. CallerOK' /\ FlushOK' /\ FlagsOK' /\ ReloadsOK'
  BY DEF ScheduleFlush, CallerOK, FlushOK, FlagsOK, ReloadsOK, callerVars, flushVars
<1>2. lpc = "schedule" /\ call \in Files /\ DirOf[call] \in Dirs
  BY FileAssumption DEF ScheduleFlush, MonitorOK, LoopOK, NotedOK
<1>3. MonitorOK'
  BY DEF ScheduleFlush, Called, MonitorOK, OsOK, MapOK, RegisterOK, LoopOK, WindowOK, osVars,
     mapVars, registerVars, windowVars
<1>4. NotedOK'
  BY <1>2 DEF ScheduleFlush, NotedOK
<1>5. Covered'
  BY <1>2 DEF ScheduleFlush, Covered, FlushToCome, flushVars
<1> QED
  BY <1>1, <1>3, <1>4, <1>5

\* The scheduler takes the functions of the directory whose timer fired.
LEMMA FlushKeeps ==
  ASSUME IInv, FlushStep
  PROVE  IInv'
PROOF
<1> USE DEF IInv, ReloaderOK
<1>1. UNCHANGED monitorVars /\ UNCHANGED <<callerVars, lpc>>
  BY DEF FlushStep, TakeFuncs, PutReload, StartFlush
<1>2. MonitorOK'
  BY <1>1, MonitorKept
<1>3. UNCHANGED <<mpc, call, callees>>
  BY <1>1 DEF monitorVars, loopVars
<1>4. CallerOK'
  BY <1>1 DEF CallerOK, callerVars
<1>5. CASE \E d \in Dirs : StartFlush(d)
  <2>1. PICK d \in Dirs : StartFlush(d)
    BY <1>5
  <2>2. NotedOK'
    BY <1>1, <1>3, <2>1 DEF StartFlush, NotedOK
  <2>3. FlushOK'
    BY <2>1 DEF StartFlush, FlushOK
  <2>4. FlagsOK' /\ ReloadsOK'
    BY <1>1, <2>1 DEF StartFlush, FlagsOK, ReloadsOK, callerVars
  <2>5. Covered'
    BY <1>1, <1>3, <2>1 DEF StartFlush, Covered, FlushToCome
  <2> QED
    BY <1>2, <1>4, <2>2, <2>3, <2>4, <2>5
<1>6. CASE TakeFuncs
  <2>1. fdir \in Dirs /\ fpc = "take"
    BY <1>6 DEF TakeFuncs, FlushOK
  <2>2. NotedOK'
    BY <1>1, <1>3, <1>6, <2>1 DEF TakeFuncs, NotedOK
  <2>3. FlushOK'
    BY <1>6, <2>1 DEF TakeFuncs, FlushOK, NotedOK
  <2>4. FlagsOK' /\ ReloadsOK'
    BY <1>1, <1>6 DEF TakeFuncs, FlagsOK, ReloadsOK, callerVars
  <2>5. Covered'
    <3>1. SUFFICES ASSUME NEW d \in Dirs, pendingFuncs'[d] # {} PROVE FlushToCome(d)'
      BY DEF Covered
    <3>2. d # fdir /\ pendingFuncs[d] # {}
      BY <1>6, <2>1, <3>1 DEF TakeFuncs, NotedOK
    <3> QED
      BY <1>1, <1>3, <1>6, <3>2 DEF TakeFuncs, Covered, FlushToCome
  <2> QED
    BY <1>2, <1>4, <2>2, <2>3, <2>4, <2>5
<1>7. CASE PutReload
  <2>1. NotedOK'
    BY <1>1, <1>3, <1>7 DEF PutReload, NotedOK
  <2>2. FlushOK'
    BY <1>7 DEF PutReload, FlushOK
  <2>3. FlagsOK'
    BY <1>1, <1>7 DEF PutReload, FlagsOK, callerVars
  <2>4. ReloadsOK'
    <3>1. ffuncs \in (SUBSET Files) \ {{}}
      BY <1>7 DEF PutReload, FlushOK
    <3>2. reloads' = Append(reloads, ffuncs) \/ UNCHANGED reloads
      BY <1>7 DEF PutReload
    <3> QED
      BY <3>1, <3>2, AppendProperties DEF ReloadsOK
  <2>5. Covered'
    BY <1>1, <1>3, <1>7 DEF PutReload, Covered, FlushToCome
  <2> QED
    BY <1>2, <1>4, <2>1, <2>2, <2>3, <2>4, <2>5
<1> QED
  BY <1>5, <1>6, <1>7 DEF FlushStep

-----------------------------------------------------------------------------
\* What watch, unwatch and the execution of a reload do not touch.
LEMMA CallerKeeps ==
  ASSUME IInv, MonitorOK', CallerOK', UNCHANGED <<scheduled, lpc, flushVars>>,
         lpc = "schedule" => UNCHANGED <<mpc, call, callees>>,
         pendingFuncs' \in [Dirs -> SUBSET Files],
         \A d \in Dirs : pendingFuncs'[d] \subseteq pendingFuncs[d],
         enabled' \in BOOLEAN, reloads' \in Seq((SUBSET Files) \ {{}})
  PROVE  IInv'
PROOF
<1> USE DEF IInv, ReloaderOK
<1>1. NotedOK'
  BY DEF NotedOK
<1>2. FlushOK' /\ ReloadsOK'
  BY DEF FlushOK, ReloadsOK, flushVars
<1>3. FlagsOK'
  BY DEF FlagsOK, flushVars
<1>4. Covered'
  <2>1. SUFFICES ASSUME NEW d \in Dirs, pendingFuncs'[d] # {} PROVE FlushToCome(d)'
    BY DEF Covered
  <2>2. FlushToCome(d)
    BY <2>1 DEF Covered
  <2> QED
    BY <2>2 DEF FlushToCome, flushVars
<1> QED
  BY <1>1, <1>2, <1>3, <1>4

LEMMA CallersKeep ==
  ASSUME IInv,
         \/ CallerStep \/ SetEnabled \/ Reload
         \/ \E d \in Dirs : Watch(d) \/ Unwatch(d)
  PROVE  IInv'
PROOF
<1> USE DEF IInv, ReloaderOK
<1>1. MonitorOK /\ CallerOK /\ pendingFuncs \in [Dirs -> SUBSET Files]
      /\ enabled \in BOOLEAN /\ reloads \in Seq((SUBSET Files) \ {{}})
  BY DEF NotedOK, FlagsOK, ReloadsOK
<1>2. CASE WatchSubscribes
  <2>1. udir \in Dirs /\ Reloader \in Listeners /\ Subscribe(udir, Reloader)
    BY <1>1, <1>2, ReloadAssumption DEF WatchSubscribes, CallerOK
  <2>2. MonitorOK' /\ UNCHANGED <<mpc, call, callees>>
    BY <1>1, <2>1, SubscribeTypes DEF Subscribe, loopVars
  <2>3. CallerOK'
    BY <1>1, <1>2, <2>1 DEF WatchSubscribes, CallerOK
  <2> QED
    BY <1>1, <1>2, <2>2, <2>3, CallerKeeps DEF WatchSubscribes
<1>3. CASE UnwatchUnsubscribes
  <2>1. udir \in Dirs /\ Reloader \in Listeners /\ Unsubscribe(udir, Reloader)
    BY <1>1, <1>3, ReloadAssumption DEF UnwatchUnsubscribes, CallerOK
  <2>2. MonitorOK' /\ UNCHANGED <<mpc, call, callees>>
    BY <1>1, <2>1, UnsubscribeTypes DEF Unsubscribe, loopVars
  <2>3. CallerOK'
    BY <1>1, <1>3, <2>1 DEF UnwatchUnsubscribes, CallerOK
  <2> QED
    BY <1>1, <1>3, <2>2, <2>3, CallerKeeps DEF UnwatchUnsubscribes
<1>4. ASSUME UNCHANGED monitorVars
      PROVE  MonitorOK' /\ UNCHANGED <<mpc, call, callees>>
  BY <1>4, MonitorKept DEF monitorVars, loopVars
<1>5. CASE UnwatchForgets
  <2>1. CallerOK'
    BY <1>1, <1>5 DEF UnwatchForgets, CallerOK
  <2> QED
    BY <1>1, <1>4, <1>5, <2>1, CallerKeeps DEF UnwatchForgets
<1>6. CASE UnwatchClears
  <2>1. udir \in Dirs
    BY <1>1, <1>6 DEF UnwatchClears, CallerOK
  <2>2. pendingFuncs' \in [Dirs -> SUBSET Files]
        /\ \A d \in Dirs : pendingFuncs'[d] \subseteq pendingFuncs[d]
    BY <1>1, <1>6, <2>1 DEF UnwatchClears
  <2>3. CallerOK'
    BY <1>1, <1>6 DEF UnwatchClears, CallerOK
  <2> QED
    BY <1>1, <1>4, <1>6, <2>2, <2>3, CallerKeeps DEF UnwatchClears
<1>7. CASE SetEnabled
  <2>1. CallerOK'
    BY <1>1, <1>7 DEF SetEnabled, CallerOK
  <2>2. enabled' \in BOOLEAN
    BY <1>7 DEF SetEnabled
  <2> QED
    BY <1>1, <1>4, <1>7, <2>1, <2>2, CallerKeeps DEF SetEnabled
<1>8. CASE Reload
  <2>1. CallerOK'
    BY <1>1, <1>8 DEF Reload, CallerOK, callerVars
  <2>2. reloads' \in Seq((SUBSET Files) \ {{}})
    BY <1>1, <1>8, HeadTailProperties DEF Reload
  <2>3. enabled' \in BOOLEAN
    BY <1>1, <1>8 DEF Reload, callerVars
  <2> QED
    BY <1>1, <1>4, <1>8, <2>1, <2>2, <2>3, CallerKeeps DEF Reload
<1>9. ASSUME NEW d \in Dirs, Watch(d) \/ Unwatch(d)
      PROVE  IInv'
  <2>1. CallerOK'
    BY <1>1, <1>9 DEF Watch, Unwatch, CallerOK
  <2> QED
    BY <1>1, <1>4, <1>9, <2>1, CallerKeeps DEF Watch, Unwatch
<1> QED
  BY <1>2, <1>3, <1>5, <1>6, <1>7, <1>8, <1>9 DEF CallerStep

-----------------------------------------------------------------------------
LEMMA NextIInv == IInv /\ [Next]_vars => IInv'
PROOF
<1> SUFFICES ASSUME IInv, [Next]_vars PROVE IInv'
  OBVIOUS
<1>1. CASE MonitorStep
  BY <1>1, LoopKeeps, OnEventKeeps, ScheduleFlushKeeps DEF MonitorStep
<1>2. CASE UNCHANGED vars
  <2>1. UNCHANGED monitorVars /\ UNCHANGED reloaderVars /\ UNCHANGED asked
        /\ UNCHANGED <<mpc, call, callees>>
    BY <1>2 DEF vars, reloaderVars, callerVars, monitorVars, loopVars
  <2> QED
    BY <2>1, MonitorKept, ReloaderKept DEF IInv
<1> QED
  BY <1>1, <1>2, EnvironmentKeeps, ExecutorKeeps, FlushKeeps, CallersKeep DEF Next

\* Functions noted for a reload are never left without a flush to come,
\* whatever the directories, files and listeners, and however the monitor
\* thread in onEvent, the timers, unwatch and the scheduler interleave.
THEOREM PendingHasFlushCorrect == Spec => []PendingHasFlush
PROOF
<1>1. IInv => PendingHasFlush
  <2>1. SUFFICES ASSUME IInv PROVE PendingHasFlush
    OBVIOUS
  <2>2. MonitorTypeOK
    BY <2>1 DEF IInv, MonitorOK, OsOK, MapOK, RegisterOK, LoopOK, WindowOK, MonitorTypeOK
  <2>3. enabled \in BOOLEAN /\ flib \in BOOLEAN
    BY <2>1 DEF IInv, ReloaderOK, FlagsOK
  <2>4. ReloadTypeOK
    BY <2>1, <2>2, <2>3 DEF IInv, ReloaderOK, CallerOK, NotedOK, FlushOK, ReloadsOK,
       ReloadTypeOK
  <2> QED
    BY <2>1, <2>4 DEF IInv, ReloaderOK, Covered, FlushToCome, PendingHasFlush
<1> QED
  BY <1>1, InitIInv, NextIInv, PTL DEF Spec

=============================================================================
