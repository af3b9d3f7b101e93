---------------------------- MODULE LibraryReload ----------------------------
(***************************************************************************)
(* LibraryReloader of modules/action_binding: it listens to the source     *)
(* directories of macro libraries and, when a function file changes, has   *)
(* the interpreter rebuild and load the library.  Four threads take part:  *)
(* the interpreter (which calls watch and unwatch, through the macro       *)
(* macroswatch, and executes the reloads), the monitor thread and the      *)
(* executor of FileMonitor, and the scheduler of the flushes.              *)
(*                                                                         *)
(* watch, unwatch and scheduleFlush are synchronized on the reloader; flush*)
(* is not.  Files are the functions' sources only: other files are ignored *)
(* by onEvent.  A timer may fire at any time after it was set.             *)
(***************************************************************************)
EXTENDS FileMonitor

CONSTANTS
  Reloader,    \* the listener of LibraryReloader
  MaxReloads   \* bound: reload commands the interpreter has not executed

ASSUME ReloadAssumption ==
  /\ Reloader \in Listeners
  /\ MaxReloads \in Nat \ {0}

VARIABLES
  dirToLib,      \* the directories that have a library
  heard,         \* the keys of LibraryReloader.listeners
  upc, udir,     \* the interpreter in watch or unwatch
  enabled,
  pendingFuncs,
  scheduled,     \* the directories with a timer that has not fired
  lpc,           \* the monitor thread in onEvent
  fpc, fdir, flib, ffuncs,   \* the scheduler in flush
  reloads,       \* the reload commands stored: the functions of each
  asked          \* history: whether the last watch of a directory that is
                 \* there subscribed it, with no dead key left ("first")

callerVars == <<dirToLib, heard, upc, udir, enabled, asked>>
flushVars  == <<fpc, fdir, flib, ffuncs>>
vars == <<monitorVars, callerVars, pendingFuncs, scheduled, lpc, flushVars,
          reloads>>

Init ==
  /\ MonitorInit
  /\ dirToLib = {} /\ heard = {}
  /\ upc = "idle" /\ udir = NoDir
  /\ enabled = TRUE
  /\ pendingFuncs = [d \in Dirs |-> {}]
  /\ scheduled = {}
  /\ lpc = "idle"
  /\ fpc = "idle" /\ fdir = NoDir /\ flib = FALSE /\ ffuncs = {}
  /\ reloads = <<>>
  /\ asked = [d \in Dirs |-> "no"]

ReloadTypeOK ==
  /\ MonitorTypeOK
  /\ dirToLib \subseteq Dirs
  /\ heard \subseteq Dirs
  /\ upc \in {"idle", "subscribe", "unsubscribe", "forget", "clear"}
  /\ udir \in Dirs \cup {NoDir}
  /\ enabled \in BOOLEAN
  /\ pendingFuncs \in [Dirs -> SUBSET Files]
  /\ scheduled \subseteq Dirs
  /\ lpc \in {"idle", "schedule"}
  /\ fpc \in {"idle", "take", "put"}
  /\ fdir \in Dirs \cup {NoDir}
  /\ flib \in BOOLEAN
  /\ ffuncs \subseteq Files
  /\ reloads \in Seq((SUBSET Files) \ {{}})
  /\ asked \in [Dirs -> {"no", "first", "again"}]

-----------------------------------------------------------------------------
\* watch: the directory is subscribed unless it has a listener already.
Watch(d) ==
  /\ upc = "idle"
  /\ Len(toRegister) < MaxRegister
  /\ d \in exists
  /\ dirToLib' = dirToLib \cup {d}
  /\ IF d \in heard
     THEN /\ asked' = [asked EXCEPT ![d] = IF @ = "no" THEN "again" ELSE @]
          /\ UNCHANGED <<heard, upc, udir>>
     ELSE /\ heard' = heard \cup {d}
          /\ upc' = "subscribe"
          /\ udir' = d
          /\ UNCHANGED asked
  /\ UNCHANGED <<monitorVars, enabled, pendingFuncs, scheduled, lpc, flushVars,
                 reloads>>

WatchSubscribes ==
  /\ upc = "subscribe"
  /\ Subscribe(udir, Reloader)
  /\ upc' = "idle"
  /\ udir' = NoDir
  /\ asked' = [asked EXCEPT ![udir] =
       IF udir \notin exists THEN "no"
       ELSE IF keysByRoot[udir] \in {NoKey, osKey[udir]} THEN "first" ELSE "again"]
  /\ UNCHANGED <<dirToLib, heard, enabled, pendingFuncs, scheduled, lpc,
                 flushVars, reloads>>

Unwatch(d) ==
  /\ upc = "idle"
  /\ heard' = heard \ {d}
  /\ upc' = IF d \in heard THEN "unsubscribe" ELSE "forget"
  /\ udir' = d
  /\ asked' = [asked EXCEPT ![d] = "no"]
  /\ UNCHANGED <<monitorVars, dirToLib, enabled, pendingFuncs, scheduled, lpc,
                 flushVars, reloads>>

UnwatchUnsubscribes ==
  /\ upc = "unsubscribe"
  /\ Unsubscribe(udir, Reloader)
  /\ upc' = "forget"
  /\ UNCHANGED <<dirToLib, heard, udir, enabled, asked, pendingFuncs, scheduled,
                 lpc, flushVars, reloads>>

\* dirToLib.remove, and then pendingFuncs.remove without its lock.
UnwatchForgets ==
  /\ upc = "forget"
  /\ dirToLib' = dirToLib \ {udir}
  /\ upc' = "clear"
  /\ UNCHANGED <<monitorVars, heard, udir, enabled, asked, pendingFuncs,
                 scheduled, lpc, flushVars, reloads>>

UnwatchClears ==
  /\ upc = "clear"
  /\ pendingFuncs' = [pendingFuncs EXCEPT ![udir] = {}]
  /\ upc' = "idle"
  /\ udir' = NoDir
  /\ UNCHANGED <<monitorVars, dirToLib, heard, enabled, asked, scheduled, lpc,
                 flushVars, reloads>>

SetEnabled ==
  /\ upc = "idle"
  /\ enabled' = ~enabled
  /\ UNCHANGED <<monitorVars, dirToLib, heard, upc, udir, asked, pendingFuncs,
                 scheduled, lpc, flushVars, reloads>>

-----------------------------------------------------------------------------
\* onEvent, in the monitor thread: note the function, then set the timer.
OnEvent ==
  /\ mpc = "deliver"
  /\ Reloader \in callees
  /\ lpc = "idle"
  /\ IF enabled
     THEN /\ pendingFuncs' =
               [pendingFuncs EXCEPT ![DirOf[call]] = @ \cup {call}]
          /\ lpc' = "schedule"
          /\ UNCHANGED monitorVars
     ELSE Called(Reloader) /\ UNCHANGED <<pendingFuncs, lpc>>
  /\ UNCHANGED <<callerVars, scheduled, flushVars, reloads>>

\* Fault: the timer before is cancelled and none is set.
ScheduleFlushCancels ==
  /\ lpc = "schedule"
  /\ upc = "idle"
  /\ scheduled' = IF DirOf[call] \in scheduled THEN scheduled \ {DirOf[call]}
                  ELSE scheduled \cup {DirOf[call]}
  /\ lpc' = "idle"
  /\ Called(Reloader)
  /\ UNCHANGED <<callerVars, pendingFuncs, flushVars, reloads>>

\* scheduleFlush, synchronized: the timer before is cancelled, one that has
\* fired is not.
ScheduleFlush ==
  /\ lpc = "schedule"
  /\ upc = "idle"
  /\ scheduled' = scheduled \cup {DirOf[call]}
  /\ lpc' = "idle"
  /\ Called(Reloader)
  /\ UNCHANGED <<callerVars, pendingFuncs, flushVars, reloads>>

\* flush: read the library, take the functions, store the command.
StartFlush(d) ==
  /\ fpc = "idle"
  /\ d \in scheduled
  /\ scheduled' = scheduled \ {d}
  /\ fdir' = d
  /\ flib' = (d \in dirToLib)
  /\ fpc' = "take"
  /\ UNCHANGED <<monitorVars, callerVars, pendingFuncs, lpc, ffuncs, reloads>>

\* Fault: the functions of a library that is gone stay noted.
TakeFuncsOfLibrary ==
  /\ fpc = "take"
  /\ pendingFuncs' = IF flib THEN [pendingFuncs EXCEPT ![fdir] = {}]
                     ELSE pendingFuncs
  /\ ffuncs' = IF flib THEN pendingFuncs[fdir] ELSE {}
  /\ fpc' = IF ffuncs' # {} THEN "put" ELSE "idle"
  /\ fdir' = NoDir
  /\ flib' = FALSE
  /\ UNCHANGED <<monitorVars, callerVars, scheduled, lpc, reloads>>

TakeFuncs ==
  /\ fpc = "take"
  /\ pendingFuncs' = [pendingFuncs EXCEPT ![fdir] = {}]
  /\ ffuncs' = IF flib THEN pendingFuncs[fdir] ELSE {}
  /\ fpc' = IF ffuncs' # {} THEN "put" ELSE "idle"
  /\ fdir' = NoDir
  /\ flib' = FALSE
  /\ UNCHANGED <<monitorVars, callerVars, scheduled, lpc, reloads>>

\* putCommandInScilabQueue, which refuses a command while the debugger stops.
PutReload ==
  /\ fpc = "put"
  /\ \/ Len(reloads) < MaxReloads /\ reloads' = Append(reloads, ffuncs)
     \/ UNCHANGED reloads
  /\ ffuncs' = {}
  /\ fpc' = "idle"
  /\ UNCHANGED <<monitorVars, callerVars, pendingFuncs, scheduled, lpc, fdir,
                 flib>>

Reload ==
  /\ upc = "idle"
  /\ reloads # <<>>
  /\ reloads' = Tail(reloads)
  /\ UNCHANGED <<monitorVars, callerVars, pendingFuncs, scheduled, lpc,
                 flushVars>>

-----------------------------------------------------------------------------
FlushStep  == TakeFuncs \/ PutReload \/ \E d \in Dirs : StartFlush(d)
CallerStep ==
  WatchSubscribes \/ UnwatchUnsubscribes \/ UnwatchForgets \/ UnwatchClears

reloaderVars ==
  <<dirToLib, heard, upc, udir, enabled, pendingFuncs, scheduled, lpc, flushVars,
    reloads>>

\* The callbacks of the other listeners are left out.
MonitorStep ==
  \/ /\ Reloader \notin callees
     /\ LoopStep
     /\ UNCHANGED <<asked, reloaderVars>>
  \/ OnEvent \/ ScheduleFlush
ExecutorStep == RegisterStep /\ UNCHANGED <<asked, reloaderVars>>

\* What the files, the time and the other listeners do.
Environment ==
  \/ /\ \/ \E f \in Files :
             \/ Change(f)
                  /\ UNCHANGED <<mapVars, registerVars, loopVars, windowVars>>
             \/ Suppress(f) \/ SuppressionEnds(f) \/ DebounceEnds(f)
        \/ \E d \in Dirs, l \in Listeners \ {Reloader} :
             \/ Len(toRegister) < MaxRegister /\ Subscribe(d, l)
             \/ Unsubscribe(d, l)
        \/ \E d \in Dirs : DirectoryComes(d)
     /\ UNCHANGED asked
  \/ \E d \in Dirs : DirectoryGoes(d) /\ asked' = [asked EXCEPT ![d] = "no"]

Next ==
  \/ Environment /\ UNCHANGED reloaderVars
  \/ MonitorStep \/ ExecutorStep \/ FlushStep \/ CallerStep
  \/ \E d \in Dirs : Watch(d) \/ Unwatch(d)
  \/ SetEnabled \/ Reload

Spec == Init /\ [][Next]_vars

\* Threads run, and a timer fires: changes stop coming for COALESCE_MS.
FairSpec ==
  /\ Spec
  /\ WF_vars(MonitorStep)
  /\ WF_vars(ExecutorStep)
  /\ WF_vars(FlushStep)
  /\ WF_vars(CallerStep)

-----------------------------------------------------------------------------
\* Functions noted for a reload are never left without a flush to come, however
\* the timers, unwatch and the events interleave; types included.
PendingHasFlush ==
  /\ ReloadTypeOK
  /\ \A d \in Dirs : pendingFuncs[d] # {} =>
       \/ d \in scheduled
       \/ fpc = "take" /\ fdir = d
       \/ lpc = "schedule" /\ DirOf[call] = d

\* A change delivered to the reloader comes to a reload command of a library
\* that is watched, and not to a later or to no one.
DeliveredIsReloaded ==
  \A f \in Files :
    f \in pendingFuncs[DirOf[f]] ~>
      \/ f \in ffuncs
      \/ DirOf[f] \notin dirToLib
      \/ fpc = "take" /\ fdir = DirOf[f] /\ ~flib

Served(d) == osKey[d] # NoKey /\ rootsByKey[osKey[d]] = d

\* A watch that subscribes a directory has its changes reported in the end,
\* whoever else comes and goes, and whatever happened to the directory before,
\* if the monitor has forgotten the key of an earlier directory of that name.
WatchTakesHold ==
  \A d \in Dirs : asked[d] = "first" ~> Served(d) \/ asked[d] # "first"

=============================================================================
