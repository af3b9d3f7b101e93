---------------------------- MODULE FileMonitor -----------------------------
(***************************************************************************)
(* FileSystemMonitor of modules/commons: directories are registered with   *)
(* the WatchService of the Java library by one executor thread, and a      *)
(* monitor thread takes the signalled keys and calls the listeners.        *)
(*                                                                         *)
(* subscribe, unsubscribe and the second half of register are synchronized *)
(* and short, so each is one step; the monitor thread takes no lock.  The  *)
(* watch service is external: a key is valid until it is cancelled or its  *)
(* directory goes, and is queued once when it has something to report.     *)
(* The two time windows of the monitor are sets of files: suppressed, and  *)
(* recent for the debounce.  The kind of a change is left out.             *)
(***************************************************************************)
EXTENDS Naturals, SequencesExt

CONSTANTS
  Dirs, Files, DirOf,   \* directories, and the files directly in them
  Listeners,
  Keys,                 \* WatchKey objects
  NoKey, NoDir, NoFile, \* null
  Perishable,           \* the directories that may be deleted
  MaxRegister           \* bound: nobody subscribes with more tasks than that

ASSUME FileAssumption ==
  /\ DirOf \in [Files -> Dirs]
  /\ NoKey \notin Keys
  /\ NoDir \notin Dirs
  /\ NoFile \notin Files
  /\ Perishable \subseteq Dirs
  /\ MaxRegister \in Nat

VARIABLES
  exists,       \* the directories that exist
  osKey,        \* the valid key of each directory
  events,       \* what each key has to report
  queued,       \* the keys the watch service has for the monitor thread
  listeners,    \* who listens to each directory
  keysByRoot, rootsByKey,
  toRegister,   \* the executor's tasks
  rdir, rkey,   \* what the executor has registered and not recorded
  mpc, mkey, mroot, todo,   \* the monitor thread, its key and events
  call, callees,            \* the change being delivered, to whom still
  suppressed, recent

osVars       == <<exists, osKey, events, queued>>
mapVars      == <<listeners, keysByRoot, rootsByKey>>
registerVars == <<toRegister, rdir, rkey>>
loopVars     == <<mpc, mkey, mroot, todo, call, callees>>
windowVars   == <<suppressed, recent>>
monitorVars  == <<osVars, mapVars, registerVars, loopVars, windowVars>>

MonitorInit ==
  /\ exists = Dirs
  /\ osKey = [d \in Dirs |-> NoKey]
  /\ events = [k \in Keys |-> {}]
  /\ queued = {}
  /\ listeners = [d \in Dirs |-> {}]
  /\ keysByRoot = [d \in Dirs |-> NoKey]
  /\ rootsByKey = [k \in Keys |-> NoDir]
  /\ toRegister = <<>>
  /\ rdir = NoDir /\ rkey = NoKey
  /\ mpc = "take" /\ mkey = NoKey /\ mroot = NoDir /\ todo = {}
  /\ call = NoFile /\ callees = {}
  /\ suppressed = {}
  /\ recent = {}

MonitorTypeOK ==
  /\ exists \subseteq Dirs
  /\ osKey \in [Dirs -> Keys \cup {NoKey}]
  /\ events \in [Keys -> SUBSET Files]
  /\ queued \subseteq Keys
  /\ listeners \in [Dirs -> SUBSET Listeners]
  /\ keysByRoot \in [Dirs -> Keys \cup {NoKey}]
  /\ rootsByKey \in [Keys -> Dirs \cup {NoDir}]
  /\ toRegister \in Seq(Dirs)
  /\ rdir \in Dirs \cup {NoDir}
  /\ rkey \in Keys \cup {NoKey}
  /\ mpc \in {"take", "events", "deliver", "reset", "forget"}
  /\ mkey \in Keys \cup {NoKey}
  /\ mroot \in Dirs \cup {NoDir}
  /\ todo \subseteq Files
  /\ call \in Files \cup {NoFile}
  /\ callees \subseteq Listeners
  /\ suppressed \subseteq Files
  /\ recent \subseteq Files

-----------------------------------------------------------------------------
\* The watch service and the disk.
Valid(k) == \E d \in Dirs : osKey[d] = k
\* A dead key nobody holds is a new one: what rootsByKey still says of it is
\* never looked up, since it is never taken again.
FreshKeys ==
  {k \in Keys : ~Valid(k) /\ k \notin queued \cup {rkey, mkey}
                /\ \A d \in Dirs : keysByRoot[d] # k}

\* The key of a directory has events; it is queued unless it is being taken.
Report(d, changed) ==
  /\ events' = [k \in Keys |->
       IF k = osKey[d] THEN events[k] \cup changed ELSE events[k]]
  /\ queued' = queued \cup ({osKey[d]} \ {NoKey, mkey})

\* A file changes on disk, and the key of its directory has an event.
Change(f) ==
  /\ DirOf[f] \in exists
  /\ Report(DirOf[f], {f})
  /\ UNCHANGED <<exists, osKey>>

\* A directory is deleted, with its files: the key is no longer valid.
DirectoryGoes(d) ==
  /\ d \in exists \cap Perishable
  /\ exists' = exists \ {d}
  /\ osKey' = [osKey EXCEPT ![d] = NoKey]
  /\ Report(d, {f \in Files : DirOf[f] = d})
  /\ UNCHANGED <<mapVars, registerVars, loopVars, windowVars>>

DirectoryComes(d) ==
  /\ d \notin exists
  /\ exists' = exists \cup {d}
  /\ UNCHANGED <<osKey, events, queued, mapVars, registerVars, loopVars,
                 windowVars>>

-----------------------------------------------------------------------------
Subscribe(d, l) ==
  /\ IF d \notin exists
     THEN UNCHANGED <<listeners, toRegister>>
     ELSE /\ listeners' = [listeners EXCEPT ![d] = @ \cup {l}]
          /\ toRegister' = IF keysByRoot[d] = NoKey
                           THEN Append(toRegister, d) ELSE toRegister
  /\ UNCHANGED <<osVars, keysByRoot, rootsByKey, rdir, rkey, loopVars,
                 windowVars>>

Cancel(k) ==
  osKey' = [d \in Dirs |-> IF osKey[d] = k THEN NoKey ELSE osKey[d]]

\* Fault: whoever leaves cancels the key.
UnsubscribeCancelsAlways(d, l) ==
  /\ listeners' = [listeners EXCEPT ![d] = @ \ {l}]
  /\ IF l \in listeners[d] /\ keysByRoot[d] # NoKey
     THEN /\ keysByRoot' = [keysByRoot EXCEPT ![d] = NoKey]
          /\ rootsByKey' = [rootsByKey EXCEPT ![keysByRoot[d]] = NoDir]
          /\ Cancel(keysByRoot[d])
     ELSE UNCHANGED <<keysByRoot, rootsByKey, osKey>>
  /\ UNCHANGED <<exists, events, queued, registerVars, loopVars, windowVars>>

\* The last listener that leaves a directory cancels its key.
Unsubscribe(d, l) ==
  /\ listeners' = [listeners EXCEPT ![d] = @ \ {l}]
  /\ IF l \in listeners[d] /\ listeners'[d] = {} /\ keysByRoot[d] # NoKey
     THEN /\ keysByRoot' = [keysByRoot EXCEPT ![d] = NoKey]
          /\ rootsByKey' = [rootsByKey EXCEPT ![keysByRoot[d]] = NoDir]
          /\ Cancel(keysByRoot[d])
     ELSE UNCHANGED <<keysByRoot, rootsByKey, osKey>>
  /\ UNCHANGED <<exists, events, queued, registerVars, loopVars, windowVars>>

\* The executor: a directory already registered gives the same key again; one
\* that does not exist is reported and dropped.
RegisterKey ==
  /\ toRegister # <<>>
  /\ rkey = NoKey
  /\ toRegister' = Tail(toRegister)
  /\ LET d == Head(toRegister) IN
     IF d \notin exists
     THEN UNCHANGED <<osKey, rootsByKey, rdir, rkey>>
     ELSE /\ rdir' = d
          /\ osKey[d] = NoKey => FreshKeys # {}
          /\ rkey' = IF osKey[d] # NoKey THEN osKey[d]
                     ELSE CHOOSE k \in FreshKeys : TRUE
          /\ osKey' = [osKey EXCEPT ![d] = rkey']
          /\ rootsByKey' =
               [rootsByKey EXCEPT ![rkey'] = IF rkey' = osKey[d] THEN @ ELSE NoDir]
  /\ UNCHANGED <<exists, events, queued, listeners, keysByRoot, loopVars,
                 windowVars>>

\* The synchronized end of register.
RecordKey ==
  /\ rkey # NoKey
  /\ IF listeners[rdir] = {}
     THEN Cancel(rkey) /\ UNCHANGED <<keysByRoot, rootsByKey>>
     ELSE /\ keysByRoot' = [keysByRoot EXCEPT ![rdir] = rkey]
          /\ rootsByKey' = [rootsByKey EXCEPT ![rkey] = rdir]
          /\ UNCHANGED osKey
  /\ rdir' = NoDir
  /\ rkey' = NoKey
  /\ UNCHANGED <<exists, events, queued, listeners, toRegister, loopVars,
                 windowVars>>

Suppress(f) ==
  /\ suppressed' = suppressed \cup {f}
  /\ UNCHANGED <<osVars, mapVars, registerVars, loopVars, recent>>

SuppressionEnds(f) ==
  /\ f \in suppressed
  /\ suppressed' = suppressed \ {f}
  /\ UNCHANGED <<osVars, mapVars, registerVars, loopVars, recent>>

-----------------------------------------------------------------------------
\* runLoop: take a key, look its directory up, poll its events.
TakeKey(k) ==
  /\ mpc = "take"
  /\ k \in queued
  /\ queued' = queued \ {k}
  /\ mkey' = k
  /\ mroot' = rootsByKey[k]
  /\ todo' = events[k]
  /\ events' = [events EXCEPT ![k] = {}]
  /\ mpc' = "events"
  /\ UNCHANGED <<exists, osKey, mapVars, registerVars, call, callees,
                 windowVars>>

\* dispatch: an event without a directory, suppressed, or within the debounce
\* window of the previous one, is dropped.
Dropped(f) == mroot = NoDir \/ f \in suppressed \/ f \in recent

DropEvent(f) ==
  /\ mpc = "events"
  /\ f \in todo
  /\ Dropped(f)
  /\ todo' = todo \ {f}
  /\ UNCHANGED <<osVars, mapVars, registerVars, mpc, mkey, mroot, call,
                 callees, windowVars>>

Dispatch(f) ==
  /\ mpc = "events"
  /\ f \in todo
  /\ ~Dropped(f)
  /\ todo' = todo \ {f}
  /\ recent' = recent \cup {f}
  /\ call' = f
  /\ callees' = listeners[mroot]
  /\ mpc' = "deliver"
  /\ UNCHANGED <<osVars, mapVars, registerVars, mkey, mroot, suppressed>>

DebounceEnds(f) ==
  /\ f \in recent
  /\ recent' = recent \ {f}
  /\ UNCHANGED <<osVars, mapVars, registerVars, loopVars, suppressed>>

\* A listener has returned.
Called(l) ==
  /\ callees' = callees \ {l}
  /\ UNCHANGED <<osVars, mapVars, registerVars, mpc, mkey, mroot, todo, call,
                 windowVars>>

\* All have, whatever they did.
Delivered ==
  /\ mpc = "deliver"
  /\ call' = NoFile
  /\ callees' = {}
  /\ mpc' = "events"
  /\ UNCHANGED <<osVars, mapVars, registerVars, mkey, mroot, todo, windowVars>>

EventsDone ==
  /\ mpc = "events"
  /\ todo = {}
  /\ mpc' = "reset"
  /\ UNCHANGED <<osVars, mapVars, registerVars, mkey, mroot, todo, call,
                 callees, windowVars>>

\* reset queues the key again when it has new events.  It fails for a key that
\* is not valid any more: the key leaves rootsByKey, then (a step later) its
\* directory leaves keysByRoot.
ResetKey ==
  /\ mpc = "reset"
  /\ IF Valid(mkey)
     THEN /\ queued' = IF events[mkey] # {} THEN queued \cup {mkey} ELSE queued
          /\ mpc' = "take"
          /\ mroot' = NoDir
          /\ UNCHANGED <<events, rootsByKey>>
     ELSE /\ events' = [events EXCEPT ![mkey] = {}]
          /\ UNCHANGED queued
          /\ mroot' = rootsByKey[mkey]
          /\ rootsByKey' = [rootsByKey EXCEPT ![mkey] = NoDir]
          /\ mpc' = IF mroot' = NoDir THEN "take" ELSE "forget"
  /\ mkey' = NoKey
  /\ UNCHANGED <<exists, osKey, listeners, keysByRoot, registerVars, todo,
                 call, callees, windowVars>>

ForgetKey ==
  /\ mpc = "forget"
  /\ keysByRoot' = [keysByRoot EXCEPT ![mroot] = NoKey]
  /\ mroot' = NoDir
  /\ mpc' = "take"
  /\ UNCHANGED <<osVars, listeners, rootsByKey, registerVars, mkey, todo, call,
                 callees, windowVars>>

LoopStep ==
  \/ \E k \in Keys : TakeKey(k)
  \/ \E f \in Files : DropEvent(f) \/ Dispatch(f)
  \/ Delivered \/ EventsDone \/ ResetKey \/ ForgetKey

RegisterStep == RegisterKey \/ RecordKey

=============================================================================
