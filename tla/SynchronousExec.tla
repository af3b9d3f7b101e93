-------------------------- MODULE SynchronousExec ---------------------------
(***************************************************************************)
(* Java threads that store a command and wait for its end:                 *)
(* ScilabInterpreterManagement and the rendezvous Signal of                *)
(* modules/action_binding.  The stored text ends with notify("<uid>"), uid *)
(* being the hash of the command, which the interpreter thread executes as *)
(* the last statement.  The engine is the environment, as CommandService   *)
(* describes it.                                                           *)
(*                                                                         *)
(* Each Signal.wait creates an object of its own to wait on.  Objects are  *)
(* members of a pool, taken when nothing refers to them any more.          *)
(***************************************************************************)
EXTENDS Naturals, SequencesExt

CONSTANTS
  Uids,        \* the commands' texts, or their hashes
  Callers,     \* threads that call synchronousScilabExec
  Executor,    \* the thread of the executor of asynchronousScilabExec
  Objects,     \* what Signal.wait creates
  NoObject,    \* null
  NoUid,       \* no text
  NoCmd,
  MaxTasks,    \* bound: tasks the executor has not started
  Patient      \* whether a text is asked again only when it is not in use

Threads == Callers \cup {Executor}
Commands == Uids \X {"sync", "async"}
Prioritary == Uids \X {"sync"}       \* requestScilabExec
Interruptible == Uids \X {"async"}   \* putCommandInScilabQueue

ASSUME ExecAssumption ==
  /\ Executor \notin Callers
  /\ NoObject \notin Objects
  /\ NoUid \notin Uids
  /\ NoCmd \notin Commands
  /\ MaxTasks \in Nat
  /\ Patient \in BOOLEAN

VARIABLES
  prio, norm, active,  \* the command service
  pc,       \* where each thread is
  uid,      \* the text it asked for
  obj,      \* the object it waits on
  tasks,    \* the texts submitted to the executor
  running,  \* runningTasks
  waiters,  \* Signal.waiters
  npc,      \* where the interpreter is in Signal.notify
  data      \* the object it found there

Service ==
  INSTANCE CommandService WITH StartPrio <- <<>>, StartNorm <- <<>>

service  == <<prio, norm, active>>
notifier == <<npc, data>>
vars == <<service, pc, uid, obj, tasks, running, waiters, notifier>>

Init ==
  /\ Service!Init
  /\ pc = [t \in Threads |-> "idle"]
  /\ uid = [t \in Threads |-> NoUid]
  /\ obj = [t \in Threads |-> NoObject]
  /\ tasks = <<>>
  /\ running = {}
  /\ waiters = [u \in Uids |-> NoObject]
  /\ npc = "idle"
  /\ data = NoObject

ExecTypeOK ==
  /\ prio \in Seq(Prioritary)
  /\ norm \in Seq(Interruptible)
  /\ active \in Seq(Commands \cup {NoCmd})
  /\ pc \in [Threads ->
       {"idle", "request", "add", "put", "sync", "waiting", "remove"}]
  /\ uid \in [Threads -> Uids \cup {NoUid}]
  /\ obj \in [Threads -> Objects \cup {NoObject}]
  /\ tasks \in Seq(Uids)
  /\ running \subseteq Uids
  /\ waiters \in [Uids -> Objects \cup {NoObject}]
  /\ npc \in {"idle", "look", "wake", "forget"}
  /\ data \in Objects \cup {NoObject}

\* What still refers to a text, or to an object.
Stored == ToSet(prio) \cup ToSet(norm) \cup ToSet(active)
InUse(u) ==
  \/ \E t \in Threads : uid[t] = u
  \/ u \in ToSet(tasks)
  \/ \E kind \in {"sync", "async"} : <<u, kind>> \in Stored
Fresh ==
  Objects \ ({obj[t] : t \in Threads} \cup {waiters[u] : u \in Uids} \cup {data})

\* The text that the command of a thread is stored under.
CommandOf(t) == <<uid[t], IF t = Executor THEN "async" ELSE "sync">>

-----------------------------------------------------------------------------
\* The test of runningTasks at the start of both calls; when it finds the
\* text the caller gets an exception.
Accepted(u) == u \notin running /\ (Patient => ~InUse(u))

SyncCall(t, u) ==
  /\ t \in Callers
  /\ pc[t] = "idle"
  /\ Accepted(u)
  /\ uid' = [uid EXCEPT ![t] = u]
  /\ pc' = [pc EXCEPT ![t] = "request"]
  /\ UNCHANGED <<service, obj, tasks, running, waiters, notifier>>

\* asynchronousScilabExec in any thread: the task is submitted.
AsyncCall(u) ==
  /\ Accepted(u)
  /\ Len(tasks) < MaxTasks
  /\ tasks' = Append(tasks, u)
  /\ UNCHANGED <<service, pc, uid, obj, running, waiters, notifier>>

TakeTask ==
  /\ pc[Executor] = "idle"
  /\ tasks # <<>>
  /\ uid' = [uid EXCEPT ![Executor] = Head(tasks)]
  /\ tasks' = Tail(tasks)
  /\ pc' = [pc EXCEPT ![Executor] = "request"]
  /\ UNCHANGED <<service, obj, running, waiters, notifier>>

\* Fault: the caller comes back as soon as its command is stored.
RequestNotAwaited(t) ==
  /\ pc[t] = "request"
  /\ Service!Submit(CommandOf(t))
  /\ pc' = [pc EXCEPT ![t] = "idle"]
  /\ uid' = [uid EXCEPT ![t] = NoUid]
  /\ UNCHANGED <<obj, tasks, running, waiters, notifier>>

\* requestScilabExec or putCommandInScilabQueue: stored, or refused when the
\* text does not parse.
Request(t) ==
  /\ pc[t] = "request"
  /\ Service!Submit(CommandOf(t))
  /\ pc' = [pc EXCEPT ![t] = "add"]
  /\ UNCHANGED <<uid, obj, tasks, running, waiters, notifier>>

RequestFails(t) ==
  /\ pc[t] = "request"
  /\ pc' = [pc EXCEPT ![t] = "idle"]
  /\ uid' = [uid EXCEPT ![t] = NoUid]
  /\ UNCHANGED <<service, obj, tasks, running, waiters, notifier>>

AddTask(t) ==
  /\ pc[t] = "add"
  /\ running' = running \cup {uid[t]}
  /\ pc' = [pc EXCEPT ![t] = "put"]
  /\ UNCHANGED <<service, uid, obj, tasks, waiters, notifier>>

\* Fault: the object is not registered.
PutNothing(t) ==
  /\ pc[t] = "put"
  /\ \E o \in Fresh : obj' = [obj EXCEPT ![t] = o]
  /\ pc' = [pc EXCEPT ![t] = "sync"]
  /\ UNCHANGED <<service, uid, tasks, running, waiters, notifier>>

\* Signal.wait: register an object, then wait on it.
PutWaiter(t) ==
  /\ pc[t] = "put"
  /\ \E o \in Fresh :
       /\ obj' = [obj EXCEPT ![t] = o]
       /\ waiters' = [waiters EXCEPT ![uid[t]] = o]
  /\ pc' = [pc EXCEPT ![t] = "sync"]
  /\ UNCHANGED <<service, uid, tasks, running, notifier>>

\* Fault: the wait has a time limit.
WaitWithTimeout(t) ==
  /\ pc[t] = "sync"
  /\ \E next \in {"waiting", "remove"} : pc' = [pc EXCEPT ![t] = next]
  /\ UNCHANGED <<service, uid, obj, tasks, running, waiters, notifier>>

WaitOnObject(t) ==
  /\ pc[t] = "sync"
  /\ pc' = [pc EXCEPT ![t] = "waiting"]
  /\ UNCHANGED <<service, uid, obj, tasks, running, waiters, notifier>>

RemoveTask(t) ==
  /\ pc[t] = "remove"
  /\ running' = running \ {uid[t]}
  /\ pc' = [pc EXCEPT ![t] = "idle"]
  /\ uid' = [uid EXCEPT ![t] = NoUid]
  /\ obj' = [obj EXCEPT ![t] = NoObject]
  /\ UNCHANGED <<service, tasks, waiters, notifier>>

ThreadStep(t) ==
  \/ Request(t) \/ RequestFails(t) \/ AddTask(t) \/ PutWaiter(t)
  \/ WaitOnObject(t) \/ RemoveTask(t)
  \/ t = Executor /\ TakeTask

-----------------------------------------------------------------------------
\* The interpreter runs commands and pauses as the service says; it is busy
\* while it is in notify.
RunCommands ==
  /\ npc = "idle"
  /\ \/ Service!BeginPrioritary
     \/ Service!BeginNormal
     \/ Service!Suspend
     \/ active # <<>> /\ Last(active) = NoCmd /\ Service!Leave
  /\ UNCHANGED <<pc, uid, obj, tasks, running, waiters, notifier>>

\* abort (or exit) leaves every command; notify is after the end of the try,
\* which does not catch it.
Abort ==
  /\ npc = "idle"
  /\ ~Service!AtPrompt
  /\ active' = <<>>
  /\ UNCHANGED <<prio, norm, pc, uid, obj, tasks, running, waiters, notifier>>

Notified == Last(active)[1]

\* The protected statements have ended, with or without an error.
CallNotify ==
  /\ npc = "idle"
  /\ ~Service!AtPrompt
  /\ npc' = "look"
  /\ UNCHANGED <<service, pc, uid, obj, tasks, running, waiters, data>>

\* Fault: a text nobody waits for is not waited for.
FindWaiterOnce ==
  /\ npc = "look"
  /\ data' = waiters[Notified]
  /\ npc' = "wake"
  /\ UNCHANGED <<service, pc, uid, obj, tasks, running, waiters>>

\* waiters.get, asked again every 100 ms until there is an object.
FindWaiter ==
  /\ npc = "look"
  /\ waiters[Notified] # NoObject
  /\ data' = waiters[Notified]
  /\ npc' = "wake"
  /\ UNCHANGED <<service, pc, uid, obj, tasks, running, waiters>>

\* data.notify(): wakes the thread that waits on that object, if one does.
WakeWaiter ==
  /\ npc = "wake"
  /\ pc' = [t \in Threads |->
       IF pc[t] = "waiting" /\ obj[t] = data THEN "remove" ELSE pc[t]]
  /\ npc' = "forget"
  /\ UNCHANGED <<service, uid, obj, tasks, running, waiters, data>>

\* waiters.remove; notify was the last statement of the command.
ForgetWaiter ==
  /\ npc = "forget"
  /\ waiters' = [waiters EXCEPT ![Notified] = NoObject]
  /\ npc' = "idle"
  /\ data' = NoObject
  /\ Service!Leave
  /\ UNCHANGED <<pc, uid, obj, tasks, running>>

NotifyStep == FindWaiter \/ WakeWaiter \/ ForgetWaiter

Next ==
  \/ \E u \in Uids : AsyncCall(u) \/ \E t \in Callers : SyncCall(t, u)
  \/ \E t \in Threads : ThreadStep(t)
  \/ RunCommands \/ Abort \/ CallNotify \/ NotifyStep

Spec == Init /\ [][Next]_vars

\* Threads run.  How long a command runs, and whether it ends, is free.
FairSpec ==
  /\ Spec
  /\ \A t \in Threads : WF_vars(ThreadStep(t))
  /\ WF_vars(NotifyStep)

-----------------------------------------------------------------------------
\* synchronousScilabExec (and the callback of asynchronousScilabExec) comes
\* back only when its own command has been executed up to its notify; types included.
ReturnsAfterExecution ==
  /\ ExecTypeOK
  /\ \A t \in Threads : pc[t] = "remove" =>
       /\ CommandOf(t) \notin ToSet(prio) \cup ToSet(norm)
       /\ CommandOf(t) \in ToSet(active) =>
            Last(active) = CommandOf(t) /\ npc = "forget"

\* When the interpreter looks for a waiter there is one or there will be one:
\* it does not stay in notify, asking every 100 ms, for ever.
NotifyHasWaiter ==
  npc = "look" =>
    \E t \in Threads :
      /\ uid[t] = Notified
      /\ \/ pc[t] \in {"add", "put"}
         \/ pc[t] \in {"sync", "waiting"} /\ waiters[Notified] = obj[t]

\* notify always gives the interpreter back.
NotifyReturns == npc = "look" ~> npc = "idle"

\* The object of t was notified, and forgotten, before t waited on it.
Missed(t) ==
  pc[t] \in {"sync", "waiting"} /\ obj[t] \notin {waiters[uid[t]], data}

\* When the command of a thread comes to its notify the thread is released,
\* unless it misses the notification.
CallerReleased ==
  \A t \in Threads :
    \/ <>[]Missed(t)
    \/ npc = "look" /\ Notified = uid[t] ~> pc[t] = "idle"

=============================================================================
