------------------------- MODULE SynchronousExecProofs -------------------------
(***************************************************************************)
(* The rendezvous of synchronousScilabExec, for any threads, texts and     *)
(* objects, when a text is not asked again while it is in use: the caller  *)
(* comes back after its own command, and notify always has someone to      *)
(* wake.                                                                   *)
(***************************************************************************)
EXTENDS SynchronousExec, SequenceTheorems, TLAPS

-----------------------------------------------------------------------------
(* The inductive invariant.                                                *)

\* What is in the sequence is there once; hole may be there several times.
Once(s, hole) == \A i, j \in DOMAIN s : s[i] = s[j] /\ s[i] # hole => i = j

\* A text belongs to one thread, and so does an object that is waited on.
ThreadInv ==
  /\ \A t \in Threads :
       /\ pc[t] = "idle" <=> uid[t] = NoUid
       /\ obj[t] # NoObject <=> pc[t] \in {"sync", "waiting", "remove"}
  /\ \A s, t \in Threads :
       /\ uid[s] = uid[t] /\ uid[s] # NoUid => s = t
       /\ obj[s] = obj[t] /\ obj[s] # NoObject => s = t

\* A text whose task has not started is used nowhere else.
TaskInv ==
  /\ Once(tasks, NoUid)
  /\ \A u \in ToSet(tasks) :
       /\ \A t \in Threads : uid[t] # u
       /\ \A kind \in {"sync", "async"} : <<u, kind>> \notin Stored

\* A command is stored or run once.
CommandInv ==
  /\ Once(prio, NoCmd) /\ Once(norm, NoCmd) /\ Once(active, NoCmd)
  /\ \A c \in ToSet(active) : c # NoCmd => c \notin ToSet(prio) \cup ToSet(norm)

\* It is that of the thread that asked for the text, which stays until the
\* command has been notified.
OwnerInv ==
  /\ \A c \in Stored : c # NoCmd =>
       \/ \E t \in Threads : CommandOf(t) = c /\ pc[t] \notin {"idle", "request"}
       \/ npc = "forget" /\ Last(active) = c
  /\ \A t \in Threads : \A kind \in {"sync", "async"} :
       uid[t] # NoUid /\ <<uid[t], kind>> \in Stored =>
         pc[t] # "request" /\ CommandOf(t) = <<uid[t], kind>>

\* An object is registered under the text of the thread that waits on it, and
\* the thread that was woken leaves none.
WaiterInv ==
  /\ \A t \in Threads : pc[t] \in {"sync", "waiting"} /\ CommandOf(t) \in Stored =>
       waiters[uid[t]] = obj[t]
  /\ \A u \in Uids : waiters[u] # NoObject =>
       \/ \E t \in Threads : uid[t] = u /\ obj[t] = waiters[u]
       \/ npc = "forget" /\ Notified = u
  /\ \A t \in Threads : pc[t] = "remove" /\ waiters[uid[t]] # NoObject =>
       npc = "forget" /\ Notified = uid[t]

\* The interpreter is in the notify of the command that runs.
NotifyInv ==
  /\ npc # "idle" => ~Service!AtPrompt
  /\ npc = "wake" => data # NoObject /\ data = waiters[Notified]

\* The caller comes back from a command that is over.
Returned ==
  \A t \in Threads : pc[t] = "remove" =>
    /\ CommandOf(t) \notin ToSet(prio) \cup ToSet(norm)
    /\ CommandOf(t) \in ToSet(active) => Last(active) = CommandOf(t) /\ npc = "forget"

IInv ==
  /\ ExecTypeOK
  /\ ThreadInv /\ TaskInv /\ CommandInv /\ OwnerInv /\ WaiterInv /\ NotifyInv
  /\ Returned

-----------------------------------------------------------------------------
(* What a sequence holds.                                                  *)

LEMMA AppendHolds ==
  ASSUME NEW S, NEW s \in Seq(S), NEW x \in S, NEW hole
  PROVE  /\ Append(s, x) \in Seq(S) /\ Append(s, x) # <<>>
         /\ Last(Append(s, x)) = x
         /\ ToSet(Append(s, x)) = ToSet(s) \cup {x}
         /\ Once(s, hole) /\ (x = hole \/ x \notin ToSet(s)) => Once(Append(s, x), hole)
<1> DEFINE r == Append(s, x)
<1>1. /\ r \in Seq(S) /\ r # <<>>
      /\ Len(r) = Len(s) + 1 /\ Len(s) \in Nat
      /\ DOMAIN r = 1 .. Len(s) + 1 /\ DOMAIN s = 1 .. Len(s)
      /\ r[Len(s) + 1] = x
      /\ \A i \in 1 .. Len(s) : r[i] = s[i]
  OBVIOUS
<1> HIDE DEF r
<1>2. Last(r) = x
  BY <1>1 DEF Last
<1>3. ToSet(r) = ToSet(s) \cup {x}
  <2>1. ASSUME NEW i \in DOMAIN r PROVE r[i] \in ToSet(s) \cup {x}
    <3>1. i \in DOMAIN s \/ i = Len(s) + 1
      BY <1>1
    <3> QED
      BY <1>1, <3>1 DEF ToSet
  <2>2. ASSUME NEW i \in DOMAIN s PROVE s[i] \in ToSet(r)
    <3>1. i \in DOMAIN r /\ r[i] = s[i]
      BY <1>1
    <3> QED
      BY <3>1 DEF ToSet
  <2>3. x \in ToSet(r)
    <3>1. Len(s) + 1 \in DOMAIN r
      BY <1>1
    <3> QED
      BY <1>1, <3>1 DEF ToSet
  <2> QED
    BY <2>1, <2>2, <2>3 DEF ToSet
<1>4. ASSUME Once(s, hole), x = hole \/ x \notin ToSet(s) PROVE Once(r, hole)
  <2> SUFFICES ASSUME NEW i \in DOMAIN r, NEW j \in DOMAIN r, r[i] = r[j], r[i] # hole
               PROVE  i = j
    BY DEF Once
  <2>1. \A k \in DOMAIN r : k \in DOMAIN s \/ k = Len(s) + 1
    BY <1>1
  <2>2. \A k \in DOMAIN s : r[k] \in ToSet(s)
    BY <1>1 DEF ToSet
  <2>3. CASE i \in DOMAIN s /\ j \in DOMAIN s
    BY <1>1, <1>4, <2>3 DEF Once
  <2>4. CASE i = Len(s) + 1 \/ j = Len(s) + 1
    BY <1>1, <1>4, <2>1, <2>2, <2>4
  <2> QED
    BY <2>1, <2>3, <2>4
<1> QED
  BY <1>1, <1>2, <1>3, <1>4 DEF r

LEMMA TailHolds ==
  ASSUME NEW S, NEW s \in Seq(S), s # <<>>, NEW hole
  PROVE  /\ Head(s) \in S /\ Tail(s) \in Seq(S)
         /\ ToSet(s) = {Head(s)} \cup ToSet(Tail(s))
         /\ Once(s, hole) =>
              /\ Once(Tail(s), hole)
              /\ Head(s) # hole => Head(s) \notin ToSet(Tail(s))
<1> DEFINE r == Tail(s)
<1>1. /\ r \in Seq(S) /\ Head(s) = s[1] /\ Head(s) \in S
      /\ Len(s) \in Nat \ {0}
      /\ DOMAIN s = 1 .. Len(s) /\ DOMAIN r = 1 .. Len(s) - 1
      /\ \A i \in 1 .. Len(s) - 1 : r[i] = s[i + 1]
  OBVIOUS
<1> HIDE DEF r
<1>2. \A i \in DOMAIN r : i + 1 \in DOMAIN s /\ i + 1 # 1 /\ r[i] = s[i + 1]
  BY <1>1
<1>3. 1 \in DOMAIN s
  BY <1>1
<1>4. ToSet(s) = {s[1]} \cup ToSet(r)
  <2>1. ASSUME NEW i \in DOMAIN s PROVE s[i] \in {s[1]} \cup ToSet(r)
    <3>1. i = 1 \/ (i - 1 \in DOMAIN r /\ r[i - 1] = s[i])
      BY <1>1
    <3> QED
      BY <3>1 DEF ToSet
  <2>2. ASSUME NEW i \in DOMAIN r PROVE r[i] \in ToSet(s)
    BY <1>2 DEF ToSet
  <2> QED
    BY <1>3, <2>1, <2>2 DEF ToSet
<1>5. ASSUME Once(s, hole) PROVE Once(r, hole)
  <2> SUFFICES ASSUME NEW i \in DOMAIN r, NEW j \in DOMAIN r, r[i] = r[j], r[i] # hole
               PROVE  i = j
    BY DEF Once
  <2>1. i + 1 = j + 1
    BY <1>2, <1>5 DEF Once
  <2> QED
    BY <1>1, <2>1
<1>6. ASSUME Once(s, hole), s[1] # hole PROVE s[1] \notin ToSet(r)
  <2> SUFFICES ASSUME NEW i \in DOMAIN r, r[i] = s[1] PROVE FALSE
    BY DEF ToSet
  <2> QED
    BY <1>2, <1>3, <1>6 DEF Once
<1> QED
  BY <1>1, <1>4, <1>5, <1>6 DEF r

LEMMA FrontHolds ==
  ASSUME NEW S, NEW s \in Seq(S), s # <<>>, NEW hole
  PROVE  /\ Last(s) \in S /\ Last(s) \in ToSet(s) /\ Front(s) \in Seq(S)
         /\ ToSet(s) = {Last(s)} \cup ToSet(Front(s))
         /\ Once(s, hole) =>
              /\ Once(Front(s), hole)
              /\ Last(s) # hole => Last(s) \notin ToSet(Front(s))
<1> DEFINE r == Front(s)
<1>1. /\ Len(s) \in Nat \ {0} /\ DOMAIN s = 1 .. Len(s) /\ Last(s) = s[Len(s)]
      /\ r = SubSeq(s, 1, Len(s) - 1)
  BY DEF Last, Front
<1>2. /\ r \in Seq(S) /\ DOMAIN r = 1 .. Len(s) - 1
      /\ \A i \in 1 .. Len(s) - 1 : r[i] = s[i]
  BY <1>1
<1> HIDE DEF r
<1>3. Len(s) \in DOMAIN s /\ Last(s) \in S /\ Last(s) \in ToSet(s)
  BY <1>1 DEF ToSet
<1>4. \A i \in DOMAIN r : i \in DOMAIN s /\ i # Len(s) /\ r[i] = s[i]
  BY <1>1, <1>2
<1>5. \A i \in DOMAIN s : i = Len(s) \/ i \in DOMAIN r
  BY <1>1, <1>2
<1>6. ToSet(s) = {Last(s)} \cup ToSet(r)
  BY <1>1, <1>3, <1>4, <1>5 DEF ToSet
<1>7. ASSUME Once(s, hole) PROVE Once(r, hole)
  BY <1>4, <1>7 DEF Once
<1>8. ASSUME Once(s, hole), Last(s) # hole PROVE Last(s) \notin ToSet(r)
  BY <1>1, <1>3, <1>4, <1>8 DEF Once, ToSet
<1> QED
  BY <1>2, <1>3, <1>6, <1>7, <1>8 DEF r

\* A command says what text it is of.
LEMMA CommandFacts ==
  ASSUME ExecTypeOK, NEW t \in Threads
  PROVE  /\ CommandOf(t)[1] = uid[t]
         /\ \A s \in Threads : CommandOf(s) = CommandOf(t) => uid[s] = uid[t]
         /\ \E kind \in {"sync", "async"} : CommandOf(t) = <<uid[t], kind>>
         /\ uid[t] # NoUid => uid[t] \in Uids /\ CommandOf(t) \in Commands
  BY DEF CommandOf, Commands, ExecTypeOK

\* What is stored or started is a command, or the mark of a suspension.
LEMMA StoredFacts ==
  ASSUME ExecTypeOK
  PROVE  /\ Stored \subseteq Commands \cup {NoCmd}
         /\ NoCmd \notin ToSet(prio) \cup ToSet(norm)
<1>1. /\ ToSet(prio) \subseteq Prioritary /\ ToSet(norm) \subseteq Interruptible
      /\ ToSet(active) \subseteq Commands \cup {NoCmd}
  BY DEF ExecTypeOK, ToSet
<1>2. Prioritary \subseteq Commands /\ Interruptible \subseteq Commands
  BY DEF Prioritary, Interruptible, Commands
<1>3. NoCmd \notin Commands
  BY ExecAssumption
<1> QED
  BY <1>1, <1>2, <1>3 DEF Stored

\* The command that runs, and its text.
LEMMA RunningFacts ==
  ASSUME ExecTypeOK, ~Service!AtPrompt
  PROVE  /\ active # <<>> /\ active \in Seq(Commands \cup {NoCmd})
         /\ Last(active) # NoCmd /\ Last(active) \in Commands
         /\ Last(active) \in ToSet(active) /\ Last(active) \in Stored
         /\ Notified \in Uids
         /\ \E kind \in {"sync", "async"} : Last(active) = <<Notified, kind>>
<1>1. active # <<>> /\ Last(active) # NoCmd
  BY DEF Service!AtPrompt, Service!Last, Last
<1>2. active \in Seq(Commands \cup {NoCmd})
  BY DEF ExecTypeOK
<1>3. Last(active) \in Commands \cup {NoCmd} /\ Last(active) \in ToSet(active)
  BY <1>1, <1>2, FrontHolds
<1>4. Last(active) \in Commands
  BY <1>1, <1>3
<1>5. PICK u \in Uids, kind \in {"sync", "async"} : Last(active) = <<u, kind>>
  BY <1>4 DEF Commands
<1>6. Notified = u
  BY <1>5 DEF Notified
<1> QED
  BY <1>1, <1>2, <1>3, <1>4, <1>5, <1>6 DEF Stored

-----------------------------------------------------------------------------
(* The steps of the threads.                                               *)

\* A thread that does nothing takes a text that no thread uses and that is not
\* stored.
LEMMA TextTaken ==
  ASSUME IInv, NEW t \in Threads, NEW u \in Uids, pc[t] = "idle",
         \A s \in Threads : uid[s] # u,
         \A kind \in {"sync", "async"} : <<u, kind>> \notin Stored,
         uid' = [uid EXCEPT ![t] = u],
         pc' = [pc EXCEPT ![t] = "request"],
         UNCHANGED <<prio, norm, active, obj, running, waiters, npc, data>>
  PROVE  /\ ThreadInv' /\ CommandInv' /\ OwnerInv' /\ WaiterInv' /\ NotifyInv' /\ Returned'
         /\ Stored' = Stored
         /\ \A s \in Threads : s # t => uid'[s] = uid[s]
         /\ uid'[t] = u
<1>1. /\ pc[t] = "idle"
      /\ uid' = [uid EXCEPT ![t] = u]
      /\ pc' = [pc EXCEPT ![t] = "request"]
      /\ UNCHANGED <<prio, norm, active, obj, running, waiters, npc, data>>
  OBVIOUS
<1>2. /\ \A s \in Threads : uid[s] # u
      /\ \A kind \in {"sync", "async"} : <<u, kind>> \notin Stored
  OBVIOUS
<1>3. /\ \A s \in Threads : s # t => /\ uid'[s] = uid[s] /\ pc'[s] = pc[s]
                                     /\ CommandOf(s)' = CommandOf(s)
      /\ uid'[t] = u /\ pc'[t] = "request" /\ u # NoUid
      /\ Stored' = Stored
  BY <1>1, ExecAssumption DEF IInv, ExecTypeOK, CommandOf, Stored
<1>4. ThreadInv'
  BY <1>1, <1>2, <1>3 DEF IInv, ThreadInv
<1>5. CommandInv'
  BY <1>1 DEF IInv, CommandInv
<1>6. OwnerInv'
  <2>1. ASSUME NEW c \in Stored', c # NoCmd
        PROVE  \/ \E s \in Threads : CommandOf(s)' = c /\ pc'[s] \notin {"idle", "request"}
               \/ npc' = "forget" /\ Last(active)' = c
    BY <1>1, <1>3, <2>1 DEF IInv, OwnerInv
  <2>2. ASSUME NEW s \in Threads, NEW kind \in {"sync", "async"},
               uid'[s] # NoUid, <<uid'[s], kind>> \in Stored'
        PROVE  pc'[s] # "request" /\ CommandOf(s)' = <<uid'[s], kind>>
    <3>1. s # t
      BY <1>2, <1>3, <2>2
    <3>2. uid[s] # NoUid /\ <<uid[s], kind>> \in Stored
      BY <1>3, <2>2, <3>1
    <3>3. pc[s] # "request" /\ CommandOf(s) = <<uid[s], kind>>
      BY <3>2 DEF IInv, OwnerInv
    <3> QED
      BY <1>3, <3>1, <3>3
  <2> QED
    BY <2>1, <2>2 DEF OwnerInv
<1>7. WaiterInv'
  <2>1. ASSUME NEW s \in Threads, pc'[s] \in {"sync", "waiting"}, CommandOf(s)' \in Stored'
        PROVE  waiters'[uid'[s]] = obj'[s]
    BY <1>1, <1>3, <2>1 DEF IInv, WaiterInv
  <2>2. ASSUME NEW v \in Uids, waiters'[v] # NoObject
        PROVE  \/ \E s \in Threads : uid'[s] = v /\ obj'[s] = waiters'[v]
               \/ npc' = "forget" /\ Notified' = v
    <3>1. CASE npc = "forget" /\ Notified = v
      BY <1>1, <3>1 DEF Notified
    <3>2. CASE \E s \in Threads : uid[s] = v /\ obj[s] = waiters[v]
      BY <1>1, <1>3, <2>2, <3>2 DEF IInv, ThreadInv
    <3> QED
      BY <1>1, <2>2, <3>1, <3>2 DEF IInv, WaiterInv
  <2>3. ASSUME NEW s \in Threads, pc'[s] = "remove", waiters'[uid'[s]] # NoObject
        PROVE  npc' = "forget" /\ Notified' = uid'[s]
    BY <1>1, <1>3, <2>3 DEF IInv, WaiterInv, Notified
  <2> QED
    BY <2>1, <2>2, <2>3 DEF WaiterInv
<1>8. NotifyInv'
  BY <1>1 DEF IInv, NotifyInv, Notified, Service!AtPrompt
<1>9. Returned'
  BY <1>1, <1>3 DEF IInv, Returned
<1> QED
  BY <1>3, <1>4, <1>5, <1>6, <1>7, <1>8, <1>9

LEMMA SyncCallStep ==
  ASSUME Patient, IInv, NEW t \in Callers, NEW u \in Uids, SyncCall(t, u)
  PROVE  IInv'
<1>1. /\ t \in Threads /\ pc[t] = "idle"
      /\ uid' = [uid EXCEPT ![t] = u]
      /\ pc' = [pc EXCEPT ![t] = "request"]
      /\ UNCHANGED <<prio, norm, active, obj, tasks, running, waiters, npc, data>>
  BY DEF SyncCall, service, notifier, Threads
<1>2. /\ \A s \in Threads : uid[s] # u
      /\ u \notin ToSet(tasks)
      /\ \A kind \in {"sync", "async"} : <<u, kind>> \notin Stored
  BY DEF SyncCall, Accepted, InUse
<1>3. /\ ThreadInv' /\ CommandInv' /\ OwnerInv' /\ WaiterInv' /\ NotifyInv' /\ Returned'
      /\ Stored' = Stored
      /\ \A s \in Threads : s # t => uid'[s] = uid[s]
      /\ uid'[t] = u
  BY <1>1, <1>2, TextTaken
<1>4. ExecTypeOK'
  BY <1>1 DEF IInv, ExecTypeOK
<1>5. TaskInv'
  BY <1>1, <1>2, <1>3 DEF IInv, TaskInv
<1> QED
  BY <1>3, <1>4, <1>5 DEF IInv

LEMMA AsyncCallStep ==
  ASSUME Patient, IInv, NEW u \in Uids, AsyncCall(u)
  PROVE  IInv'
<1>1. /\ tasks' = Append(tasks, u)
      /\ UNCHANGED <<prio, norm, active, pc, uid, obj, running, waiters, npc, data>>
  BY DEF AsyncCall, service, notifier
<1>2. /\ \A s \in Threads : uid[s] # u
      /\ u \notin ToSet(tasks)
      /\ \A kind \in {"sync", "async"} : <<u, kind>> \notin Stored
  BY DEF AsyncCall, Accepted, InUse
<1>3. tasks \in Seq(Uids)
  BY DEF IInv, ExecTypeOK
<1>4. /\ tasks' \in Seq(Uids)
      /\ ToSet(tasks') = ToSet(tasks) \cup {u}
      /\ Once(tasks, NoUid) => Once(tasks', NoUid)
  BY <1>1, <1>2, <1>3, AppendHolds
<1>5. Stored' = Stored /\ (\A s \in Threads : CommandOf(s)' = CommandOf(s))
  BY <1>1 DEF Stored, CommandOf
<1>6. ExecTypeOK'
  BY <1>1, <1>4 DEF IInv, ExecTypeOK
<1>7. TaskInv'
  BY <1>1, <1>2, <1>4, <1>5 DEF IInv, TaskInv
<1>8. ThreadInv' /\ CommandInv' /\ NotifyInv'
  BY <1>1 DEF IInv, ThreadInv, CommandInv, NotifyInv, Notified, Service!AtPrompt
<1>9. OwnerInv' /\ WaiterInv' /\ Returned'
  BY <1>1, <1>5 DEF IInv, OwnerInv, WaiterInv, Returned, Notified
<1> QED
  BY <1>6, <1>7, <1>8, <1>9 DEF IInv

LEMMA TakeTaskStep ==
  ASSUME IInv, TakeTask
  PROVE  IInv'
<1> DEFINE t == Executor
           u == Head(tasks)
<1>1. /\ t \in Threads /\ pc[t] = "idle" /\ tasks # <<>> /\ tasks \in Seq(Uids)
      /\ uid' = [uid EXCEPT ![t] = u]
      /\ tasks' = Tail(tasks)
      /\ pc' = [pc EXCEPT ![t] = "request"]
      /\ UNCHANGED <<prio, norm, active, obj, running, waiters, npc, data>>
  BY DEF TakeTask, service, notifier, Threads, IInv, ExecTypeOK
<1>2. /\ u \in Uids /\ tasks' \in Seq(Uids)
      /\ ToSet(tasks) = {u} \cup ToSet(tasks')
      /\ Once(tasks, NoUid) => Once(tasks', NoUid) /\ (u # NoUid => u \notin ToSet(tasks'))
  BY <1>1, TailHolds
<1> HIDE DEF t, u
<1>3. /\ u # NoUid
      /\ Once(tasks', NoUid) /\ u \notin ToSet(tasks')
      /\ \A s \in Threads : uid[s] # u
      /\ \A kind \in {"sync", "async"} : <<u, kind>> \notin Stored
  BY <1>2, ExecAssumption DEF IInv, TaskInv
<1>4. /\ ThreadInv' /\ CommandInv' /\ OwnerInv' /\ WaiterInv' /\ NotifyInv' /\ Returned'
      /\ Stored' = Stored
      /\ \A s \in Threads : s # t => uid'[s] = uid[s]
      /\ uid'[t] = u
  BY <1>1, <1>2, <1>3, TextTaken
<1>5. ExecTypeOK'
  BY <1>1, <1>2 DEF IInv, ExecTypeOK
<1>6. TaskInv'
  BY <1>1, <1>2, <1>3, <1>4 DEF IInv, TaskInv
<1> QED
  BY <1>4, <1>5, <1>6 DEF IInv

LEMMA RequestStep ==
  ASSUME IInv, NEW t \in Threads, Request(t)
  PROVE  IInv'
<1> DEFINE c == CommandOf(t)
<1>1. /\ pc[t] = "request"
      /\ pc' = [pc EXCEPT ![t] = "add"]
      /\ \/ c \in Prioritary /\ prio' = Append(prio, c) /\ UNCHANGED norm
         \/ c \notin Prioritary /\ norm' = Append(norm, c) /\ UNCHANGED prio
      /\ UNCHANGED <<active, uid, obj, tasks, running, waiters, npc, data>>
  BY DEF Request, Service!Submit, notifier
<1>2. uid[t] # NoUid /\ uid[t] \in Uids
  BY <1>1 DEF IInv, ThreadInv, ExecTypeOK
<1>3. c \notin Prioritary => c \in Interruptible
  BY <1>2 DEF CommandOf, Prioritary, Interruptible
<1>4. /\ c \in Commands /\ c # NoCmd /\ c[1] = uid[t]
      /\ \E kind \in {"sync", "async"} : c = <<uid[t], kind>>
      /\ \A s \in Threads : CommandOf(s) = c => uid[s] = uid[t]
  BY <1>2, CommandFacts, ExecAssumption DEF IInv
<1>5. c \notin Stored
  BY <1>1, <1>2, <1>4 DEF IInv, OwnerInv
<1>6. /\ c \notin ToSet(prio) /\ c \notin ToSet(norm) /\ c \notin ToSet(active)
  BY <1>5 DEF Stored
<1> HIDE DEF c
<1>7. /\ prio' \in Seq(Prioritary) /\ norm' \in Seq(Interruptible)
      /\ ToSet(prio') \cup ToSet(norm') = ToSet(prio) \cup ToSet(norm) \cup {c}
      /\ Once(prio', NoCmd) /\ Once(norm', NoCmd)
  <2>1. prio \in Seq(Prioritary) /\ norm \in Seq(Interruptible)
    BY DEF IInv, ExecTypeOK
  <2>2. Once(prio, NoCmd) /\ Once(norm, NoCmd)
    BY DEF IInv, CommandInv
  <2>3. CASE c \in Prioritary /\ prio' = Append(prio, c) /\ UNCHANGED norm
    <3>1. /\ Append(prio, c) \in Seq(Prioritary)
          /\ ToSet(Append(prio, c)) = ToSet(prio) \cup {c}
          /\ Once(Append(prio, c), NoCmd)
      BY <1>6, <2>1, <2>2, <2>3, AppendHolds
    <3> QED
      BY <2>1, <2>2, <2>3, <3>1
  <2>4. CASE c \notin Prioritary /\ norm' = Append(norm, c) /\ UNCHANGED prio
    <3>1. /\ Append(norm, c) \in Seq(Interruptible)
          /\ ToSet(Append(norm, c)) = ToSet(norm) \cup {c}
          /\ Once(Append(norm, c), NoCmd)
      BY <1>3, <1>6, <2>1, <2>2, <2>4, AppendHolds
    <3> QED
      BY <2>1, <2>2, <2>4, <3>1
  <2> QED
    BY <1>1, <2>3, <2>4
<1>8. Stored' = Stored \cup {c}
  BY <1>1, <1>7 DEF Stored
<1>9. /\ \A s \in Threads : CommandOf(s)' = CommandOf(s)
      /\ \A s \in Threads : s # t => pc'[s] = pc[s]
      /\ pc'[t] = "add" /\ CommandOf(t) = c
  BY <1>1 DEF CommandOf, IInv, ExecTypeOK, c
<1>10. ExecTypeOK'
  BY <1>1, <1>7 DEF IInv, ExecTypeOK
<1>11. ThreadInv'
  BY <1>1, <1>9 DEF IInv, ThreadInv
<1>12. TaskInv'
  <2>1. ASSUME NEW u \in ToSet(tasks), NEW kind \in {"sync", "async"}
        PROVE  <<u, kind>> # c
    <3>1. <<u, kind>>[1] = u /\ uid[t] # u
      BY DEF IInv, TaskInv
    <3> QED
      BY <1>4, <3>1
  <2> QED
    BY <1>1, <1>8, <2>1 DEF IInv, TaskInv
<1>13. CommandInv'
  BY <1>1, <1>6, <1>7 DEF IInv, CommandInv
<1>14. OwnerInv'
  <2>1. ASSUME NEW d \in Stored', d # NoCmd
        PROVE  \/ \E s \in Threads : CommandOf(s)' = d /\ pc'[s] \notin {"idle", "request"}
               \/ npc' = "forget" /\ Last(active)' = d
    <3>1. CASE d = c
      BY <1>9, <3>1
    <3>2. CASE d \in Stored
      BY <1>1, <1>9, <2>1, <3>2 DEF IInv, OwnerInv
    <3> QED
      BY <1>8, <3>1, <3>2
  <2>2. ASSUME NEW s \in Threads, NEW kind \in {"sync", "async"},
               uid'[s] # NoUid, <<uid'[s], kind>> \in Stored'
        PROVE  pc'[s] # "request" /\ CommandOf(s)' = <<uid'[s], kind>>
    <3>1. CASE <<uid[s], kind>> = c
      <4>1. uid[s] = uid[t]
        BY <1>4, <3>1
      <4>2. s = t
        BY <1>2, <4>1 DEF IInv, ThreadInv
      <4> QED
        BY <1>1, <1>9, <3>1, <4>2
    <3>2. CASE <<uid[s], kind>> \in Stored
      <4>1. pc[s] # "request" /\ CommandOf(s) = <<uid[s], kind>>
        BY <1>1, <2>2, <3>2 DEF IInv, OwnerInv
      <4> QED
        BY <1>1, <1>9, <4>1
    <3> QED
      BY <1>1, <1>8, <2>2, <3>1, <3>2
  <2> QED
    BY <2>1, <2>2 DEF OwnerInv
<1>15. WaiterInv'
  <2>1. ASSUME NEW s \in Threads, pc'[s] \in {"sync", "waiting"}, CommandOf(s)' \in Stored'
        PROVE  waiters'[uid'[s]] = obj'[s]
    <3>1. s # t
      BY <1>9, <2>1
    <3>2. CommandOf(s) # c
      BY <1>2, <1>4, <3>1 DEF IInv, ThreadInv
    <3> QED
      BY <1>1, <1>8, <1>9, <2>1, <3>1, <3>2 DEF IInv, WaiterInv
  <2> QED
    BY <1>1, <1>9, <2>1 DEF IInv, WaiterInv, Notified
<1>16. NotifyInv'
  BY <1>1 DEF IInv, NotifyInv, Notified, Service!AtPrompt
<1>17. Returned'
  <2>1. ASSUME NEW s \in Threads, pc'[s] = "remove"
        PROVE  CommandOf(s) # c /\ pc[s] = "remove"
    <3>1. s # t
      BY <1>9, <2>1
    <3> QED
      BY <1>2, <1>4, <1>9, <2>1, <3>1 DEF IInv, ThreadInv
  <2> QED
    BY <1>1, <1>7, <1>9, <2>1 DEF IInv, Returned
<1> QED
  BY <1>10, <1>11, <1>12, <1>13, <1>14, <1>15, <1>16, <1>17 DEF IInv

LEMMA RequestFailsStep ==
  ASSUME IInv, NEW t \in Threads, RequestFails(t)
  PROVE  IInv'
<1>1. /\ pc[t] = "request"
      /\ pc' = [pc EXCEPT ![t] = "idle"]
      /\ uid' = [uid EXCEPT ![t] = NoUid]
      /\ UNCHANGED <<prio, norm, active, obj, tasks, running, waiters, npc, data>>
  BY DEF RequestFails, service, notifier
<1>2. /\ \A s \in Threads : s # t => /\ uid'[s] = uid[s] /\ pc'[s] = pc[s]
                                     /\ CommandOf(s)' = CommandOf(s)
      /\ uid'[t] = NoUid /\ pc'[t] = "idle" /\ obj[t] = NoObject
      /\ Stored' = Stored
  BY <1>1 DEF IInv, ExecTypeOK, ThreadInv, CommandOf, Stored
<1>3. ExecTypeOK'
  BY <1>1 DEF IInv, ExecTypeOK
<1>4. ThreadInv'
  BY <1>1, <1>2 DEF IInv, ThreadInv
<1>5. TaskInv'
  <2>1. NoUid \notin ToSet(tasks)
    BY ExecAssumption DEF IInv, ExecTypeOK, ToSet
  <2> QED
    BY <1>1, <1>2, <2>1 DEF IInv, TaskInv
<1>6. CommandInv' /\ NotifyInv'
  BY <1>1 DEF IInv, CommandInv, NotifyInv, Notified, Service!AtPrompt
<1>7. OwnerInv'
  <2>1. ASSUME NEW c \in Stored', c # NoCmd
        PROVE  \/ \E s \in Threads : CommandOf(s)' = c /\ pc'[s] \notin {"idle", "request"}
               \/ npc' = "forget" /\ Last(active)' = c
    BY <1>1, <1>2, <2>1 DEF IInv, OwnerInv
  <2>2. ASSUME NEW s \in Threads, NEW kind \in {"sync", "async"},
               uid'[s] # NoUid, <<uid'[s], kind>> \in Stored'
        PROVE  pc'[s] # "request" /\ CommandOf(s)' = <<uid'[s], kind>>
    <3>1. s # t
      BY <1>2, <2>2
    <3>2. pc[s] # "request" /\ CommandOf(s) = <<uid[s], kind>>
      BY <1>2, <2>2, <3>1 DEF IInv, OwnerInv
    <3> QED
      BY <1>2, <3>1, <3>2
  <2> QED
    BY <2>1, <2>2 DEF OwnerInv
<1>8. WaiterInv'
  <2>1. ASSUME NEW s \in Threads, pc'[s] \in {"sync", "waiting"}, CommandOf(s)' \in Stored'
        PROVE  waiters'[uid'[s]] = obj'[s]
    BY <1>1, <1>2, <2>1 DEF IInv, WaiterInv
  <2>2. ASSUME NEW v \in Uids, waiters'[v] # NoObject
        PROVE  \/ \E s \in Threads : uid'[s] = v /\ obj'[s] = waiters'[v]
               \/ npc' = "forget" /\ Notified' = v
    <3>1. CASE npc = "forget" /\ Notified = v
      BY <1>1, <3>1 DEF Notified
    <3>2. CASE \E s \in Threads : uid[s] = v /\ obj[s] = waiters[v]
      BY <1>1, <1>2, <2>2, <3>2
    <3> QED
      BY <1>1, <2>2, <3>1, <3>2 DEF IInv, WaiterInv
  <2>3. ASSUME NEW s \in Threads, pc'[s] = "remove", waiters'[uid'[s]] # NoObject
        PROVE  npc' = "forget" /\ Notified' = uid'[s]
    BY <1>1, <1>2, <2>3 DEF IInv, WaiterInv, Notified
  <2> QED
    BY <2>1, <2>2, <2>3 DEF WaiterInv
<1>9. Returned'
  BY <1>1, <1>2 DEF IInv, Returned
<1> QED
  BY <1>3, <1>4, <1>5, <1>6, <1>7, <1>8, <1>9 DEF IInv

\* A thread goes on towards its wait.
LEMMA GoesOnStep ==
  ASSUME IInv, NEW t \in Threads, AddTask(t) \/ WaitOnObject(t)
  PROVE  IInv'
<1>1. /\ \/ pc[t] = "add" /\ pc' = [pc EXCEPT ![t] = "put"]
         \/ pc[t] = "sync" /\ pc' = [pc EXCEPT ![t] = "waiting"]
      /\ pc[t] = "sync" => running' = running
      /\ pc[t] = "add" => running' = running \cup {uid[t]}
      /\ UNCHANGED <<prio, norm, active, uid, obj, tasks, waiters, npc, data>>
  BY DEF AddTask, WaitOnObject, service, notifier
<1>2. /\ \A s \in Threads : s # t => pc'[s] = pc[s]
      /\ pc'[t] = IF pc[t] = "add" THEN "put" ELSE "waiting"
      /\ \A s \in Threads : CommandOf(s)' = CommandOf(s)
      /\ Stored' = Stored
  BY <1>1 DEF IInv, ExecTypeOK, CommandOf, Stored
<1>3. ExecTypeOK'
  <2>1. running' \subseteq Uids
    BY <1>1 DEF IInv, ExecTypeOK, ThreadInv
  <2>2. pc' \in [Threads ->
             {"idle", "request", "add", "put", "sync", "waiting", "remove"}]
    BY <1>1 DEF IInv, ExecTypeOK
  <2> QED
    BY <1>1, <2>1, <2>2 DEF IInv, ExecTypeOK
<1>4. ThreadInv'
  BY <1>1, <1>2 DEF IInv, ThreadInv
<1>5. TaskInv' /\ CommandInv' /\ NotifyInv'
  BY <1>1, <1>2 DEF IInv, TaskInv, CommandInv, NotifyInv, Notified, Service!AtPrompt
<1>6. OwnerInv'
  BY <1>1, <1>2 DEF IInv, OwnerInv
<1>7. WaiterInv'
  BY <1>1, <1>2 DEF IInv, WaiterInv, Notified
<1>8. Returned'
  BY <1>1, <1>2 DEF IInv, Returned
<1> QED
  BY <1>3, <1>4, <1>5, <1>6, <1>7, <1>8 DEF IInv

LEMMA PutWaiterStep ==
  ASSUME IInv, NEW t \in Threads, PutWaiter(t)
  PROVE  IInv'
<1>1. PICK o \in Fresh : /\ obj' = [obj EXCEPT ![t] = o]
                          /\ waiters' = [waiters EXCEPT ![uid[t]] = o]
  BY DEF PutWaiter
<1>2. /\ pc[t] = "put"
      /\ pc' = [pc EXCEPT ![t] = "sync"]
      /\ UNCHANGED <<prio, norm, active, uid, tasks, running, npc, data>>
  BY DEF PutWaiter, service, notifier
<1>3. /\ o \in Objects /\ o # NoObject /\ o # data
      /\ \A s \in Threads : obj[s] # o
  BY ExecAssumption DEF Fresh
<1>4. /\ uid[t] \in Uids /\ uid[t] # NoUid
      /\ \A s \in Threads : s # t => uid[s] # uid[t]
  BY <1>2 DEF IInv, ThreadInv, ExecTypeOK
<1>5. /\ \A s \in Threads : s # t => pc'[s] = pc[s] /\ obj'[s] = obj[s]
      /\ pc'[t] = "sync" /\ obj'[t] = o
      /\ \A u \in Uids : u # uid[t] => waiters'[u] = waiters[u]
      /\ waiters'[uid[t]] = o
      /\ \A s \in Threads : CommandOf(s)' = CommandOf(s)
      /\ Stored' = Stored
  BY <1>1, <1>2, <1>4 DEF IInv, ExecTypeOK, CommandOf, Stored
<1>6. ExecTypeOK'
  <2>1. obj' \in [Threads -> Objects \cup {NoObject}]
    BY <1>1, <1>3 DEF IInv, ExecTypeOK
  <2>2. waiters' \in [Uids -> Objects \cup {NoObject}]
    BY <1>1, <1>3, <1>4 DEF IInv, ExecTypeOK
  <2> QED
    BY <1>2, <2>1, <2>2 DEF IInv, ExecTypeOK
<1>7. ThreadInv'
  BY <1>2, <1>3, <1>5 DEF IInv, ThreadInv
<1>8. TaskInv' /\ CommandInv'
  BY <1>2, <1>5 DEF IInv, TaskInv, CommandInv
<1>9. OwnerInv'
  BY <1>2, <1>5 DEF IInv, OwnerInv
<1>10. WaiterInv'
  <2>1. ASSUME NEW s \in Threads, pc'[s] \in {"sync", "waiting"}, CommandOf(s)' \in Stored'
        PROVE  waiters'[uid'[s]] = obj'[s]
    <3>1. CASE s = t
      BY <1>2, <1>5, <3>1
    <3>2. CASE s # t
      <4>1. uid[s] \in Uids /\ uid[s] # uid[t] /\ waiters[uid[s]] = obj[s]
        BY <1>4, <1>5, <2>1, <3>2 DEF IInv, WaiterInv, ThreadInv, ExecTypeOK
      <4> QED
        BY <1>2, <1>5, <3>2, <4>1
    <3> QED
      BY <3>1, <3>2
  <2>2. ASSUME NEW v \in Uids, waiters'[v] # NoObject
        PROVE  \/ \E s \in Threads : uid'[s] = v /\ obj'[s] = waiters'[v]
               \/ npc' = "forget" /\ Notified' = v
    <3>1. CASE v = uid[t]
      BY <1>2, <1>5, <3>1
    <3>2. CASE v # uid[t] /\ npc = "forget" /\ Notified = v
      BY <1>2, <3>2 DEF Notified
    <3>3. CASE v # uid[t] /\ \E s \in Threads : uid[s] = v /\ obj[s] = waiters[v]
      BY <1>2, <1>5, <3>3
    <3> QED
      BY <1>5, <2>2, <3>1, <3>2, <3>3 DEF IInv, WaiterInv
  <2>3. ASSUME NEW s \in Threads, pc'[s] = "remove", waiters'[uid'[s]] # NoObject
        PROVE  npc' = "forget" /\ Notified' = uid'[s]
    <3>1. s # t /\ pc[s] = "remove"
      BY <1>5, <2>3
    <3>2. uid[s] \in Uids /\ uid[s] # uid[t]
      BY <1>4, <3>1 DEF IInv, ThreadInv, ExecTypeOK
    <3> QED
      BY <1>2, <1>5, <2>3, <3>1, <3>2 DEF IInv, WaiterInv, Notified
  <2> QED
    BY <2>1, <2>2, <2>3 DEF WaiterInv
<1>11. NotifyInv'
  <2>1. npc # "idle" => ~Service!AtPrompt
    BY DEF IInv, NotifyInv
  <2>2. ASSUME npc = "wake" PROVE data # NoObject /\ data = waiters'[Notified]
    <3>1. data # NoObject /\ data = waiters[Notified]
      BY <2>2 DEF IInv, NotifyInv
    <3>2. Notified \in Uids
      BY <2>1, <2>2, RunningFacts DEF IInv
    <3>3. Notified # uid[t]
      <4> SUFFICES ASSUME Notified = uid[t] PROVE FALSE
        OBVIOUS
      <4>1. \E s \in Threads : uid[s] = Notified /\ obj[s] = data
        BY <2>2, <3>1, <3>2 DEF IInv, WaiterInv
      <4>2. obj[t] = data
        BY <1>4, <4>1
      <4> QED
        BY <1>2, <3>1, <4>2 DEF IInv, ThreadInv
    <3> QED
      BY <1>5, <3>1, <3>2, <3>3
  <2> QED
    BY <1>2, <2>1, <2>2 DEF NotifyInv, Notified, Service!AtPrompt
<1>12. Returned'
  BY <1>2, <1>5 DEF IInv, Returned
<1> QED
  BY <1>6, <1>7, <1>8, <1>9, <1>10, <1>11, <1>12 DEF IInv

LEMMA RemoveTaskStep ==
  ASSUME IInv, NEW t \in Threads, RemoveTask(t)
  PROVE  IInv'
<1>1. /\ pc[t] = "remove"
      /\ running' = running \ {uid[t]}
      /\ pc' = [pc EXCEPT ![t] = "idle"]
      /\ uid' = [uid EXCEPT ![t] = NoUid]
      /\ obj' = [obj EXCEPT ![t] = NoObject]
      /\ UNCHANGED <<prio, norm, active, tasks, waiters, npc, data>>
  BY DEF RemoveTask, service, notifier
<1>2. /\ \A s \in Threads : s # t => /\ uid'[s] = uid[s] /\ pc'[s] = pc[s]
                                     /\ obj'[s] = obj[s]
                                     /\ CommandOf(s)' = CommandOf(s)
      /\ uid'[t] = NoUid /\ pc'[t] = "idle" /\ obj'[t] = NoObject
      /\ Stored' = Stored
  BY <1>1 DEF IInv, ExecTypeOK, CommandOf, Stored
<1>3. ExecTypeOK'
  BY <1>1 DEF IInv, ExecTypeOK
<1>4. ThreadInv'
  BY <1>1, <1>2 DEF IInv, ThreadInv
<1>5. TaskInv'
  <2>1. NoUid \notin ToSet(tasks)
    BY ExecAssumption DEF IInv, ExecTypeOK, ToSet
  <2> QED
    BY <1>1, <1>2, <2>1 DEF IInv, TaskInv
<1>6. CommandInv' /\ NotifyInv'
  BY <1>1 DEF IInv, CommandInv, NotifyInv, Notified, Service!AtPrompt
<1>7. OwnerInv'
  <2>1. ASSUME NEW c \in Stored', c # NoCmd
        PROVE  \/ \E s \in Threads : CommandOf(s)' = c /\ pc'[s] \notin {"idle", "request"}
               \/ npc' = "forget" /\ Last(active)' = c
    <3>1. CASE CommandOf(t) = c
      BY <1>1, <1>2, <2>1, <3>1 DEF IInv, Returned, Stored
    <3>2. CASE CommandOf(t) # c
      BY <1>1, <1>2, <2>1, <3>2 DEF IInv, OwnerInv
    <3> QED
      BY <3>1, <3>2
  <2>2. ASSUME NEW s \in Threads, NEW kind \in {"sync", "async"},
               uid'[s] # NoUid, <<uid'[s], kind>> \in Stored'
        PROVE  pc'[s] # "request" /\ CommandOf(s)' = <<uid'[s], kind>>
    <3>1. s # t
      BY <1>2, <2>2
    <3>2. pc[s] # "request" /\ CommandOf(s) = <<uid[s], kind>>
      BY <1>2, <2>2, <3>1 DEF IInv, OwnerInv
    <3> QED
      BY <1>2, <3>1, <3>2
  <2> QED
    BY <2>1, <2>2 DEF OwnerInv
<1>8. WaiterInv'
  <2>1. ASSUME NEW s \in Threads, pc'[s] \in {"sync", "waiting"}, CommandOf(s)' \in Stored'
        PROVE  waiters'[uid'[s]] = obj'[s]
    BY <1>1, <1>2, <2>1 DEF IInv, WaiterInv
  <2>2. ASSUME NEW v \in Uids, waiters'[v] # NoObject
        PROVE  \/ \E s \in Threads : uid'[s] = v /\ obj'[s] = waiters'[v]
               \/ npc' = "forget" /\ Notified' = v
    <3>1. CASE npc = "forget" /\ Notified = v
      BY <1>1, <3>1 DEF Notified
    <3>2. CASE uid[t] = v
      BY <1>1, <2>2, <3>2 DEF IInv, WaiterInv, Notified
    <3>3. CASE \E s \in Threads : s # t /\ uid[s] = v /\ obj[s] = waiters[v]
      BY <1>1, <1>2, <2>2, <3>3
    <3> QED
      BY <1>1, <2>2, <3>1, <3>2, <3>3 DEF IInv, WaiterInv
  <2>3. ASSUME NEW s \in Threads, pc'[s] = "remove", waiters'[uid'[s]] # NoObject
        PROVE  npc' = "forget" /\ Notified' = uid'[s]
    BY <1>1, <1>2, <2>3 DEF IInv, WaiterInv, Notified
  <2> QED
    BY <2>1, <2>2, <2>3 DEF WaiterInv
<1>9. Returned'
  BY <1>1, <1>2 DEF IInv, Returned
<1> QED
  BY <1>3, <1>4, <1>5, <1>6, <1>7, <1>8, <1>9 DEF IInv

-----------------------------------------------------------------------------
(* The steps of the interpreter.                                           *)

\* Outside notify, commands move from the queues to the stack, or leave the
\* stack; the threads see nothing of it.
LEMMA ServiceMoves ==
  ASSUME IInv, npc = "idle",
         UNCHANGED <<pc, uid, obj, tasks, running, waiters, npc, data>>,
         ExecTypeOK', CommandInv',
         ToSet(prio') \cup ToSet(norm') \subseteq ToSet(prio) \cup ToSet(norm),
         Stored' \subseteq Stored \cup {NoCmd}
  PROVE  IInv'
<1>1. \A s \in Threads : CommandOf(s)' = CommandOf(s)
  BY DEF CommandOf
<1>2. \A u \in Uids : \A kind \in {"sync", "async"} : <<u, kind>> # NoCmd
  BY ExecAssumption DEF Commands
<1>3. ThreadInv'
  BY DEF IInv, ThreadInv
<1>4. TaskInv'
  <2>1. ToSet(tasks) \subseteq Uids
    BY DEF IInv, ExecTypeOK, ToSet
  <2> QED
    BY <1>2, <2>1 DEF IInv, TaskInv
<1>5. OwnerInv'
  <2>1. ASSUME NEW c \in Stored', c # NoCmd
        PROVE  \E s \in Threads : CommandOf(s)' = c /\ pc'[s] \notin {"idle", "request"}
    BY <1>1, <2>1 DEF IInv, OwnerInv
  <2>2. ASSUME NEW s \in Threads, NEW kind \in {"sync", "async"},
               uid'[s] # NoUid, <<uid'[s], kind>> \in Stored'
        PROVE  pc'[s] # "request" /\ CommandOf(s)' = <<uid'[s], kind>>
    <3>1. uid[s] \in Uids
      BY <2>2 DEF IInv, ExecTypeOK
    <3>2. <<uid[s], kind>> \in Stored
      BY <1>2, <2>2, <3>1
    <3> QED
      BY <1>1, <2>2, <3>2 DEF IInv, OwnerInv
  <2> QED
    BY <2>1, <2>2 DEF OwnerInv
<1>6. \A s \in Threads : uid[s] # NoUid => CommandOf(s) # NoCmd
  BY CommandFacts, ExecAssumption DEF IInv
<1>7. WaiterInv'
  <2>1. ASSUME NEW s \in Threads, pc'[s] \in {"sync", "waiting"}, CommandOf(s)' \in Stored'
        PROVE  waiters'[uid'[s]] = obj'[s]
    <3>1. uid[s] # NoUid
      BY <2>1 DEF IInv, ThreadInv
    <3>2. CommandOf(s) \in Stored
      BY <1>1, <1>6, <2>1, <3>1
    <3> QED
      BY <2>1, <3>2 DEF IInv, WaiterInv
  <2> QED
    BY <2>1 DEF IInv, WaiterInv
<1>8. NotifyInv'
  BY DEF NotifyInv
<1>9. Returned'
  <2> SUFFICES ASSUME NEW s \in Threads, pc[s] = "remove"
               PROVE  /\ CommandOf(s) \notin ToSet(prio') \cup ToSet(norm')
                      /\ CommandOf(s) \notin ToSet(active')
    BY <1>1 DEF Returned
  <2>1. CommandOf(s) \notin Stored /\ CommandOf(s) # NoCmd
    BY <1>6 DEF IInv, Returned, ThreadInv, Stored
  <2>2. CommandOf(s) \notin Stored'
    BY <2>1
  <2> QED
    BY <2>2 DEF Stored
<1> QED
  BY <1>3, <1>4, <1>5, <1>7, <1>8, <1>9 DEF IInv

LEMMA RunCommandsStep ==
  ASSUME IInv, RunCommands
  PROVE  IInv'
<1>1. npc = "idle" /\ UNCHANGED <<pc, uid, obj, tasks, running, waiters, npc, data>>
  BY DEF RunCommands, notifier
<1>2. /\ prio \in Seq(Prioritary) /\ norm \in Seq(Interruptible)
      /\ active \in Seq(Commands \cup {NoCmd})
      /\ Once(prio, NoCmd) /\ Once(norm, NoCmd) /\ Once(active, NoCmd)
      /\ \A c \in ToSet(active) : c # NoCmd => c \notin ToSet(prio) \cup ToSet(norm)
  BY DEF IInv, ExecTypeOK, CommandInv
<1>3. NoCmd \notin ToSet(prio) \cup ToSet(norm)
  BY StoredFacts DEF IInv
<1>4. Prioritary \subseteq Commands /\ Interruptible \subseteq Commands
  BY DEF Prioritary, Interruptible, Commands
<1>5. CASE Service!BeginPrioritary
  <2> DEFINE c == Head(prio)
  <2>1. prio # <<>> /\ prio' = Tail(prio) /\ active' = Append(active, c) /\ norm' = norm
    BY <1>5 DEF Service!BeginPrioritary
  <2>2. /\ c \in Prioritary /\ prio' \in Seq(Prioritary)
        /\ ToSet(prio) = {c} \cup ToSet(prio')
        /\ Once(prio', NoCmd) /\ (c # NoCmd => c \notin ToSet(prio'))
    BY <1>2, <2>1, TailHolds
  <2> HIDE DEF c
  <2>3. c \in Commands \cup {NoCmd} /\ c # NoCmd /\ c \notin ToSet(active)
    BY <1>2, <1>3, <1>4, <2>2
  <2>4. c \notin ToSet(norm)
    <3>1. ToSet(norm) \subseteq Interruptible
      BY <1>2 DEF ToSet
    <3>2. c \notin Interruptible
      BY <2>2 DEF Prioritary, Interruptible
    <3> QED
      BY <3>1, <3>2
  <2>5. /\ active' \in Seq(Commands \cup {NoCmd})
        /\ ToSet(active') = ToSet(active) \cup {c}
        /\ Once(active', NoCmd)
    BY <1>2, <2>1, <2>3, AppendHolds
  <2>6. ExecTypeOK'
    BY <1>1, <1>2, <2>1, <2>2, <2>5 DEF IInv, ExecTypeOK
  <2>7. CommandInv'
    BY <1>2, <2>1, <2>2, <2>3, <2>4, <2>5 DEF CommandInv
  <2>8. /\ ToSet(prio') \cup ToSet(norm') \subseteq ToSet(prio) \cup ToSet(norm)
        /\ Stored' \subseteq Stored \cup {NoCmd}
    BY <2>1, <2>2, <2>5 DEF Stored
  <2> QED
    BY <1>1, <2>6, <2>7, <2>8, ServiceMoves
<1>6. CASE Service!BeginNormal
  <2> DEFINE c == Head(norm)
  <2>1. norm # <<>> /\ norm' = Tail(norm) /\ active' = Append(active, c) /\ prio' = prio
        /\ prio = <<>>
    BY <1>6 DEF Service!BeginNormal
  <2>2. /\ c \in Interruptible /\ norm' \in Seq(Interruptible)
        /\ ToSet(norm) = {c} \cup ToSet(norm')
        /\ Once(norm', NoCmd) /\ (c # NoCmd => c \notin ToSet(norm'))
    BY <1>2, <2>1, TailHolds
  <2> HIDE DEF c
  <2>3. c \in Commands \cup {NoCmd} /\ c # NoCmd /\ c \notin ToSet(active)
    BY <1>2, <1>3, <1>4, <2>2
  <2>4. c \notin ToSet(prio)
    BY <2>1 DEF ToSet
  <2>5. /\ active' \in Seq(Commands \cup {NoCmd})
        /\ ToSet(active') = ToSet(active) \cup {c}
        /\ Once(active', NoCmd)
    BY <1>2, <2>1, <2>3, AppendHolds
  <2>6. ExecTypeOK'
    BY <1>1, <1>2, <2>1, <2>2, <2>5 DEF IInv, ExecTypeOK
  <2>7. CommandInv'
    BY <1>2, <2>1, <2>2, <2>3, <2>4, <2>5 DEF CommandInv
  <2>8. /\ ToSet(prio') \cup ToSet(norm') \subseteq ToSet(prio) \cup ToSet(norm)
        /\ Stored' \subseteq Stored \cup {NoCmd}
    BY <2>1, <2>2, <2>5 DEF Stored
  <2> QED
    BY <1>1, <2>6, <2>7, <2>8, ServiceMoves
<1>7. CASE Service!Suspend
  <2>1. active' = Append(active, NoCmd) /\ prio' = prio /\ norm' = norm
    BY <1>7 DEF Service!Suspend
  <2>2. NoCmd \in Commands \cup {NoCmd}
    OBVIOUS
  <2>3. /\ active' \in Seq(Commands \cup {NoCmd})
        /\ ToSet(active') = ToSet(active) \cup {NoCmd}
        /\ Once(active', NoCmd)
    BY <1>2, <2>1, <2>2, AppendHolds
  <2>4. ExecTypeOK'
    BY <1>1, <1>2, <2>1, <2>3 DEF IInv, ExecTypeOK
  <2>5. CommandInv'
    BY <1>2, <2>1, <2>3 DEF CommandInv
  <2>6. /\ ToSet(prio') \cup ToSet(norm') \subseteq ToSet(prio) \cup ToSet(norm)
        /\ Stored' \subseteq Stored \cup {NoCmd}
    BY <2>1, <2>3 DEF Stored
  <2> QED
    BY <1>1, <2>4, <2>5, <2>6, ServiceMoves
<1>8. CASE active # <<>> /\ Last(active) = NoCmd /\ Service!Leave
  <2>1. active # <<>> /\ active' = Front(active) /\ prio' = prio /\ norm' = norm
    BY <1>8 DEF Service!Leave, Service!Front, Front
  <2>2. /\ active' \in Seq(Commands \cup {NoCmd})
        /\ ToSet(active') \subseteq ToSet(active)
        /\ Once(active', NoCmd)
    BY <1>2, <2>1, FrontHolds
  <2>3. ExecTypeOK'
    BY <1>1, <1>2, <2>1, <2>2 DEF IInv, ExecTypeOK
  <2>4. CommandInv'
    BY <1>2, <2>1, <2>2 DEF CommandInv
  <2>5. /\ ToSet(prio') \cup ToSet(norm') \subseteq ToSet(prio) \cup ToSet(norm)
        /\ Stored' \subseteq Stored \cup {NoCmd}
    BY <2>1, <2>2 DEF Stored
  <2> QED
    BY <1>1, <2>3, <2>4, <2>5, ServiceMoves
<1> QED
  BY <1>5, <1>6, <1>7, <1>8 DEF RunCommands

LEMMA AbortStep ==
  ASSUME IInv, Abort
  PROVE  IInv'
<1>1. /\ npc = "idle" /\ active' = <<>>
      /\ UNCHANGED <<prio, norm, pc, uid, obj, tasks, running, waiters, npc, data>>
  BY DEF Abort, notifier
<1>2. /\ active' \in Seq(Commands \cup {NoCmd}) /\ ToSet(active') = {}
      /\ Once(active', NoCmd)
  BY <1>1 DEF ToSet, Once
<1>3. ExecTypeOK'
  BY <1>1, <1>2 DEF IInv, ExecTypeOK
<1>4. CommandInv'
  BY <1>1, <1>2 DEF IInv, CommandInv
<1>5. /\ ToSet(prio') \cup ToSet(norm') \subseteq ToSet(prio) \cup ToSet(norm)
      /\ Stored' \subseteq Stored \cup {NoCmd}
  BY <1>1, <1>2 DEF Stored
<1> QED
  BY <1>1, <1>3, <1>4, <1>5, ServiceMoves

LEMMA CallNotifyStep ==
  ASSUME IInv, CallNotify
  PROVE  IInv'
<1>1. /\ npc = "idle" /\ npc' = "look" /\ ~Service!AtPrompt
      /\ UNCHANGED <<prio, norm, active, pc, uid, obj, tasks, running, waiters, data>>
  BY DEF CallNotify, service
<1>2. Stored' = Stored /\ Notified' = Notified /\ Last(active)' = Last(active)
  BY <1>1 DEF Stored, Notified
<1>3. \A s \in Threads : CommandOf(s)' = CommandOf(s)
  BY <1>1 DEF CommandOf
<1>4. ExecTypeOK' /\ ThreadInv' /\ CommandInv'
  BY <1>1 DEF IInv, ExecTypeOK, ThreadInv, CommandInv
<1>5. TaskInv'
  BY <1>1, <1>2 DEF IInv, TaskInv
<1>6. NotifyInv'
  BY <1>1 DEF NotifyInv, Service!AtPrompt
<1>7. OwnerInv'
  BY <1>1, <1>2, <1>3 DEF IInv, OwnerInv
<1>8. WaiterInv'
  BY <1>1, <1>2, <1>3 DEF IInv, WaiterInv
<1>9. Returned'
  BY <1>1, <1>2, <1>3 DEF IInv, Returned
<1> QED
  BY <1>4, <1>5, <1>6, <1>7, <1>8, <1>9 DEF IInv

LEMMA FindWaiterStep ==
  ASSUME IInv, FindWaiter
  PROVE  IInv'
<1>1. /\ npc = "look" /\ npc' = "wake" /\ waiters[Notified] # NoObject
      /\ data' = waiters[Notified]
      /\ UNCHANGED <<prio, norm, active, pc, uid, obj, tasks, running, waiters>>
  BY DEF FindWaiter, service
<1>2. Stored' = Stored /\ Notified' = Notified /\ Last(active)' = Last(active)
  BY <1>1 DEF Stored, Notified
<1>3. \A s \in Threads : CommandOf(s)' = CommandOf(s)
  BY <1>1 DEF CommandOf
<1>4. ~Service!AtPrompt
  BY <1>1 DEF IInv, NotifyInv
<1>5. data' \in Objects
  BY <1>1, <1>4, RunningFacts DEF IInv, ExecTypeOK
<1>6. ExecTypeOK'
  BY <1>1, <1>5 DEF IInv, ExecTypeOK
<1>7. ThreadInv' /\ CommandInv'
  BY <1>1 DEF IInv, ThreadInv, CommandInv
<1>8. TaskInv'
  BY <1>1, <1>2 DEF IInv, TaskInv
<1>9. NotifyInv'
  BY <1>1, <1>2, <1>4 DEF NotifyInv, Service!AtPrompt
<1>10. OwnerInv'
  BY <1>1, <1>2, <1>3 DEF IInv, OwnerInv
<1>11. WaiterInv'
  BY <1>1, <1>2, <1>3 DEF IInv, WaiterInv
<1>12. Returned'
  BY <1>1, <1>2, <1>3 DEF IInv, Returned
<1> QED
  BY <1>6, <1>7, <1>8, <1>9, <1>10, <1>11, <1>12 DEF IInv

\* Only the thread of the text notified waits on the object found.
LEMMA WakeWaiterStep ==
  ASSUME IInv, WakeWaiter
  PROVE  IInv'
<1>1. /\ npc = "wake" /\ npc' = "forget"
      /\ pc' = [t \in Threads |->
                  IF pc[t] = "waiting" /\ obj[t] = data THEN "remove" ELSE pc[t]]
      /\ UNCHANGED <<prio, norm, active, uid, obj, tasks, running, waiters, data>>
  BY DEF WakeWaiter, service
<1>2. Stored' = Stored /\ Notified' = Notified /\ Last(active)' = Last(active)
  BY <1>1 DEF Stored, Notified
<1>3. \A s \in Threads : CommandOf(s)' = CommandOf(s)
  BY <1>1 DEF CommandOf
<1>4. \A s \in Threads : \/ pc[s] = "waiting" /\ obj[s] = data /\ pc'[s] = "remove"
                         \/ pc'[s] = pc[s]
  BY <1>1
<1>5. ~Service!AtPrompt /\ data # NoObject /\ data = waiters[Notified]
  BY <1>1 DEF IInv, NotifyInv
<1>6. /\ Notified \in Uids /\ Last(active) # NoCmd
      /\ Last(active) \in ToSet(active) /\ Last(active) \in Stored
      /\ \E kind \in {"sync", "async"} : Last(active) = <<Notified, kind>>
  BY <1>5, RunningFacts DEF IInv
<1>7. ASSUME NEW s \in Threads, obj[s] = data
      PROVE  uid[s] = Notified /\ CommandOf(s) = Last(active)
  <2>1. \E t \in Threads : uid[t] = Notified /\ obj[t] = data
    BY <1>1, <1>5, <1>6 DEF IInv, WaiterInv
  <2>2. uid[s] = Notified
    BY <1>5, <1>7, <2>1 DEF IInv, ThreadInv
  <2>3. uid[s] # NoUid
    BY <1>6, <2>2, ExecAssumption
  <2> QED
    BY <1>6, <2>2, <2>3 DEF IInv, OwnerInv
<1>8. ExecTypeOK'
  <2>1. pc' \in [Threads ->
             {"idle", "request", "add", "put", "sync", "waiting", "remove"}]
    BY <1>1 DEF IInv, ExecTypeOK
  <2> QED
    BY <1>1, <2>1 DEF IInv, ExecTypeOK
<1>9. ThreadInv'
  BY <1>1, <1>4 DEF IInv, ThreadInv
<1>10. CommandInv'
  BY <1>1 DEF IInv, CommandInv
<1>11. TaskInv'
  BY <1>1, <1>2 DEF IInv, TaskInv
<1>12. NotifyInv'
  BY <1>1, <1>5 DEF NotifyInv, Service!AtPrompt
<1>13. OwnerInv'
  BY <1>1, <1>2, <1>3, <1>4 DEF IInv, OwnerInv
<1>14. WaiterInv'
  <2>1. ASSUME NEW s \in Threads, pc'[s] \in {"sync", "waiting"}, CommandOf(s)' \in Stored'
        PROVE  waiters'[uid'[s]] = obj'[s]
    BY <1>1, <1>2, <1>3, <1>4, <2>1 DEF IInv, WaiterInv
  <2>2. ASSUME NEW s \in Threads, pc'[s] = "remove", waiters'[uid'[s]] # NoObject
        PROVE  Notified' = uid'[s]
    BY <1>1, <1>2, <1>4, <1>7, <2>2 DEF IInv, WaiterInv
  <2> QED
    BY <1>1, <1>2, <2>1, <2>2 DEF IInv, WaiterInv
<1>15. Returned'
  <2> SUFFICES ASSUME NEW s \in Threads, pc'[s] = "remove"
               PROVE  /\ CommandOf(s) \notin ToSet(prio) \cup ToSet(norm)
                      /\ CommandOf(s) \in ToSet(active) => Last(active) = CommandOf(s)
    BY <1>1, <1>2, <1>3 DEF Returned
  <2>1. CASE pc[s] = "remove"
    BY <1>1, <2>1 DEF IInv, Returned
  <2>2. CASE pc[s] = "waiting" /\ obj[s] = data
    BY <1>6, <1>7, <2>2 DEF IInv, CommandInv
  <2> QED
    BY <1>4, <2>1, <2>2
<1> QED
  BY <1>8, <1>9, <1>10, <1>11, <1>12, <1>13, <1>14, <1>15 DEF IInv

\* The command notified is stored and run nowhere else.
LEMMA ForgetWaiterStep ==
  ASSUME IInv, ForgetWaiter
  PROVE  IInv'
<1> DEFINE c == Last(active)
<1>1. /\ npc = "forget" /\ npc' = "idle" /\ data' = NoObject
      /\ waiters' = [waiters EXCEPT ![Notified] = NoObject]
      /\ active' = Front(active)
      /\ UNCHANGED <<prio, norm, pc, uid, obj, tasks, running>>
  BY DEF ForgetWaiter, Service!Leave, Service!Front, Front
<1>2. ~Service!AtPrompt
  BY <1>1 DEF IInv, NotifyInv
<1>3. /\ active # <<>> /\ active \in Seq(Commands \cup {NoCmd})
      /\ c # NoCmd /\ c \in ToSet(active) /\ c \in Stored
      /\ Notified \in Uids
      /\ \E kind \in {"sync", "async"} : c = <<Notified, kind>>
  BY <1>2, RunningFacts DEF IInv
<1>4. Once(active, NoCmd)
  BY DEF IInv, CommandInv
<1>5. /\ active' \in Seq(Commands \cup {NoCmd})
      /\ ToSet(active) = {c} \cup ToSet(active')
      /\ Once(active', NoCmd) /\ c \notin ToSet(active')
  BY <1>1, <1>3, <1>4, FrontHolds
<1> HIDE DEF c
<1>6. Stored' \subseteq Stored /\ c \notin Stored'
  BY <1>1, <1>3, <1>5 DEF Stored, IInv, CommandInv
<1>7. \A s \in Threads : CommandOf(s)' = CommandOf(s)
  BY <1>1 DEF CommandOf
<1>8. /\ waiters'[Notified] = NoObject
      /\ \A u \in Uids : u # Notified => waiters'[u] = waiters[u]
  BY <1>1, <1>3 DEF IInv, ExecTypeOK
<1>9. ExecTypeOK'
  BY <1>1, <1>5 DEF IInv, ExecTypeOK
<1>10. ThreadInv'
  BY <1>1 DEF IInv, ThreadInv
<1>11. CommandInv'
  BY <1>1, <1>5 DEF IInv, CommandInv
<1>12. TaskInv'
  BY <1>1, <1>6 DEF IInv, TaskInv
<1>13. NotifyInv'
  BY <1>1 DEF NotifyInv
<1>14. OwnerInv'
  <2>1. ASSUME NEW d \in Stored', d # NoCmd
        PROVE  \E s \in Threads : CommandOf(s)' = d /\ pc'[s] \notin {"idle", "request"}
    <3>1. d \in Stored /\ d # c
      BY <1>6
    <3> QED
      BY <1>1, <1>7, <2>1, <3>1 DEF IInv, OwnerInv, c
  <2> QED
    BY <1>1, <1>6, <1>7, <2>1 DEF IInv, OwnerInv
<1>15. WaiterInv'
  <2>1. ASSUME NEW s \in Threads, pc'[s] \in {"sync", "waiting"}, CommandOf(s)' \in Stored'
        PROVE  waiters'[uid'[s]] = obj'[s]
    <3>1. CommandOf(s) \in Stored /\ CommandOf(s) # c
      BY <1>6, <1>7, <2>1
    <3>2. uid[s] \in Uids /\ uid[s] # NoUid
      BY <1>1, <2>1 DEF IInv, ThreadInv, ExecTypeOK
    <3>3. uid[s] # Notified
      BY <1>3, <3>1, <3>2 DEF IInv, OwnerInv
    <3> QED
      BY <1>1, <1>8, <2>1, <3>1, <3>2, <3>3 DEF IInv, WaiterInv
  <2>2. ASSUME NEW v \in Uids, waiters'[v] # NoObject
        PROVE  \E s \in Threads : uid'[s] = v /\ obj'[s] = waiters'[v]
    <3>1. v # Notified /\ waiters'[v] = waiters[v]
      BY <1>8, <2>2
    <3> QED
      BY <1>1, <2>2, <3>1 DEF IInv, WaiterInv
  <2>3. ASSUME NEW s \in Threads, pc'[s] = "remove" PROVE waiters'[uid'[s]] = NoObject
    <3>1. uid[s] \in Uids
      BY <1>1, <2>3 DEF IInv, ThreadInv, ExecTypeOK
    <3> QED
      BY <1>1, <1>8, <2>3, <3>1 DEF IInv, WaiterInv
  <2> QED
    BY <2>1, <2>2, <2>3 DEF WaiterInv
<1>16. Returned'
  BY <1>1, <1>5, <1>7 DEF IInv, Returned, c
<1> QED
  BY <1>9, <1>10, <1>11, <1>12, <1>13, <1>14, <1>15, <1>16 DEF IInv

-----------------------------------------------------------------------------
LEMMA InitIInv == Init => IInv
<1> SUFFICES ASSUME Init PROVE IInv
  OBVIOUS
<1>1. /\ prio = <<>> /\ norm = <<>> /\ active = <<>> /\ tasks = <<>>
      /\ pc = [t \in Threads |-> "idle"]
      /\ uid = [t \in Threads |-> NoUid]
      /\ obj = [t \in Threads |-> NoObject]
      /\ running = {}
      /\ waiters = [u \in Uids |-> NoObject]
      /\ npc = "idle" /\ data = NoObject
  BY DEF Init, Service!Init
<1>2. /\ ToSet(prio) = {} /\ ToSet(norm) = {} /\ ToSet(active) = {} /\ ToSet(tasks) = {}
      /\ Stored = {}
  BY <1>1 DEF ToSet, Stored
<1>3. Once(prio, NoCmd) /\ Once(norm, NoCmd) /\ Once(active, NoCmd) /\ Once(tasks, NoUid)
  BY <1>1 DEF Once
<1>4. ExecTypeOK
  BY <1>1 DEF ExecTypeOK
<1>5. ThreadInv
  BY <1>1 DEF ThreadInv
<1>6. TaskInv /\ CommandInv
  BY <1>2, <1>3 DEF TaskInv, CommandInv
<1>7. OwnerInv /\ NotifyInv
  BY <1>1, <1>2 DEF OwnerInv, NotifyInv
<1>8. WaiterInv /\ Returned
  BY <1>1, <1>2 DEF WaiterInv, Returned
<1> QED
  BY <1>4, <1>5, <1>6, <1>7, <1>8 DEF IInv

LEMMA StepIInv ==
  ASSUME Patient, IInv, [Next]_vars
  PROVE  IInv'
<1>1. CASE UNCHANGED vars
  BY <1>1 DEF vars, service, notifier, IInv, ExecTypeOK, ThreadInv, TaskInv, CommandInv,
     OwnerInv, WaiterInv, NotifyInv, Returned, Stored, CommandOf, Notified, Service!AtPrompt
<1>2. ASSUME NEW u \in Uids, AsyncCall(u) \/ \E t \in Callers : SyncCall(t, u)
      PROVE  IInv'
  BY <1>2, AsyncCallStep, SyncCallStep
<1>3. ASSUME NEW t \in Threads, ThreadStep(t) PROVE IInv'
  BY <1>3, RequestStep, RequestFailsStep, GoesOnStep, PutWaiterStep, RemoveTaskStep,
     TakeTaskStep DEF ThreadStep
<1>4. CASE RunCommands \/ Abort \/ CallNotify \/ NotifyStep
  BY <1>4, RunCommandsStep, AbortStep, CallNotifyStep, FindWaiterStep, WakeWaiterStep,
     ForgetWaiterStep DEF NotifyStep
<1> QED
  BY <1>1, <1>2, <1>3, <1>4 DEF Next

\* The strengthened invariant holds in every behaviour.
LEMMA AlwaysIInv ==
  ASSUME Patient
  PROVE  Spec => []IInv
<1>1. Init => IInv
  BY InitIInv
<1>2. IInv /\ [Next]_vars => IInv'
  BY StepIInv
<1> QED
  BY <1>1, <1>2, PTL DEF Spec

\* Every variable keeps its type, and synchronousScilabExec comes back, and the
\* callback of asynchronousScilabExec is run, only after the notify that ends
\* its own command (Signal.java): whatever other threads ask for, and whatever
\* is aborted or suspended, as long as no text is asked again while in use.
THEOREM ReturnsAfterExecutionCorrect ==
  ASSUME Patient
  PROVE  Spec => []ReturnsAfterExecution
<1>1. IInv => ReturnsAfterExecution
  BY DEF IInv, Returned, ReturnsAfterExecution
<1> QED
  BY <1>1, AlwaysIInv, PTL

\* Signal.notify never looks for a waiter in vain: the thread of the command
\* that runs is on its way to Signal.wait, or waits on the object registered
\* under the text.
THEOREM NotifyHasWaiterCorrect ==
  ASSUME Patient
  PROVE  Spec => []NotifyHasWaiter
<1>1. ASSUME IInv PROVE NotifyHasWaiter
  <2> SUFFICES ASSUME npc = "look"
               PROVE  \E t \in Threads :
                        /\ uid[t] = Notified
                        /\ \/ pc[t] \in {"add", "put"}
                           \/ pc[t] \in {"sync", "waiting"} /\ waiters[Notified] = obj[t]
    BY DEF NotifyHasWaiter
  <2>1. ~Service!AtPrompt
    BY <1>1 DEF IInv, NotifyInv
  <2>2. /\ Last(active) # NoCmd /\ Last(active) \in Stored
        /\ Last(active) \in ToSet(active)
    BY <1>1, <2>1, RunningFacts DEF IInv
  <2>3. PICK t \in Threads :
          CommandOf(t) = Last(active) /\ pc[t] \notin {"idle", "request"}
    BY <1>1, <2>2 DEF IInv, OwnerInv
  <2>4. uid[t] = Notified
    BY <1>1, <2>3, CommandFacts DEF IInv, Notified
  <2>5. pc[t] # "remove"
    BY <1>1, <2>2, <2>3 DEF IInv, Returned
  <2>6. pc[t] \in {"add", "put", "sync", "waiting"}
    BY <1>1, <2>3, <2>5 DEF IInv, ExecTypeOK
  <2>7. pc[t] \in {"sync", "waiting"} => waiters[Notified] = obj[t]
    BY <1>1, <2>2, <2>3, <2>4 DEF IInv, WaiterInv
  <2> QED
    BY <2>4, <2>6, <2>7
<1> QED
  BY <1>1, AlwaysIInv, PTL

=============================================================================
