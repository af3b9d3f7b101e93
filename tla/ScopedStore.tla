----------------------------- MODULE ScopedStore -----------------------------
(***************************************************************************)
(* What the symbol table promises to a program: a scope per function being *)
(* called, each with bindings of its own, and one store for the global     *)
(* variables.  Scope 0 is that of the primitives and 1 that of the         *)
(* console.  A binding that was declared global stands for the global      *)
(* variable as long as there is one.                                       *)
(***************************************************************************)
EXTENDS Naturals, FiniteSetsExt

CONSTANTS
  Names, Data, Empty,
  Assigned,        \* pairs of a name and what may be assigned to it
  None, Unbound

VARIABLES
  level,           \* the current scope
  env,             \* the binding of each name in each scope
  global

store == <<level, env, global>>

Unshared(v) == [value |-> v, shared |-> FALSE, protect |-> FALSE]
NoBindings == [n \in Names |-> Unbound]

Init ==
  /\ level = 1
  /\ DOMAIN env = {0, 1}
  /\ env[0] \in [Names -> {Unbound} \cup {Unshared(v) : v \in Data}]
  /\ env[1] = NoBindings
  /\ global = [n \in Names |-> None]

Binds(i, n) == env[i][n] # Unbound
Linked(i, n) == Binds(i, n) /\ env[i][n].shared /\ global[n] # None
Protected(i, n) == Binds(i, n) /\ env[i][n].protect
Bound(n) == \E i \in 0..level : Binds(i, n)

\* The innermost binding is the one that is read.
Lookup(n) ==
  LET i == Max({j \in 0..level : Binds(j, n)})
  IN  IF Linked(i, n) THEN global[n] ELSE env[i][n].value

Write(i, n, v) ==
  /\ level' = level
  /\ IF Linked(i, n)
       THEN global' = [global EXCEPT ![n] = v] /\ UNCHANGED env
       ELSE /\ UNCHANGED global
            /\ env' = [env EXCEPT ![i][n] =
                 IF @ = Unbound THEN Unshared(v) ELSE [@ EXCEPT !.value = v]]

\* The current scope without some names.
Drop(S) ==
  /\ level' = level
  /\ env' = [env EXCEPT ![level] = [n \in Names |-> IF n \in S THEN Unbound ELSE @[n]]]

Call ==
  /\ level' = level + 1
  /\ env' = [i \in 0..(level + 1) |-> IF i > level THEN NoBindings ELSE env[i]]
  /\ UNCHANGED global

Return ==
  /\ level > 1
  /\ level' = level - 1
  /\ env' = [i \in 0..(level - 1) |-> env[i]]
  /\ UNCHANGED global

Assign(n, v) == ~Protected(level, n) /\ Write(level, n, v)

Recall(n) == ~Binds(level, n) /\ Bound(n) /\ Write(level, n, Lookup(n))

Clear(n) == ~Protected(level, n) /\ UNCHANGED global /\ Drop({n})

ClearAll ==
  UNCHANGED global /\ Drop({n \in Names : ~Protected(level, n)})

Declare(n) ==
  /\ ~(Binds(level, n) /\ env[level][n].shared)
  /\ level' = level
  /\ global' = [global EXCEPT ![n] =
       IF @ # None THEN @ ELSE IF Bound(n) THEN Lookup(n) ELSE Empty]
  /\ env' = [env EXCEPT ![level][n] =
       [IF @ = Unbound THEN Unshared(Empty) ELSE @ EXCEPT !.shared = TRUE]]

\* Every binding of the name ends to stand for the global variable, and that
\* of the current scope is dropped.
Unshare(S) ==
  /\ global' = [n \in Names |-> IF n \in S THEN None ELSE global[n]]
  /\ Drop(S)

Resume(n, v) == ~Protected(level - 1, n) /\ Write(level - 1, n, v)

\* A resume is refused when any of the calling scopes protects the name, and
\* the function that asked for it has then lost its own binding.
ResumeRefused(n) ==
  (\E i \in 0..(level - 1) : Protected(i, n)) /\ UNCHANGED global /\ Drop({n})

Protect(b) ==
  /\ level' = level
  /\ UNCHANGED global
  /\ env' = [env EXCEPT ![level] = [n \in Names |->
       IF @[n] = Unbound THEN Unbound ELSE [@[n] EXCEPT !.protect = b]]]

Next ==
  \/ Call \/ Return \/ ClearAll
  \/ \E n \in Names :
       Recall(n) \/ Clear(n) \/ Declare(n) \/ ResumeRefused(n) \/ Unshare({n})
  \/ \E a \in Assigned : Assign(a[1], a[2]) \/ Resume(a[1], a[2])
  \/ Unshare({n \in Names : global[n] # None})
  \/ \E b \in BOOLEAN : Protect(b)

Spec == Init /\ [][Next]_store
=============================================================================
