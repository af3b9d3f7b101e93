---------------------------- MODULE SymbolContext ----------------------------
(***************************************************************************)
(* The symbol table (ast/src/cpp/symbol).  Each name has a stack of the    *)
(* values it has at the levels of scope where it is bound (Variable), each *)
(* level has the set of the names bound there (VarList), and libraries are *)
(* kept a second time, in a stack of their own for each name (Library):    *)
(* there they are only pointers, "data is manage by variables".            *)
(*                                                                         *)
(* Level 0 is that of the primitives and 1 that of the console; a call of  *)
(* a macro opens a level.  The operations are those of context.cpp as the  *)
(* interpreter calls them.  Classes, functions loaded from a library,      *)
(* funcprot and the name ans are left out.                                 *)
(***************************************************************************)
EXTENDS Naturals, SequencesExt

CONSTANTS
  Names,
  Values, Libraries,   \* what a program assigns
  Empty,               \* the empty matrix
  Primitive,           \* the value of the names below
  Primitives,
  None,
  Bindings,            \* bound: pairs of a name and what is assigned to it
  Globals, Resumed,    \* bound: names declared global, names resumed
  MaxLevel,            \* bound: the nesting of the calls
  PredefLevels         \* bound: the levels where predef is called

Data == Values \cup Libraries \cup {Empty, Primitive}

ASSUME SymbolAssumption ==
  /\ None \notin Data
  /\ Libraries \cap (Values \cup {Empty, Primitive}) = {}
  /\ Primitives \cup Globals \cup Resumed \subseteq Names
  /\ Bindings \subseteq Names \X (Values \cup Libraries)
  /\ MaxLevel \in Nat \ {0}
  /\ PredefLevels \subseteq Nat

VARIABLES
  level,         \* m_iLevel
  stack,         \* Variable::stack, the top last
  scopes,        \* varStack: the names registered at level i are scopes[i + 1]
  isGlobal, globalValue,   \* m_Global, m_GlobalValue
  libs           \* Library::stack

globals == <<isGlobal, globalValue>>
vars    == <<level, stack, scopes, isGlobal, globalValue, libs>>

Entry == [level : Nat, value : Data, visible : BOOLEAN, protect : BOOLEAN]
LibEntry == [level : Nat, lib : Libraries]
NewEntry(l, v) ==
  [level |-> l, value |-> v, visible |-> FALSE, protect |-> FALSE]

Init ==
  /\ level = 1
  /\ stack = [n \in Names |->
                IF n \in Primitives THEN <<NewEntry(0, Primitive)>> ELSE <<>>]
  /\ scopes = <<{}, {}>>
  /\ isGlobal = [n \in Names |-> FALSE]
  /\ globalValue = [n \in Names |-> None]
  /\ libs = [n \in Names |-> <<>>]

SymbolTypeOK ==
  /\ level \in 1..MaxLevel
  /\ stack \in [Names -> Seq(Entry)]
  /\ scopes \in Seq(SUBSET Names)
  /\ Len(scopes) = level + 1
  /\ isGlobal \in [Names -> BOOLEAN]
  /\ globalValue \in [Names -> Data \cup {None}]
  /\ libs \in [Names -> Seq(LibEntry)]

-----------------------------------------------------------------------------
\* Whether the top of a stack belongs to a level.
At(s, l) == s # <<>> /\ Last(s).level = l

SetTop(s, e) == Append(Front(s), e)
PopAt(s, l) == IF At(s, l) THEN Front(s) ELSE s

\* The part of a stack at or below a level, when only its top can be above.
Below(s, l) == IF s # <<>> /\ Last(s).level > l THEN Front(s) ELSE s
Above(s, l) == IF s # <<>> /\ Last(s).level > l THEN <<Last(s)>> ELSE <<>>

Shown(g, s, l) == g /\ At(s, l) /\ Last(s).visible
IsProtected(n) == At(stack[n], level) /\ Last(stack[n]).protect

\* Context::get: the top of the stack, whatever its level, or the library.
Get(n) ==
  IF stack[n] # <<>>
    THEN IF isGlobal[n] /\ Last(stack[n]).visible
           THEN globalValue[n] ELSE Last(stack[n]).value
  ELSE IF libs[n] # <<>> THEN Last(libs[n]).lib
  ELSE None

\* Fault: a level is added each time.
PutValueAppends(s, l, v) == Append(s, NewEntry(l, v))

\* Variable::put of a name that does not show a global variable.
PutValue(s, l, v) ==
  IF s = <<>> \/ Last(s).level < l
    THEN Append(s, NewEntry(l, v))
    ELSE SetTop(s, [Last(s) EXCEPT !.value = v])

\* The library it replaces, that it takes out of the libraries.
Replaced(s, l, v) ==
  IF s # <<>> /\ Last(s).level >= l
    THEN {Last(s).value} \cap (Libraries \ {v}) ELSE {}

\* unrefLibrary: the first name, in the order of the map, whose top it is.
Unref(q, S) ==
  IF \E m \in Names : q[m] # <<>> /\ Last(q[m]).lib \in S
    THEN LET m == CHOOSE m \in Names : q[m] # <<>> /\ Last(q[m]).lib \in S
         IN  [q EXCEPT ![m] = Front(@)]
    ELSE q

LibPut(q, l, v) ==
  IF v \notin Libraries THEN q
  ELSE IF q = <<>> \/ Last(q).level < l THEN Append(q, [level |-> l, lib |-> v])
  ELSE SetTop(q, [Last(q) EXCEPT !.lib = v])

\* Context::put, of a name whose stack is s and that is global or not.
Put(n, s, g, v) ==
  LET shown == Shown(g, s, level)
  IN  /\ stack' = [stack EXCEPT ![n] = IF shown THEN s ELSE PutValue(s, level, v)]
      /\ globalValue' = [globalValue EXCEPT ![n] = IF shown THEN v ELSE @]
      /\ libs' = Unref([libs EXCEPT ![n] = LibPut(@, level, v)],
                       IF shown THEN {} ELSE Replaced(s, level, v))
      /\ scopes' = [scopes EXCEPT ![level + 1] = @ \cup {n}]

-----------------------------------------------------------------------------
ScopeBegin ==
  /\ level < MaxLevel
  /\ level' = level + 1
  /\ scopes' = Append(scopes, {})
  /\ UNCHANGED <<stack, globals, libs>>

\* Fault: it takes the top of every registered name.
ClearedNamesAnyLevel(close) ==
  {n \in scopes[level + 1] : stack[n] # <<>> /\ (close \/ ~IsProtected(n))}

\* clearCurrentScope takes the registered names that are bound at this level.
ClearedNames(close) ==
  {n \in scopes[level + 1] : At(stack[n], level) /\ (close \/ ~IsProtected(n))}

Unbind(S) ==
  /\ stack' = [n \in Names |-> IF n \in S THEN Front(stack[n]) ELSE stack[n]]
  /\ libs' = [n \in Names |->
                IF n \in S /\ Last(stack[n]).value \in Libraries
                  THEN PopAt(libs[n], level) ELSE libs[n]]

ScopeEnd ==
  /\ level > 1
  /\ Unbind(ClearedNames(TRUE))
  /\ scopes' = Front(scopes)
  /\ level' = level - 1
  /\ UNCHANGED globals

\* clear without arguments.
RemoveAll ==
  /\ Unbind(ClearedNames(FALSE))
  /\ scopes' = [scopes EXCEPT ![level + 1] = @ \ ClearedNames(FALSE)]
  /\ UNCHANGED <<level, globals>>

Assign(n, v) ==
  /\ ~IsProtected(n)
  /\ Put(n, stack[n], isGlobal[n], v)
  /\ UNCHANGED <<level, isGlobal>>

\* A variable alone as a statement of a macro becomes one of the macro.
Recall(n) ==
  /\ level > 1
  /\ stack[n] # <<>> /\ ~At(stack[n], level)
  /\ Put(n, stack[n], isGlobal[n], Get(n))
  /\ UNCHANGED <<level, isGlobal>>

\* Faults: whatever the level; the library stays.
ClearAnyLevel(n) ==
  /\ ~IsProtected(n)
  /\ stack[n] # <<>>
  /\ stack' = [stack EXCEPT ![n] = Front(@)]
  /\ scopes' = [scopes EXCEPT ![level + 1] = @ \ {n}]
  /\ libs' = [libs EXCEPT ![n] = PopAt(@, level)]
  /\ UNCHANGED <<level, globals>>
ClearKeepsLibrary(n) ==
  /\ ~IsProtected(n)
  /\ stack' = [stack EXCEPT ![n] = PopAt(@, level)]
  /\ scopes' = [scopes EXCEPT ![level + 1] =
                  IF At(stack[n], level) THEN @ \ {n} ELSE @]
  /\ UNCHANGED <<level, globals, libs>>

\* clear n, and n = null().
Clear(n) ==
  /\ ~IsProtected(n)
  /\ stack' = [stack EXCEPT ![n] = PopAt(@, level)]
  /\ scopes' = [scopes EXCEPT ![level + 1] =
                  IF At(stack[n], level) THEN @ \ {n} ELSE @]
  /\ libs' = [libs EXCEPT ![n] = PopAt(@, level)]
  /\ UNCHANGED <<level, globals>>

\* Fault: the name is not registered at the previous level.
ResumeUnregistered(n, v) ==
  LET low   == Below(stack[n], level - 1)
      high  == Above(stack[n], level - 1)
      shown == Shown(isGlobal[n], low, level - 1)
  IN  /\ ~(low # <<>> /\ Last(low).protect)
      /\ stack' = [stack EXCEPT ![n] =
           (IF shown THEN low ELSE PutValue(low, level - 1, v)) \o high]
      /\ globalValue' = [globalValue EXCEPT ![n] = IF shown THEN v ELSE @]
      /\ UNCHANGED <<level, isGlobal, scopes, libs>>

\* [n] = resume(v), putInPreviousScope.  The top of the stack is taken off
\* while it is above the previous level, and put back after.
Resume(n, v) ==
  LET low   == Below(stack[n], level - 1)
      high  == Above(stack[n], level - 1)
      shown == Shown(isGlobal[n], low, level - 1)
      q     == Unref(libs, IF shown THEN {} ELSE Replaced(low, level - 1, v))
  IN  /\ ~(low # <<>> /\ Last(low).protect)
      /\ stack' = [stack EXCEPT ![n] =
           (IF shown THEN low ELSE PutValue(low, level - 1, v)) \o high]
      /\ globalValue' = [globalValue EXCEPT ![n] = IF shown THEN v ELSE @]
      /\ libs' = [q EXCEPT ![n] =
           LibPut(Below(@, level - 1), level - 1, v) \o Above(@, level - 1)]
      /\ scopes' = [scopes EXCEPT ![level] = @ \cup {n}]
      /\ UNCHANGED <<level, isGlobal>>

\* It is refused when the next entry is protected, and the one that was taken
\* off is not put back.
ResumeRefused(n) ==
  LET low == Below(stack[n], level - 1)
  IN  /\ low # <<>> /\ Last(low).protect
      /\ stack' = [stack EXCEPT ![n] = low]
      /\ UNCHANGED <<level, scopes, globals, libs>>

\* sci_global: nothing for a name that is visible already; otherwise the
\* global value, or the one the name has, goes to the global variable.
Global(n) ==
  LET v == IF isGlobal[n] THEN globalValue[n] ELSE Get(n)
      e == IF At(stack[n], level) THEN Last(stack[n]) ELSE NewEntry(level, Empty)
      s == Append(PopAt(stack[n], level), [e EXCEPT !.visible = TRUE])
  IN  /\ ~(At(stack[n], level) /\ Last(stack[n]).visible)
      /\ isGlobal' = [isGlobal EXCEPT ![n] = TRUE]
      /\ Put(n, s, TRUE, IF v = None THEN Empty ELSE v)
      /\ UNCHANGED level

\* removeGlobal: the entry of the current level goes too, global or not; it
\* stays registered, and a library stays in the libraries.
RemoveGlobals(S) ==
  /\ isGlobal' = [n \in Names |-> isGlobal[n] /\ n \notin S]
  /\ globalValue' = [n \in Names |->
       IF n \in S /\ isGlobal[n] THEN None ELSE globalValue[n]]
  /\ stack' = [n \in Names |-> IF n \in S THEN PopAt(stack[n], level) ELSE stack[n]]
  /\ UNCHANGED <<level, scopes, libs>>

ClearGlobal(n) == RemoveGlobals({n})

\* clearglobal(): removeGlobalAll.
ClearGlobals == RemoveGlobals({n \in Names : isGlobal[n]})

\* predef("all") and predef("clear"): the entries of the current level.
UpdateProtection(b) ==
  /\ level \in PredefLevels
  /\ stack' = [n \in Names |->
       IF n \in scopes[level + 1] /\ At(stack[n], level)
         THEN SetTop(stack[n], [Last(stack[n]) EXCEPT !.protect = b])
         ELSE stack[n]]
  /\ UNCHANGED <<level, scopes, globals, libs>>

Next ==
  \/ ScopeBegin \/ ScopeEnd \/ RemoveAll \/ ClearGlobals
  \/ \E b \in Bindings :
       \/ Assign(b[1], b[2])
       \/ b[1] \in Resumed /\ Resume(b[1], b[2])
  \/ \E n \in Names : Recall(n) \/ Clear(n)
  \/ \E n \in Resumed : ResumeRefused(n)
  \/ \E n \in Globals : Global(n) \/ ClearGlobal(n)
  \/ \E b \in BOOLEAN : UpdateProtection(b)

Spec == Init /\ [][Next]_vars

-----------------------------------------------------------------------------
\* A name has one entry for each level where it is bound, the innermost on
\* top, and none is left of a scope that has ended.
Ordered(s, l) ==
  /\ \A i, j \in DOMAIN s : i < j => s[i].level < s[j].level
  /\ \A i \in DOMAIN s : s[i].level <= l
StacksOrdered == \A n \in Names : Ordered(stack[n], level)

\* What is bound at a level is registered there, so that the end of the scope
\* removes it.
Levels(s) == {s[i].level : i \in DOMAIN s}
BindingsRegistered ==
  \A n \in Names : \A l \in Levels(stack[n]) \ {0} : n \in scopes[l + 1]

\* A name that shows the global variable has a value to show.
GlobalHasValue == \A n \in Names : isGlobal[n] <=> globalValue[n] # None

\* "It is contained in libraries and variables": a library that the libraries
\* list, where functions are looked for, is still held by a variable.
Held(lib) ==
  \E m \in Names :
    \/ globalValue[m] = lib
    \/ \E i \in DOMAIN stack[m] : stack[m][i].value = lib
LibrariesHeld ==
  \A n \in Names : \A i \in DOMAIN libs[n] : Held(libs[n][i].lib)

\* A statement, whatever it declares, clears or resumes, leaves the bindings
\* of the callers of its caller alone.
SameBelow(s, t, l) ==
  \A i \in (DOMAIN s) \cup (DOMAIN t) :
    (i \in DOMAIN s /\ s[i].level < l) \/ (i \in DOMAIN t /\ t[i].level < l) =>
      /\ i \in (DOMAIN s) \cap (DOMAIN t)
      /\ s[i] = t[i]
CallersKept == [][\A n \in Names : SameBelow(stack[n], stack'[n], level - 1)]_vars

\* The symbol table implements scopes with bindings of their own.
Unbound == [value |-> None]
View(e) == [value |-> e.value, shared |-> e.visible, protect |-> e.protect]
Binding(s, l) ==
  IF l \in Levels(s)
    THEN View(s[CHOOSE i \in DOMAIN s : s[i].level = l])
    ELSE Unbound
Env == [l \in 0..level |-> [n \in Names |-> Binding(stack[n], l)]]

Store == INSTANCE ScopedStore WITH
  Assigned <- Bindings,
  env      <- Env,
  global   <- globalValue

ImplementsStore == Store!Spec
=============================================================================
