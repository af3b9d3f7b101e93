------------------------- MODULE SymbolContextProofs -------------------------
(***************************************************************************)
(* The symbol table for every set of names, values and any nesting: its    *)
(* stacks are ordered by level and what is bound is registered where the   *)
(* end of the scope finds it; it implements ScopedStore; and it lists only *)
(* libraries that variables hold.                                          *)
(***************************************************************************)
EXTENDS SymbolContext, TLAPS

-----------------------------------------------------------------------------
(* The operations on one stack.  A stack keeps its order and its entries.  *)

\* The top of a stack and the rest of it.
LEMMA FrontLast ==
  ASSUME NEW S, NEW s \in Seq(S), s # <<>>
  PROVE  /\ Last(s) \in S
         /\ Last(s) = s[Len(s)]
         /\ Front(s) \in Seq(S)
         /\ Len(Front(s)) = Len(s) - 1
         /\ DOMAIN s = 1..Len(s) /\ Len(s) \in Nat \ {0}
         /\ DOMAIN Front(s) = 1..(Len(s) - 1)
         /\ \A i \in 1..(Len(s) - 1) : Front(s)[i] = s[i]
<1>1. DOMAIN s = 1..Len(s) /\ Len(s) \in Nat \ {0}
  OBVIOUS
<1>2. Last(s) = s[Len(s)] /\ Last(s) \in S
  BY <1>1 DEF Last
<1>3. Front(s) = SubSeq(s, 1, Len(s) - 1)
  BY DEF Front
<1>4. Front(s) \in Seq(S) /\ Len(Front(s)) = Len(s) - 1
  BY <1>1, <1>3
<1>5. \A i \in 1..(Len(s) - 1) : Front(s)[i] = s[i]
  BY <1>1, <1>3
<1>6. DOMAIN Front(s) = 1..(Len(s) - 1)
  BY <1>4
<1> QED
  BY <1>1, <1>2, <1>4, <1>5, <1>6

\* A stack with its top replaced.
LEMMA SetTopFacts ==
  ASSUME NEW S, NEW s \in Seq(S), s # <<>>, NEW e \in S
  PROVE  /\ SetTop(s, e) \in Seq(S)
         /\ Len(SetTop(s, e)) = Len(s)
         /\ DOMAIN SetTop(s, e) = 1..Len(s)
         /\ \A i \in 1..(Len(s) - 1) : SetTop(s, e)[i] = s[i]
         /\ SetTop(s, e)[Len(s)] = e
BY FrontLast DEF SetTop

\* A stack with one entry more.
LEMMA AppendFacts ==
  ASSUME NEW S, NEW s \in Seq(S), NEW e \in S
  PROVE  /\ Append(s, e) \in Seq(S)
         /\ DOMAIN s = 1..Len(s) /\ Len(s) \in Nat
         /\ DOMAIN Append(s, e) = 1..(Len(s) + 1)
         /\ \A i \in 1..Len(s) : Append(s, e)[i] = s[i]
         /\ Append(s, e)[Len(s) + 1] = e
OBVIOUS

\* What is above a level is put back.
LEMMA PutBack ==
  ASSUME NEW S, NEW s \in Seq(S), NEW t \in Seq(S), NEW l
  PROVE  t \o Above(s, l) =
           IF s # <<>> /\ Last(s).level > l THEN Append(t, Last(s)) ELSE t
BY FrontLast DEF Above

\* An entry has a level, and keeps it when its value changes.
LEMMA EntryLevel == \A e \in Entry : e.level \in Nat
BY DEF Entry

LEMMA ValueUpdate ==
  ASSUME NEW e \in Entry, NEW v \in Data
  PROVE  [e EXCEPT !.value = v] \in Entry /\ [e EXCEPT !.value = v].level = e.level
BY DEF Entry

\* What a stack holds.
LEMMA EntryFacts ==
  ASSUME NEW s \in Seq(Entry)
  PROVE  /\ Len(s) \in Nat
         /\ DOMAIN s = 1..Len(s)
         /\ \A i \in 1..Len(s) : s[i] \in Entry /\ s[i].level \in Nat
         /\ s = <<>> <=> Len(s) = 0
<1>1. \A e \in Entry : e.level \in Nat
  BY EntryLevel
<1>2. Len(s) \in Nat /\ DOMAIN s = 1..Len(s) /\ (s = <<>> <=> Len(s) = 0)
  OBVIOUS
<1>3. \A i \in 1..Len(s) : s[i] \in Entry
  BY <1>2
<1> QED
  BY <1>1, <1>2, <1>3

\* ... its top, and the rest.
LEMMA TopFacts ==
  ASSUME NEW s \in Seq(Entry), s # <<>>
  PROVE  /\ Len(s) \in Nat \ {0}
         /\ Last(s) = s[Len(s)] /\ Last(s) \in Entry /\ Last(s).level \in Nat
         /\ Front(s) \in Seq(Entry)
         /\ DOMAIN Front(s) = 1..(Len(s) - 1)
         /\ Len(Front(s)) = Len(s) - 1
         /\ \A i \in 1..(Len(s) - 1) : Front(s)[i] = s[i]
<1>1. Last(s) \in Entry
  BY FrontLast
<1>2. \A e \in Entry : e.level \in Nat
  BY EntryLevel
<1> QED
  BY <1>1, <1>2, FrontLast, EntryFacts

\* A higher bound is a bound too.
LEMMA OrderedHigher ==
  ASSUME NEW s \in Seq(Entry), NEW l \in Nat, NEW k \in Nat,
         Ordered(s, l), l <= k
  PROVE  Ordered(s, k)
BY EntryFacts DEF Ordered

\* A stack with nothing at a level is bounded by the one below.
LEMMA OrderedLower ==
  ASSUME NEW s \in Seq(Entry), NEW l \in Nat \ {0}, Ordered(s, l), ~At(s, l)
  PROVE  Ordered(s, l - 1)
<1>1. CASE s = <<>>
  BY <1>1 DEF Ordered
<1>2. CASE s # <<>>
  <2>1. s[Len(s)].level < l /\ DOMAIN s = 1..Len(s) /\ Len(s) \in Nat \ {0}
    BY <1>2, EntryFacts, TopFacts DEF Ordered, At
  <2>2. \A i \in DOMAIN s : s[i].level \in Nat
    BY EntryFacts
  <2>3. \A i \in DOMAIN s : s[i].level <= s[Len(s)].level
    BY <2>1, <2>2 DEF Ordered
  <2> QED
    BY <2>1, <2>2, <2>3 DEF Ordered
<1> QED
  BY <1>1, <1>2

\* Taking off the entry of the level.
LEMMA PopAtStack ==
  ASSUME NEW s \in Seq(Entry), NEW l \in Nat \ {0}, Ordered(s, l)
  PROVE  /\ PopAt(s, l) \in Seq(Entry)
         /\ Ordered(PopAt(s, l), l - 1)
         /\ Levels(PopAt(s, l)) \subseteq Levels(s)
         /\ ~At(PopAt(s, l), l)
         /\ SameBelow(s, PopAt(s, l), l)
<1>1. CASE ~At(s, l)
  BY <1>1, OrderedLower DEF PopAt, SameBelow
<1>2. CASE At(s, l)
  <2> DEFINE t == Front(s)
  <2>1. PopAt(s, l) = t /\ s # <<>> /\ s[Len(s)].level = l
    BY <1>2, TopFacts DEF PopAt, At
  <2>2. /\ t \in Seq(Entry) /\ Len(s) \in Nat \ {0}
        /\ DOMAIN s = 1..Len(s) /\ DOMAIN t = 1..(Len(s) - 1)
        /\ \A i \in 1..(Len(s) - 1) : t[i] = s[i]
        /\ \A i \in DOMAIN s : s[i].level \in Nat
    BY <2>1, EntryFacts, TopFacts
  <2> HIDE DEF t
  <2>3. \A i \in DOMAIN t : t[i].level < l /\ t[i].level \in Nat
    BY <2>1, <2>2 DEF Ordered
  <2>4. Ordered(t, l - 1)
    <3>1. \A i \in DOMAIN t : t[i].level <= l - 1
      BY <2>3
    <3>2. \A i, j \in DOMAIN t : i < j => t[i].level < t[j].level
      BY <2>2 DEF Ordered
    <3> QED
      BY <3>1, <3>2 DEF Ordered
  <2>5. Levels(t) \subseteq Levels(s)
    BY <2>2 DEF Levels
  <2>6. ~At(t, l)
    <3> SUFFICES ASSUME t # <<>>, Last(t).level = l PROVE FALSE
      BY DEF At
    <3>1. Last(t) = t[Len(t)] /\ Len(t) \in DOMAIN t
      BY <2>2, TopFacts, EntryFacts
    <3> QED
      BY <3>1, <2>3
  <2>7. SameBelow(s, t, l)
    BY <2>1, <2>2 DEF SameBelow
  <2> QED
    BY <2>1, <2>2, <2>4, <2>5, <2>6, <2>7
<1> QED
  BY <1>1, <1>2

\* Changing the top without its level.
LEMMA SetTopStack ==
  ASSUME NEW s \in Seq(Entry), NEW l \in Nat, Ordered(s, l), s # <<>>,
         NEW e \in Entry, e.level = Last(s).level
  PROVE  /\ SetTop(s, e) \in Seq(Entry)
         /\ Ordered(SetTop(s, e), l)
         /\ Levels(SetTop(s, e)) = Levels(s)
         /\ SameBelow(s, SetTop(s, e), e.level)
         /\ \A k \in Nat : At(SetTop(s, e), k) <=> At(s, k)
<1> DEFINE t == SetTop(s, e)
<1>1. /\ t \in Seq(Entry) /\ Len(s) \in Nat \ {0} /\ Len(t) = Len(s)
      /\ DOMAIN s = 1..Len(s) /\ DOMAIN t = 1..Len(s)
      /\ \A i \in 1..(Len(s) - 1) : t[i] = s[i]
      /\ t[Len(s)] = e /\ e.level = s[Len(s)].level
      /\ \A i \in DOMAIN s : s[i].level \in Nat
  <2>1. /\ t \in Seq(Entry) /\ Len(t) = Len(s) /\ DOMAIN t = 1..Len(s)
        /\ \A i \in 1..(Len(s) - 1) : t[i] = s[i]
        /\ t[Len(s)] = e
    <3>1. t \in Seq(Entry)
      BY SetTopFacts
    <3>2. Len(t) = Len(s) /\ DOMAIN t = 1..Len(s)
      BY SetTopFacts
    <3>3. \A i \in 1..(Len(s) - 1) : t[i] = s[i]
      BY SetTopFacts
    <3>4. t[Len(s)] = e
      BY SetTopFacts
    <3> QED
      BY <3>1, <3>2, <3>3, <3>4
  <2>2. /\ Len(s) \in Nat \ {0} /\ DOMAIN s = 1..Len(s)
        /\ Last(s) = s[Len(s)]
        /\ \A i \in DOMAIN s : s[i].level \in Nat
    BY EntryFacts, TopFacts
  <2> QED
    BY <2>1, <2>2
<1> HIDE DEF t
<1>2. \A i \in 1..Len(s) : t[i].level = s[i].level
  BY <1>1
<1>3. Ordered(t, l)
  BY <1>1, <1>2 DEF Ordered
<1>4. Levels(t) = Levels(s)
  BY <1>1, <1>2 DEF Levels
<1>5. SameBelow(s, t, e.level)
  BY <1>1 DEF SameBelow
<1>6. \A k \in Nat : At(t, k) <=> At(s, k)
  BY <1>1, TopFacts, EntryFacts DEF At
<1> QED
  BY <1>1, <1>3, <1>4, <1>5, <1>6 DEF t

\* A new entry above the others.
LEMMA AppendStack ==
  ASSUME NEW s \in Seq(Entry), NEW l \in Nat, NEW k \in Nat, Ordered(s, l),
         NEW e \in Entry, s = <<>> \/ Last(s).level < e.level, e.level <= k
  PROVE  /\ Append(s, e) \in Seq(Entry)
         /\ Ordered(Append(s, e), k)
         /\ Levels(Append(s, e)) = Levels(s) \cup {e.level}
         /\ SameBelow(s, Append(s, e), e.level)
         /\ At(Append(s, e), e.level)
<1> DEFINE t == Append(s, e)
<1>1. /\ t \in Seq(Entry) /\ Len(s) \in Nat
      /\ DOMAIN s = 1..Len(s) /\ DOMAIN t = 1..(Len(s) + 1)
      /\ \A i \in 1..Len(s) : t[i] = s[i]
      /\ t[Len(s) + 1] = e
      /\ \A i \in DOMAIN s : s[i].level \in Nat
      /\ e.level \in Nat
  BY AppendFacts, EntryFacts, EntryLevel
<1> HIDE DEF t
<1>2. \A i \in DOMAIN s : s[i].level < e.level
  <2>1. CASE s = <<>>
    BY <2>1
  <2>2. CASE s # <<>>
    <3>1. s[Len(s)].level < e.level /\ Len(s) \in DOMAIN s
      BY <2>2, <1>1, TopFacts
    <3> QED
      BY <3>1, <1>1 DEF Ordered
  <2> QED
    BY <2>1, <2>2
<1>3. Ordered(t, k)
  <2>1. \A i \in DOMAIN t : t[i].level <= k
    BY <1>1, <1>2
  <2>2. \A i, j \in DOMAIN t : i < j => t[i].level < t[j].level
    BY <1>1, <1>2 DEF Ordered
  <2> QED
    BY <2>1, <2>2 DEF Ordered
<1>4. Levels(t) = Levels(s) \cup {e.level}
  BY <1>1 DEF Levels
<1>5. SameBelow(s, t, e.level)
  BY <1>1 DEF SameBelow
<1>6. At(t, e.level)
  BY <1>1, TopFacts, EntryFacts DEF At
<1> QED
  BY <1>1, <1>3, <1>4, <1>5, <1>6 DEF t

\* Assigning at the level.
LEMMA PutValueStack ==
  ASSUME NEW s \in Seq(Entry), NEW l \in Nat, Ordered(s, l), NEW v \in Data
  PROVE  /\ PutValue(s, l, v) \in Seq(Entry)
         /\ Ordered(PutValue(s, l, v), l)
         /\ Levels(PutValue(s, l, v)) \subseteq Levels(s) \cup {l}
         /\ SameBelow(s, PutValue(s, l, v), l)
<1>0. NewEntry(l, v) \in Entry /\ NewEntry(l, v).level = l
  BY DEF NewEntry, Entry
<1>1. CASE s = <<>> \/ Last(s).level < l
  BY <1>0, <1>1, AppendStack DEF PutValue
<1>2. CASE ~(s = <<>> \/ Last(s).level < l)
  <2> DEFINE e == [Last(s) EXCEPT !.value = v]
  <2>1. s # <<>> /\ Last(s) \in Entry /\ Last(s).level <= l /\ Last(s).level \in Nat
    BY <1>2, TopFacts, EntryFacts DEF Ordered
  <2>2. e \in Entry /\ e.level = Last(s).level /\ Last(s).level = l
    BY <1>2, <2>1, ValueUpdate
  <2>3. PutValue(s, l, v) = SetTop(s, e)
    BY <1>2 DEF PutValue
  <2> HIDE DEF e
  <2>4. /\ SetTop(s, e) \in Seq(Entry) /\ Ordered(SetTop(s, e), l)
        /\ Levels(SetTop(s, e)) = Levels(s) /\ SameBelow(s, SetTop(s, e), e.level)
    BY <2>1, <2>2, SetTopStack
  <2> QED
    BY <2>2, <2>3, <2>4
<1> QED
  BY <1>1, <1>2

\* What is below the level.
LEMMA BelowStack ==
  ASSUME NEW s \in Seq(Entry), NEW l \in Nat \ {0}, Ordered(s, l)
  PROVE  /\ Below(s, l - 1) = PopAt(s, l)
         /\ (s # <<>> /\ Last(s).level > l - 1) <=> At(s, l)
<1>1. CASE s = <<>>
  BY <1>1 DEF Below, PopAt, At
<1>2. CASE s # <<>>
  <2>1. Last(s).level \in Nat /\ Last(s).level <= l
    BY <1>2, TopFacts, EntryFacts DEF Ordered
  <2> QED
    BY <1>2, <2>1 DEF Below, PopAt, At
<1> QED
  BY <1>1, <1>2

\* What is the same below two levels in a row.
LEMMA SameBelowTwice ==
  ASSUME NEW s \in Seq(Entry), NEW t \in Seq(Entry), NEW u \in Seq(Entry), NEW l \in Nat,
         SameBelow(s, t, l), SameBelow(t, u, l)
  PROVE  SameBelow(s, u, l)
BY EntryFacts DEF SameBelow

\* ... and below a lower level.
LEMMA SameBelowLower ==
  ASSUME NEW s \in Seq(Entry), NEW t \in Seq(Entry), NEW l \in Nat, NEW k \in Nat,
         k <= l, SameBelow(s, t, l)
  PROVE  SameBelow(s, t, k)
<1>1. \A i \in DOMAIN s : s[i].level < k => s[i].level < l
  BY EntryFacts
<1>2. \A i \in DOMAIN t : t[i].level < k => t[i].level < l
  BY EntryFacts
<1> QED
  BY <1>1, <1>2 DEF SameBelow

\* Assigning at the level below, under the entry of the level.
LEMMA ResumeStack ==
  ASSUME NEW s \in Seq(Entry), NEW l \in Nat \ {0}, Ordered(s, l), NEW v \in Data
  PROVE  LET t == PutValue(Below(s, l - 1), l - 1, v) \o Above(s, l - 1)
         IN  /\ t \in Seq(Entry)
             /\ Ordered(t, l)
             /\ Levels(t) \subseteq Levels(s) \cup {l - 1}
             /\ SameBelow(s, t, l - 1)
<1> DEFINE low == PopAt(s, l)
           t == PutValue(low, l - 1, v)
<1>1. /\ low \in Seq(Entry) /\ Ordered(low, l - 1)
      /\ Levels(low) \subseteq Levels(s) /\ SameBelow(s, low, l)
  BY PopAtStack
<1> HIDE DEF low
<1>2. l - 1 \in Nat /\ l - 1 <= l
  OBVIOUS
<1>3. /\ t \in Seq(Entry) /\ Ordered(t, l - 1)
      /\ Levels(t) \subseteq Levels(low) \cup {l - 1} /\ SameBelow(low, t, l - 1)
  BY <1>1, <1>2, PutValueStack
<1> HIDE DEF t
<1>4. SameBelow(s, t, l - 1)
  <2>1. SameBelow(s, low, l - 1)
    BY <1>1, <1>2, SameBelowLower
  <2> QED
    BY <2>1, <1>1, <1>2, <1>3, SameBelowTwice
<1>5. Below(s, l - 1) = low
  BY BelowStack DEF low
<1>6. t \o Above(s, l - 1) = IF At(s, l) THEN Append(t, Last(s)) ELSE t
  BY <1>2, <1>3, PutBack, BelowStack
<1>7. CASE ~At(s, l)
  <2>1. Ordered(t, l)
    BY <1>2, <1>3, OrderedHigher
  <2> QED
    BY <1>1, <1>3, <1>4, <1>5, <1>6, <1>7, <2>1 DEF t
<1>8. CASE At(s, l)
  <2>1. Last(s) \in Entry /\ Last(s).level = l /\ l <= l
    BY <1>8, TopFacts DEF At
  <2>2. t = <<>> \/ Last(t).level < l
    <3> SUFFICES ASSUME t # <<>> PROVE Last(t).level < l
      OBVIOUS
    <3>1. Last(t) = t[Len(t)] /\ Len(t) \in DOMAIN t /\ Last(t).level \in Nat
      BY <1>3, TopFacts, EntryFacts
    <3>2. t[Len(t)].level <= l - 1
      BY <1>3, <3>1 DEF Ordered
    <3> QED
      BY <3>1, <3>2, <1>2
  <2> DEFINE u == Append(t, Last(s))
  <2>3. /\ u \in Seq(Entry) /\ Ordered(u, l) /\ Levels(u) = Levels(t) \cup {l}
        /\ SameBelow(t, u, l)
    BY <1>2, <1>3, <2>1, <2>2, AppendStack
  <2> HIDE DEF u
  <2>4. SameBelow(s, u, l - 1)
    <3>1. SameBelow(t, u, l - 1)
      BY <1>2, <1>3, <2>3, SameBelowLower
    <3> QED
      BY <3>1, <1>2, <1>3, <1>4, <2>3, SameBelowTwice
  <2>5. l \in Levels(s)
    BY <1>8, <2>1, TopFacts, EntryFacts DEF At, Levels
  <2> QED
    BY <1>1, <1>3, <1>5, <1>6, <1>8, <2>3, <2>4, <2>5 DEF t, u
<1> QED
  BY <1>7, <1>8

\* The stacks of libraries keep their type.
LEMMA LibStack ==
  ASSUME NEW q \in Seq(LibEntry), NEW l \in Nat, NEW v \in Data
  PROVE  /\ LibPut(q, l, v) \in Seq(LibEntry)
         /\ PopAt(q, l) \in Seq(LibEntry)
         /\ Below(q, l) \in Seq(LibEntry)
         /\ \A t \in Seq(LibEntry) : t \o Above(q, l) \in Seq(LibEntry)
<1>1. q # <<>> => Last(q) \in LibEntry /\ Front(q) \in Seq(LibEntry)
  BY FrontLast
<1>2. LibPut(q, l, v) \in Seq(LibEntry)
  <2>1. CASE v \notin Libraries
    BY <2>1 DEF LibPut
  <2>2. CASE v \in Libraries /\ (q = <<>> \/ Last(q).level < l)
    <3>1. [level |-> l, lib |-> v] \in LibEntry
      BY <2>2 DEF LibEntry
    <3> QED
      BY <2>2, <3>1, AppendFacts DEF LibPut
  <2>3. CASE v \in Libraries /\ ~(q = <<>> \/ Last(q).level < l)
    <3>1. [Last(q) EXCEPT !.lib = v] \in LibEntry
      BY <1>1, <2>3 DEF LibEntry
    <3> QED
      BY <2>3, <3>1, SetTopFacts DEF LibPut
  <2> QED
    BY <2>1, <2>2, <2>3
<1>3. PopAt(q, l) \in Seq(LibEntry) /\ Below(q, l) \in Seq(LibEntry)
  BY <1>1 DEF PopAt, Below, At
<1>4. ASSUME NEW t \in Seq(LibEntry)
      PROVE  t \o Above(q, l) \in Seq(LibEntry)
  BY <1>1, PutBack, AppendFacts
<1> QED
  BY <1>2, <1>3, <1>4

LEMMA UnrefLibs ==
  ASSUME NEW q \in [Names -> Seq(LibEntry)], NEW S
  PROVE  Unref(q, S) \in [Names -> Seq(LibEntry)]
<1>1. CASE \E m \in Names : q[m] # <<>> /\ Last(q[m]).lib \in S
  <2> DEFINE m == CHOOSE m \in Names : q[m] # <<>> /\ Last(q[m]).lib \in S
  <2>1. m \in Names /\ q[m] # <<>>
    BY <1>1
  <2>2. Unref(q, S) = [q EXCEPT ![m] = Front(q[m])]
    BY <1>1 DEF Unref
  <2> HIDE DEF m
  <2>3. Front(q[m]) \in Seq(LibEntry)
    BY <2>1, FrontLast
  <2> QED
    BY <2>1, <2>2, <2>3
<1>2. CASE ~\E m \in Names : q[m] # <<>> /\ Last(q[m]).lib \in S
  BY <1>2 DEF Unref
<1> QED
  BY <1>1, <1>2

-----------------------------------------------------------------------------
(* The symbol table.                                                       *)

\* The inductive invariant: the stacks and what is registered agree.
IInv == SymbolTypeOK /\ StacksOrdered /\ BindingsRegistered /\ GlobalHasValue

\* What a step does to the callers of the current function: CallersKept says
\* it of every step.
Kept == \A n \in Names : SameBelow(stack[n], stack'[n], level - 1)

LEMMA TypeFacts ==
  ASSUME IInv
  PROVE  /\ level \in Nat \ {0} /\ level \in 1..MaxLevel /\ MaxLevel \in Nat
         /\ \A n \in Names :
              /\ stack[n] \in Seq(Entry) /\ Ordered(stack[n], level)
              /\ libs[n] \in Seq(LibEntry)
              /\ isGlobal[n] \in BOOLEAN
              /\ globalValue[n] \in Data \cup {None}
              /\ isGlobal[n] <=> globalValue[n] # None
         /\ None \notin Data
         /\ stack \in [Names -> Seq(Entry)]
         /\ isGlobal \in [Names -> BOOLEAN]
         /\ globalValue \in [Names -> Data \cup {None}]
         /\ libs \in [Names -> Seq(LibEntry)]
BY SymbolAssumption DEF IInv, SymbolTypeOK, StacksOrdered, GlobalHasValue

\* The levels of a stack are within its bound.
LEMMA LevelsRange ==
  ASSUME NEW s \in Seq(Entry), NEW l \in Nat, Ordered(s, l)
  PROVE  Levels(s) \subseteq 0..l
BY EntryFacts DEF Levels, Ordered

\* The names registered at each level.
LEMMA Scopes ==
  ASSUME IInv
  PROVE  /\ scopes \in Seq(SUBSET Names) /\ Len(scopes) = level + 1
         /\ DOMAIN scopes = 1..(level + 1)
         /\ \A n \in Names : \A l \in Levels(stack[n]) \ {0} : n \in scopes[l + 1]
BY DEF IInv, SymbolTypeOK, BindingsRegistered

\* A step that keeps the level, whose stacks keep the levels that stay
\* registered.
LEMMA StackStep ==
  ASSUME IInv, level' = level,
         scopes' \in Seq(SUBSET Names), Len(scopes') = level + 1,
         stack' \in [Names -> Seq(Entry)],
         \A n \in Names :
           /\ Ordered(stack'[n], level)
           /\ SameBelow(stack[n], stack'[n], level - 1)
           /\ \A l \in Levels(stack'[n]) \ {0} : n \in scopes'[l + 1],
         isGlobal' \in [Names -> BOOLEAN],
         globalValue' \in [Names -> Data \cup {None}],
         \A n \in Names : isGlobal'[n] <=> globalValue'[n] # None,
         libs' \in [Names -> Seq(LibEntry)]
  PROVE  IInv' /\ Kept
<1>1. SymbolTypeOK'
  BY TypeFacts DEF SymbolTypeOK
<1>2. StacksOrdered' /\ BindingsRegistered' /\ GlobalHasValue'
  BY DEF StacksOrdered, BindingsRegistered, GlobalHasValue
<1> QED
  BY <1>1, <1>2 DEF IInv, Kept

\* The two ways registered names change.
LEMMA RegisterOne ==
  ASSUME IInv, NEW n \in Names, NEW k \in 1..(level + 1)
  PROVE  LET R == [scopes EXCEPT ![k] = @ \cup {n}]
         IN  /\ R \in Seq(SUBSET Names) /\ Len(R) = level + 1
             /\ n \in R[k]
             /\ \A i \in 1..(level + 1) : scopes[i] \subseteq R[i]
BY Scopes, TypeFacts

LEMMA UnregisterTop ==
  ASSUME IInv, NEW S
  PROVE  LET R == [scopes EXCEPT ![level + 1] = @ \ S]
         IN  /\ R \in Seq(SUBSET Names) /\ Len(R) = level + 1
             /\ \A i \in 1..level : scopes[i] = R[i]
             /\ \A n \in scopes[level + 1] : n \notin S => n \in R[level + 1]
BY Scopes, TypeFacts

\* Assigning a value.
LEMMA PutStep ==
  ASSUME IInv, level' = level, NEW n \in Names, NEW s \in Seq(Entry),
         NEW g \in BOOLEAN, NEW v \in Data,
         Ordered(s, level), SameBelow(stack[n], s, level),
         Levels(s) \subseteq Levels(stack[n]) \cup {level},
         isGlobal' = [isGlobal EXCEPT ![n] = g],
         g = isGlobal[n] \/ Shown(g, s, level),
         Put(n, s, g, v)
  PROVE  IInv' /\ Kept
<1> DEFINE shown == Shown(g, s, level)
           t == IF shown THEN s ELSE PutValue(s, level, v)
<1>0. level \in Nat \ {0} /\ level - 1 \in Nat /\ level - 1 <= level
  BY TypeFacts
<1>1. /\ t \in Seq(Entry) /\ Ordered(t, level)
      /\ Levels(t) \subseteq Levels(stack[n]) \cup {level}
      /\ SameBelow(stack[n], t, level - 1)
  <2>1. CASE shown
    BY <2>1, <1>0, TypeFacts, SameBelowLower
  <2>2. CASE ~shown
    <3>1. /\ PutValue(s, level, v) \in Seq(Entry)
          /\ Ordered(PutValue(s, level, v), level)
          /\ Levels(PutValue(s, level, v)) \subseteq Levels(s) \cup {level}
          /\ SameBelow(s, PutValue(s, level, v), level)
      BY <1>0, PutValueStack
    <3>2. SameBelow(stack[n], PutValue(s, level, v), level)
      BY <3>1, <1>0, TypeFacts, SameBelowTwice
    <3> HIDE DEF shown
    <3> QED
      BY <2>2, <3>1, <3>2, <1>0, TypeFacts, SameBelowLower
  <2> QED
    BY <2>1, <2>2
<1>2. /\ stack' = [stack EXCEPT ![n] = t]
      /\ globalValue' = [globalValue EXCEPT ![n] = IF shown THEN v ELSE globalValue[n]]
      /\ scopes' = [scopes EXCEPT ![level + 1] = @ \cup {n}]
      /\ libs' = Unref([libs EXCEPT ![n] = LibPut(@, level, v)],
                       IF shown THEN {} ELSE Replaced(s, level, v))
  BY DEF Put
<1>3. libs' \in [Names -> Seq(LibEntry)]
  <2>1. [libs EXCEPT ![n] = LibPut(@, level, v)] \in [Names -> Seq(LibEntry)]
    BY <1>0, TypeFacts, LibStack
  <2> QED
    BY <1>2, <2>1, UnrefLibs
<1>4. /\ scopes' \in Seq(SUBSET Names) /\ Len(scopes') = level + 1
      /\ n \in scopes'[level + 1]
      /\ \A i \in 1..(level + 1) : scopes[i] \subseteq scopes'[i]
  BY <1>0, <1>2, RegisterOne
<1>5. /\ isGlobal' \in [Names -> BOOLEAN]
      /\ globalValue' \in [Names -> Data \cup {None}]
      /\ \A m \in Names : isGlobal'[m] <=> globalValue'[m] # None
  <2>1. (shown => g) /\ (g = isGlobal[n] \/ shown)
    BY DEF Shown
  <2> HIDE DEF shown
  <2>2. CASE shown
    BY <1>2, <2>1, <2>2, TypeFacts
  <2>3. CASE ~shown
    <3>1. globalValue' = globalValue /\ isGlobal' = isGlobal
      BY <1>2, <2>1, <2>3, TypeFacts
    <3> QED
      BY <3>1, TypeFacts
  <2> QED
    BY <2>2, <2>3
<1> HIDE DEF t, shown
<1>6. stack' \in [Names -> Seq(Entry)]
  BY <1>1, <1>2, TypeFacts
<1>7. ASSUME NEW m \in Names
      PROVE  /\ Ordered(stack'[m], level)
             /\ SameBelow(stack[m], stack'[m], level - 1)
             /\ \A l \in Levels(stack'[m]) \ {0} : m \in scopes'[l + 1]
  <2>1. Levels(stack[m]) \subseteq 0..level
    BY <1>0, TypeFacts, LevelsRange
  <2>2. \A l \in Levels(stack[m]) \ {0} : m \in scopes'[l + 1]
    <3> SUFFICES ASSUME NEW l \in Levels(stack[m]) \ {0} PROVE m \in scopes'[l + 1]
      OBVIOUS
    <3>1. l + 1 \in 1..(level + 1)
      BY <1>0, <2>1
    <3>2. m \in scopes[l + 1]
      BY Scopes
    <3> QED
      BY <1>4, <3>1, <3>2
  <2>3. CASE m = n
    BY <1>0, <1>1, <1>2, <1>4, <2>2, <2>3, TypeFacts
  <2>4. CASE m # n
    <3>1. stack'[m] = stack[m]
      BY <1>2, <2>4, TypeFacts
    <3>2. SameBelow(stack[m], stack[m], level - 1)
      BY DEF SameBelow
    <3> QED
      BY <2>2, <3>1, <3>2, TypeFacts
  <2> QED
    BY <2>3, <2>4
<1> QED
  BY <1>3, <1>4, <1>5, <1>6, <1>7, StackStep

\* A step that only takes entries of the current level off.
LEMMA PopStep ==
  ASSUME IInv, level' = level,
         stack' \in [Names -> Seq(Entry)],
         \A n \in Names : stack'[n] = stack[n] \/ stack'[n] = PopAt(stack[n], level),
         scopes' \in Seq(SUBSET Names), Len(scopes') = level + 1,
         \A i \in 1..level : scopes'[i] = scopes[i],
         \A n \in scopes[level + 1] :
           n \notin scopes'[level + 1] => stack'[n] = PopAt(stack[n], level),
         isGlobal' \in [Names -> BOOLEAN],
         globalValue' \in [Names -> Data \cup {None}],
         \A n \in Names : isGlobal'[n] <=> globalValue'[n] # None,
         libs' \in [Names -> Seq(LibEntry)]
  PROVE  IInv' /\ Kept
<1>0. level \in Nat \ {0} /\ level - 1 \in Nat /\ level - 1 <= level
  BY TypeFacts
<1>1. ASSUME NEW n \in Names
      PROVE  /\ Ordered(stack'[n], level)
             /\ SameBelow(stack[n], stack'[n], level - 1)
             /\ \A l \in Levels(stack'[n]) \ {0} : n \in scopes'[l + 1]
  <2> DEFINE s == stack[n]
             t == PopAt(stack[n], level)
  <2>1. /\ t \in Seq(Entry) /\ Ordered(t, level - 1) /\ Levels(t) \subseteq Levels(s)
        /\ SameBelow(s, t, level)
    BY <1>0, TypeFacts, PopAtStack
  <2>2. Ordered(t, level) /\ SameBelow(s, t, level - 1) /\ Levels(t) \subseteq 0..(level - 1)
    BY <1>0, <2>1, TypeFacts, OrderedHigher, SameBelowLower, LevelsRange
  <2>3. /\ s \in Seq(Entry) /\ Ordered(s, level) /\ Levels(s) \subseteq 0..level
        /\ SameBelow(s, s, level - 1)
    BY <1>0, TypeFacts, LevelsRange DEF SameBelow
  <2>4. \A l \in Levels(s) \ {0} : n \in scopes[l + 1]
    BY Scopes
  <2>5. stack'[n] = s \/ stack'[n] = t
    OBVIOUS
  <2> HIDE DEF s, t
  <2>6. ASSUME NEW l \in Levels(stack'[n]) \ {0}
        PROVE  n \in scopes'[l + 1]
    <3>1. l \in Levels(s) \ {0} /\ l \in 0..level
      BY <2>1, <2>3, <2>5
    <3>2. CASE l < level
      <4>1. l + 1 \in 1..level
        BY <1>0, <3>1, <3>2
      <4> QED
        BY <2>4, <3>1, <4>1
    <3>3. CASE l = level
      <4>1. n \in scopes[level + 1]
        BY <2>4, <3>1, <3>3
      <4>2. stack'[n] # t
        BY <1>0, <2>2, <3>3
      <4> QED
        BY <3>3, <4>1, <4>2 DEF t
    <3> QED
      BY <1>0, <3>1, <3>2, <3>3
  <2> QED
    BY <2>2, <2>3, <2>5, <2>6 DEF s
<1> QED
  BY <1>1, StackStep

LEMMA ScopeBeginStep == IInv /\ ScopeBegin => IInv' /\ Kept
<1> SUFFICES ASSUME IInv, ScopeBegin PROVE IInv' /\ Kept
  OBVIOUS
<1> USE DEF ScopeBegin, globals
<1>0. level \in Nat \ {0} /\ level' = level + 1 /\ level' \in 1..MaxLevel
  BY TypeFacts
<1>1. /\ scopes' \in Seq(SUBSET Names) /\ Len(scopes') = level' + 1
      /\ \A i \in 1..(level + 1) : scopes'[i] = scopes[i]
  BY <1>0, Scopes, AppendFacts
<1>2. SymbolTypeOK'
  BY <1>0, <1>1 DEF SymbolTypeOK, IInv
<1>3. StacksOrdered'
  BY <1>0, TypeFacts, OrderedHigher DEF StacksOrdered
<1>4. BindingsRegistered'
  <2> SUFFICES ASSUME NEW n \in Names, NEW l \in Levels(stack[n]) \ {0}
               PROVE  n \in scopes'[l + 1]
    BY DEF BindingsRegistered
  <2>1. l \in 0..level
    BY <1>0, TypeFacts, LevelsRange
  <2>2. l + 1 \in 1..(level + 1)
    BY <1>0, <2>1
  <2> QED
    BY <1>1, <2>2, Scopes
<1>5. GlobalHasValue'
  BY DEF IInv, GlobalHasValue
<1>6. Kept
  BY DEF Kept, SameBelow
<1> QED
  BY <1>2, <1>3, <1>4, <1>5, <1>6 DEF IInv

\* What clearCurrentScope does to the stacks.
LEMMA Unbinds ==
  ASSUME IInv, NEW close \in BOOLEAN, Unbind(ClearedNames(close))
  PROVE  /\ stack' \in [Names -> Seq(Entry)]
         /\ libs' \in [Names -> Seq(LibEntry)]
         /\ \A n \in Names :
              stack'[n] = IF n \in ClearedNames(close)
                            THEN PopAt(stack[n], level) ELSE stack[n]
<1>1. \A n \in Names : n \in ClearedNames(close) =>
        stack[n] # <<>> /\ Front(stack[n]) = PopAt(stack[n], level)
  BY DEF ClearedNames, PopAt, At
<1>2. level \in Nat \ {0}
  BY TypeFacts
<1>3. \A n \in Names : /\ PopAt(stack[n], level) \in Seq(Entry)
                       /\ PopAt(libs[n], level) \in Seq(LibEntry)
  <2> TAKE n \in Names
  <2>1. PopAt(stack[n], level) \in Seq(Entry)
    BY <1>2, TypeFacts, PopAtStack
  <2>2. ASSUME NEW v \in Data PROVE PopAt(libs[n], level) \in Seq(LibEntry)
    BY <1>2, TypeFacts, LibStack
  <2> QED
    BY <2>1, <2>2 DEF Data
<1>4. stack' = [n \in Names |-> IF n \in ClearedNames(close)
                                  THEN PopAt(stack[n], level) ELSE stack[n]]
  BY <1>1 DEF Unbind
<1> HIDE DEF ClearedNames
<1>5. stack' \in [Names -> Seq(Entry)]
  BY <1>3, <1>4, TypeFacts
<1>6. libs' \in [Names -> Seq(LibEntry)]
  BY <1>3, TypeFacts DEF Unbind
<1> QED
  BY <1>4, <1>5, <1>6

LEMMA ScopeEndStep == IInv /\ ScopeEnd => IInv' /\ Kept
<1> SUFFICES ASSUME IInv, ScopeEnd PROVE IInv' /\ Kept
  OBVIOUS
<1>0. level \in Nat \ {0} /\ level' = level - 1 /\ level' \in 1..MaxLevel /\ level' \in Nat
  BY TypeFacts DEF ScopeEnd
<1>1. /\ stack' \in [Names -> Seq(Entry)]
      /\ libs' \in [Names -> Seq(LibEntry)]
      /\ \A n \in Names : stack'[n] = PopAt(stack[n], level)
  <2>1. /\ stack' \in [Names -> Seq(Entry)]
        /\ libs' \in [Names -> Seq(LibEntry)]
        /\ \A n \in Names :
             stack'[n] = IF n \in ClearedNames(TRUE)
                           THEN PopAt(stack[n], level) ELSE stack[n]
    BY Unbinds DEF ScopeEnd
  <2>2. ASSUME NEW n \in Names, n \notin ClearedNames(TRUE)
        PROVE  PopAt(stack[n], level) = stack[n]
    <3>1. CASE At(stack[n], level)
      <4>1. level \in Levels(stack[n])
        BY <3>1, TypeFacts, TopFacts, EntryFacts DEF At, Levels
      <4>2. n \in scopes[level + 1]
        BY <1>0, <4>1, Scopes
      <4> QED
        BY <2>2, <3>1, <4>2 DEF ClearedNames
    <3>2. CASE ~At(stack[n], level)
      BY <3>2 DEF PopAt
    <3> QED
      BY <3>1, <3>2
  <2> QED
    BY <2>1, <2>2
<1>2. ASSUME NEW n \in Names
      PROVE  /\ stack'[n] \in Seq(Entry) /\ Ordered(stack'[n], level')
             /\ Levels(stack'[n]) \subseteq Levels(stack[n])
             /\ SameBelow(stack[n], stack'[n], level)
  BY <1>0, <1>1, TypeFacts, PopAtStack
<1>3. /\ scopes' \in Seq(SUBSET Names) /\ Len(scopes') = level' + 1
      /\ \A i \in 1..level : scopes'[i] = scopes[i]
  BY <1>0, Scopes, FrontLast DEF ScopeEnd
<1>4. SymbolTypeOK'
  BY <1>0, <1>1, <1>3 DEF SymbolTypeOK, IInv, ScopeEnd, globals
<1>5. StacksOrdered'
  BY <1>2 DEF StacksOrdered
<1>6. BindingsRegistered'
  <2> SUFFICES ASSUME NEW n \in Names, NEW l \in Levels(stack'[n]) \ {0}
               PROVE  n \in scopes'[l + 1]
    BY DEF BindingsRegistered
  <2>1. l \in 0..level'
    BY <1>0, <1>2, LevelsRange
  <2>2. l + 1 \in 1..level /\ l \in Levels(stack[n])
    BY <1>0, <1>2, <2>1
  <2> QED
    BY <1>3, <2>2, Scopes
<1>7. GlobalHasValue'
  BY DEF IInv, GlobalHasValue, ScopeEnd, globals
<1>8. Kept
  <2> SUFFICES ASSUME NEW n \in Names PROVE SameBelow(stack[n], stack'[n], level - 1)
    BY DEF Kept
  <2>1. level - 1 \in Nat /\ level - 1 <= level
    BY <1>0
  <2> QED
    BY <1>0, <1>2, <2>1, TypeFacts, SameBelowLower
<1> QED
  BY <1>4, <1>5, <1>6, <1>7, <1>8 DEF IInv

LEMMA RemoveAllStep == IInv /\ RemoveAll => IInv' /\ Kept
<1> SUFFICES ASSUME IInv, RemoveAll PROVE IInv' /\ Kept
  OBVIOUS
<1>1. level' = level /\ UNCHANGED globals /\ Unbind(ClearedNames(FALSE))
  BY DEF RemoveAll
<1>2. /\ stack' \in [Names -> Seq(Entry)]
      /\ libs' \in [Names -> Seq(LibEntry)]
      /\ \A n \in Names :
           stack'[n] = IF n \in ClearedNames(FALSE)
                         THEN PopAt(stack[n], level) ELSE stack[n]
  BY <1>1, Unbinds
<1>3. scopes' = [scopes EXCEPT ![level + 1] = @ \ ClearedNames(FALSE)]
  BY DEF RemoveAll
<1>4. /\ scopes' \in Seq(SUBSET Names) /\ Len(scopes') = level + 1
      /\ \A i \in 1..level : scopes'[i] = scopes[i]
      /\ \A n \in scopes[level + 1] :
           n \notin ClearedNames(FALSE) => n \in scopes'[level + 1]
  BY <1>3, UnregisterTop
<1>5. \A n \in scopes[level + 1] : n \in Names
  BY Scopes, TypeFacts
<1> QED
  BY <1>1, <1>2, <1>4, <1>5, TypeFacts, PopStep DEF globals

LEMMA ClearStep == ASSUME NEW n \in Names PROVE IInv /\ Clear(n) => IInv' /\ Kept
<1> SUFFICES ASSUME IInv, Clear(n) PROVE IInv' /\ Kept
  OBVIOUS
<1>1. level' = level /\ isGlobal' = isGlobal /\ globalValue' = globalValue
  BY DEF Clear, globals
<1>2. stack' = [stack EXCEPT ![n] = PopAt(@, level)]
  BY DEF Clear
<1>3. PopAt(stack[n], level) \in Seq(Entry)
  BY TypeFacts, PopAtStack
<1>4. stack' \in [Names -> Seq(Entry)]
  BY <1>2, <1>3, TypeFacts
<1>5. \A m \in Names : stack'[m] = IF m = n THEN PopAt(stack[n], level) ELSE stack[m]
  BY <1>2, TypeFacts
<1>6. libs' \in [Names -> Seq(LibEntry)]
  <2>1. level \in Nat /\ libs[n] \in Seq(LibEntry) /\ None \notin Data
    BY TypeFacts
  <2>2. Empty \in Data
    BY DEF Data
  <2>3. PopAt(libs[n], level) \in Seq(LibEntry)
    BY <2>1, <2>2, LibStack
  <2> QED
    BY <2>3, TypeFacts DEF Clear
<1> DEFINE S == IF At(stack[n], level) THEN {n} ELSE {}
<1>7. scopes' = [scopes EXCEPT ![level + 1] = @ \ S]
  BY DEF Clear
<1>8. /\ scopes' \in Seq(SUBSET Names) /\ Len(scopes') = level + 1
      /\ \A i \in 1..level : scopes'[i] = scopes[i]
      /\ \A m \in scopes[level + 1] : m \notin S => m \in scopes'[level + 1]
  BY <1>7, UnregisterTop
<1> QED
  BY <1>1, <1>4, <1>5, <1>6, <1>8, TypeFacts, PopStep

LEMMA RemoveGlobalsStep ==
  ASSUME NEW S PROVE IInv /\ RemoveGlobals(S) => IInv' /\ Kept
<1> SUFFICES ASSUME IInv, RemoveGlobals(S) PROVE IInv' /\ Kept
  OBVIOUS
<1>1. level' = level /\ scopes' = scopes /\ libs' = libs
  BY DEF RemoveGlobals
<1>2. \A n \in Names : PopAt(stack[n], level) \in Seq(Entry)
  BY TypeFacts, PopAtStack
<1>3. stack' = [n \in Names |-> IF n \in S THEN PopAt(stack[n], level) ELSE stack[n]]
  BY DEF RemoveGlobals
<1>4. /\ stack' \in [Names -> Seq(Entry)]
      /\ \A n \in Names : stack'[n] = stack[n] \/ stack'[n] = PopAt(stack[n], level)
  BY <1>2, <1>3, TypeFacts
<1>5. /\ isGlobal' \in [Names -> BOOLEAN]
      /\ globalValue' \in [Names -> Data \cup {None}]
      /\ \A n \in Names : isGlobal'[n] <=> globalValue'[n] # None
  <2>1. isGlobal' = [n \in Names |-> isGlobal[n] /\ n \notin S]
    BY DEF RemoveGlobals
  <2>2. globalValue' = [n \in Names |->
          IF n \in S /\ isGlobal[n] THEN None ELSE globalValue[n]]
    BY DEF RemoveGlobals
  <2>3. isGlobal' \in [Names -> BOOLEAN]
    BY <2>1
  <2>4. globalValue' \in [Names -> Data \cup {None}]
    BY <2>2, TypeFacts
  <2>5. ASSUME NEW n \in Names PROVE isGlobal'[n] <=> globalValue'[n] # None
    <3>1. isGlobal'[n] = (isGlobal[n] /\ n \notin S)
      BY <2>1
    <3>2. globalValue'[n] = IF n \in S /\ isGlobal[n] THEN None ELSE globalValue[n]
      BY <2>2
    <3>3. isGlobal[n] <=> globalValue[n] # None
      BY TypeFacts
    <3> QED
      BY <3>1, <3>2, <3>3
  <2> QED
    BY <2>3, <2>4, <2>5
<1> QED
  BY <1>1, <1>4, <1>5, Scopes, TypeFacts, PopStep

LEMMA ResumeRefusedStep ==
  ASSUME NEW n \in Names PROVE IInv /\ ResumeRefused(n) => IInv' /\ Kept
<1> SUFFICES ASSUME IInv, ResumeRefused(n) PROVE IInv' /\ Kept
  OBVIOUS
<1>1. /\ level' = level /\ scopes' = scopes /\ libs' = libs
      /\ isGlobal' = isGlobal /\ globalValue' = globalValue
  BY DEF ResumeRefused, globals
<1>2. stack' = [stack EXCEPT ![n] = Below(stack[n], level - 1)]
  BY DEF ResumeRefused
<1>3. /\ Below(stack[n], level - 1) = PopAt(stack[n], level)
      /\ PopAt(stack[n], level) \in Seq(Entry)
  BY TypeFacts, PopAtStack, BelowStack
<1>4. /\ stack' \in [Names -> Seq(Entry)]
      /\ \A m \in Names : stack'[m] = stack[m] \/ stack'[m] = PopAt(stack[m], level)
  BY <1>2, <1>3, TypeFacts
<1> QED
  BY <1>1, <1>4, Scopes, TypeFacts, PopStep

LEMMA UpdateProtectionStep ==
  ASSUME NEW b \in BOOLEAN PROVE IInv /\ UpdateProtection(b) => IInv' /\ Kept
<1> SUFFICES ASSUME IInv, UpdateProtection(b) PROVE IInv' /\ Kept
  OBVIOUS
<1>0. level \in Nat \ {0} /\ level - 1 \in Nat /\ level - 1 <= level
  BY TypeFacts
<1>1. /\ level' = level /\ scopes' = scopes /\ libs' = libs
      /\ isGlobal' = isGlobal /\ globalValue' = globalValue
  BY DEF UpdateProtection, globals
<1> DEFINE e(n) == [Last(stack[n]) EXCEPT !.protect = b]
           t(n) == IF n \in scopes[level + 1] /\ At(stack[n], level)
                     THEN SetTop(stack[n], e(n)) ELSE stack[n]
<1>2. stack' = [n \in Names |-> t(n)]
  BY DEF UpdateProtection
<1>3. ASSUME NEW n \in Names
      PROVE  /\ t(n) \in Seq(Entry) /\ Ordered(t(n), level)
             /\ Levels(t(n)) = Levels(stack[n])
             /\ SameBelow(stack[n], t(n), level - 1)
  <2>1. CASE t(n) = stack[n]
    BY <2>1, TypeFacts DEF SameBelow
  <2>2. CASE n \in scopes[level + 1] /\ At(stack[n], level)
    <3>1. stack[n] # <<>> /\ Last(stack[n]) \in Entry /\ Last(stack[n]).level = level
      BY <2>2, TypeFacts, TopFacts DEF At
    <3>2. e(n) \in Entry /\ e(n).level = level
      BY <3>1 DEF Entry
    <3>3. t(n) = SetTop(stack[n], e(n))
      BY <2>2
    <3> HIDE DEF e, t
    <3>4. /\ SetTop(stack[n], e(n)) \in Seq(Entry)
          /\ Ordered(SetTop(stack[n], e(n)), level)
          /\ Levels(SetTop(stack[n], e(n))) = Levels(stack[n])
          /\ SameBelow(stack[n], SetTop(stack[n], e(n)), level)
      BY <1>0, <3>1, <3>2, TypeFacts, SetTopStack
    <3> QED
      BY <1>0, <3>3, <3>4, TypeFacts, SameBelowLower
  <2> QED
    BY <2>1, <2>2
<1> HIDE DEF e, t
<1>4. stack' \in [Names -> Seq(Entry)]
  BY <1>2, <1>3
<1>5. \A n \in Names : /\ Ordered(stack'[n], level)
                       /\ SameBelow(stack[n], stack'[n], level - 1)
                       /\ \A l \in Levels(stack'[n]) \ {0} : n \in scopes'[l + 1]
  BY <1>1, <1>2, <1>3, Scopes
<1> QED
  BY <1>1, <1>4, <1>5, Scopes, TypeFacts, StackStep

LEMMA ResumeStep ==
  ASSUME NEW n \in Names, NEW v \in Data
  PROVE  IInv /\ Resume(n, v) => IInv' /\ Kept
<1> SUFFICES ASSUME IInv, Resume(n, v) PROVE IInv' /\ Kept
  OBVIOUS
<1>0. level \in Nat \ {0} /\ level - 1 \in Nat /\ level - 1 <= level
  BY TypeFacts
<1> DEFINE low == Below(stack[n], level - 1)
           shown == Shown(isGlobal[n], low, level - 1)
           high == Above(stack[n], level - 1)
           t == (IF shown THEN low ELSE PutValue(low, level - 1, v)) \o high
           q == Unref(libs, IF shown THEN {} ELSE Replaced(low, level - 1, v))
<1>1. /\ level' = level /\ isGlobal' = isGlobal
      /\ stack' = [stack EXCEPT ![n] = t]
      /\ globalValue' = [globalValue EXCEPT ![n] = IF shown THEN v ELSE @]
      /\ libs' = [q EXCEPT ![n] =
           LibPut(Below(@, level - 1), level - 1, v) \o Above(@, level - 1)]
      /\ scopes' = [scopes EXCEPT ![level] = @ \cup {n}]
  BY DEF Resume
<1>2. /\ t \in Seq(Entry) /\ Ordered(t, level)
      /\ Levels(t) \subseteq Levels(stack[n]) \cup {level - 1}
      /\ SameBelow(stack[n], t, level - 1)
  <2>1. CASE ~shown
    BY <1>0, <2>1, TypeFacts, ResumeStack
  <2>2. CASE shown
    <3>1. t = stack[n]
      <4>1. low \o high = stack[n]
        <5>1. low = PopAt(stack[n], level) /\ low \in Seq(Entry)
          BY <1>0, TypeFacts, BelowStack, PopAtStack
        <5>2. low \o high = IF stack[n] # <<>> /\ Last(stack[n]).level > level - 1
                              THEN Append(low, Last(stack[n])) ELSE low
          BY <5>1, TypeFacts, PutBack
        <5>3. CASE stack[n] # <<>> /\ Last(stack[n]).level > level - 1
          <6>1. low = Front(stack[n])
            BY <5>3 DEF Below
          <6>2. Append(Front(stack[n]), Last(stack[n])) = stack[n]
            BY <5>3, TypeFacts DEF Front, Last
          <6> QED
            BY <5>2, <5>3, <6>1, <6>2
        <5>4. CASE ~(stack[n] # <<>> /\ Last(stack[n]).level > level - 1)
          BY <5>2, <5>4 DEF Below
        <5> QED
          BY <5>3, <5>4
      <4> QED
        BY <2>2, <4>1
    <3> QED
      BY <1>0, <3>1, TypeFacts DEF SameBelow
  <2> QED
    BY <2>1, <2>2
<1>3. libs' \in [Names -> Seq(LibEntry)]
  <2>1. q \in [Names -> Seq(LibEntry)]
    BY TypeFacts, UnrefLibs
  <2> HIDE DEF q
  <2>2. LibPut(Below(q[n], level - 1), level - 1, v) \o Above(q[n], level - 1)
          \in Seq(LibEntry)
    BY <1>0, <2>1, LibStack
  <2> QED
    BY <1>1, <2>1, <2>2
<1>4. /\ scopes' \in Seq(SUBSET Names) /\ Len(scopes') = level + 1
      /\ n \in scopes'[level]
      /\ \A i \in 1..(level + 1) : scopes[i] \subseteq scopes'[i]
  BY <1>0, <1>1, RegisterOne
<1>5. /\ isGlobal' \in [Names -> BOOLEAN]
      /\ globalValue' \in [Names -> Data \cup {None}]
      /\ \A m \in Names : isGlobal'[m] <=> globalValue'[m] # None
  <2>1. shown => isGlobal[n]
    BY DEF Shown
  <2> HIDE DEF shown
  <2> QED
    BY <1>1, <2>1, TypeFacts
<1> HIDE DEF t
<1>6. stack' \in [Names -> Seq(Entry)]
  BY <1>1, <1>2, TypeFacts
<1>7. ASSUME NEW m \in Names
      PROVE  /\ Ordered(stack'[m], level)
             /\ SameBelow(stack[m], stack'[m], level - 1)
             /\ \A l \in Levels(stack'[m]) \ {0} : m \in scopes'[l + 1]
  <2>1. Levels(stack[m]) \subseteq 0..level
    BY <1>0, TypeFacts, LevelsRange
  <2>2. \A l \in Levels(stack[m]) \ {0} : m \in scopes'[l + 1]
    <3> SUFFICES ASSUME NEW l \in Levels(stack[m]) \ {0} PROVE m \in scopes'[l + 1]
      OBVIOUS
    <3>1. l + 1 \in 1..(level + 1)
      BY <1>0, <2>1
    <3>2. m \in scopes[l + 1]
      BY Scopes
    <3> QED
      BY <1>4, <3>1, <3>2
  <2>3. CASE m = n
    BY <1>0, <1>1, <1>2, <1>4, <2>2, <2>3, TypeFacts
  <2>4. CASE m # n
    <3>1. stack'[m] = stack[m]
      BY <1>1, <2>4, TypeFacts
    <3>2. SameBelow(stack[m], stack[m], level - 1)
      BY DEF SameBelow
    <3> QED
      BY <2>2, <3>1, <3>2, TypeFacts
  <2> QED
    BY <2>3, <2>4
<1> QED
  BY <1>1, <1>3, <1>4, <1>5, <1>6, <1>7, StackStep

LEMMA AssignStep ==
  ASSUME NEW n \in Names, NEW v \in Data
  PROVE  IInv /\ Assign(n, v) => IInv' /\ Kept
<1> SUFFICES ASSUME IInv, Assign(n, v) PROVE IInv' /\ Kept
  OBVIOUS
<1>1. level' = level /\ isGlobal' = [isGlobal EXCEPT ![n] = isGlobal[n]]
  BY TypeFacts DEF Assign
<1>2. stack[n] \in Seq(Entry) /\ Ordered(stack[n], level) /\ isGlobal[n] \in BOOLEAN
  BY TypeFacts
<1>3. SameBelow(stack[n], stack[n], level)
  BY DEF SameBelow
<1> QED
  BY <1>1, <1>2, <1>3, PutStep DEF Assign

LEMMA RecallStep ==
  ASSUME NEW n \in Names PROVE IInv /\ Recall(n) => IInv' /\ Kept
<1> SUFFICES ASSUME IInv, Recall(n) PROVE IInv' /\ Kept
  OBVIOUS
<1>1. level' = level /\ isGlobal' = [isGlobal EXCEPT ![n] = isGlobal[n]]
  BY TypeFacts DEF Recall
<1>2. stack[n] \in Seq(Entry) /\ Ordered(stack[n], level) /\ isGlobal[n] \in BOOLEAN
  BY TypeFacts
<1>3. SameBelow(stack[n], stack[n], level)
  BY DEF SameBelow
<1>4. Get(n) \in Data
  <2>1. stack[n] # <<>> /\ Last(stack[n]).value \in Data
    BY <1>2, TopFacts DEF Recall, Entry
  <2>2. isGlobal[n] => globalValue[n] \in Data
    BY TypeFacts
  <2> QED
    BY <2>1, <2>2 DEF Get
<1> QED
  BY <1>1, <1>2, <1>3, <1>4, PutStep DEF Recall

LEMMA GlobalStep ==
  ASSUME NEW n \in Names PROVE IInv /\ Global(n) => IInv' /\ Kept
<1> SUFFICES ASSUME IInv, Global(n) PROVE IInv' /\ Kept
  OBVIOUS
<1>0. level \in Nat \ {0} /\ level - 1 \in Nat /\ level - 1 <= level
  BY TypeFacts
<1> DEFINE v == IF isGlobal[n] THEN globalValue[n] ELSE Get(n)
           w == IF v = None THEN Empty ELSE v
           e == IF At(stack[n], level) THEN Last(stack[n]) ELSE NewEntry(level, Empty)
           d == [e EXCEPT !.visible = TRUE]
           low == PopAt(stack[n], level)
           s == Append(low, d)
<1>1. /\ level' = level /\ isGlobal' = [isGlobal EXCEPT ![n] = TRUE]
      /\ Put(n, s, TRUE, w)
  BY DEF Global
<1>2. w \in Data
  <2>1. stack[n] # <<>> => Last(stack[n]).value \in Data
    BY TypeFacts, TopFacts DEF Entry
  <2>2. libs[n] # <<>> => Last(libs[n]).lib \in Data
    <3>1. libs[n] # <<>> => Last(libs[n]) \in LibEntry
      BY TypeFacts, FrontLast
    <3> QED
      BY <3>1 DEF LibEntry, Data
  <2>3. Get(n) \in Data \cup {None}
    BY <2>1, <2>2, TypeFacts DEF Get
  <2>4. Empty \in Data
    BY DEF Data
  <2> QED
    BY <2>3, <2>4, TypeFacts
<1>3. d \in Entry /\ d.level = level /\ d.visible
  <2>1. CASE At(stack[n], level)
    <3>1. Last(stack[n]) \in Entry /\ Last(stack[n]).level = level
      BY <2>1, TypeFacts, TopFacts DEF At
    <3> QED
      BY <2>1, <3>1 DEF Entry
  <2>2. CASE ~At(stack[n], level)
    BY <2>2, <1>0 DEF NewEntry, Entry, Data
  <2> QED
    BY <2>1, <2>2
<1>4. /\ low \in Seq(Entry) /\ Ordered(low, level - 1)
      /\ Levels(low) \subseteq Levels(stack[n])
      /\ SameBelow(stack[n], low, level)
  BY <1>0, TypeFacts, PopAtStack
<1> HIDE DEF d, low, w
<1>5. low = <<>> \/ Last(low).level < d.level
  <2> SUFFICES ASSUME low # <<>> PROVE Last(low).level < level
    BY <1>3
  <2>1. Last(low) = low[Len(low)] /\ Len(low) \in DOMAIN low /\ Last(low).level \in Nat
    BY <1>4, TopFacts, EntryFacts
  <2>2. low[Len(low)].level <= level - 1
    BY <1>4, <2>1 DEF Ordered
  <2> QED
    BY <1>0, <2>1, <2>2
<1>6. /\ s \in Seq(Entry) /\ Ordered(s, level)
      /\ Levels(s) = Levels(low) \cup {level}
      /\ SameBelow(low, s, level) /\ At(s, level)
  BY <1>0, <1>3, <1>4, <1>5, AppendStack
<1>7. SameBelow(stack[n], s, level)
  BY <1>0, <1>4, <1>6, TypeFacts, SameBelowTwice
<1>8. Shown(TRUE, s, level)
  <2>1. Last(s) = d
    BY <1>3, <1>4, FrontLast, AppendFacts DEF Last
  <2> QED
    BY <1>3, <1>6, <2>1 DEF Shown
<1> HIDE DEF s
<1> QED
  BY <1>1, <1>2, <1>4, <1>6, <1>7, <1>8, PutStep

-----------------------------------------------------------------------------
(* The theorems.                                                           *)

LEMMA InitIInv == Init => IInv
<1> SUFFICES ASSUME Init PROVE IInv
  OBVIOUS
<1> USE DEF Init
<1>1. 1 \in 1..MaxLevel
  BY SymbolAssumption
<1>2. ASSUME NEW n \in Names
      PROVE  stack[n] \in Seq(Entry) /\ Ordered(stack[n], 1) /\ Levels(stack[n]) \subseteq {0}
  <2>1. NewEntry(0, Primitive) \in Entry /\ NewEntry(0, Primitive).level = 0
    BY DEF NewEntry, Entry, Data
  <2>2. CASE stack[n] = <<>>
    BY <2>2 DEF Ordered, Levels
  <2>3. CASE stack[n] = <<NewEntry(0, Primitive)>>
    <3>1. /\ DOMAIN stack[n] = {1} /\ stack[n][1] = NewEntry(0, Primitive)
          /\ stack[n] \in Seq(Entry)
      BY <2>1, <2>3
    <3> QED
      BY <2>1, <3>1 DEF Ordered, Levels
  <2> QED
    BY <2>2, <2>3
<1>3. stack \in [Names -> Seq(Entry)]
  BY <1>2
<1>4. scopes \in Seq(SUBSET Names) /\ Len(scopes) = 2
  OBVIOUS
<1>5. SymbolTypeOK
  BY <1>1, <1>3, <1>4 DEF SymbolTypeOK
<1> QED
  BY <1>2, <1>5, SymbolAssumption
  DEF IInv, StacksOrdered, BindingsRegistered, GlobalHasValue

\* Every step keeps the invariant and the bindings of the callers.
LEMMA StepIInv == IInv /\ [Next]_vars => IInv' /\ (Kept \/ UNCHANGED vars)
<1> SUFFICES ASSUME IInv, [Next]_vars PROVE IInv' /\ (Kept \/ UNCHANGED vars)
  OBVIOUS
<1>1. ASSUME NEW b \in Bindings PROVE b[1] \in Names /\ b[2] \in Data
  BY SymbolAssumption DEF Data
<1>2. CASE ScopeBegin
  BY <1>2, ScopeBeginStep
<1>3. CASE ScopeEnd
  BY <1>3, ScopeEndStep
<1>4. CASE RemoveAll
  BY <1>4, RemoveAllStep
<1>5. CASE ClearGlobals
  BY <1>5, RemoveGlobalsStep DEF ClearGlobals
<1>6. CASE \E b \in Bindings : Assign(b[1], b[2])
  BY <1>1, <1>6, AssignStep
<1>7. CASE \E b \in Bindings : b[1] \in Resumed /\ Resume(b[1], b[2])
  BY <1>1, <1>7, ResumeStep
<1>8. CASE \E n \in Names : Recall(n)
  BY <1>8, RecallStep
<1>9. CASE \E n \in Names : Clear(n)
  BY <1>9, ClearStep
<1>10. CASE \E n \in Resumed : ResumeRefused(n)
  BY <1>10, SymbolAssumption, ResumeRefusedStep
<1>11. CASE \E n \in Globals : Global(n)
  BY <1>11, SymbolAssumption, GlobalStep
<1>12. CASE \E n \in Globals : ClearGlobal(n)
  BY <1>12, RemoveGlobalsStep DEF ClearGlobal
<1>13. CASE \E b \in BOOLEAN : UpdateProtection(b)
  BY <1>13, UpdateProtectionStep
<1>14. CASE UNCHANGED vars
  <2>1. IInv'
    BY <1>14 DEF vars, globals, IInv, SymbolTypeOK, StacksOrdered, BindingsRegistered,
                 GlobalHasValue
  <2> QED
    BY <1>14, <2>1
<1> QED
  BY <1>2, <1>3, <1>4, <1>5, <1>6, <1>7, <1>8, <1>9, <1>10, <1>11, <1>12, <1>13, <1>14
  DEF Next

LEMMA AlwaysIInv == Spec => []IInv
BY InitIInv, StepIInv, PTL DEF Spec

\* Whatever is assigned, cleared, declared global, resumed or protected, at
\* any level: the table keeps its shape.
THEOREM SymbolTypeCorrect == Spec => []SymbolTypeOK
<1>1. IInv => SymbolTypeOK
  BY DEF IInv
<1> QED
  BY <1>1, AlwaysIInv, PTL

\* context.cpp: a name has at most one entry for each level and none of a
\* scope that has ended.
THEOREM StacksOrderedCorrect == Spec => []StacksOrdered
<1>1. IInv => StacksOrdered
  BY DEF IInv
<1> QED
  BY <1>1, AlwaysIInv, PTL

\* clearCurrentScope finds every binding of the scope among the names that
\* are registered there.
THEOREM BindingsRegisteredCorrect == Spec => []BindingsRegistered
<1>1. IInv => BindingsRegistered
  BY DEF IInv
<1> QED
  BY <1>1, AlwaysIInv, PTL

\* A global variable has a value from its declaration to clearglobal.
THEOREM GlobalHasValueCorrect == Spec => []GlobalHasValue
<1>1. IInv => GlobalHasValue
  BY DEF IInv
<1> QED
  BY <1>1, AlwaysIInv, PTL

\* No statement of a function changes a binding of the callers of its caller.
THEOREM CallersKeptCorrect == Spec => CallersKept
<1>1. IInv /\ [Next]_vars
        => [\A n \in Names : SameBelow(stack[n], stack'[n], level - 1)]_vars
  BY StepIInv DEF Kept
<1> QED
  BY <1>1, AlwaysIInv, PTL DEF Spec, CallersKept

-----------------------------------------------------------------------------
(* The refinement.  What a stack binds at a level is its only entry there; *)
(* each operation on a stack is an operation on these bindings.            *)

LEMMA BindingAt ==
  ASSUME NEW s \in Seq(Entry), NEW l \in Nat, Ordered(s, l), NEW i \in DOMAIN s
  PROVE  Binding(s, s[i].level) = View(s[i])
<1> DEFINE k == s[i].level
           j == CHOOSE j \in DOMAIN s : s[j].level = k
<1>1. j \in DOMAIN s /\ s[j].level = k
  OBVIOUS
<1>2. k \in Levels(s)
  BY DEF Levels
<1>3. j = i
  <2>1. i \in Nat /\ j \in Nat /\ k \in Nat
    BY <1>1, EntryFacts
  <2> HIDE DEF j
  <2>2. ~(i < j) /\ ~(j < i)
    BY <1>1, <2>1 DEF Ordered
  <2> QED
    BY <2>1, <2>2
<1> QED
  BY <1>2, <1>3 DEF Binding

LEMMA BindingNone ==
  ASSUME NEW s, NEW k, k \notin Levels(s)
  PROVE  Binding(s, k) = Unbound
BY DEF Binding

\* What is bound is not Unbound.
LEMMA ViewFacts ==
  ASSUME NEW e \in Entry
  PROVE  /\ View(e) # Unbound
         /\ View(e).value = e.value /\ View(e).shared = e.visible
         /\ View(e).protect = e.protect
         /\ View(e).value \in Data
<1>1. e.value \in Data /\ None \notin Data
  BY SymbolAssumption DEF Entry
<1>2. View(e).value = e.value /\ View(e).shared = e.visible /\ View(e).protect = e.protect
  BY DEF View
<1>3. Unbound.value = None
  BY DEF Unbound
<1> QED
  BY <1>1, <1>2, <1>3

\* The innermost binding is the top.
LEMMA BindingTop ==
  ASSUME NEW s \in Seq(Entry), NEW l \in Nat, Ordered(s, l)
  PROVE  /\ s # <<>> => Binding(s, Last(s).level) = View(Last(s))
         /\ At(s, l) => Binding(s, l) = View(Last(s))
         /\ ~At(s, l) => Binding(s, l) = Unbound
         /\ At(s, l) <=> Binding(s, l) # Unbound
<1>1. ASSUME s # <<>> PROVE Binding(s, Last(s).level) = View(Last(s))
  <2>1. Len(s) \in DOMAIN s /\ Last(s) = s[Len(s)]
    BY <1>1, EntryFacts, TopFacts
  <2> QED
    BY <2>1, BindingAt
<1>2. ASSUME At(s, l) PROVE Binding(s, l) = View(Last(s)) /\ Last(s) \in Entry
  BY <1>1, <1>2, TopFacts DEF At
<1>3. ASSUME ~At(s, l) PROVE Binding(s, l) = Unbound
  <2>1. l \notin Levels(s)
    <3> SUFFICES ASSUME NEW i \in DOMAIN s, s[i].level = l PROVE FALSE
      BY DEF Levels
    <3>1. s # <<>> /\ Len(s) \in DOMAIN s /\ Last(s) = s[Len(s)] /\ i <= Len(s)
      BY EntryFacts, TopFacts
    <3>2. s[Len(s)].level <= l /\ s[Len(s)].level \in Nat /\ i \in Nat /\ Len(s) \in Nat
      BY <3>1, EntryFacts DEF Ordered
    <3>3. i < Len(s) => l < s[Len(s)].level
      BY <3>1 DEF Ordered
    <3>4. i = Len(s)
      BY <3>1, <3>2, <3>3
    <3> QED
      BY <1>3, <3>1, <3>4 DEF At
  <2> QED
    BY <2>1, BindingNone
<1> QED
  BY <1>1, <1>2, <1>3, ViewFacts

\* Stacks that are the same below a level bind the same below it.
LEMMA BindingBelow ==
  ASSUME NEW s \in Seq(Entry), NEW t \in Seq(Entry), NEW a \in Nat, NEW b \in Nat,
         Ordered(s, a), Ordered(t, b), NEW l \in Nat, SameBelow(s, t, l),
         NEW k \in Nat, k < l
  PROVE  Binding(s, k) = Binding(t, k)
<1>1. CASE k \in Levels(s)
  <2>1. PICK i \in DOMAIN s : s[i].level = k
    BY <1>1 DEF Levels
  <2>2. i \in DOMAIN t /\ s[i] = t[i]
    BY <2>1 DEF SameBelow
  <2> QED
    BY <2>1, <2>2, BindingAt
<1>2. CASE k \in Levels(t)
  <2>1. PICK i \in DOMAIN t : t[i].level = k
    BY <1>2 DEF Levels
  <2>2. i \in DOMAIN s /\ s[i] = t[i]
    BY <2>1 DEF SameBelow
  <2> QED
    BY <2>1, <2>2, BindingAt
<1>3. CASE k \notin Levels(s) /\ k \notin Levels(t)
  BY <1>3, BindingNone
<1> QED
  BY <1>1, <1>2, <1>3

\* A bound that is not reached leaves nothing at the levels above.
LEMMA BindingAbove ==
  ASSUME NEW s \in Seq(Entry), NEW l \in Nat, Ordered(s, l), NEW k \in Nat, l < k
  PROVE  Binding(s, k) = Unbound
<1>1. k \notin Levels(s)
  BY LevelsRange
<1> QED
  BY <1>1, BindingNone

\* Taking off the entry of the level.
LEMMA BindingPop ==
  ASSUME NEW s \in Seq(Entry), NEW l \in Nat \ {0}, Ordered(s, l), NEW k \in 0..l
  PROVE  Binding(PopAt(s, l), k) = IF k = l THEN Unbound ELSE Binding(s, k)
<1> DEFINE t == PopAt(s, l)
<1>1. t \in Seq(Entry) /\ Ordered(t, l - 1) /\ ~At(t, l) /\ SameBelow(s, t, l)
  BY PopAtStack
<1> HIDE DEF t
<1>2. k \in Nat /\ l - 1 \in Nat /\ l - 1 < l
  OBVIOUS
<1>3. CASE k = l
  BY <1>1, <1>2, <1>3, BindingAbove DEF t
<1>4. CASE k # l
  <2>1. k < l
    BY <1>4
  <2> QED
    BY <1>1, <1>2, <1>4, <2>1, BindingBelow DEF t
<1> QED
  BY <1>3, <1>4

\* Assigning at the level.
LEMMA BindingPut ==
  ASSUME NEW s \in Seq(Entry), NEW l \in Nat, Ordered(s, l), NEW v \in Data, NEW k \in 0..l
  PROVE  Binding(PutValue(s, l, v), k) =
           IF k # l THEN Binding(s, k)
           ELSE IF Binding(s, l) = Unbound THEN View(NewEntry(l, v))
           ELSE [Binding(s, l) EXCEPT !.value = v]
<1> DEFINE t == PutValue(s, l, v)
<1>1. t \in Seq(Entry) /\ Ordered(t, l) /\ SameBelow(s, t, l)
  BY PutValueStack
<1>2. CASE k # l
  <2> HIDE DEF t
  <2>1. k < l /\ k \in Nat
    BY <1>2
  <2> QED
    BY <1>1, <1>2, <2>1, BindingBelow DEF t
<1>3. CASE k = l /\ ~At(s, l)
  <2>1. s = <<>> \/ Last(s).level < l
    <3>1. s # <<>> => Last(s).level \in Nat /\ Last(s).level <= l
      BY TopFacts, EntryFacts DEF Ordered
    <3> QED
      BY <1>3, <3>1 DEF At
  <2>2. t = Append(s, NewEntry(l, v))
    BY <2>1 DEF PutValue
  <2>3. NewEntry(l, v) \in Entry /\ NewEntry(l, v).level = l
    BY DEF NewEntry, Entry
  <2>4. Last(t) = NewEntry(l, v) /\ t # <<>>
    BY <2>2, <2>3, AppendFacts, FrontLast DEF Last
  <2>5. Binding(t, l) = View(NewEntry(l, v))
    <3> HIDE DEF t
    <3> QED
      BY <1>1, <2>3, <2>4, BindingTop
  <2> QED
    BY <1>3, <2>5, BindingTop
<1>4. CASE k = l /\ At(s, l)
  <2> DEFINE e == [Last(s) EXCEPT !.value = v]
  <2>1. s # <<>> /\ Last(s) \in Entry /\ Last(s).level = l
    BY <1>4, TopFacts DEF At
  <2>2. t = SetTop(s, e)
    BY <2>1 DEF PutValue
  <2>3. e \in Entry /\ e.level = l
    BY <2>1, ValueUpdate
  <2>4. View(e) = [View(Last(s)) EXCEPT !.value = v]
    BY <2>1 DEF View, Entry
  <2> HIDE DEF e
  <2>5. Last(t) = e /\ t # <<>>
    <3>1. Len(t) = Len(s) /\ t[Len(s)] = e /\ Len(s) \in Nat \ {0}
      BY <2>1, <2>2, <2>3, SetTopFacts, TopFacts
    <3> HIDE DEF t
    <3>2. t # <<>>
      BY <1>1, <3>1, EntryFacts
    <3> QED
      BY <1>1, <3>1, <3>2, TopFacts
  <2> HIDE DEF t
  <2>6. Binding(t, l) = View(e)
    BY <1>1, <2>3, <2>5, BindingTop
  <2>7. Binding(s, l) = View(Last(s)) /\ Binding(s, l) # Unbound
    BY <1>4, <2>1, BindingTop
  <2> QED
    BY <1>4, <2>4, <2>6, <2>7 DEF t
<1> QED
  BY <1>2, <1>3, <1>4

\* What is put back above the level below.
LEMMA BindingPutBack ==
  ASSUME NEW s \in Seq(Entry), NEW l \in Nat \ {0}, Ordered(s, l),
         NEW x \in Seq(Entry), Ordered(x, l - 1), NEW k \in 0..l
  PROVE  Binding(x \o Above(s, l - 1), k) = IF k = l THEN Binding(s, l) ELSE Binding(x, k)
<1> DEFINE t == x \o Above(s, l - 1)
<1>1. l - 1 \in Nat /\ l - 1 < l /\ k \in Nat /\ l \in Nat
  OBVIOUS
<1>2. t = IF At(s, l) THEN Append(x, Last(s)) ELSE x
  BY <1>1, PutBack, BelowStack
<1> HIDE DEF t
<1>3. CASE ~At(s, l)
  <2>1. t = x
    BY <1>2, <1>3
  <2>2. Binding(x, l) = Unbound
    BY <1>1, BindingAbove
  <2>3. Binding(s, l) = Unbound
    BY <1>1, <1>3, BindingTop
  <2> QED
    BY <2>1, <2>2, <2>3 DEF t
<1>4. CASE At(s, l)
  <2> DEFINE e == Last(s)
  <2>1. e \in Entry /\ e.level = l /\ Binding(s, l) = View(e)
    BY <1>1, <1>4, TopFacts, BindingTop DEF At
  <2>2. t = Append(x, e)
    BY <1>2, <1>4
  <2> HIDE DEF e
  <2>3. x = <<>> \/ Last(x).level < e.level
    <3> SUFFICES ASSUME x # <<>> PROVE Last(x).level < l
      BY <2>1
    <3>1. Last(x) = x[Len(x)] /\ Len(x) \in DOMAIN x /\ Last(x).level \in Nat
      BY TopFacts, EntryFacts
    <3>2. x[Len(x)].level <= l - 1
      BY <3>1 DEF Ordered
    <3> QED
      BY <3>1, <3>2, <1>1
  <2>4. t \in Seq(Entry) /\ Ordered(t, l) /\ SameBelow(x, t, l) /\ At(t, l)
    <3>1. e.level <= l
      BY <2>1, <1>1
    <3> QED
      BY <1>1, <2>1, <2>2, <2>3, <3>1, AppendStack
  <2>5. Last(t) = e
    BY <2>1, <2>2, AppendFacts DEF Last
  <2>6. Binding(t, l) = View(e)
    BY <1>1, <2>4, <2>5, BindingTop
  <2>7. k < l => Binding(x, k) = Binding(t, k)
    BY <1>1, <2>4, BindingBelow
  <2> QED
    BY <1>1, <2>1, <2>6, <2>7 DEF t
<1> QED
  BY <1>3, <1>4

\* The whole of the bindings, and one of them changed.
LEMMA EnvAt ==
  ASSUME NEW i \in 0..level, NEW n \in Names
  PROVE  Env[i][n] = Binding(stack[n], i)
BY DEF Env

LEMMA EnvChange ==
  ASSUME level' = level, NEW i \in 0..level, NEW n \in Names, NEW b,
         \A m \in Names : \A k \in 0..level :
           Binding(stack'[m], k) = IF m = n /\ k = i THEN b ELSE Binding(stack[m], k)
  PROVE  Env' = [Env EXCEPT ![i][n] = b]
<1>1. Env' = [k \in 0..level |-> [m \in Names |-> Binding(stack'[m], k)]]
  BY DEF Env
<1>2. /\ Env = [k \in 0..level |-> Env[k]]
      /\ \A k \in 0..level : Env[k] = [m \in Names |-> Binding(stack[m], k)]
  BY DEF Env
<1>3. [Env EXCEPT ![i][n] = b] =
        [k \in 0..level |-> IF k = i THEN [Env[i] EXCEPT ![n] = b] ELSE Env[k]]
  BY <1>2
<1>4. [Env[i] EXCEPT ![n] = b] = [m \in Names |-> Binding(stack'[m], i)]
  BY <1>2
<1>5. \A k \in 0..level : k # i => Env[k] = [m \in Names |-> Binding(stack'[m], k)]
  BY <1>2
<1> QED
  BY <1>1, <1>3, <1>4, <1>5

\* The bindings of the current scope changed.
LEMMA EnvScope ==
  ASSUME level \in Nat, level' = level, NEW f,
         \A m \in Names : \A k \in 0..level :
           Binding(stack'[m], k) = IF k = level THEN f[m] ELSE Binding(stack[m], k)
  PROVE  Env' = [Env EXCEPT ![level] = [m \in Names |-> f[m]]]
<1>1. Env' = [k \in 0..level |-> [m \in Names |-> Binding(stack'[m], k)]]
  BY DEF Env
<1>2. Env = [k \in 0..level |-> [m \in Names |-> Binding(stack[m], k)]]
  BY DEF Env
<1> QED
  BY <1>1, <1>2

\* A name shows the global variable when its binding is linked to it.
LEMMA ShownLinked ==
  ASSUME IInv, NEW n \in Names, NEW s \in Seq(Entry), NEW l \in Nat, Ordered(s, l)
  PROVE  Shown(isGlobal[n], s, l) <=>
           /\ Binding(s, l) # Unbound
           /\ Binding(s, l).shared
           /\ globalValue[n] # None
<1>1. isGlobal[n] <=> globalValue[n] # None
  BY TypeFacts
<1>2. CASE At(s, l)
  <2>1. Binding(s, l) = View(Last(s)) /\ Last(s) \in Entry /\ Binding(s, l) # Unbound
    BY <1>2, BindingTop, TopFacts DEF At
  <2>2. Binding(s, l).shared = Last(s).visible
    BY <2>1, ViewFacts
  <2> QED
    BY <1>1, <1>2, <2>1, <2>2 DEF Shown
<1>3. CASE ~At(s, l)
  BY <1>3, BindingTop DEF Shown
<1> QED
  BY <1>2, <1>3

LEMMA ProtectedAt ==
  ASSUME NEW s \in Seq(Entry), NEW l \in Nat, Ordered(s, l)
  PROVE  (At(s, l) /\ Last(s).protect) <=>
           (Binding(s, l) # Unbound /\ Binding(s, l).protect)
<1>1. CASE At(s, l)
  <2>1. Binding(s, l) = View(Last(s)) /\ Last(s) \in Entry /\ Binding(s, l) # Unbound
    BY <1>1, BindingTop, TopFacts DEF At
  <2>2. Binding(s, l).protect = Last(s).protect
    BY <2>1, ViewFacts
  <2> QED
    BY <1>1, <2>1, <2>2
<1>2. CASE ~At(s, l)
  BY <1>2, BindingTop
<1> QED
  BY <1>1, <1>2

\* A value is written at a level: to the global variable, to the binding, or
\* to a new one.
Rebound(b, i, v) ==
  IF b = Unbound THEN View(NewEntry(i, v)) ELSE [b EXCEPT !.value = v]

LEMMA WriteMaps ==
  ASSUME IInv, level' = level, NEW i \in 0..level, NEW n \in Names, NEW v,
         NEW shown \in BOOLEAN,
         shown <=> /\ Binding(stack[n], i) # Unbound
                   /\ Binding(stack[n], i).shared
                   /\ globalValue[n] # None,
         globalValue' = [globalValue EXCEPT ![n] = IF shown THEN v ELSE globalValue[n]],
         \A m \in Names : \A k \in 0..level :
           Binding(stack'[m], k) =
             IF m = n /\ k = i /\ ~shown THEN Rebound(Binding(stack[n], i), i, v)
             ELSE Binding(stack[m], k)
  PROVE  Store!Write(i, n, v)
<1>1. Env[i][n] = Binding(stack[n], i)
  BY EnvAt
<1>2. Store!Linked(i, n) <=> shown
  BY <1>1 DEF Store!Linked, Store!Binds
<1>3. CASE shown
  <2>1. Env' = Env
    BY <1>3 DEF Env
  <2>2. globalValue' = [globalValue EXCEPT ![n] = v]
    BY <1>3
  <2> QED
    BY <1>2, <1>3, <2>1, <2>2 DEF Store!Write
<1>4. CASE ~shown
  <2>1. globalValue' = globalValue
    BY <1>4, TypeFacts
  <2>2. Env' = [Env EXCEPT ![i][n] = Rebound(Binding(stack[n], i), i, v)]
    BY <1>4, EnvChange
  <2>3. Env' = [Env EXCEPT ![i][n] =
                 IF @ = Unbound THEN Store!Unshared(v) ELSE [@ EXCEPT !.value = v]]
    BY <1>1, <2>2 DEF Rebound, View, NewEntry, Store!Unshared
  <2> QED
    BY <1>2, <1>4, <2>1, <2>3 DEF Store!Write
<1> QED
  BY <1>3, <1>4

\* Context::put at the current level.
LEMMA PutMaps ==
  ASSUME IInv, level' = level, NEW n \in Names, NEW v \in Data,
         Put(n, stack[n], isGlobal[n], v)
  PROVE  Store!Write(level, n, v)
<1> DEFINE s == stack[n]
           shown == Shown(isGlobal[n], s, level)
           t == IF shown THEN s ELSE PutValue(s, level, v)
<1>1. level \in Nat /\ level \in 0..level /\ s \in Seq(Entry) /\ Ordered(s, level)
  BY TypeFacts
<1>2. /\ stack' = [stack EXCEPT ![n] = t]
      /\ globalValue' = [globalValue EXCEPT ![n] = IF shown THEN v ELSE globalValue[n]]
  BY DEF Put
<1>3. shown <=> /\ Binding(s, level) # Unbound
                /\ Binding(s, level).shared
                /\ globalValue[n] # None
  BY <1>1, ShownLinked
<1>4. ASSUME NEW k \in 0..level
      PROVE  Binding(t, k) = IF k = level /\ ~shown
                               THEN Rebound(Binding(s, level), level, v)
                               ELSE Binding(s, k)
  <2>1. Binding(PutValue(s, level, v), k) =
          IF k # level THEN Binding(s, k) ELSE Rebound(Binding(s, level), level, v)
    BY <1>1, BindingPut DEF Rebound
  <2> QED
    BY <2>1
<1>5. shown \in BOOLEAN
  BY DEF Shown
<1> HIDE DEF t, shown
<1>6. stack'[n] = t /\ \A m \in Names : m # n => stack'[m] = stack[m]
  BY <1>2, TypeFacts
<1>7. \A m \in Names : \A k \in 0..level :
        Binding(stack'[m], k) =
          IF m = n /\ k = level /\ ~shown THEN Rebound(Binding(stack[n], level), level, v)
          ELSE Binding(stack[m], k)
  BY <1>4, <1>6
<1> QED
  BY <1>1, <1>2, <1>3, <1>5, <1>7, WriteMaps

\* The names of a set lose their binding of the current scope.
LEMMA DropMaps ==
  ASSUME IInv, level' = level, NEW S,
         \A m \in Names :
           stack'[m] = IF m \in S THEN PopAt(stack[m], level) ELSE stack[m]
  PROVE  Store!Drop(S)
<1> DEFINE f == [m \in Names |-> IF m \in S THEN Unbound ELSE Env[level][m]]
<1>1. level \in Nat \ {0} /\ level \in Nat /\ level \in 0..level
  BY TypeFacts
<1>2. ASSUME NEW m \in Names, NEW k \in 0..level
      PROVE  Binding(stack'[m], k) = IF k = level THEN f[m] ELSE Binding(stack[m], k)
  <2>1. f[m] = IF m \in S THEN Unbound ELSE Binding(stack[m], level)
    BY <1>1, EnvAt
  <2>2. Binding(PopAt(stack[m], level), k) =
          IF k = level THEN Unbound ELSE Binding(stack[m], k)
    BY <1>1, TypeFacts, BindingPop
  <2> HIDE DEF f
  <2> QED
    BY <2>1, <2>2
<1> HIDE DEF f
<1>3. Env' = [Env EXCEPT ![level] = [m \in Names |-> f[m]]]
  BY <1>1, <1>2, EnvScope
<1>4. [m \in Names |-> f[m]] = [m \in Names |-> IF m \in S THEN Unbound ELSE Env[level][m]]
  BY DEF f
<1> QED
  BY <1>1, <1>3, <1>4 DEF Store!Drop

LEMMA ProtectedMaps ==
  ASSUME IInv, NEW n \in Names
  PROVE  IsProtected(n) <=> Store!Protected(level, n)
<1>1. level \in Nat /\ level \in 0..level /\ stack[n] \in Seq(Entry) /\ Ordered(stack[n], level)
  BY TypeFacts
<1>2. Env[level][n] = Binding(stack[n], level)
  BY <1>1, EnvAt
<1> QED
  BY <1>1, <1>2, ProtectedAt DEF IsProtected, Store!Protected, Store!Binds

LEMMA AssignMaps ==
  ASSUME IInv, NEW n \in Names, NEW v \in Data, Assign(n, v)
  PROVE  Store!Assign(n, v)
BY ProtectedMaps, PutMaps DEF Assign, Store!Assign

LEMMA ClearMaps ==
  ASSUME IInv, NEW n \in Names, Clear(n)
  PROVE  Store!Clear(n)
<1>1. level' = level /\ globalValue' = globalValue /\ ~Store!Protected(level, n)
  BY ProtectedMaps DEF Clear, globals
<1>2. \A m \in Names :
        stack'[m] = IF m \in {n} THEN PopAt(stack[m], level) ELSE stack[m]
  BY TypeFacts DEF Clear
<1> QED
  BY <1>1, <1>2, DropMaps DEF Store!Clear

LEMMA RemoveAllMaps ==
  ASSUME IInv, RemoveAll
  PROVE  Store!ClearAll
<1> DEFINE S == {n \in Names : ~Store!Protected(level, n)}
<1>1. level' = level /\ globalValue' = globalValue
  BY DEF RemoveAll, globals
<1>2. ASSUME NEW m \in Names
      PROVE  stack'[m] = IF m \in S THEN PopAt(stack[m], level) ELSE stack[m]
  <2>1. stack'[m] = IF m \in ClearedNames(FALSE) THEN PopAt(stack[m], level) ELSE stack[m]
    BY Unbinds DEF RemoveAll
  <2>2. m \in S <=> ~IsProtected(m)
    BY ProtectedMaps
  <2>3. ~At(stack[m], level) => PopAt(stack[m], level) = stack[m]
    BY DEF PopAt
  <2>4. At(stack[m], level) => m \in scopes[level + 1]
    <3> SUFFICES ASSUME At(stack[m], level) PROVE m \in scopes[level + 1]
      OBVIOUS
    <3>1. stack[m] # <<>> /\ Last(stack[m]).level = level
      BY DEF At
    <3>2. level \in Levels(stack[m]) /\ level # 0
      BY <3>1, TypeFacts, TopFacts, EntryFacts DEF Levels
    <3> QED
      BY <3>2, Scopes
  <2> HIDE DEF S
  <2> QED
    BY <2>1, <2>2, <2>3, <2>4 DEF ClearedNames
<1> HIDE DEF S
<1>3. Store!Drop(S)
  BY <1>1, <1>2, DropMaps
<1> QED
  BY <1>1, <1>3 DEF Store!ClearAll, S

LEMMA RemoveGlobalsMaps ==
  ASSUME IInv, NEW S, RemoveGlobals(S)
  PROVE  Store!Unshare(S)
<1>1. level' = level
  BY DEF RemoveGlobals
<1>2. stack' = [m \in Names |-> IF m \in S THEN PopAt(stack[m], level) ELSE stack[m]]
  BY DEF RemoveGlobals
<1>3. Store!Drop(S)
  BY <1>1, <1>2, DropMaps
<1>4. globalValue' = [n \in Names |->
        IF n \in S /\ isGlobal[n] THEN None ELSE globalValue[n]]
  BY DEF RemoveGlobals
<1>5. \A n \in Names : ~isGlobal[n] => globalValue[n] = None
  BY TypeFacts
<1>6. globalValue' = [n \in Names |-> IF n \in S THEN None ELSE globalValue[n]]
  BY <1>4, <1>5
<1> QED
  BY <1>3, <1>6 DEF Store!Unshare

LEMMA ResumeRefusedMaps ==
  ASSUME IInv, NEW n \in Names, ResumeRefused(n)
  PROVE  Store!ResumeRefused(n)
<1> DEFINE s == stack[n]
           low == PopAt(s, level)
<1>1. level \in Nat \ {0} /\ level - 1 \in Nat /\ s \in Seq(Entry) /\ Ordered(s, level)
  BY TypeFacts
<1>2. Below(s, level - 1) = low /\ low \in Seq(Entry) /\ Ordered(low, level - 1)
  BY <1>1, BelowStack, PopAtStack
<1>3. /\ level' = level /\ globalValue' = globalValue
      /\ low # <<>> /\ Last(low).protect /\ stack' = [stack EXCEPT ![n] = low]
  BY <1>2 DEF ResumeRefused, globals
<1> HIDE DEF low
<1>4. PICK i \in 0..(level - 1) : i = Last(low).level
  <2>1. Last(low).level \in Nat /\ Last(low) = low[Len(low)] /\ Len(low) \in DOMAIN low
    BY <1>2, <1>3, TopFacts, EntryFacts
  <2>2. low[Len(low)].level <= level - 1
    BY <1>2, <2>1 DEF Ordered
  <2> QED
    BY <1>1, <2>1, <2>2
<1>5. Binding(low, i) = View(Last(low)) /\ Last(low) \in Entry
  BY <1>1, <1>2, <1>3, <1>4, BindingTop, TopFacts
<1>6. i \in 0..level /\ i # level
  BY <1>1, <1>4
<1>7. Binding(s, i) = View(Last(low))
  BY <1>1, <1>5, <1>6, BindingPop DEF low
<1>8. Store!Protected(i, n)
  <2>1. Env[i][n] = View(Last(low))
    BY <1>6, <1>7, EnvAt
  <2>2. View(Last(low)) # Unbound /\ View(Last(low)).protect
    BY <1>3, <1>5, ViewFacts
  <2> QED
    BY <2>1, <2>2 DEF Store!Protected, Store!Binds
<1>9. \A m \in Names :
        stack'[m] = IF m \in {n} THEN PopAt(stack[m], level) ELSE stack[m]
  BY <1>3, TypeFacts DEF low
<1> QED
  BY <1>3, <1>4, <1>8, <1>9, DropMaps DEF Store!ResumeRefused

LEMMA ScopeBeginMaps ==
  ASSUME IInv, ScopeBegin
  PROVE  Store!Call
<1>1. /\ level \in Nat /\ level' = level + 1
      /\ stack' = stack /\ globalValue' = globalValue
  BY TypeFacts DEF ScopeBegin, globals
<1>2. Env' = [k \in 0..(level + 1) |-> [m \in Names |-> Binding(stack[m], k)]]
  BY <1>1 DEF Env
<1>3. \A m \in Names : Binding(stack[m], level + 1) = Unbound
  BY <1>1, TypeFacts, BindingAbove
<1>4. \A k \in 0..(level + 1) :
        [m \in Names |-> Binding(stack[m], k)] =
          IF k > level THEN Store!NoBindings ELSE Env[k]
  <2> TAKE k \in 0..(level + 1)
  <2>1. CASE k > level
    <3>1. k = level + 1
      BY <1>1, <2>1
    <3> QED
      BY <1>3, <2>1, <3>1 DEF Store!NoBindings
  <2>2. CASE ~(k > level)
    <3>1. k \in 0..level
      BY <1>1, <2>2
    <3> QED
      BY <2>2, <3>1 DEF Env
  <2> QED
    BY <2>1, <2>2
<1>5. Env' = [i \in 0..(level + 1) |->
                IF i > level THEN Store!NoBindings ELSE Env[i]]
  BY <1>2, <1>4
<1> QED
  BY <1>1, <1>5 DEF Store!Call

LEMMA ScopeEndMaps ==
  ASSUME IInv, ScopeEnd
  PROVE  Store!Return
<1>1. /\ level \in Nat \ {0} /\ level > 1 /\ level' = level - 1
      /\ globalValue' = globalValue
  BY TypeFacts DEF ScopeEnd, globals
<1>2. \A m \in Names : stack'[m] = stack[m] \/ stack'[m] = PopAt(stack[m], level)
  BY Unbinds DEF ScopeEnd
<1>3. ASSUME NEW k \in 0..(level - 1), NEW m \in Names
      PROVE  Binding(stack'[m], k) = Binding(stack[m], k)
  <2>1. k \in 0..level /\ k # level
    BY <1>1
  <2>2. Binding(PopAt(stack[m], level), k) = Binding(stack[m], k)
    BY <1>1, <2>1, TypeFacts, BindingPop
  <2> QED
    BY <1>2, <2>2
<1>4. Env' = [k \in 0..(level - 1) |-> [m \in Names |-> Binding(stack'[m], k)]]
  BY <1>1 DEF Env
<1>5. \A k \in 0..(level - 1) : Env[k] = [m \in Names |-> Binding(stack[m], k)]
  BY <1>1 DEF Env
<1>6. Env' = [k \in 0..(level - 1) |-> Env[k]]
  BY <1>3, <1>4, <1>5
<1> QED
  BY <1>1, <1>6 DEF Store!Return

\* The value that is read is that of the innermost binding.
LEMMA LookupMaps ==
  ASSUME IInv, NEW n \in Names
  PROVE  /\ Store!Bound(n) <=> stack[n] # <<>>
         /\ stack[n] # <<>> => Store!Lookup(n) = Get(n)
<1> DEFINE s == stack[n]
           B == {j \in 0..level : Store!Binds(j, n)}
<1>1. level \in Nat /\ s \in Seq(Entry) /\ Ordered(s, level)
  BY TypeFacts
<1>2. B = {j \in 0..level : Binding(s, j) # Unbound}
  BY EnvAt DEF Store!Binds
<1>3. ASSUME s = <<>> PROVE B = {}
  <2>1. Levels(s) = {}
    BY <1>3 DEF Levels
  <2> QED
    BY <1>2, <2>1, BindingNone
<1>4. ASSUME s # <<>>
      PROVE  /\ B # {} /\ Store!Lookup(n) = Get(n)
  <2> DEFINE i == Last(s).level
  <2>1. /\ Last(s) \in Entry /\ i \in Nat /\ Len(s) \in DOMAIN s /\ Last(s) = s[Len(s)]
        /\ DOMAIN s = 1..Len(s) /\ Len(s) \in Nat
    BY <1>1, <1>4, TopFacts, EntryFacts
  <2>2. Binding(s, i) = View(Last(s))
    BY <1>1, <1>4, BindingTop
  <2>3. i \in B
    <3>1. i <= level
      BY <1>1, <2>1 DEF Ordered
    <3> QED
      BY <1>1, <1>2, <2>1, <2>2, <3>1, ViewFacts
  <2>4. ASSUME NEW j \in B PROVE i >= j
    <3>1. j \in Levels(s)
      BY <1>2, BindingNone
    <3>2. PICK x \in DOMAIN s : s[x].level = j
      BY <3>1 DEF Levels
    <3>3. x < Len(s) => s[x].level < s[Len(s)].level
      BY <1>1, <2>1 DEF Ordered
    <3>4. j \in Nat /\ x \in Nat /\ x <= Len(s)
      BY <1>1, <2>1, <3>2, EntryFacts
    <3> QED
      BY <2>1, <3>2, <3>3, <3>4
  <2> HIDE DEF i
  <2>5. Store!Max(B) = i
    <3>1. B \subseteq Nat
      BY <1>2
    <3>2. \A x \in B : (\A y \in B : x >= y) => x = i
      BY <2>1, <2>3, <2>4, <3>1
    <3> HIDE DEF B
    <3> QED
      BY <2>3, <2>4, <3>2 DEF Store!Max
  <2>6. Env[i][n] = View(Last(s))
    BY <2>2, <2>3, EnvAt
  <2>7. /\ View(Last(s)) # Unbound /\ View(Last(s)).value = Last(s).value
        /\ View(Last(s)).shared = Last(s).visible
    BY <2>1, ViewFacts
  <2>8. Store!Linked(i, n) <=> (Last(s).visible /\ globalValue[n] # None)
    BY <2>6, <2>7 DEF Store!Linked, Store!Binds
  <2>9. Store!Lookup(n) = IF Store!Linked(i, n) THEN globalValue[n] ELSE Last(s).value
    BY <2>5, <2>6, <2>7 DEF Store!Lookup
  <2>10. isGlobal[n] <=> globalValue[n] # None
    BY TypeFacts
  <2> QED
    BY <1>4, <2>3, <2>8, <2>9, <2>10 DEF Get
<1>5. Store!Bound(n) <=> B # {}
  BY DEF Store!Bound
<1> HIDE DEF B
<1> QED
  BY <1>3, <1>4, <1>5

LEMMA RecallMaps ==
  ASSUME IInv, NEW n \in Names, Recall(n)
  PROVE  Store!Recall(n)
<1>1. level' = level /\ level \in Nat /\ level \in 0..level
      /\ stack[n] \in Seq(Entry) /\ Ordered(stack[n], level)
  BY TypeFacts DEF Recall
<1>2. stack[n] # <<>> /\ ~At(stack[n], level) /\ Put(n, stack[n], isGlobal[n], Get(n))
  BY DEF Recall
<1>3. Get(n) \in Data
  <2>1. Last(stack[n]).value \in Data
    BY <1>1, <1>2, TopFacts DEF Entry
  <2>2. isGlobal[n] => globalValue[n] \in Data
    BY TypeFacts
  <2> QED
    BY <1>2, <2>1, <2>2 DEF Get
<1>4. Store!Write(level, n, Store!Lookup(n)) /\ Store!Bound(n)
  BY <1>1, <1>2, <1>3, PutMaps, LookupMaps
<1>5. ~Store!Binds(level, n)
  <2>1. Env[level][n] = Unbound
    BY <1>1, <1>2, EnvAt, BindingTop
  <2> QED
    BY <2>1 DEF Store!Binds
<1> QED
  BY <1>4, <1>5 DEF Store!Recall

LEMMA ResumeMaps ==
  ASSUME IInv, NEW n \in Names, NEW v \in Data, Resume(n, v)
  PROVE  Store!Resume(n, v)
<1> DEFINE s == stack[n]
           i == level - 1
           low == PopAt(s, level)
           shown == Shown(isGlobal[n], low, i)
           x == IF shown THEN low ELSE PutValue(low, i, v)
           t == x \o Above(s, i)
<1>1. /\ level \in Nat \ {0} /\ level \in Nat /\ i \in Nat /\ i \in 0..level /\ i # level
      /\ s \in Seq(Entry) /\ Ordered(s, level)
  BY TypeFacts
<1>2. Below(s, i) = low /\ low \in Seq(Entry) /\ Ordered(low, i)
  BY <1>1, BelowStack, PopAtStack
<1> HIDE DEF low
<1>3. /\ level' = level
      /\ ~(low # <<>> /\ Last(low).protect)
      /\ stack' = [stack EXCEPT ![n] = t]
      /\ globalValue' = [globalValue EXCEPT ![n] = IF shown THEN v ELSE globalValue[n]]
  BY <1>2 DEF Resume
<1>4. Binding(low, i) = Binding(s, i)
  BY <1>1, BindingPop DEF low
<1>5. shown <=> /\ Binding(s, i) # Unbound
                /\ Binding(s, i).shared
                /\ globalValue[n] # None
  BY <1>1, <1>2, <1>4, ShownLinked
<1>6. shown \in BOOLEAN
  BY DEF Shown
<1>7. x \in Seq(Entry) /\ Ordered(x, i)
  BY <1>1, <1>2, PutValueStack
<1>8. ASSUME NEW k \in 0..i
      PROVE  Binding(x, k) = IF k = i /\ ~shown THEN Rebound(Binding(s, i), i, v)
                             ELSE Binding(s, k)
  <2>1. Binding(PutValue(low, i, v), k) =
          IF k # i THEN Binding(low, k) ELSE Rebound(Binding(low, i), i, v)
    BY <1>1, <1>2, BindingPut DEF Rebound
  <2>2. k \in 0..level /\ k # level
    BY <1>1
  <2>3. Binding(low, k) = Binding(s, k)
    BY <1>1, <2>2, BindingPop DEF low
  <2> QED
    BY <1>4, <2>1, <2>3
<1> HIDE DEF x, shown
<1>9. ASSUME NEW k \in 0..level
      PROVE  Binding(t, k) = IF k = i /\ ~shown THEN Rebound(Binding(s, i), i, v)
                             ELSE Binding(s, k)
  <2>1. Binding(t, k) = IF k = level THEN Binding(s, level) ELSE Binding(x, k)
    BY <1>1, <1>7, BindingPutBack
  <2>2. k # level => k \in 0..i
    BY <1>1
  <2> QED
    BY <1>1, <1>8, <2>1, <2>2
<1> HIDE DEF t
<1>10. stack'[n] = t /\ \A m \in Names : m # n => stack'[m] = stack[m]
  BY <1>3, TypeFacts
<1>11. \A m \in Names : \A k \in 0..level :
         Binding(stack'[m], k) =
           IF m = n /\ k = i /\ ~shown THEN Rebound(Binding(stack[n], i), i, v)
           ELSE Binding(stack[m], k)
  BY <1>9, <1>10
<1>12. Store!Write(i, n, v)
  <2> HIDE DEF i
  <2> QED
    BY <1>1, <1>3, <1>5, <1>6, <1>11, WriteMaps
<1>13. ~Store!Protected(i, n)
  <2>1. Env[i][n] = Binding(low, i)
    BY <1>1, <1>4, EnvAt
  <2>2. ~(Binding(low, i) # Unbound /\ Binding(low, i).protect)
    <3>1. At(low, i) => low # <<>>
      BY DEF At
    <3> QED
      BY <1>1, <1>2, <1>3, <3>1, ProtectedAt
  <2> QED
    BY <2>1, <2>2 DEF Store!Protected, Store!Binds
<1> QED
  BY <1>12, <1>13 DEF Store!Resume

LEMMA UpdateProtectionMaps ==
  ASSUME IInv, NEW b \in BOOLEAN, UpdateProtection(b)
  PROVE  Store!Protect(b)
<1>1. /\ level \in Nat /\ level \in 0..level /\ level' = level
      /\ globalValue' = globalValue
  BY TypeFacts DEF UpdateProtection, globals
<1> DEFINE e(n) == [Last(stack[n]) EXCEPT !.protect = b]
           f == [n \in Names |-> IF Env[level][n] = Unbound THEN Unbound
                                 ELSE [Env[level][n] EXCEPT !.protect = b]]
<1>2. ASSUME NEW n \in Names, NEW k \in 0..level
      PROVE  Binding(stack'[n], k) = IF k = level THEN f[n] ELSE Binding(stack[n], k)
  <2> DEFINE s == stack[n]
  <2>1. s \in Seq(Entry) /\ Ordered(s, level)
    BY TypeFacts
  <2>2. f[n] = IF Binding(s, level) = Unbound THEN Unbound
               ELSE [Binding(s, level) EXCEPT !.protect = b]
    BY <1>1, EnvAt
  <2>3. At(s, level) => n \in scopes[level + 1]
    <3> SUFFICES ASSUME At(s, level) PROVE n \in scopes[level + 1]
      OBVIOUS
    <3>1. s # <<>> /\ Last(s).level = level
      BY DEF At
    <3>2. level \in Levels(s) /\ level # 0
      BY <3>1, TypeFacts, TopFacts, EntryFacts DEF Levels
    <3> QED
      BY <3>2, Scopes
  <2>4. stack'[n] = IF At(s, level) THEN SetTop(s, e(n)) ELSE s
    BY <2>3 DEF UpdateProtection
  <2> HIDE DEF f
  <2>5. CASE ~At(s, level)
    <3>1. Binding(s, level) = Unbound
      BY <1>1, <2>1, <2>5, BindingTop
    <3> QED
      BY <2>2, <2>4, <2>5, <3>1
  <2>6. CASE At(s, level)
    <3> DEFINE t == SetTop(s, e(n))
    <3>1. s # <<>> /\ Last(s) \in Entry /\ Last(s).level = level
      BY <2>1, <2>6, TopFacts DEF At
    <3>2. e(n) \in Entry /\ e(n).level = level
      BY <3>1 DEF Entry
    <3>3. View(e(n)) = [View(Last(s)) EXCEPT !.protect = b]
      BY <3>1 DEF View, Entry
    <3> HIDE DEF e
    <3>4. /\ t \in Seq(Entry) /\ Ordered(t, level) /\ SameBelow(s, t, level)
          /\ At(t, level)
      BY <1>1, <2>1, <2>6, <3>1, <3>2, SetTopStack
    <3>5. Last(t) = e(n)
      <4>1. Len(t) = Len(s) /\ t[Len(s)] = e(n) /\ t # <<>>
        <5>0. e(n) \in Entry /\ s \in Seq(Entry) /\ s # <<>>
          BY <2>1, <3>1, <3>2
        <5>1. Len(t) = Len(s)
          BY <5>0, SetTopFacts
        <5>2. t[Len(s)] = e(n)
          BY <5>0, SetTopFacts
        <5>3. t # <<>>
          BY <3>4 DEF At
        <5> QED
          BY <5>1, <5>2, <5>3
      <4> HIDE DEF t
      <4> QED
        BY <3>4, <4>1, TopFacts
    <3> HIDE DEF t
    <3>6. Binding(t, level) = View(e(n))
      BY <1>1, <3>4, <3>5, BindingTop
    <3>7. Binding(s, level) = View(Last(s)) /\ Binding(s, level) # Unbound
      BY <1>1, <2>1, <2>6, BindingTop
    <3>8. k # level => Binding(t, k) = Binding(s, k)
      <4>1. k # level => k < level /\ k \in Nat
        BY <1>1
      <4> QED
        BY <1>1, <2>1, <3>4, <4>1, BindingBelow
    <3> QED
      BY <2>2, <2>4, <2>6, <3>3, <3>6, <3>7, <3>8 DEF t
  <2> QED
    BY <2>5, <2>6
<1>3. Env' = [Env EXCEPT ![level] = [m \in Names |-> f[m]]]
  <2> HIDE DEF f
  <2> QED
    BY <1>1, <1>2, EnvScope
<1>4. Env' = [Env EXCEPT ![level] = f]
  BY <1>3
<1> QED
  BY <1>1, <1>4 DEF Store!Protect

\* The names that are never used for a library.  A declaration takes what the
\* libraries hold for a name that has no entry, and clearglobal leaves it
\* there: so the names that are declared global are supposed to be plain.
Plain == {n \in Names : \A b \in Bindings : b[1] = n => b[2] \notin Libraries}

ValuesOf(s) == {s[i].value : i \in DOMAIN s}
Pure ==
  \A n \in Plain :
    /\ libs[n] = <<>>
    /\ globalValue[n] \notin Libraries
    /\ ValuesOf(stack[n]) \cap Libraries = {}

LEMMA GlobalMaps ==
  ASSUME IInv, Pure, NEW n \in Plain, Global(n)
  PROVE  Store!Declare(n)
<1> DEFINE q == stack[n]
           v == IF isGlobal[n] THEN globalValue[n] ELSE Get(n)
           w == IF v = None THEN Empty ELSE v
           e == IF At(q, level) THEN Last(q) ELSE NewEntry(level, Empty)
           d == [e EXCEPT !.visible = TRUE]
           low == PopAt(q, level)
           s == Append(low, d)
<1>0. n \in Names
  BY DEF Plain
<1>1. /\ level \in Nat \ {0} /\ level \in Nat /\ level \in 0..level
      /\ level - 1 \in Nat /\ level - 1 < level
      /\ q \in Seq(Entry) /\ Ordered(q, level)
  BY <1>0, TypeFacts
<1>2. level' = level /\ ~(At(q, level) /\ Last(q).visible) /\ Put(n, s, TRUE, w)
  BY DEF Global
<1>3. e \in Entry /\ e.level = level /\ (At(q, level) => e = Last(q))
  <2>1. CASE At(q, level)
    BY <1>1, <2>1, TopFacts DEF At
  <2>2. CASE ~At(q, level)
    BY <2>2, <1>1 DEF NewEntry, Entry, Data
  <2> QED
    BY <2>1, <2>2
<1>4. /\ View(e) = IF Binding(q, level) = Unbound THEN Store!Unshared(Empty)
                   ELSE Binding(q, level)
      /\ Binding(q, level) # Unbound <=> At(q, level)
  <2>1. CASE At(q, level)
    BY <1>1, <1>3, <2>1, BindingTop
  <2>2. CASE ~At(q, level)
    <3>1. View(NewEntry(level, Empty)) = Store!Unshared(Empty)
      BY DEF View, NewEntry, Store!Unshared
    <3> QED
      BY <1>1, <2>2, <3>1, BindingTop
  <2> QED
    BY <2>1, <2>2
<1> HIDE DEF e
<1>5. d \in Entry /\ d.level = level /\ d.visible /\ View(d) = [View(e) EXCEPT !.shared = TRUE]
  <2>1. d \in Entry
    BY <1>3 DEF Entry
  <2>2. d.level = level
    BY <1>3 DEF Entry
  <2>3. d.visible
    BY <1>3 DEF Entry
  <2>4. View(d) = [View(e) EXCEPT !.shared = TRUE]
    <3>1. d.value = e.value /\ d.protect = e.protect /\ d.visible = TRUE
      BY <1>3 DEF Entry
    <3>2. View(d) = [value |-> e.value, shared |-> TRUE, protect |-> e.protect]
      BY <3>1 DEF View
    <3>3. [View(e) EXCEPT !.shared = TRUE]
            = [value |-> e.value, shared |-> TRUE, protect |-> e.protect]
      <4>1. ASSUME NEW b PROVE [View(e) EXCEPT !.shared = b]
                                 = [value |-> e.value, shared |-> b, protect |-> e.protect]
        BY DEF View
      <4> QED
        BY <4>1
    <3> QED
      BY <3>2, <3>3
  <2> QED
    BY <2>1, <2>2, <2>3, <2>4
<1> HIDE DEF d
<1>6. low \in Seq(Entry) /\ Ordered(low, level - 1) /\ SameBelow(q, low, level)
  BY <1>1, PopAtStack
<1> HIDE DEF low
<1>7. low = <<>> \/ Last(low).level < d.level
  <2> SUFFICES ASSUME low # <<>> PROVE Last(low).level < level
    BY <1>5
  <2>1. Last(low) = low[Len(low)] /\ Len(low) \in DOMAIN low /\ Last(low).level \in Nat
    BY <1>6, TopFacts, EntryFacts
  <2>2. low[Len(low)].level <= level - 1
    BY <1>6, <2>1 DEF Ordered
  <2> QED
    BY <1>1, <2>1, <2>2
<1>8. s \in Seq(Entry) /\ Ordered(s, level) /\ SameBelow(low, s, level) /\ At(s, level)
  BY <1>1, <1>5, <1>6, <1>7, AppendStack
<1>9. Last(s) = d
  BY <1>5, <1>6, FrontLast, AppendFacts DEF Last
<1> HIDE DEF s
<1>10. Shown(TRUE, s, level)
  BY <1>5, <1>8, <1>9 DEF Shown
<1> HIDE DEF v
<1>11. /\ stack' = [stack EXCEPT ![n] = s]
       /\ globalValue' = [globalValue EXCEPT ![n] = w]
  BY <1>2, <1>10 DEF Put
<1>12. ASSUME NEW k \in 0..level
       PROVE  Binding(s, k) = IF k = level THEN View(d) ELSE Binding(q, k)
  <2>1. CASE k = level
    BY <1>1, <1>8, <1>9, <2>1, BindingTop
  <2>2. CASE k # level
    <3>1. k < level /\ k \in Nat
      BY <1>1, <2>2
    <3>2. Binding(low, k) = Binding(s, k)
      BY <1>1, <1>6, <1>8, <3>1, BindingBelow
    <3>3. Binding(q, k) = Binding(low, k)
      BY <1>1, <1>6, <3>1, BindingBelow
    <3> QED
      BY <2>2, <3>2, <3>3
  <2> QED
    BY <2>1, <2>2
<1>13. Env' = [Env EXCEPT ![level][n] = View(d)]
  <2>1. stack'[n] = s /\ \A m \in Names : m # n => stack'[m] = stack[m]
    BY <1>0, <1>11, TypeFacts
  <2>2. \A m \in Names : \A k \in 0..level :
          Binding(stack'[m], k) =
            IF m = n /\ k = level THEN View(d) ELSE Binding(stack[m], k)
    BY <1>12, <2>1
  <2> QED
    BY <1>0, <1>1, <1>2, <2>2, EnvChange
<1>14. Env[level][n] = Binding(q, level)
  BY <1>0, <1>1, EnvAt
<1>15. Env' = [Env EXCEPT ![level][n] =
          [IF @ = Unbound THEN Store!Unshared(Empty) ELSE @ EXCEPT !.shared = TRUE]]
  BY <1>4, <1>5, <1>13, <1>14
<1>16. w = IF globalValue[n] # None THEN globalValue[n]
           ELSE IF Store!Bound(n) THEN Store!Lookup(n) ELSE Empty
  <2>1. isGlobal[n] <=> globalValue[n] # None
    BY <1>0, TypeFacts
  <2>2. CASE isGlobal[n]
    BY <2>1, <2>2 DEF v
  <2>3. CASE ~isGlobal[n] /\ q # <<>>
    <3>1. Get(n) = Last(q).value
      BY <2>3 DEF Get
    <3>2. Get(n) \in Data /\ None \notin Data
      BY <1>0, <1>1, <2>3, <3>1, TopFacts, TypeFacts DEF Entry
    <3> QED
      BY <1>0, <2>1, <2>3, <3>2, LookupMaps DEF v
  <2>4. CASE ~isGlobal[n] /\ q = <<>>
    <3>1. Get(n) = None
      BY <2>4 DEF Get, Pure
    <3> QED
      BY <1>0, <2>1, <2>4, <3>1, LookupMaps DEF v
  <2> QED
    BY <2>2, <2>3, <2>4
<1>17. ~(Store!Binds(level, n) /\ Env[level][n].shared)
  <2>1. CASE At(q, level)
    <3>1. Binding(q, level) = View(Last(q)) /\ Last(q) \in Entry
      BY <1>1, <2>1, BindingTop, TopFacts DEF At
    <3> QED
      BY <1>2, <1>14, <2>1, <3>1, ViewFacts
  <2>2. CASE ~At(q, level)
    BY <1>4, <1>14, <2>2 DEF Store!Binds
  <2> QED
    BY <2>1, <2>2
<1> HIDE DEF w
<1>18. globalValue' = [globalValue EXCEPT ![n] =
         IF @ # None THEN @ ELSE IF Store!Bound(n) THEN Store!Lookup(n) ELSE Empty]
  BY <1>0, <1>11, <1>16, TypeFacts
<1> QED
  BY <1>2, <1>15, <1>17, <1>18 DEF Store!Declare

\* The values of a stack, when it changes.
LEMMA ValuesPop ==
  ASSUME NEW s \in Seq(Entry), NEW l
  PROVE  ValuesOf(PopAt(s, l)) \subseteq ValuesOf(s)
BY TopFacts, EntryFacts DEF ValuesOf, PopAt, At

LEMMA ValuesAppend ==
  ASSUME NEW s \in Seq(Entry), NEW e \in Entry
  PROVE  ValuesOf(Append(s, e)) \subseteq ValuesOf(s) \cup {e.value}
<1>1. /\ DOMAIN s = 1..Len(s) /\ Len(s) \in Nat
      /\ DOMAIN Append(s, e) = 1..(Len(s) + 1)
      /\ \A i \in 1..Len(s) : Append(s, e)[i] = s[i]
      /\ Append(s, e)[Len(s) + 1] = e
  BY AppendFacts
<1> QED
  BY <1>1 DEF ValuesOf

LEMMA ValuesSetTop ==
  ASSUME NEW s \in Seq(Entry), s # <<>>, NEW e \in Entry
  PROVE  ValuesOf(SetTop(s, e)) \subseteq ValuesOf(s) \cup {e.value}
<1>1. /\ DOMAIN s = 1..Len(s) /\ Len(s) \in Nat \ {0}
      /\ DOMAIN SetTop(s, e) = 1..Len(s)
      /\ \A i \in 1..(Len(s) - 1) : SetTop(s, e)[i] = s[i]
      /\ SetTop(s, e)[Len(s)] = e
  <2>1. DOMAIN SetTop(s, e) = 1..Len(s)
    BY SetTopFacts
  <2>2. \A i \in 1..(Len(s) - 1) : SetTop(s, e)[i] = s[i]
    BY SetTopFacts
  <2>3. SetTop(s, e)[Len(s)] = e
    BY SetTopFacts
  <2> QED
    BY <2>1, <2>2, <2>3, EntryFacts, TopFacts
<1> QED
  BY <1>1 DEF ValuesOf

LEMMA ValuesPut ==
  ASSUME NEW s \in Seq(Entry), NEW l \in Nat, NEW v \in Data
  PROVE  ValuesOf(PutValue(s, l, v)) \subseteq ValuesOf(s) \cup {v}
<1>1. CASE s = <<>> \/ Last(s).level < l
  <2>1. NewEntry(l, v) \in Entry /\ NewEntry(l, v).value = v
    BY DEF NewEntry, Entry
  <2> QED
    BY <1>1, <2>1, ValuesAppend DEF PutValue
<1>2. CASE ~(s = <<>> \/ Last(s).level < l)
  <2> DEFINE e == [Last(s) EXCEPT !.value = v]
  <2>1. e \in Entry /\ e.value = v
    <3>1. Last(s) \in Entry
      BY <1>2, TopFacts
    <3>2. e \in Entry
      BY <3>1, ValueUpdate
    <3>3. e.value = v
      BY <3>1 DEF Entry
    <3> QED
      BY <3>2, <3>3
  <2>2. PutValue(s, l, v) = SetTop(s, e)
    BY <1>2 DEF PutValue
  <2> HIDE DEF e
  <2> QED
    BY <1>2, <2>1, <2>2, ValuesSetTop
<1> QED
  BY <1>1, <1>2

LEMMA ValuesTop ==
  ASSUME NEW s \in Seq(Entry), s # <<>>
  PROVE  Last(s).value \in ValuesOf(s)
BY TopFacts, EntryFacts DEF ValuesOf

LEMMA ValuesPutBack ==
  ASSUME NEW s \in Seq(Entry), NEW l, NEW x \in Seq(Entry)
  PROVE  ValuesOf(x \o Above(s, l)) \subseteq ValuesOf(x) \cup ValuesOf(s)
<1>1. CASE s # <<>> /\ Last(s).level > l
  <2>1. x \o Above(s, l) = Append(x, Last(s))
    BY <1>1, PutBack
  <2>2. Last(s) \in Entry /\ Last(s).value \in ValuesOf(s)
    BY <1>1, TopFacts, ValuesTop
  <2>3. ValuesOf(Append(x, Last(s))) \subseteq ValuesOf(x) \cup {Last(s).value}
    BY <2>2, ValuesAppend
  <2> QED
    BY <2>1, <2>2, <2>3
<1>2. CASE ~(s # <<>> /\ Last(s).level > l)
  <2>1. x \o Above(s, l) = x
    BY <1>2, PutBack
  <2> QED
    BY <2>1
<1> QED
  BY <1>1, <1>2

\* An empty stack of libraries stays so while no library is assigned.
LEMMA EmptyLibs ==
  ASSUME NEW l, NEW v, v \notin Libraries
  PROVE  /\ LibPut(<<>>, l, v) = <<>> /\ PopAt(<<>>, l) = <<>>
         /\ LibPut(Below(<<>>, l), l, v) \o Above(<<>>, l) = <<>>
BY DEF LibPut, PopAt, At, Below, Above

LEMMA EmptyUnref ==
  ASSUME NEW q \in [Names -> Seq(LibEntry)], NEW S, NEW n \in Names, q[n] = <<>>
  PROVE  Unref(q, S)[n] = <<>>
<1>1. CASE \E m \in Names : q[m] # <<>> /\ Last(q[m]).lib \in S
  <2> DEFINE m == CHOOSE m \in Names : q[m] # <<>> /\ Last(q[m]).lib \in S
  <2>1. m \in Names /\ q[m] # <<>>
    BY <1>1
  <2>2. Unref(q, S) = [q EXCEPT ![m] = Front(q[m])]
    BY <1>1 DEF Unref
  <2> HIDE DEF m
  <2> QED
    BY <2>1, <2>2
<1>2. CASE ~\E m \in Names : q[m] # <<>> /\ Last(q[m]).lib \in S
  BY <1>2 DEF Unref
<1> QED
  BY <1>1, <1>2

LEMMA PurePut ==
  ASSUME IInv, Pure, NEW n \in Names, NEW s \in Seq(Entry), NEW g, NEW v \in Data,
         n \in Plain => v \notin Libraries /\ ValuesOf(s) \cap Libraries = {},
         Put(n, s, g, v)
  PROVE  Pure'
<1> DEFINE shown == Shown(g, s, level)
           t == IF shown THEN s ELSE PutValue(s, level, v)
           q == [libs EXCEPT ![n] = LibPut(libs[n], level, v)]
           S == IF shown THEN {} ELSE Replaced(s, level, v)
<1>1. level \in Nat /\ Plain \subseteq Names
  BY TypeFacts DEF Plain
<1>2. /\ stack' = [stack EXCEPT ![n] = t]
      /\ globalValue' = [globalValue EXCEPT ![n] = IF shown THEN v ELSE globalValue[n]]
      /\ libs' = Unref(q, S)
  BY DEF Put
<1>3. ValuesOf(t) \subseteq ValuesOf(s) \cup {v}
  BY <1>1, ValuesPut
<1>4. q \in [Names -> Seq(LibEntry)]
  <2>1. LibPut(libs[n], level, v) \in Seq(LibEntry)
    BY <1>1, TypeFacts, LibStack
  <2> QED
    BY <2>1, TypeFacts
<1> SUFFICES ASSUME NEW m \in Plain
             PROVE  /\ libs'[m] = <<>>
                    /\ globalValue'[m] \notin Libraries
                    /\ ValuesOf(stack'[m]) \cap Libraries = {}
  BY DEF Pure
<1>5. /\ m \in Names /\ libs[m] = <<>> /\ globalValue[m] \notin Libraries
      /\ ValuesOf(stack[m]) \cap Libraries = {}
  BY <1>1 DEF Pure
<1>6. q[m] = <<>>
  BY <1>5, TypeFacts, EmptyLibs
<1>7. libs'[m] = <<>>
  <2> HIDE DEF q, S
  <2> QED
    BY <1>2, <1>4, <1>5, <1>6, EmptyUnref
<1> HIDE DEF t, shown
<1>8. globalValue'[m] \notin Libraries
  BY <1>2, <1>5, TypeFacts
<1>9. ValuesOf(stack'[m]) \cap Libraries = {}
  <2>1. CASE m = n
    BY <1>2, <1>3, <1>5, <2>1, TypeFacts
  <2>2. CASE m # n
    BY <1>2, <1>5, <2>2, TypeFacts
  <2> QED
    BY <2>1, <2>2
<1> QED
  BY <1>7, <1>8, <1>9

\* A step that only takes entries off.
LEMMA PurePop ==
  ASSUME IInv, Pure,
         \A n \in Names :
           /\ stack'[n] = stack[n] \/ stack'[n] = PopAt(stack[n], level)
           /\ libs'[n] = libs[n] \/ libs'[n] = PopAt(libs[n], level)
           /\ globalValue'[n] \in {globalValue[n], None}
  PROVE  Pure'
<1> SUFFICES ASSUME NEW n \in Plain
             PROVE  /\ libs'[n] = <<>>
                    /\ globalValue'[n] \notin Libraries
                    /\ ValuesOf(stack'[n]) \cap Libraries = {}
  BY DEF Pure
<1>1. /\ n \in Names /\ libs[n] = <<>> /\ globalValue[n] \notin Libraries
      /\ ValuesOf(stack[n]) \cap Libraries = {}
  BY DEF Pure, Plain
<1>2. libs'[n] = <<>>
  BY <1>1 DEF PopAt, At
<1>3. globalValue'[n] \notin Libraries
  BY <1>1, SymbolAssumption DEF Data
<1>4. ValuesOf(stack'[n]) \subseteq ValuesOf(stack[n])
  <2>1. ValuesOf(PopAt(stack[n], level)) \subseteq ValuesOf(stack[n])
    BY <1>1, TypeFacts, ValuesPop
  <2> QED
    BY <1>1, <2>1
<1> QED
  BY <1>1, <1>2, <1>3, <1>4

LEMMA PureResume ==
  ASSUME IInv, Pure, NEW n \in Names, NEW v \in Data, n \in Plain => v \notin Libraries,
         Resume(n, v)
  PROVE  Pure'
<1> DEFINE s == stack[n]
           i == level - 1
           low == PopAt(s, level)
           shown == Shown(isGlobal[n], low, i)
           x == IF shown THEN low ELSE PutValue(low, i, v)
           t == x \o Above(s, i)
           S == IF shown THEN {} ELSE Replaced(low, i, v)
           q == Unref(libs, S)
<1>1. /\ level \in Nat \ {0} /\ i \in Nat /\ s \in Seq(Entry) /\ Ordered(s, level)
      /\ Plain \subseteq Names
  BY TypeFacts DEF Plain
<1>2. /\ Below(s, i) = low /\ low \in Seq(Entry) /\ Ordered(low, i)
      /\ ValuesOf(low) \subseteq ValuesOf(s)
  BY <1>1, BelowStack, PopAtStack, ValuesPop
<1> HIDE DEF low
<1>3. /\ stack' = [stack EXCEPT ![n] = t]
      /\ globalValue' = [globalValue EXCEPT ![n] = IF shown THEN v ELSE globalValue[n]]
      /\ libs' = [q EXCEPT ![n] = LibPut(Below(q[n], i), i, v) \o Above(q[n], i)]
  BY <1>2 DEF Resume
<1>4. q \in [Names -> Seq(LibEntry)]
  BY TypeFacts, UnrefLibs
<1>5. x \in Seq(Entry) /\ ValuesOf(x) \subseteq ValuesOf(low) \cup {v}
  BY <1>1, <1>2, PutValueStack, ValuesPut
<1> HIDE DEF x
<1>6. ValuesOf(t) \subseteq ValuesOf(s) \cup {v}
  <2>1. ValuesOf(t) \subseteq ValuesOf(x) \cup ValuesOf(s)
    BY <1>1, <1>5, ValuesPutBack
  <2> QED
    BY <1>2, <1>5, <2>1
<1> HIDE DEF t, shown, S
<1> SUFFICES ASSUME NEW m \in Plain
             PROVE  /\ libs'[m] = <<>>
                    /\ globalValue'[m] \notin Libraries
                    /\ ValuesOf(stack'[m]) \cap Libraries = {}
  BY DEF Pure
<1>7. /\ m \in Names /\ libs[m] = <<>> /\ globalValue[m] \notin Libraries
      /\ ValuesOf(stack[m]) \cap Libraries = {}
  BY <1>1 DEF Pure
<1>8. q[m] = <<>>
  BY <1>7, TypeFacts, EmptyUnref
<1> HIDE DEF q
<1>9. libs'[m] = <<>>
  <2>1. CASE m = n
    <3>1. LibPut(Below(q[n], i), i, v) \o Above(q[n], i) = <<>>
      BY <1>8, <2>1, EmptyLibs
    <3> QED
      BY <1>3, <1>4, <1>7, <2>1, <3>1
  <2>2. CASE m # n
    BY <1>3, <1>4, <1>7, <1>8, <2>2
  <2> QED
    BY <2>1, <2>2
<1>10. globalValue'[m] \notin Libraries
  BY <1>3, <1>7, TypeFacts
<1>11. ValuesOf(stack'[m]) \cap Libraries = {}
  <2>1. CASE m = n
    BY <1>3, <1>6, <1>7, <2>1, TypeFacts
  <2>2. CASE m # n
    BY <1>3, <1>7, <2>2, TypeFacts
  <2> QED
    BY <2>1, <2>2
<1> QED
  BY <1>9, <1>10, <1>11

LEMMA GlobalValues ==
  ASSUME IInv, Pure, NEW n \in Plain
  PROVE  LET v == IF isGlobal[n] THEN globalValue[n] ELSE Get(n)
             w == IF v = None THEN Empty ELSE v
             e == IF At(stack[n], level) THEN Last(stack[n]) ELSE NewEntry(level, Empty)
             s == Append(PopAt(stack[n], level), [e EXCEPT !.visible = TRUE])
         IN  /\ w \in Data /\ w \notin Libraries
             /\ s \in Seq(Entry) /\ ValuesOf(s) \cap Libraries = {}
<1> DEFINE q == stack[n]
           v == IF isGlobal[n] THEN globalValue[n] ELSE Get(n)
           w == IF v = None THEN Empty ELSE v
           e == IF At(q, level) THEN Last(q) ELSE NewEntry(level, Empty)
           d == [e EXCEPT !.visible = TRUE]
           s == Append(PopAt(q, level), d)
<1>1. /\ n \in Names /\ level \in Nat \ {0} /\ level \in Nat
      /\ q \in Seq(Entry) /\ Ordered(q, level)
  BY TypeFacts DEF Plain
<1>2. /\ libs[n] = <<>> /\ globalValue[n] \notin Libraries
      /\ ValuesOf(q) \cap Libraries = {} /\ Empty \notin Libraries /\ Empty \in Data
      /\ q # <<>> => Last(q).value \notin Libraries /\ Last(q).value \in Data
  BY <1>1, SymbolAssumption, ValuesTop, TopFacts DEF Pure, Data, Entry
<1>3. e \in Entry /\ e.value \notin Libraries
  <2>1. CASE At(q, level)
    BY <1>1, <1>2, <2>1, TopFacts DEF At
  <2>2. CASE ~At(q, level)
    BY <1>1, <1>2, <2>2 DEF NewEntry, Entry
  <2> QED
    BY <2>1, <2>2
<1> HIDE DEF e
<1>4. d \in Entry /\ d.value \notin Libraries
  <2>1. d \in Entry
    BY <1>3 DEF Entry
  <2>2. d.value = e.value
    BY <1>3 DEF Entry
  <2> QED
    BY <1>3, <2>1, <2>2
<1> HIDE DEF d
<1>5. s \in Seq(Entry) /\ ValuesOf(s) \cap Libraries = {}
  <2>1. PopAt(q, level) \in Seq(Entry) /\ ValuesOf(PopAt(q, level)) \subseteq ValuesOf(q)
    BY <1>1, PopAtStack, ValuesPop
  <2>2. s \in Seq(Entry) /\ ValuesOf(s) \subseteq ValuesOf(PopAt(q, level)) \cup {d.value}
    BY <1>4, <2>1, ValuesAppend, AppendFacts
  <2> QED
    BY <1>2, <1>4, <2>1, <2>2
<1>6. w \in Data /\ w \notin Libraries
  <2>1. globalValue[n] \in Data \cup {None}
    BY <1>1, TypeFacts
  <2>2. Get(n) \in Data \cup {None} /\ Get(n) \notin Libraries
    <3>1. None \notin Libraries
      BY SymbolAssumption DEF Data
    <3> QED
      BY <1>2, <2>1, <3>1 DEF Get
  <2> QED
    BY <1>2, <2>1, <2>2
<1> QED
  BY <1>5, <1>6 DEF d, e

LEMMA PureGlobal ==
  ASSUME IInv, Pure, NEW n \in Plain, Global(n)
  PROVE  Pure'
<1> DEFINE v == IF isGlobal[n] THEN globalValue[n] ELSE Get(n)
           w == IF v = None THEN Empty ELSE v
           e == IF At(stack[n], level) THEN Last(stack[n]) ELSE NewEntry(level, Empty)
           s == Append(PopAt(stack[n], level), [e EXCEPT !.visible = TRUE])
<1>1. /\ w \in Data /\ w \notin Libraries
      /\ s \in Seq(Entry) /\ ValuesOf(s) \cap Libraries = {}
  BY GlobalValues
<1>2. n \in Names
  BY DEF Plain
<1>3. Put(n, s, TRUE, w)
  BY DEF Global
<1> HIDE DEF s, w
<1> QED
  BY <1>1, <1>2, <1>3, PurePut

\* predef changes no value.
LEMMA ProtectionBindings ==
  ASSUME IInv, NEW b \in BOOLEAN, UpdateProtection(b), NEW n \in Names
  PROVE  /\ ValuesOf(stack'[n]) \subseteq ValuesOf(stack[n])
         /\ \A k \in 0..level : Binding(stack'[n], k).value = Binding(stack[n], k).value
<1> DEFINE s == stack[n]
           e == [Last(s) EXCEPT !.protect = b]
<1>1. s \in Seq(Entry)
  BY TypeFacts
<1>2. stack'[n] = s \/ (s # <<>> /\ stack'[n] = SetTop(s, e))
  BY DEF UpdateProtection, At
<1>3. ASSUME s # <<>>, stack'[n] = SetTop(s, e)
      PROVE  ValuesOf(stack'[n]) \subseteq ValuesOf(s)
  <2>1. Last(s) \in Entry /\ Last(s).value \in ValuesOf(s)
    BY <1>1, <1>3, TopFacts, ValuesTop
  <2>2. e \in Entry /\ e.value = Last(s).value
    BY <2>1 DEF Entry
  <2> HIDE DEF e
  <2>3. ValuesOf(SetTop(s, e)) \subseteq ValuesOf(s) \cup {e.value}
    BY <1>1, <1>3, <2>2, ValuesSetTop
  <2> QED
    BY <1>3, <2>1, <2>2, <2>3
<1>4. ASSUME NEW k \in 0..level
      PROVE  Binding(stack'[n], k).value = Binding(s, k).value
  <2>1. /\ level' = level /\ level \in Nat /\ level \in 0..level
        /\ Env' = [Env EXCEPT ![level] = [m \in Names |->
             IF @[m] = Unbound THEN Unbound ELSE [@[m] EXCEPT !.protect = b]]]
    BY UpdateProtectionMaps, TypeFacts DEF Store!Protect
  <2>2. Env'[k][n] = Binding(stack'[n], k) /\ Env[k][n] = Binding(s, k)
    BY <2>1 DEF Env
  <2>3. DOMAIN Env = 0..level
    BY DEF Env
  <2> DEFINE g == [m \in Names |-> IF Env[level][m] = Unbound THEN Unbound
                                   ELSE [Env[level][m] EXCEPT !.protect = b]]
  <2>4. Env'[k] = IF k = level THEN g ELSE Env[k]
    BY <2>1, <2>3
  <2>5. CASE k # level
    BY <2>2, <2>4, <2>5
  <2>6. CASE k = level /\ Binding(s, k) = Unbound
    BY <2>2, <2>4, <2>6
  <2>7. CASE k = level /\ Binding(s, k) # Unbound
    <3>1. Binding(s, k) = View(Last(s))
      BY <1>1, <2>1, <2>7, TypeFacts, BindingTop
    <3>2. Binding(stack'[n], k) = [View(Last(s)) EXCEPT !.protect = b]
      BY <2>2, <2>4, <2>7, <3>1
    <3>3. [View(Last(s)) EXCEPT !.protect = b].value = View(Last(s)).value
      BY DEF View
    <3> QED
      BY <3>1, <3>2, <3>3
  <2> QED
    BY <2>5, <2>6, <2>7
<1> QED
  BY <1>2, <1>3, <1>4

LEMMA PureStep ==
  ASSUME Globals \subseteq Plain, IInv, Pure, [Next]_vars
  PROVE  Pure'
<1>1. ASSUME NEW b \in Bindings
      PROVE  b[1] \in Names /\ b[2] \in Data /\ (b[1] \in Plain => b[2] \notin Libraries)
  BY SymbolAssumption DEF Data, Plain
<1>2. CASE ScopeBegin
  BY <1>2 DEF ScopeBegin, globals, Pure
<1>3. ASSUME NEW close \in BOOLEAN, Unbind(ClearedNames(close)), UNCHANGED globals
      PROVE  Pure'
  <2>1. \A n \in Names : stack'[n] = stack[n] \/ stack'[n] = PopAt(stack[n], level)
    BY <1>3, Unbinds
  <2>2. \A n \in Names : libs'[n] = libs[n] \/ libs'[n] = PopAt(libs[n], level)
    BY <1>3 DEF Unbind
  <2> QED
    BY <1>3, <2>1, <2>2, PurePop DEF globals
<1>4. CASE ScopeEnd
  BY <1>3, <1>4 DEF ScopeEnd
<1>5. CASE RemoveAll
  BY <1>3, <1>5 DEF RemoveAll, globals
<1>6. ASSUME NEW S, RemoveGlobals(S) PROVE Pure'
  <2>1. \A n \in Names : stack'[n] = stack[n] \/ stack'[n] = PopAt(stack[n], level)
    BY <1>6 DEF RemoveGlobals
  <2>2. \A n \in Names : libs'[n] = libs[n] /\ globalValue'[n] \in {globalValue[n], None}
    BY <1>6 DEF RemoveGlobals
  <2> QED
    BY <2>1, <2>2, PurePop
<1>7. CASE \E b \in Bindings : Assign(b[1], b[2])
  <2>1. PICK b \in Bindings : Assign(b[1], b[2])
    BY <1>7
  <2> DEFINE n == b[1]
             v == b[2]
  <2>2. n \in Names /\ v \in Data /\ (n \in Plain => v \notin Libraries)
    BY <1>1
  <2>3. Put(n, stack[n], isGlobal[n], v)
    BY <2>1 DEF Assign
  <2> HIDE DEF n, v
  <2>4. stack[n] \in Seq(Entry) /\ (n \in Plain => ValuesOf(stack[n]) \cap Libraries = {})
    BY <2>2, TypeFacts DEF Pure
  <2> QED
    BY <2>2, <2>3, <2>4, PurePut
<1>8. CASE \E b \in Bindings : b[1] \in Resumed /\ Resume(b[1], b[2])
  BY <1>1, <1>8, PureResume
<1>9. CASE \E n \in Names : Recall(n)
  <2>1. PICK n \in Names : Recall(n)
    BY <1>9
  <2>2. Put(n, stack[n], isGlobal[n], Get(n)) /\ stack[n] # <<>>
    BY <2>1 DEF Recall
  <2>3. stack[n] \in Seq(Entry)
    BY TypeFacts
  <2>4. /\ Last(stack[n]).value \in Data
        /\ Last(stack[n]).value \in ValuesOf(stack[n])
    BY <2>2, <2>3, TopFacts, ValuesTop DEF Entry
  <2>5. Get(n) \in Data
    <3>1. isGlobal[n] => globalValue[n] \in Data
      BY TypeFacts
    <3> QED
      BY <2>2, <2>4, <3>1 DEF Get
  <2>6. n \in Plain => Get(n) \notin Libraries /\ ValuesOf(stack[n]) \cap Libraries = {}
    BY <2>2, <2>4 DEF Pure, Get
  <2> QED
    BY <2>2, <2>3, <2>5, <2>6, PurePut
<1>10. CASE \E n \in Names : Clear(n)
  <2>1. PICK n \in Names : Clear(n)
    BY <1>10
  <2>2. \A m \in Names : stack'[m] = stack[m] \/ stack'[m] = PopAt(stack[m], level)
    BY <2>1, TypeFacts DEF Clear
  <2>3. \A m \in Names : libs'[m] = libs[m] \/ libs'[m] = PopAt(libs[m], level)
    BY <2>1, TypeFacts DEF Clear
  <2>4. globalValue' = globalValue
    BY <2>1 DEF Clear, globals
  <2> QED
    BY <2>2, <2>3, <2>4, PurePop
<1>11. CASE \E n \in Resumed : ResumeRefused(n)
  <2>1. PICK n \in Names : ResumeRefused(n)
    BY <1>11, SymbolAssumption
  <2>2. Below(stack[n], level - 1) = PopAt(stack[n], level)
    BY TypeFacts, BelowStack
  <2>3. \A m \in Names : stack'[m] = stack[m] \/ stack'[m] = PopAt(stack[m], level)
    BY <2>1, <2>2, TypeFacts DEF ResumeRefused
  <2>4. libs' = libs /\ globalValue' = globalValue
    BY <2>1 DEF ResumeRefused, globals
  <2> QED
    BY <2>3, <2>4, PurePop
<1>12. CASE \E n \in Globals : Global(n)
  BY <1>12, PureGlobal
<1>13. CASE ClearGlobals \/ \E n \in Globals : ClearGlobal(n)
  BY <1>6, <1>13 DEF ClearGlobals, ClearGlobal
<1>14. CASE \E b \in BOOLEAN : UpdateProtection(b)
  <2>1. PICK b \in BOOLEAN : UpdateProtection(b)
    BY <1>14
  <2>2. libs' = libs /\ globalValue' = globalValue /\ Plain \subseteq Names
    BY <2>1 DEF UpdateProtection, globals, Plain
  <2>3. \A n \in Names : ValuesOf(stack'[n]) \subseteq ValuesOf(stack[n])
    BY <2>1, ProtectionBindings
  <2> QED
    BY <2>2, <2>3 DEF Pure
<1>15. CASE UNCHANGED vars
  BY <1>15 DEF vars, globals, Pure
<1> QED
  BY <1>2, <1>4, <1>5, <1>7, <1>8, <1>9, <1>10, <1>11, <1>12, <1>13, <1>14, <1>15 DEF Next

LEMMA InitMaps == Init => Store!Init /\ Pure
<1> SUFFICES ASSUME Init PROVE Store!Init /\ Pure
  OBVIOUS
<1>1. /\ level = 1 /\ globalValue = [n \in Names |-> None]
      /\ libs = [n \in Names |-> <<>>]
      /\ stack = [n \in Names |->
                    IF n \in Primitives THEN <<NewEntry(0, Primitive)>> ELSE <<>>]
  BY DEF Init
<1> DEFINE e == NewEntry(0, Primitive)
<1>2. /\ e \in Entry /\ e.level = 0 /\ e.value = Primitive /\ Primitive \in Data
      /\ View(e) = Store!Unshared(Primitive)
  BY DEF NewEntry, Entry, Data, View, Store!Unshared
<1>3. ASSUME NEW n \in Names
      PROVE  /\ Binding(stack[n], 0) \in {Unbound} \cup {Store!Unshared(v) : v \in Data}
             /\ Binding(stack[n], 1) = Unbound
             /\ ValuesOf(stack[n]) \subseteq {Primitive}
  <2>1. CASE stack[n] = <<>>
    <3>1. Levels(stack[n]) = {} /\ ValuesOf(stack[n]) = {}
      BY <2>1 DEF Levels, ValuesOf
    <3> QED
      BY <3>1, BindingNone
  <2>2. CASE stack[n] = <<e>>
    <3> HIDE DEF e
    <3>1. stack[n] \in Seq(Entry) /\ DOMAIN stack[n] = {1} /\ stack[n][1] = e
      BY <1>2, <2>2
    <3>2. Levels(stack[n]) = {0} /\ ValuesOf(stack[n]) = {Primitive}
      BY <1>2, <3>1 DEF Levels, ValuesOf
    <3>3. Ordered(stack[n], 0)
      BY <1>2, <3>1 DEF Ordered
    <3>4. Binding(stack[n], 0) = View(e)
      BY <1>2, <3>1, <3>3, BindingAt
    <3>5. Binding(stack[n], 1) = Unbound
      BY <3>2, BindingNone
    <3> QED
      BY <1>2, <3>2, <3>4, <3>5
  <2> QED
    BY <1>1, <2>1, <2>2
<1>4. /\ DOMAIN Env = {0, 1}
      /\ Env[0] = [n \in Names |-> Binding(stack[n], 0)]
      /\ Env[1] = [n \in Names |-> Binding(stack[n], 1)]
  BY <1>1 DEF Env
<1>5. Env[0] \in [Names -> {Unbound} \cup {Store!Unshared(v) : v \in Data}]
  BY <1>3, <1>4
<1>6. Env[1] = Store!NoBindings
  BY <1>3, <1>4 DEF Store!NoBindings
<1>7. Store!Init
  BY <1>1, <1>4, <1>5, <1>6 DEF Store!Init
<1>8. Pure
  BY <1>1, <1>3, SymbolAssumption DEF Pure, Data, Plain
<1> QED
  BY <1>7, <1>8

\* Every step of the symbol table is a step of the store, or changes nothing
\* of it.
LEMMA StepMaps ==
  ASSUME Globals \subseteq Plain, IInv, Pure, [Next]_vars
  PROVE  [Store!Next]_(Store!store)
<1>1. ASSUME NEW b \in Bindings PROVE b[1] \in Names /\ b[2] \in Data
  BY SymbolAssumption DEF Data
<1>2. CASE ScopeBegin
  BY <1>2, ScopeBeginMaps DEF Store!Next
<1>3. CASE ScopeEnd
  BY <1>3, ScopeEndMaps DEF Store!Next
<1>4. CASE RemoveAll
  BY <1>4, RemoveAllMaps DEF Store!Next
<1>5. CASE ClearGlobals
  <2>1. {n \in Names : isGlobal[n]} = {n \in Names : globalValue[n] # None}
    BY TypeFacts
  <2> QED
    BY <1>5, <2>1, RemoveGlobalsMaps DEF ClearGlobals, Store!Next
<1>6. CASE \E b \in Bindings : Assign(b[1], b[2])
  BY <1>1, <1>6, AssignMaps DEF Store!Next
<1>7. CASE \E b \in Bindings : b[1] \in Resumed /\ Resume(b[1], b[2])
  BY <1>1, <1>7, ResumeMaps DEF Store!Next
<1>8. CASE \E n \in Names : Recall(n)
  BY <1>8, RecallMaps DEF Store!Next
<1>9. CASE \E n \in Names : Clear(n)
  BY <1>9, ClearMaps DEF Store!Next
<1>10. CASE \E n \in Resumed : ResumeRefused(n)
  BY <1>10, SymbolAssumption, ResumeRefusedMaps DEF Store!Next
<1>11. CASE \E n \in Globals : Global(n)
  BY <1>11, SymbolAssumption, GlobalMaps DEF Store!Next
<1>12. CASE \E n \in Globals : ClearGlobal(n)
  BY <1>12, SymbolAssumption, RemoveGlobalsMaps DEF ClearGlobal, Store!Next
<1>13. CASE \E b \in BOOLEAN : UpdateProtection(b)
  BY <1>13, UpdateProtectionMaps DEF Store!Next
<1>14. CASE UNCHANGED vars
  <2>1. level' = level /\ stack' = stack /\ globalValue' = globalValue
    BY <1>14 DEF vars, globals
  <2>2. Env' = Env
    BY <2>1 DEF Env
  <2> QED
    BY <2>1, <2>2 DEF Store!store
<1> QED
  BY <1>2, <1>3, <1>4, <1>5, <1>6, <1>7, <1>8, <1>9, <1>10, <1>11, <1>12, <1>13, <1>14
  DEF Next

\* The stacks of context.cpp are, for the programs that run on them, scopes
\* with bindings of their own: whatever is assigned, recalled, cleared,
\* declared global, resumed or protected.
THEOREM ImplementsStoreCorrect ==
  ASSUME Globals \subseteq Plain
  PROVE  Spec => ImplementsStore
<1>1. IInv /\ Pure /\ [Next]_vars => Pure'
  BY PureStep
<1>2. IInv /\ Pure /\ [Next]_vars => [Store!Next]_(Store!store)
  BY StepMaps
<1>3. Init => Store!Init /\ Pure
  BY InitMaps
<1> QED
  BY <1>1, <1>2, <1>3, AlwaysIInv, PTL DEF Spec, ImplementsStore, Store!Spec

-----------------------------------------------------------------------------
(* The libraries.  Each is a value of a variable and, at the same level, an *)
(* entry of the stack of libraries of the name.                            *)

OneNamePerLibrary ==
  \A a, b \in Bindings : a[2] \in Libraries /\ a[2] = b[2] => a[1] = b[1]

LibrariesOf(n) == {lib \in Libraries : \E b \in Bindings : b[1] = n /\ b[2] = lib}

\* The stack of libraries of a name lists a library at a level.
Lists(q, l, lib) == \E i \in DOMAIN q : q[i].level = l /\ q[i].lib = lib

Agree ==
  \A n \in Names \ Plain :
    /\ Ordered(libs[n], level)
    /\ \A l \in 0..level : \A lib \in Libraries :
         Binding(stack[n], l).value = lib <=> Lists(libs[n], l, lib)
    /\ ValuesOf(stack[n]) \cap Libraries \subseteq LibrariesOf(n)
    /\ ~isGlobal[n]

\* A stack of libraries, its top and the rest.
LEMMA LibFacts ==
  ASSUME NEW q \in Seq(LibEntry)
  PROVE  /\ Len(q) \in Nat /\ DOMAIN q = 1..Len(q)
         /\ \A i \in DOMAIN q : q[i].level \in Nat /\ q[i].lib \in Libraries
         /\ q # <<>> => /\ Len(q) \in DOMAIN q
                        /\ Last(q) = q[Len(q)] /\ Last(q) \in LibEntry
                        /\ Front(q) \in Seq(LibEntry)
                        /\ DOMAIN Front(q) = 1..(Len(q) - 1)
                        /\ \A i \in 1..(Len(q) - 1) : Front(q)[i] = q[i]
<1>1. Len(q) \in Nat /\ DOMAIN q = 1..Len(q)
  OBVIOUS
<1>2. \A i \in DOMAIN q : q[i].level \in Nat /\ q[i].lib \in Libraries
  <2>1. \A i \in DOMAIN q : q[i] \in LibEntry
    OBVIOUS
  <2> QED
    BY <2>1 DEF LibEntry
<1>3. q # <<>> => /\ Len(q) \in DOMAIN q
                  /\ Last(q) = q[Len(q)] /\ Last(q) \in LibEntry
                  /\ Front(q) \in Seq(LibEntry)
                  /\ DOMAIN Front(q) = 1..(Len(q) - 1)
                  /\ \A i \in 1..(Len(q) - 1) : Front(q)[i] = q[i]
  BY FrontLast
<1> QED
  BY <1>1, <1>2, <1>3

LEMMA ListsPop ==
  ASSUME NEW q \in Seq(LibEntry), NEW l \in Nat \ {0}, Ordered(q, l)
  PROVE  /\ PopAt(q, l) \in Seq(LibEntry)
         /\ Ordered(PopAt(q, l), l - 1)
         /\ \A k, lib : Lists(PopAt(q, l), k, lib) <=> (k # l /\ Lists(q, k, lib))
<1> DEFINE t == PopAt(q, l)
<1>1. /\ Len(q) \in Nat /\ DOMAIN q = 1..Len(q)
      /\ \A i \in DOMAIN q : q[i].level \in Nat
  BY LibFacts
<1>2. CASE ~At(q, l)
  <2>1. t = q
    BY <1>2 DEF PopAt
  <2>2. ASSUME NEW i \in DOMAIN q PROVE q[i].level <= l - 1
    <3>1. q # <<>> /\ Len(q) \in DOMAIN q /\ Last(q) = q[Len(q)] /\ i <= Len(q)
      BY <1>1, LibFacts
    <3>2. q[Len(q)].level < l
      BY <1>1, <1>2, <3>1 DEF At, Ordered
    <3>3. q[i].level <= q[Len(q)].level
      BY <1>1, <3>1 DEF Ordered
    <3> QED
      BY <1>1, <3>1, <3>2, <3>3
  <2>3. l \in Nat /\ l \notin 0..(l - 1)
    OBVIOUS
  <2>4. \A i \in DOMAIN q : q[i].level # l
    BY <1>1, <2>2
  <2>5. Ordered(q, l - 1)
    BY <2>2 DEF Ordered
  <2> HIDE DEF t
  <2> QED
    BY <2>1, <2>4, <2>5 DEF Lists, t
<1>3. CASE At(q, l)
  <2>1. /\ q # <<>> /\ t = Front(q) /\ q[Len(q)].level = l /\ Len(q) \in DOMAIN q
        /\ t \in Seq(LibEntry) /\ DOMAIN t = 1..(Len(q) - 1)
        /\ \A i \in DOMAIN t : t[i] = q[i]
    BY <1>3, LibFacts DEF At, PopAt
  <2> HIDE DEF t
  <2>2. \A i \in DOMAIN t : t[i].level < l /\ t[i].level \in Nat /\ i \in DOMAIN q
    BY <1>1, <2>1 DEF Ordered
  <2>3. Ordered(t, l - 1)
    <3>1. \A i \in DOMAIN t : t[i].level <= l - 1
      BY <2>2
    <3>2. \A i, j \in DOMAIN t : i < j => t[i].level < t[j].level
      BY <2>1, <2>2 DEF Ordered
    <3> QED
      BY <3>1, <3>2 DEF Ordered
  <2>4. ASSUME NEW k, NEW lib
        PROVE  Lists(t, k, lib) <=> (k # l /\ Lists(q, k, lib))
    <3>1. ASSUME Lists(t, k, lib) PROVE k # l /\ Lists(q, k, lib)
      <4>1. PICK i \in DOMAIN t : t[i].level = k /\ t[i].lib = lib
        BY <3>1 DEF Lists
      <4> QED
        BY <2>1, <2>2, <4>1 DEF Lists
    <3>2. ASSUME k # l, Lists(q, k, lib) PROVE Lists(t, k, lib)
      <4>1. PICK i \in DOMAIN q : q[i].level = k /\ q[i].lib = lib
        BY <3>2 DEF Lists
      <4>2. i # Len(q)
        BY <2>1, <3>2, <4>1
      <4>3. i \in DOMAIN t
        BY <1>1, <2>1, <4>2
      <4> QED
        BY <2>1, <4>1, <4>3 DEF Lists
    <3> QED
      BY <3>1, <3>2
  <2> QED
    BY <2>1, <2>3, <2>4 DEF t
<1> QED
  BY <1>2, <1>3

\* The entry of the innermost level is the top.
LEMMA ListsTop ==
  ASSUME NEW q \in Seq(LibEntry), NEW l \in Nat, Ordered(q, l), NEW lib
  PROVE  Lists(q, l, lib) <=> At(q, l) /\ Last(q).lib = lib
<1>1. /\ Len(q) \in Nat /\ DOMAIN q = 1..Len(q)
      /\ \A i \in DOMAIN q : q[i].level \in Nat
      /\ q # <<>> => Len(q) \in DOMAIN q /\ Last(q) = q[Len(q)]
  BY LibFacts
<1>2. ASSUME Lists(q, l, lib) PROVE At(q, l) /\ Last(q).lib = lib
  <2>1. PICK i \in DOMAIN q : q[i].level = l /\ q[i].lib = lib
    BY <1>2 DEF Lists
  <2>2. q # <<>> /\ Len(q) \in DOMAIN q /\ i <= Len(q)
    BY <1>1, <2>1
  <2>3. i = Len(q)
    <3>1. i < Len(q) => l < q[Len(q)].level
      BY <2>1, <2>2 DEF Ordered
    <3>2. q[Len(q)].level <= l /\ q[Len(q)].level \in Nat
      BY <1>1, <2>2 DEF Ordered
    <3>3. i \in Nat /\ Len(q) \in Nat
      BY <1>1
    <3> QED
      BY <2>2, <3>1, <3>2, <3>3
  <2> QED
    BY <1>1, <2>1, <2>2, <2>3 DEF At
<1>3. ASSUME At(q, l), Last(q).lib = lib PROVE Lists(q, l, lib)
  BY <1>1, <1>3 DEF At, Lists
<1> QED
  BY <1>2, <1>3

LEMMA ListsPut ==
  ASSUME NEW q \in Seq(LibEntry), NEW l \in Nat \ {0}, Ordered(q, l), NEW v \in Libraries
  PROVE  LET t == LibPut(q, l, v)
         IN  /\ t \in Seq(LibEntry) /\ Ordered(t, l)
             /\ t # <<>> /\ Last(t).lib = v
             /\ \A k, lib : Lists(t, k, lib) <=>
                              IF k = l THEN lib = v ELSE Lists(q, k, lib)
<1> DEFINE e == [level |-> l, lib |-> v]
           p == PopAt(q, l)
<1>1. p \in Seq(LibEntry) /\ Ordered(p, l - 1)
  BY ListsPop
<1>2. \A k, lib : Lists(p, k, lib) <=> (k # l /\ Lists(q, k, lib))
  BY ListsPop
<1>3. LibPut(q, l, v) = Append(p, e)
  <2>1. CASE q = <<>> \/ Last(q).level < l
    <3>1. ~At(q, l)
      BY <2>1 DEF At
    <3> QED
      BY <2>1, <3>1 DEF LibPut, PopAt
  <2>2. CASE ~(q = <<>> \/ Last(q).level < l)
    <3>1. Last(q) \in LibEntry /\ Last(q).level \in Nat /\ Last(q).level <= l
      BY <2>2, LibFacts DEF Ordered
    <3>2. Last(q).level = l /\ At(q, l)
      BY <2>2, <3>1 DEF At
    <3>3. [Last(q) EXCEPT !.lib = v] = e
      BY <3>1, <3>2 DEF LibEntry
    <3> QED
      BY <2>2, <3>2, <3>3 DEF LibPut, SetTop, PopAt
  <2> QED
    BY <2>1, <2>2
<1>4. e \in LibEntry /\ e.level = l /\ e.lib = v
  BY DEF LibEntry
<1> HIDE DEF e, p
<1> DEFINE t == Append(p, e)
<1>5. /\ t \in Seq(LibEntry) /\ Len(p) \in Nat
      /\ DOMAIN p = 1..Len(p) /\ DOMAIN t = 1..(Len(p) + 1)
      /\ \A i \in 1..Len(p) : t[i] = p[i]
      /\ t[Len(p) + 1] = e
      /\ t # <<>> /\ Last(t) = e
      /\ \A i \in DOMAIN p : p[i].level \in Nat
  <2>1. /\ t \in Seq(LibEntry) /\ Len(p) \in Nat
        /\ DOMAIN p = 1..Len(p) /\ DOMAIN t = 1..(Len(p) + 1)
        /\ \A i \in 1..Len(p) : t[i] = p[i]
        /\ t[Len(p) + 1] = e
    BY <1>1, <1>4, AppendFacts
  <2>2. t # <<>> /\ Last(t) = e
    BY <1>1, <1>4 DEF Last
  <2> QED
    BY <1>1, <2>1, <2>2, LibFacts
<1> HIDE DEF t
<1>6. Ordered(t, l)
  <2>1. \A i \in DOMAIN p : p[i].level <= l - 1
    BY <1>1 DEF Ordered
  <2>2. \A i \in DOMAIN p : p[i].level < l
    BY <1>5, <2>1
  <2>3. \A i \in DOMAIN t : t[i].level <= l
    BY <1>4, <1>5, <2>2
  <2>4. \A i, j \in DOMAIN t : i < j => t[i].level < t[j].level
    <3> SUFFICES ASSUME NEW i \in DOMAIN t, NEW j \in DOMAIN t, i < j
                 PROVE  t[i].level < t[j].level
      OBVIOUS
    <3>1. i \in DOMAIN p
      BY <1>5
    <3>2. CASE j \in DOMAIN p
      BY <1>1, <1>5, <3>1, <3>2 DEF Ordered
    <3>3. CASE j = Len(p) + 1
      BY <1>4, <1>5, <2>2, <3>1, <3>3
    <3> QED
      BY <1>5, <3>2, <3>3
  <2> QED
    BY <2>3, <2>4 DEF Ordered
<1>7. ASSUME NEW k, NEW lib
      PROVE  Lists(t, k, lib) <=> IF k = l THEN lib = v ELSE Lists(q, k, lib)
  <2>1. Lists(t, k, lib) <=> Lists(p, k, lib) \/ (l = k /\ v = lib)
    BY <1>4, <1>5 DEF Lists
  <2> QED
    BY <1>2, <2>1
<1> QED
  BY <1>3, <1>4, <1>5, <1>6, <1>7 DEF t

\* A name that changes neither its values nor its libraries.
AgreeAt(n) ==
  /\ Ordered(libs[n], level)
  /\ \A l \in 0..level : \A lib \in Libraries :
       Binding(stack[n], l).value = lib <=> Lists(libs[n], l, lib)
  /\ ValuesOf(stack[n]) \cap Libraries \subseteq LibrariesOf(n)
  /\ ~isGlobal[n]

LEMMA AgreeFacts ==
  ASSUME IInv, Agree, NEW n \in Names \ Plain
  PROVE  /\ AgreeAt(n)
         /\ level \in Nat \ {0} /\ level \in Nat
         /\ stack[n] \in Seq(Entry) /\ Ordered(stack[n], level)
         /\ libs[n] \in Seq(LibEntry)
         /\ Unbound.value \notin Libraries
<1>1. AgreeAt(n)
  BY DEF Agree, AgreeAt
<1>2. Unbound.value = None
  BY DEF Unbound
<1> QED
  BY <1>1, <1>2, TypeFacts, SymbolAssumption DEF Data

\* Both lose the level.
LEMMA AgreePopped ==
  ASSUME IInv, Agree, NEW n \in Names \ Plain,
         stack'[n] = PopAt(stack[n], level), libs'[n] = PopAt(libs[n], level),
         level' \in {level, level - 1}, level' \in Nat, isGlobal'[n] = isGlobal[n]
  PROVE  AgreeAt(n)'
<1> DEFINE s == stack[n]
           q == libs[n]
<1>1. /\ AgreeAt(n) /\ level \in Nat \ {0} /\ level \in Nat
      /\ s \in Seq(Entry) /\ Ordered(s, level)
      /\ q \in Seq(LibEntry) /\ Ordered(q, level) /\ Unbound.value \notin Libraries
  BY AgreeFacts DEF AgreeAt
<1>2. /\ PopAt(q, level) \in Seq(LibEntry) /\ Ordered(PopAt(q, level), level - 1)
      /\ \A k, lib : Lists(PopAt(q, level), k, lib) <=> (k # level /\ Lists(q, k, lib))
  BY <1>1, ListsPop
<1>3. Ordered(PopAt(q, level), level')
  <2>1. \A i \in DOMAIN PopAt(q, level) : PopAt(q, level)[i].level \in Nat
    BY <1>2, LibFacts
  <2>2. \A i \in DOMAIN PopAt(q, level) : PopAt(q, level)[i].level <= level'
    BY <1>1, <1>2, <2>1 DEF Ordered
  <2> QED
    BY <1>2, <2>2 DEF Ordered
<1>4. ASSUME NEW l \in 0..level', NEW lib \in Libraries
      PROVE  Binding(stack'[n], l).value = lib <=> Lists(libs'[n], l, lib)
  <2>1. l \in 0..level
    BY <1>1
  <2>2. Binding(stack'[n], l) = IF l = level THEN Unbound ELSE Binding(s, l)
    BY <1>1, <2>1, BindingPop
  <2>3. Binding(s, l).value = lib <=> Lists(q, l, lib)
    BY <1>1, <2>1 DEF AgreeAt
  <2> QED
    BY <1>1, <1>2, <2>2, <2>3
<1>5. ValuesOf(stack'[n]) \subseteq ValuesOf(s)
  BY <1>1, ValuesPop
<1> HIDE DEF s, q
<1>6. ValuesOf(s) \cap Libraries \subseteq LibrariesOf(n) /\ ~isGlobal[n]
  BY <1>1 DEF AgreeAt, s
<1>7. ValuesOf(stack'[n]) \cap Libraries \subseteq LibrariesOf(n)
  BY <1>5, <1>6
<1>8. Ordered(libs'[n], level')
  BY <1>3 DEF q
<1> QED
  BY <1>4, <1>6, <1>7, <1>8 DEF AgreeAt

\* Neither changes.
LEMMA AgreeSame ==
  ASSUME IInv, Agree, NEW n \in Names \ Plain,
         stack'[n] = stack[n], libs'[n] = libs[n], level' = level,
         isGlobal'[n] = isGlobal[n]
  PROVE  AgreeAt(n)'
BY AgreeFacts DEF AgreeAt

\* A list without an entry of the level.
LEMMA NoTop ==
  ASSUME IInv, Agree, NEW n \in Names \ Plain
  PROVE  Binding(stack[n], level).value \notin Libraries => PopAt(libs[n], level) = libs[n]
<1>1. /\ AgreeAt(n) /\ level \in Nat /\ level \in 0..level
      /\ libs[n] \in Seq(LibEntry) /\ Ordered(libs[n], level)
  BY AgreeFacts DEF AgreeAt
<1>2. SUFFICES ASSUME Binding(stack[n], level).value \notin Libraries, At(libs[n], level)
               PROVE  FALSE
  BY DEF PopAt
<1>3. Last(libs[n]).lib \in Libraries
  BY <1>1, <1>2, LibFacts DEF At, LibEntry
<1>4. Lists(libs[n], level, Last(libs[n]).lib)
  BY <1>1, <1>2, ListsTop
<1> QED
  BY <1>1, <1>2, <1>3, <1>4 DEF AgreeAt

\* The end of a scope, and clear, whose names hold libraries or not.
LEMMA AgreeUnbind ==
  ASSUME IInv, Agree, NEW close \in BOOLEAN, Unbind(ClearedNames(close)),
         UNCHANGED globals,
         level' = level \/ (close /\ level > 1 /\ level' = level - 1)
  PROVE  Agree'
<1> SUFFICES ASSUME NEW n \in Names \ Plain PROVE AgreeAt(n)'
  BY DEF Agree, AgreeAt
<1>1. /\ level \in Nat \ {0} /\ level \in Nat /\ stack[n] \in Seq(Entry)
      /\ Ordered(stack[n], level) /\ isGlobal'[n] = isGlobal[n]
  BY AgreeFacts DEF globals
<1>2. stack'[n] = IF n \in ClearedNames(close) THEN PopAt(stack[n], level) ELSE stack[n]
  BY Unbinds
<1>3. libs'[n] = IF n \in ClearedNames(close) /\ Last(stack[n]).value \in Libraries
                   THEN PopAt(libs[n], level) ELSE libs[n]
  BY DEF Unbind
<1>4. level' \in {level, level - 1} /\ level' \in Nat
  BY <1>1
<1>5. CASE n \in ClearedNames(close)
  <2>1. At(stack[n], level) /\ stack[n] # <<>>
    BY <1>5 DEF ClearedNames, At
  <2>2. Binding(stack[n], level) = View(Last(stack[n])) /\ Last(stack[n]) \in Entry
    BY <1>1, <2>1, BindingTop, TopFacts
  <2>3. Binding(stack[n], level).value = Last(stack[n]).value
    BY <2>2, ViewFacts
  <2>4. libs'[n] = PopAt(libs[n], level)
    BY <1>3, <1>5, <2>3, NoTop
  <2> QED
    BY <1>1, <1>2, <1>4, <1>5, <2>4, AgreePopped
<1>6. CASE n \notin ClearedNames(close) /\ level' = level
  BY <1>1, <1>2, <1>3, <1>6, AgreeSame
<1>7. CASE n \notin ClearedNames(close) /\ close /\ level' = level - 1
  <2>1. ~At(stack[n], level)
    <3> SUFFICES ASSUME At(stack[n], level) PROVE FALSE
      OBVIOUS
    <3>1. level \in Levels(stack[n]) /\ level # 0
      BY <1>1, TopFacts, EntryFacts DEF At, Levels
    <3>2. n \in scopes[level + 1]
      BY <3>1, Scopes
    <3> QED
      BY <1>7, <3>2 DEF ClearedNames
  <2>2. Binding(stack[n], level).value \notin Libraries
    BY <1>1, <2>1, BindingTop, AgreeFacts
  <2>3. libs'[n] = PopAt(libs[n], level)
    BY <1>3, <1>7, <2>2, NoTop
  <2>4. stack'[n] = PopAt(stack[n], level)
    BY <1>2, <1>7, <2>1 DEF PopAt
  <2> QED
    BY <1>1, <1>4, <2>3, <2>4, AgreePopped
<1> QED
  BY <1>5, <1>6, <1>7

\* Which name loses a library that is replaced.
LEMMA UnrefNothing ==
  ASSUME NEW q, NEW S, \A m \in Names : q[m] # <<>> => Last(q[m]).lib \notin S
  PROVE  Unref(q, S) = q
BY DEF Unref

LEMMA UnrefOnly ==
  ASSUME NEW q, NEW S, NEW n \in Names, q[n] # <<>>, Last(q[n]).lib \in S,
         \A m \in Names : q[m] # <<>> /\ Last(q[m]).lib \in S => m = n
  PROVE  Unref(q, S) = [q EXCEPT ![n] = Front(q[n])]
<1> DEFINE m == CHOOSE m \in Names : q[m] # <<>> /\ Last(q[m]).lib \in S
<1>1. m = n
  OBVIOUS
<1>2. Unref(q, S) = [q EXCEPT ![m] = Front(q[m])]
  BY DEF Unref
<1> QED
  BY <1>1, <1>2

LEMMA BindingValue ==
  ASSUME NEW s \in Seq(Entry), NEW l \in Nat, Ordered(s, l), NEW k,
         Binding(s, k) # Unbound
  PROVE  Binding(s, k).value \in ValuesOf(s)
<1>1. PICK i \in DOMAIN s : s[i].level = k
  BY BindingNone DEF Levels
<1>2. s[i] \in Entry /\ Binding(s, k) = View(s[i])
  BY <1>1, BindingAt, EntryFacts
<1> QED
  BY <1>2, ViewFacts DEF ValuesOf

\* The innermost library of a name is one that is assigned to it.
LEMMA OwnLibrary ==
  ASSUME IInv, Pure, Agree, NEW m \in Names, libs[m] # <<>>
  PROVE  m \notin Plain /\ Last(libs[m]).lib \in LibrariesOf(m)
<1>1. m \in Names \ Plain
  BY DEF Pure
<1>2. /\ AgreeAt(m) /\ level \in Nat /\ stack[m] \in Seq(Entry) /\ Ordered(stack[m], level)
      /\ libs[m] \in Seq(LibEntry) /\ Unbound.value \notin Libraries
  BY <1>1, AgreeFacts
<1> DEFINE k == Last(libs[m]).level
           u == Last(libs[m]).lib
<1>3. /\ Last(libs[m]) = libs[m][Len(libs[m])] /\ Len(libs[m]) \in DOMAIN libs[m]
      /\ k \in Nat /\ u \in Libraries
  BY <1>2, LibFacts DEF LibEntry
<1>4. k \in 0..level /\ Lists(libs[m], k, u)
  BY <1>2, <1>3 DEF AgreeAt, Ordered, Lists
<1> HIDE DEF k, u
<1>5. Binding(stack[m], k).value = u
  BY <1>2, <1>3, <1>4 DEF AgreeAt
<1>6. u \in ValuesOf(stack[m])
  BY <1>2, <1>3, <1>5, BindingValue
<1>7. u \in LibrariesOf(m)
  BY <1>2, <1>3, <1>6 DEF AgreeAt
<1> QED
  BY <1>1, <1>7 DEF u

LEMMA OneOwner ==
  ASSUME OneNamePerLibrary, NEW a, NEW b, NEW lib,
         lib \in LibrariesOf(a), lib \in LibrariesOf(b)
  PROVE  a = b
BY DEF OneNamePerLibrary, LibrariesOf

\* What Context::put does to the libraries.
LEMMA PutLibs ==
  ASSUME OneNamePerLibrary, IInv, Pure, Agree, NEW n \in Names \ Plain, NEW v \in Data,
         v \in Libraries => v \in LibrariesOf(n)
  PROVE  Unref([libs EXCEPT ![n] = LibPut(@, level, v)], Replaced(stack[n], level, v))
           = [libs EXCEPT ![n] = IF v \in Libraries THEN LibPut(@, level, v)
                                 ELSE PopAt(@, level)]
<1> DEFINE s == stack[n]
           S == Replaced(s, level, v)
           q == [libs EXCEPT ![n] = LibPut(libs[n], level, v)]
<1>1. /\ AgreeAt(n) /\ level \in Nat \ {0} /\ level \in Nat /\ level \in 0..level
      /\ s \in Seq(Entry) /\ Ordered(s, level)
      /\ libs[n] \in Seq(LibEntry) /\ Ordered(libs[n], level)
      /\ Unbound.value \notin Libraries
      /\ libs \in [Names -> Seq(LibEntry)]
  BY AgreeFacts, TypeFacts DEF AgreeAt
<1>2. S \subseteq {Binding(s, level).value} \cap (Libraries \ {v})
  <2>1. CASE s # <<>> /\ Last(s).level >= level
    <3>1. Last(s) \in Entry /\ Last(s).level <= level /\ Last(s).level \in Nat
      <4>1. /\ Last(s) \in Entry /\ Last(s).level \in Nat
            /\ Last(s) = s[Len(s)] /\ Len(s) \in DOMAIN s
        BY <1>1, <2>1, TopFacts, EntryFacts
      <4>2. s[Len(s)].level <= level
        BY <1>1, <4>1 DEF Ordered
      <4> QED
        BY <4>1, <4>2
    <3>2. Binding(s, level) = View(Last(s))
      BY <1>1, <2>1, <3>1, BindingTop DEF At
    <3>3. Binding(s, level).value = Last(s).value
      BY <3>1, <3>2, ViewFacts
    <3> QED
      BY <2>1, <3>3 DEF Replaced
  <2>2. CASE ~(s # <<>> /\ Last(s).level >= level)
    BY <2>2 DEF Replaced
  <2> QED
    BY <2>1, <2>2
<1>3. S \subseteq LibrariesOf(n)
  <2>1. \A u \in S : u \in Libraries /\ Binding(s, level).value = u
    BY <1>2
  <2>2. \A u \in S : u \in ValuesOf(s)
    BY <1>1, <2>1, BindingValue
  <2> QED
    BY <1>1, <2>1, <2>2 DEF AgreeAt
<1> HIDE DEF S
<1>4. ASSUME NEW m \in Names, m # n, q[m] # <<>>, Last(q[m]).lib \in S
      PROVE  FALSE
  <2>1. q[m] = libs[m]
    BY <1>1, <1>4
  <2>2. Last(libs[m]).lib \in LibrariesOf(m)
    BY <1>4, <2>1, OwnLibrary
  <2> QED
    BY <1>3, <1>4, <2>1, <2>2, OneOwner
<1>5. CASE v \in Libraries
  <2>1. q[n] # <<>> /\ Last(q[n]).lib = v
    BY <1>1, <1>5, ListsPut
  <2>2. v \notin S
    BY <1>2
  <2> HIDE DEF q
  <2>3. Unref(q, S) = q
    BY <1>4, <2>1, <2>2, UnrefNothing
  <2> QED
    BY <1>5, <2>3 DEF q, S
<1>6. CASE v \notin Libraries
  <2>1. q = libs
    BY <1>1, <1>6 DEF LibPut
  <2> HIDE DEF q
  <2>2. CASE S = {}
    <3>1. Unref(libs, S) = libs
      BY <2>2, UnrefNothing
    <3>2. Binding(s, level).value \notin Libraries
      <4> SUFFICES ASSUME Binding(s, level).value \in Libraries PROVE FALSE
        OBVIOUS
      <4>1. At(s, level)
        BY <1>1, BindingTop
      <4>2. Last(s) \in Entry /\ Binding(s, level) = View(Last(s)) /\ s # <<>>
            /\ Last(s).level = level
        BY <1>1, <4>1, BindingTop, TopFacts DEF At
      <4>3. Last(s).value \in Libraries \ {v}
        BY <1>6, <4>2, ViewFacts
      <4>4. Last(s).value \in Replaced(s, level, v)
        BY <1>1, <4>2, <4>3 DEF Replaced
      <4> QED
        BY <2>2, <4>4 DEF S
    <3>3. PopAt(libs[n], level) = libs[n]
      BY <3>2, NoTop
    <3>4. [libs EXCEPT ![n] = PopAt(libs[n], level)] = libs
      BY <1>1, <3>3
    <3> QED
      BY <1>6, <2>1, <3>1, <3>4 DEF q, S
  <2>3. CASE S # {}
    <3>1. PICK u \in S : TRUE
      BY <2>3
    <3>2. Binding(s, level).value = u /\ u \in Libraries
      BY <1>2
    <3>3. Lists(libs[n], level, u)
      BY <1>1, <3>2 DEF AgreeAt
    <3>4. At(libs[n], level) /\ libs[n] # <<>> /\ Last(libs[n]).lib = u
      BY <1>1, <3>3, ListsTop DEF At
    <3>5. Unref(libs, S) = [libs EXCEPT ![n] = Front(libs[n])]
      BY <1>4, <2>1, <3>4, UnrefOnly
    <3> QED
      BY <1>6, <2>1, <3>4, <3>5 DEF q, S, PopAt
  <2> QED
    BY <2>2, <2>3
<1> QED
  BY <1>5, <1>6

LEMMA AgreePut ==
  ASSUME OneNamePerLibrary, IInv, Pure, Agree, NEW n \in Names, NEW v \in Data,
         v \in Libraries => v \in LibrariesOf(n),
         NEW s \in Seq(Entry), NEW g,
         n \in Plain => ValuesOf(s) \cap Libraries = {},
         n \notin Plain => s = stack[n] /\ g = isGlobal[n],
         Put(n, s, g, v), level' = level,
         \A m \in Names \ Plain : isGlobal'[m] = isGlobal[m]
  PROVE  Agree'
<1> SUFFICES ASSUME NEW m \in Names \ Plain PROVE AgreeAt(m)'
  BY DEF Agree, AgreeAt
<1> DEFINE shown == Shown(g, s, level)
<1>0. \A k \in Names : k # n => stack'[k] = stack[k]
  BY TypeFacts DEF Put
<1>1. CASE n \in Plain
  <2>1. v \notin Libraries
    BY <1>1 DEF LibrariesOf, Plain
  <2>2. (IF shown THEN {} ELSE Replaced(s, level, v)) = {}
    <3>1. s # <<>> => Last(s).value \notin Libraries
      BY <1>1, ValuesTop
    <3> QED
      BY <3>1 DEF Replaced
  <2>3. [libs EXCEPT ![n] = LibPut(@, level, v)] = libs
    BY <2>1, TypeFacts DEF LibPut
  <2>4. libs' = libs
    BY <2>2, <2>3, UnrefNothing DEF Put
  <2>5. stack'[m] = stack[m]
    BY <1>0, <1>1
  <2> QED
    BY <2>4, <2>5, AgreeSame
<1>2. CASE n \notin Plain
  <2>1. /\ AgreeAt(n) /\ level \in Nat \ {0} /\ level \in Nat
        /\ s \in Seq(Entry) /\ Ordered(s, level) /\ s = stack[n]
        /\ libs[n] \in Seq(LibEntry) /\ Ordered(libs[n], level)
        /\ Unbound.value \notin Libraries /\ ~g
    BY <1>2, AgreeFacts DEF AgreeAt
  <2>2. ~shown
    BY <2>1 DEF Shown
  <2>3. /\ stack' = [stack EXCEPT ![n] = PutValue(s, level, v)]
        /\ libs' = [libs EXCEPT ![n] = IF v \in Libraries THEN LibPut(@, level, v)
                                       ELSE PopAt(@, level)]
    BY <1>2, <2>1, <2>2, PutLibs DEF Put
  <2>4. CASE m # n
    <3>1. libs'[m] = libs[m]
      BY <2>3, <2>4, TypeFacts
    <3> QED
      BY <1>0, <2>4, <3>1, AgreeSame
  <2>5. CASE m = n
    <3> DEFINE t == PutValue(s, level, v)
               q == libs'[n]
    <3>1. stack'[n] = t /\ q = IF v \in Libraries THEN LibPut(libs[n], level, v)
                               ELSE PopAt(libs[n], level)
      BY <2>3, TypeFacts
    <3> HIDE DEF q
    <3>2. /\ q \in Seq(LibEntry) /\ Ordered(q, level)
          /\ \A k, lib : k # level => (Lists(q, k, lib) <=> Lists(libs[n], k, lib))
          /\ \A lib \in Libraries : Lists(q, level, lib) <=> lib = v
      <4>1. CASE v \in Libraries
        <5>1. LET u == LibPut(libs[n], level, v)
              IN  /\ u \in Seq(LibEntry) /\ Ordered(u, level)
                  /\ \A k, lib : Lists(u, k, lib) <=>
                                   IF k = level THEN lib = v ELSE Lists(libs[n], k, lib)
          BY <2>1, <4>1, ListsPut
        <5> QED
          BY <3>1, <4>1, <5>1
      <4>2. CASE v \notin Libraries
        <5>1. /\ q \in Seq(LibEntry) /\ Ordered(q, level - 1)
              /\ \A k, lib : Lists(q, k, lib) <=> (k # level /\ Lists(libs[n], k, lib))
          BY <2>1, <3>1, <4>2, ListsPop
        <5>2. Ordered(q, level)
          <6>1. \A i \in DOMAIN q : q[i].level \in Nat
            BY <5>1, LibFacts
          <6>2. \A i \in DOMAIN q : q[i].level <= level
            BY <2>1, <5>1, <6>1 DEF Ordered
          <6> QED
            BY <5>1, <6>2 DEF Ordered
        <5> QED
          BY <4>2, <5>1, <5>2
      <4> QED
        BY <4>1, <4>2
    <3>3. ASSUME NEW k \in 0..level, NEW lib \in Libraries
          PROVE  Binding(t, k).value = lib <=> Lists(q, k, lib)
      <4>1. Binding(t, k) = IF k # level THEN Binding(s, k)
                            ELSE Rebound(Binding(s, level), level, v)
        BY <2>1, BindingPut DEF Rebound
      <4>2. Rebound(Binding(s, level), level, v).value = v
        <5>1. CASE Binding(s, level) = Unbound
          BY <5>1 DEF Rebound, View, NewEntry
        <5>2. CASE Binding(s, level) # Unbound
          <6>1. Binding(s, level) = View(Last(s))
            BY <2>1, <5>2, BindingTop
          <6> QED
            BY <5>2, <6>1 DEF Rebound, View
        <5> QED
          BY <5>1, <5>2
      <4>3. Binding(s, k).value = lib <=> Lists(libs[n], k, lib)
        BY <2>1 DEF AgreeAt
      <4> QED
        BY <3>2, <4>1, <4>2, <4>3
    <3>4. ValuesOf(t) \cap Libraries \subseteq LibrariesOf(n)
      <4>1. ValuesOf(t) \subseteq ValuesOf(s) \cup {v}
        BY <2>1, ValuesPut
      <4>2. ValuesOf(s) \cap Libraries \subseteq LibrariesOf(n)
        BY <2>1 DEF AgreeAt
      <4> QED
        BY <4>1, <4>2
    <3>5. ~isGlobal'[n]
      BY <2>1, <2>5 DEF AgreeAt
    <3> HIDE DEF t
    <3> QED
      BY <2>5, <3>1, <3>2, <3>3, <3>4, <3>5 DEF AgreeAt, q
  <2> QED
    BY <2>4, <2>5
<1> QED
  BY <1>1, <1>2

LEMMA AgreeStep ==
  ASSUME OneNamePerLibrary, Globals \cup Resumed \subseteq Plain,
         IInv, Pure, Agree, [Next]_vars
  PROVE  Agree'
<1>1. ASSUME NEW b \in Bindings
      PROVE  /\ b[1] \in Names /\ b[2] \in Data
             /\ b[2] \in Libraries => b[2] \in LibrariesOf(b[1])
  BY SymbolAssumption DEF Data, LibrariesOf
<1>2. ASSUME \A n \in Names \ Plain : /\ stack'[n] = stack[n] /\ libs'[n] = libs[n]
                                      /\ isGlobal'[n] = isGlobal[n],
             level' = level
      PROVE  Agree'
  BY <1>2, AgreeSame DEF Agree, AgreeAt
<1>3. CASE ScopeBegin
  <2> SUFFICES ASSUME NEW n \in Names \ Plain PROVE AgreeAt(n)'
    BY DEF Agree, AgreeAt
  <2>1. /\ level' = level + 1 /\ stack' = stack /\ libs' = libs /\ isGlobal' = isGlobal
    BY <1>3 DEF ScopeBegin, globals
  <2>2. /\ AgreeAt(n) /\ level \in Nat
        /\ stack[n] \in Seq(Entry) /\ Ordered(stack[n], level)
        /\ libs[n] \in Seq(LibEntry) /\ Ordered(libs[n], level)
        /\ Unbound.value \notin Libraries
    BY AgreeFacts DEF AgreeAt
  <2>3. /\ \A i \in DOMAIN libs[n] : libs[n][i].level \in Nat
        /\ \A i \in DOMAIN libs[n] : libs[n][i].level <= level
    BY <2>2, LibFacts DEF Ordered
  <2>4. Ordered(libs'[n], level')
    <3>1. \A i \in DOMAIN libs[n] : libs[n][i].level <= level + 1
      BY <2>2, <2>3
    <3> QED
      BY <2>1, <2>2, <3>1 DEF Ordered
  <2>5. ASSUME NEW l \in 0..level', NEW lib \in Libraries
        PROVE  Binding(stack'[n], l).value = lib <=> Lists(libs'[n], l, lib)
    <3>1. CASE l \in 0..level
      BY <2>1, <2>2, <3>1 DEF AgreeAt
    <3>2. CASE l = level + 1
      <4>1. Binding(stack[n], l) = Unbound
        BY <2>2, <3>2, BindingAbove
      <4>2. ~Lists(libs[n], l, lib)
        BY <2>2, <2>3, <3>2 DEF Lists
      <4> QED
        BY <2>1, <2>2, <4>1, <4>2
    <3> QED
      BY <2>1, <2>2, <3>1, <3>2
  <2> QED
    BY <2>1, <2>2, <2>4, <2>5 DEF AgreeAt
<1>4. CASE ScopeEnd
  <2>1. Unbind(ClearedNames(TRUE)) /\ UNCHANGED globals /\ level > 1 /\ level' = level - 1
    BY <1>4 DEF ScopeEnd
  <2> QED
    BY <2>1, AgreeUnbind
<1>5. CASE RemoveAll
  <2>1. Unbind(ClearedNames(FALSE)) /\ UNCHANGED globals /\ level' = level
    BY <1>5 DEF RemoveAll
  <2> QED
    BY <2>1, AgreeUnbind
<1>6. CASE ClearGlobals \/ \E n \in Globals : ClearGlobal(n)
  <2>1. PICK S \in SUBSET Plain : RemoveGlobals(S)
    <3>1. {n \in Names : isGlobal[n]} \subseteq Plain
      BY DEF Agree
    <3>2. ClearGlobals => RemoveGlobals({n \in Names : isGlobal[n]})
      BY DEF ClearGlobals
    <3>3. ASSUME NEW n \in Globals, ClearGlobal(n)
          PROVE  \E S \in SUBSET Plain : RemoveGlobals(S)
      <4>1. {n} \in SUBSET Plain /\ RemoveGlobals({n})
        BY <3>3 DEF ClearGlobal
      <4> QED
        BY <4>1
    <3> HIDE DEF Plain
    <3> QED
      BY <1>6, <3>1, <3>2, <3>3
  <2>2. level' = level /\ libs' = libs
    BY <2>1 DEF RemoveGlobals
  <2>3. \A n \in Names \ Plain : stack'[n] = stack[n]
    BY <2>1 DEF RemoveGlobals
  <2>4. \A n \in Names \ Plain : isGlobal'[n] = isGlobal[n]
    <3> TAKE n \in Names \ Plain
    <3>1. isGlobal' = [m \in Names |-> isGlobal[m] /\ m \notin S]
      BY <2>1 DEF RemoveGlobals
    <3>2. isGlobal'[n] = (isGlobal[n] /\ n \notin S)
      BY <3>1
    <3>3. n \notin S /\ isGlobal[n] \in BOOLEAN
      BY <2>1, TypeFacts
    <3> QED
      BY <3>2, <3>3
  <2> QED
    BY <1>2, <2>2, <2>3, <2>4
<1>7. CASE \E b \in Bindings : Assign(b[1], b[2])
  <2>1. PICK b \in Bindings : Assign(b[1], b[2])
    BY <1>7
  <2> DEFINE n == b[1]
             v == b[2]
  <2>2. n \in Names /\ v \in Data /\ (v \in Libraries => v \in LibrariesOf(n))
    BY <1>1
  <2>3. Put(n, stack[n], isGlobal[n], v) /\ level' = level /\ isGlobal' = isGlobal
    BY <2>1 DEF Assign
  <2> HIDE DEF n, v
  <2>4. stack[n] \in Seq(Entry) /\ (n \in Plain => ValuesOf(stack[n]) \cap Libraries = {})
    BY <2>2, TypeFacts DEF Pure
  <2> QED
    BY <2>2, <2>3, <2>4, AgreePut
<1>8. CASE \E b \in Bindings : b[1] \in Resumed /\ Resume(b[1], b[2])
  <2>1. PICK b \in Bindings : b[1] \in Resumed /\ Resume(b[1], b[2])
    BY <1>8
  <2> DEFINE n == b[1]
             v == b[2]
             i == level - 1
             low == PopAt(stack[n], level)
             S == IF Shown(isGlobal[n], low, i) THEN {} ELSE Replaced(low, i, v)
             q == Unref(libs, S)
  <2>2. n \in Plain /\ n \in Names /\ level \in Nat \ {0}
        /\ stack[n] \in Seq(Entry) /\ Ordered(stack[n], level)
    BY <1>1, <2>1, TypeFacts
  <2>3. Below(stack[n], i) = low /\ low \in Seq(Entry) /\ ValuesOf(low) \subseteq ValuesOf(stack[n])
    BY <2>2, BelowStack, PopAtStack, ValuesPop
  <2> HIDE DEF low
  <2>4. S = {}
    <3>1. ValuesOf(low) \cap Libraries = {}
      BY <2>2, <2>3 DEF Pure
    <3>2. low # <<>> => Last(low).value \notin Libraries
      BY <2>3, <3>1, ValuesTop
    <3> QED
      BY <3>2 DEF Replaced
  <2>5. q = libs
    BY <2>4, UnrefNothing
  <2> HIDE DEF S
  <2>6. /\ level' = level /\ isGlobal' = isGlobal
        /\ \A m \in Names : m # n => stack'[m] = stack[m]
        /\ libs' = [q EXCEPT ![n] = LibPut(Below(q[n], i), i, v) \o Above(q[n], i)]
    BY <2>1, <2>3, TypeFacts DEF Resume, S
  <2>7. \A m \in Names : m # n => libs'[m] = libs[m]
    BY <2>5, <2>6, TypeFacts
  <2> HIDE DEF n
  <2> QED
    BY <1>2, <2>2, <2>6, <2>7
<1>9. CASE \E n \in Names : Recall(n)
  <2>1. PICK n \in Names : Recall(n)
    BY <1>9
  <2>2. /\ Put(n, stack[n], isGlobal[n], Get(n)) /\ stack[n] # <<>>
        /\ level' = level /\ isGlobal' = isGlobal
    BY <2>1 DEF Recall
  <2>3. stack[n] \in Seq(Entry)
    BY TypeFacts
  <2>4. /\ Last(stack[n]).value \in Data
        /\ Last(stack[n]).value \in ValuesOf(stack[n])
    BY <2>2, <2>3, TopFacts, ValuesTop DEF Entry
  <2>5. Get(n) \in Data
    <3>1. isGlobal[n] => globalValue[n] \in Data
      BY TypeFacts
    <3> QED
      BY <2>2, <2>4, <3>1 DEF Get
  <2>6. n \in Plain => Get(n) \notin Libraries /\ ValuesOf(stack[n]) \cap Libraries = {}
    BY <2>2, <2>4 DEF Pure, Get
  <2>7. Get(n) \in Libraries => Get(n) \in LibrariesOf(n)
    <3> SUFFICES ASSUME Get(n) \in Libraries, n \notin Plain PROVE Get(n) \in LibrariesOf(n)
      BY <2>6
    <3>1. ~isGlobal[n] /\ ValuesOf(stack[n]) \cap Libraries \subseteq LibrariesOf(n)
      BY DEF Agree
    <3>2. Get(n) = Last(stack[n]).value
      BY <2>2, <3>1 DEF Get
    <3> QED
      BY <2>4, <3>1, <3>2
  <2> QED
    BY <2>2, <2>3, <2>5, <2>6, <2>7, AgreePut
<1>10. CASE \E n \in Names : Clear(n)
  <2>1. PICK n \in Names : Clear(n)
    BY <1>10
  <2>2. /\ level' = level /\ isGlobal' = isGlobal /\ level \in Nat
        /\ \A m \in Names : stack'[m] = IF m = n THEN PopAt(stack[n], level) ELSE stack[m]
        /\ \A m \in Names : libs'[m] = IF m = n THEN PopAt(libs[n], level) ELSE libs[m]
    BY <2>1, TypeFacts DEF Clear, globals
  <2> SUFFICES ASSUME NEW m \in Names \ Plain PROVE AgreeAt(m)'
    BY DEF Agree, AgreeAt
  <2>3. CASE m = n
    <3>1. stack'[m] = PopAt(stack[m], level) /\ libs'[m] = PopAt(libs[m], level)
      BY <2>2, <2>3
    <3> QED
      BY <2>2, <3>1, AgreePopped
  <2>4. CASE m # n
    BY <2>2, <2>4, AgreeSame
  <2> QED
    BY <2>3, <2>4
<1>11. CASE \E n \in Resumed : ResumeRefused(n)
  <2>1. PICK n \in Resumed : ResumeRefused(n)
    BY <1>11
  <2>2. /\ level' = level /\ isGlobal' = isGlobal /\ libs' = libs /\ n \in Plain
        /\ \A m \in Names : m # n => stack'[m] = stack[m]
    BY <2>1, TypeFacts DEF ResumeRefused, globals
  <2> QED
    BY <1>2, <2>2
<1>12. CASE \E n \in Globals : Global(n)
  <2>1. PICK n \in Globals : Global(n)
    BY <1>12
  <2> DEFINE v == IF isGlobal[n] THEN globalValue[n] ELSE Get(n)
             w == IF v = None THEN Empty ELSE v
             e == IF At(stack[n], level) THEN Last(stack[n]) ELSE NewEntry(level, Empty)
             d == [e EXCEPT !.visible = TRUE]
             s == Append(PopAt(stack[n], level), d)
  <2>2. /\ level' = level /\ isGlobal' = [isGlobal EXCEPT ![n] = TRUE] /\ n \in Plain
        /\ Put(n, s, TRUE, w)
    BY <2>1 DEF Global
  <2>3. \A m \in Names \ Plain : isGlobal'[m] = isGlobal[m]
    BY <2>2, TypeFacts
  <2>4. /\ w \in Data /\ w \notin Libraries
        /\ s \in Seq(Entry) /\ ValuesOf(s) \cap Libraries = {}
    BY <2>2, GlobalValues
  <2> HIDE DEF s, w
  <2>5. n \in Names
    BY <2>2 DEF Plain
  <2> QED
    BY <2>2, <2>3, <2>4, <2>5, AgreePut
<1>13. CASE \E b \in BOOLEAN : UpdateProtection(b)
  <2>1. PICK b \in BOOLEAN : UpdateProtection(b)
    BY <1>13
  <2>2. /\ level' = level /\ isGlobal' = isGlobal /\ libs' = libs
        /\ level \in Nat /\ level \in 0..level
    BY <2>1, TypeFacts DEF UpdateProtection, globals
  <2> SUFFICES ASSUME NEW n \in Names \ Plain PROVE AgreeAt(n)'
    BY DEF Agree, AgreeAt
  <2>3. AgreeAt(n) /\ Unbound.value \notin Libraries
    BY AgreeFacts
  <2>4. ASSUME NEW k \in 0..level
        PROVE  Binding(stack'[n], k).value = Binding(stack[n], k).value
    BY <2>1, ProtectionBindings
  <2>5. ValuesOf(stack'[n]) \subseteq ValuesOf(stack[n])
    BY <2>1, ProtectionBindings
  <2> QED
    BY <2>2, <2>3, <2>4, <2>5 DEF AgreeAt
<1>14. CASE UNCHANGED vars
  BY <1>2, <1>14 DEF vars, globals
<1> QED
  BY <1>3, <1>4, <1>5, <1>6, <1>7, <1>8, <1>9, <1>10, <1>11, <1>12, <1>13, <1>14 DEF Next

\* "It is contained in libraries and variables" (library.hxx): when each
\* library has one name, which is neither global nor resumed, the libraries
\* list none that a variable does not hold.
THEOREM LibrariesHeldCorrect ==
  ASSUME OneNamePerLibrary, Globals \cup Resumed \subseteq Plain
  PROVE  Spec => []LibrariesHeld
<1>1. Init => Pure /\ Agree
  <2>1. Init => Pure
    BY InitMaps
  <2>2. Init => Agree
    <3> SUFFICES ASSUME Init PROVE Agree
      OBVIOUS
    <3> SUFFICES ASSUME NEW n \in Names \ Plain PROVE AgreeAt(n)
      BY DEF Agree, AgreeAt
    <3>1. libs[n] = <<>> /\ ~isGlobal[n] /\ level = 1
      BY DEF Init
    <3>2. IInv
      BY InitIInv
    <3>3. stack[n] \in Seq(Entry) /\ Ordered(stack[n], level) /\ level \in Nat
      BY <3>2, TypeFacts
    <3>4. ValuesOf(stack[n]) \cap Libraries = {}
      <4>1. ValuesOf(stack[n]) \subseteq {Primitive}
        <5>1. CASE stack[n] = <<>>
          BY <5>1 DEF ValuesOf
        <5>2. CASE stack[n] = <<NewEntry(0, Primitive)>>
          BY <5>2 DEF ValuesOf, NewEntry
        <5> QED
          BY <5>1, <5>2 DEF Init
      <4> QED
        BY <4>1, SymbolAssumption
    <3>5. ASSUME NEW k, NEW lib \in Libraries PROVE Binding(stack[n], k).value # lib
      <4>1. Unbound.value \notin Libraries
        BY SymbolAssumption DEF Unbound, Data
      <4> QED
        BY <3>3, <3>4, <4>1, BindingValue
    <3> QED
      BY <3>1, <3>4, <3>5 DEF AgreeAt, Ordered, Lists
  <2> QED
    BY <2>1, <2>2
<1>2. IInv /\ Pure /\ Agree /\ [Next]_vars => (Pure /\ Agree)'
  BY PureStep, AgreeStep
<1>3. IInv /\ Pure /\ Agree => LibrariesHeld
  <2> SUFFICES ASSUME IInv, Pure, Agree, NEW n \in Names, NEW i \in DOMAIN libs[n]
               PROVE  Held(libs[n][i].lib)
    BY DEF LibrariesHeld
  <2> DEFINE k == libs[n][i].level
             lib == libs[n][i].lib
  <2>1. n \in Names \ Plain
    BY DEF Pure
  <2>2. /\ AgreeAt(n) /\ level \in Nat /\ stack[n] \in Seq(Entry) /\ Ordered(stack[n], level)
        /\ libs[n] \in Seq(LibEntry) /\ Unbound.value \notin Libraries
    BY <2>1, AgreeFacts
  <2>3. k \in Nat /\ k <= level /\ lib \in Libraries /\ Lists(libs[n], k, lib)
    BY <2>2, LibFacts DEF AgreeAt, Ordered, Lists
  <2> HIDE DEF k, lib
  <2>4. Binding(stack[n], k).value = lib
    BY <2>2, <2>3 DEF AgreeAt
  <2>5. lib \in ValuesOf(stack[n])
    BY <2>2, <2>3, <2>4, BindingValue
  <2> QED
    BY <2>5 DEF Held, ValuesOf, lib
<1> QED
  BY <1>1, <1>2, <1>3, AlwaysIInv, PTL DEF Spec

=============================================================================
