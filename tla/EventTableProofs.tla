-------------------------- MODULE EventTableProofs --------------------------
(***************************************************************************)
(* The native event table of rocs.c: the two walks over the supported      *)
(* functions agree, what is supported is offered, and a write goes through *)
(* an event that describes it, for any number of devices and functions.    *)
(***************************************************************************)
EXTENDS EventTable, FiniteSetTheorems, SequenceTheorems, WellFoundedInduction, TLAPS

-----------------------------------------------------------------------------
(* The walks are recursive functions on intervals: that they exist is an   *)
(* induction.                                                              *)

\* A set of numbers that is not empty has a least one.
LEMMA LeastOf ==
  ASSUME NEW T, T \subseteq Nat, T # {}
  PROVE  \E n \in T : \A m \in T : ~(m < n)
<1>1. PICK R : R = OpToRel(<, Nat)
  OBVIOUS
<1>2. IsWellFoundedOn(R, Nat)
  BY <1>1, NatLessThanWellFounded
<1>3. PICK n \in T : \A m \in T : ~ (<<m, n>> \in R)
  BY <1>2, WFMin
<1>4. \A m \in T : m < n => <<m, n>> \in R
  BY <1>1 DEF OpToRel
<1> QED
  BY <1>3, <1>4

LEMMA SetInduction ==
  ASSUME NEW S, 0 \in S, \A n \in Nat : n \in S => n + 1 \in S
  PROVE  Nat \subseteq S
<1>1. SUFFICES ASSUME Nat \ S # {} PROVE FALSE
  OBVIOUS
<1>2. PICK n \in Nat \ S : \A m \in Nat \ S : ~(m < n)
  BY <1>1, LeastOf
<1>3. n - 1 \in Nat /\ n - 1 < n /\ n = (n - 1) + 1
  BY <1>2
<1> QED
  BY <1>2, <1>3

\* The first walk over the functions of a device is the recursion it states.
LEMMA CountGo ==
  ASSUME NEW c, NEW d, NEW N \in Nat, N = Len(system[d].functions), NEW C, C = CountList(c, d)
  PROVE  /\ C[0] = c
         /\ \A k \in 1 .. N : C[k] = CountEntry(C[k - 1], d, system[d].functions[k])
<1> DEFINE G(k, X) == CountEntry(X, d, system[d].functions[k])
           F(V, n) == [k \in 0 .. n |-> IF k = 0 THEN c ELSE G(k, V[k - 1])]
           Good == {n \in Nat : \E V : V = F(V, n)}
<1>1. 0 \in Good
  <2>1. PICK V : V = [k \in 0 .. 0 |-> c]
    OBVIOUS
  <2>2. V = F(V, 0)
    BY <2>1
  <2> QED
    BY <2>2
<1>2. ASSUME NEW n \in Nat, n \in Good
      PROVE  n + 1 \in Good
  <2>1. PICK V : V = F(V, n)
    BY <1>2
  <2>2. PICK U : U = [k \in 0 .. n + 1 |-> IF k = n + 1 THEN G(n + 1, V[n]) ELSE V[k]]
    OBVIOUS
  <2> HIDE DEF G
  <2>3. ASSUME NEW k \in 0 .. n + 1
        PROVE  U[k] = IF k = 0 THEN c ELSE G(k, U[k - 1])
    <3>1. CASE k = 0
      <4>1. U[0] = V[0] /\ V[0] = c
        BY <2>1, <2>2
      <4> QED
        BY <3>1, <4>1
    <3>2. CASE k \in 1 .. n
      <4>1. k - 1 \in 0 .. n /\ k \in 0 .. n /\ k # n + 1 /\ k - 1 # n + 1
        BY <3>2
      <4>2. U[k] = V[k] /\ U[k - 1] = V[k - 1]
        BY <2>2, <4>1
      <4>3. V[k] = G(k, V[k - 1])
        BY <2>1, <3>2, <4>1
      <4> QED
        BY <3>2, <4>2, <4>3
    <3>3. CASE k = n + 1
      <4>1. U[k] = G(n + 1, V[n])
        BY <2>2, <3>3
      <4>2. k - 1 = n /\ U[n] = V[n]
        BY <2>2, <3>3
      <4> QED
        BY <3>3, <4>1, <4>2
    <3> QED
      BY <3>1, <3>2, <3>3
  <2>4. U = F(U, n + 1)
    BY <2>2, <2>3
  <2> QED
    BY <2>4
<1>3. \E V : V = F(V, N)
  <2> HIDE DEF F
  <2>1. Nat \subseteq Good
    BY ONLY <1>1, <1>2, SetInduction
  <2> QED
    BY <2>1
<1>4. C = CHOOSE V : V = F(V, N)
  BY DEF CountList
<1>5. C = F(C, N)
  <2> HIDE DEF F
  <2> QED
    BY <1>3, <1>4
<1> HIDE DEF G
<1>6. 0 \in 0 .. N /\ \A k \in 1 .. N : k \in 0 .. N /\ k # 0
  OBVIOUS
<1>7. C[0] = c /\ \A k \in 1 .. N : C[k] = G(k, C[k - 1])
  BY <1>5, <1>6
<1> QED
  BY <1>7 DEF G

\* So is adding a sequence of events.
LEMMA AddGo ==
  ASSUME NEW t, NEW evs, NEW N \in Nat, N = Len(evs), NEW A, A = Added(t, evs)
  PROVE  /\ A[0] = t
         /\ \A k \in 1 .. N : A[k] = Add(A[k - 1], evs[k])
<1> DEFINE G(k, X) == Add(X, evs[k])
           F(V, n) == [k \in 0 .. n |-> IF k = 0 THEN t ELSE G(k, V[k - 1])]
           Good == {n \in Nat : \E V : V = F(V, n)}
<1>1. 0 \in Good
  <2>1. PICK V : V = [k \in 0 .. 0 |-> t]
    OBVIOUS
  <2>2. V = F(V, 0)
    BY <2>1
  <2> QED
    BY <2>2
<1>2. ASSUME NEW n \in Nat, n \in Good
      PROVE  n + 1 \in Good
  <2>1. PICK V : V = F(V, n)
    BY <1>2
  <2>2. PICK U : U = [k \in 0 .. n + 1 |-> IF k = n + 1 THEN G(n + 1, V[n]) ELSE V[k]]
    OBVIOUS
  <2> HIDE DEF G
  <2>3. ASSUME NEW k \in 0 .. n + 1
        PROVE  U[k] = IF k = 0 THEN t ELSE G(k, U[k - 1])
    <3>1. CASE k = 0
      <4>1. U[0] = V[0] /\ V[0] = t
        BY <2>1, <2>2
      <4> QED
        BY <3>1, <4>1
    <3>2. CASE k \in 1 .. n
      <4>1. k - 1 \in 0 .. n /\ k \in 0 .. n /\ k # n + 1 /\ k - 1 # n + 1
        BY <3>2
      <4>2. U[k] = V[k] /\ U[k - 1] = V[k - 1]
        BY <2>2, <4>1
      <4>3. V[k] = G(k, V[k - 1])
        BY <2>1, <3>2, <4>1
      <4> QED
        BY <3>2, <4>2, <4>3
    <3>3. CASE k = n + 1
      <4>1. U[k] = G(n + 1, V[n])
        BY <2>2, <3>3
      <4>2. k - 1 = n /\ U[n] = V[n]
        BY <2>2, <3>3
      <4> QED
        BY <3>3, <4>1, <4>2
    <3> QED
      BY <3>1, <3>2, <3>3
  <2>4. U = F(U, n + 1)
    BY <2>2, <2>3
  <2> QED
    BY <2>4
<1>3. \E V : V = F(V, N)
  <2> HIDE DEF F
  <2>1. Nat \subseteq Good
    BY ONLY <1>1, <1>2, SetInduction
  <2> QED
    BY <2>1
<1>4. A = CHOOSE V : V = F(V, N)
  BY DEF Added
<1>5. A = F(A, N)
  <2> HIDE DEF F
  <2> QED
    BY <1>3, <1>4
<1> HIDE DEF G
<1>6. 0 \in 0 .. N /\ \A k \in 1 .. N : k \in 0 .. N /\ k # 0
  OBVIOUS
<1>7. A[0] = t /\ \A k \in 1 .. N : A[k] = G(k, A[k - 1])
  BY <1>5, <1>6
<1> QED
  BY <1>7 DEF G

\* So is the second walk.
LEMMA FillGo ==
  ASSUME NEW t, NEW d, NEW N \in Nat, N = Len(system[d].functions), NEW T, T = FillList(t, d)
  PROVE  /\ T[0] = t
         /\ \A k \in 1 .. N : T[k] = FillEntry(T[k - 1], d, system[d].functions[k])
<1> DEFINE G(k, X) == FillEntry(X, d, system[d].functions[k])
           F(V, n) == [k \in 0 .. n |-> IF k = 0 THEN t ELSE G(k, V[k - 1])]
           Good == {n \in Nat : \E V : V = F(V, n)}
<1>1. 0 \in Good
  <2>1. PICK V : V = [k \in 0 .. 0 |-> t]
    OBVIOUS
  <2>2. V = F(V, 0)
    BY <2>1
  <2> QED
    BY <2>2
<1>2. ASSUME NEW n \in Nat, n \in Good
      PROVE  n + 1 \in Good
  <2>1. PICK V : V = F(V, n)
    BY <1>2
  <2>2. PICK U : U = [k \in 0 .. n + 1 |-> IF k = n + 1 THEN G(n + 1, V[n]) ELSE V[k]]
    OBVIOUS
  <2> HIDE DEF G
  <2>3. ASSUME NEW k \in 0 .. n + 1
        PROVE  U[k] = IF k = 0 THEN t ELSE G(k, U[k - 1])
    <3>1. CASE k = 0
      <4>1. U[0] = V[0] /\ V[0] = t
        BY <2>1, <2>2
      <4> QED
        BY <3>1, <4>1
    <3>2. CASE k \in 1 .. n
      <4>1. k - 1 \in 0 .. n /\ k \in 0 .. n /\ k # n + 1 /\ k - 1 # n + 1
        BY <3>2
      <4>2. U[k] = V[k] /\ U[k - 1] = V[k - 1]
        BY <2>2, <4>1
      <4>3. V[k] = G(k, V[k - 1])
        BY <2>1, <3>2, <4>1
      <4> QED
        BY <3>2, <4>2, <4>3
    <3>3. CASE k = n + 1
      <4>1. U[k] = G(n + 1, V[n])
        BY <2>2, <3>3
      <4>2. k - 1 = n /\ U[n] = V[n]
        BY <2>2, <3>3
      <4> QED
        BY <3>3, <4>1, <4>2
    <3> QED
      BY <3>1, <3>2, <3>3
  <2>4. U = F(U, n + 1)
    BY <2>2, <2>3
  <2> QED
    BY <2>4
<1>3. \E V : V = F(V, N)
  <2> HIDE DEF F
  <2>1. Nat \subseteq Good
    BY ONLY <1>1, <1>2, SetInduction
  <2> QED
    BY <2>1
<1>4. T = CHOOSE V : V = F(V, N)
  BY DEF FillList
<1>5. T = F(T, N)
  <2> HIDE DEF F
  <2> QED
    BY <1>3, <1>4
<1> HIDE DEF G
<1>6. 0 \in 0 .. N /\ \A k \in 1 .. N : k \in 0 .. N /\ k # 0
  OBVIOUS
<1>7. T[0] = t /\ \A k \in 1 .. N : T[k] = G(k, T[k - 1])
  BY <1>5, <1>6
<1> QED
  BY <1>7 DEF G

\* So are the events of the ways from a device.
LEMMA WaysGo ==
  ASSUME NEW d, NEW N \in Nat, N = Len(system), NEW W, W = WaysOf(d)
  PROVE  /\ W[0] = <<>>
         /\ \A k \in 1 .. N : W[k] = W[k - 1] \o WayOf(d, k)
<1> DEFINE G(k, X) == X \o WayOf(d, k)
           F(V, n) == [k \in 0 .. n |-> IF k = 0 THEN <<>> ELSE G(k, V[k - 1])]
           Good == {n \in Nat : \E V : V = F(V, n)}
<1>1. 0 \in Good
  <2>1. PICK V : V = [k \in 0 .. 0 |-> <<>>]
    OBVIOUS
  <2>2. V = F(V, 0)
    BY <2>1
  <2> QED
    BY <2>2
<1>2. ASSUME NEW n \in Nat, n \in Good
      PROVE  n + 1 \in Good
  <2>1. PICK V : V = F(V, n)
    BY <1>2
  <2>2. PICK U : U = [k \in 0 .. n + 1 |-> IF k = n + 1 THEN G(n + 1, V[n]) ELSE V[k]]
    OBVIOUS
  <2> HIDE DEF G
  <2>3. ASSUME NEW k \in 0 .. n + 1
        PROVE  U[k] = IF k = 0 THEN <<>> ELSE G(k, U[k - 1])
    <3>1. CASE k = 0
      <4>1. U[0] = V[0] /\ V[0] = <<>>
        BY <2>1, <2>2
      <4> QED
        BY <3>1, <4>1
    <3>2. CASE k \in 1 .. n
      <4>1. k - 1 \in 0 .. n /\ k \in 0 .. n /\ k # n + 1 /\ k - 1 # n + 1
        BY <3>2
      <4>2. U[k] = V[k] /\ U[k - 1] = V[k - 1]
        BY <2>2, <4>1
      <4>3. V[k] = G(k, V[k - 1])
        BY <2>1, <3>2, <4>1
      <4> QED
        BY <3>2, <4>2, <4>3
    <3>3. CASE k = n + 1
      <4>1. U[k] = G(n + 1, V[n])
        BY <2>2, <3>3
      <4>2. k - 1 = n /\ U[n] = V[n]
        BY <2>2, <3>3
      <4> QED
        BY <3>3, <4>1, <4>2
    <3> QED
      BY <3>1, <3>2, <3>3
  <2>4. U = F(U, n + 1)
    BY <2>2, <2>3
  <2> QED
    BY <2>4
<1>3. \E V : V = F(V, N)
  <2> HIDE DEF F
  <2>1. Nat \subseteq Good
    BY ONLY <1>1, <1>2, SetInduction
  <2> QED
    BY <2>1
<1>4. W = CHOOSE V : V = F(V, N)
  BY DEF WaysOf
<1>5. W = F(W, N)
  <2> HIDE DEF F
  <2> QED
    BY <1>3, <1>4
<1> HIDE DEF G
<1>6. 0 \in 0 .. N /\ \A k \in 1 .. N : k \in 0 .. N /\ k # 0
  OBVIOUS
<1>7. W[0] = <<>> /\ \A k \in 1 .. N : W[k] = G(k, W[k - 1])
  BY <1>5, <1>6
<1> QED
  BY <1>7 DEF G

-----------------------------------------------------------------------------
(* What is added to the table.                                             *)

EventForm(ev) ==
  ev = [name |-> ev.name, f |-> ev.f, device |-> ev.device, variant |-> ev.variant,
        sub |-> ev.sub, mode |-> ev.mode, descr |-> ev.descr]
IsEvents(s) == \E X : s \in Seq(X) /\ \A ev \in X : EventForm(ev)

\* The table while it is filled.
Form(t) ==
  /\ t = [events |-> t.events, overrun |-> t.overrun, names |-> t.names,
          unnamed |-> t.unnamed, seen |-> t.seen, fault |-> t.fault]
  /\ IsEvents(t.events)
  /\ t.overrun \in BOOLEAN

LEMMA SomeEvents ==
  ASSUME NEW s, IsEvents(s)
  PROVE  Len(s) \in Nat /\ DOMAIN s = 1 .. Len(s) /\ \A i \in DOMAIN s : EventForm(s[i])
BY DEF IsEvents

LEMMA AreEvents ==
  ASSUME NEW n \in Nat, NEW s, s = [i \in 1 .. n |-> s[i]], \A i \in 1 .. n : EventForm(s[i])
  PROVE  IsEvents(s) /\ Len(s) = n
<1>1. PICK X : X = {s[i] : i \in 1 .. n}
  OBVIOUS
<1>2. s \in Seq(X) /\ Len(s) = n
  BY <1>1
<1>3. \A ev \in X : EventForm(ev)
  BY <1>1
<1> QED
  BY <1>2, <1>3 DEF IsEvents

LEMMA Appended ==
  ASSUME NEW s, IsEvents(s), NEW ev, EventForm(ev), NEW n, n = Len(s)
  PROVE  /\ IsEvents(Append(s, ev)) /\ n \in Nat /\ Len(Append(s, ev)) = n + 1
         /\ \A i \in 1 .. n : Append(s, ev)[i] = s[i]
         /\ Append(s, ev)[n + 1] = ev
<1>1. PICK X : s \in Seq(X) /\ \A x \in X : EventForm(x)
  BY DEF IsEvents
<1>2. PICK Y : Y = X \cup {ev}
  OBVIOUS
<1>3. s \in Seq(Y) /\ ev \in Y
  BY <1>1, <1>2
<1>4. /\ Append(s, ev) \in Seq(Y) /\ n \in Nat /\ Len(Append(s, ev)) = n + 1
      /\ \A i \in 1 .. n : Append(s, ev)[i] = s[i]
      /\ Append(s, ev)[n + 1] = ev
  BY <1>3
<1>5. \A x \in Y : EventForm(x)
  BY <1>1, <1>2
<1> QED
  BY <1>4, <1>5 DEF IsEvents

Members(s) == {s[j] : j \in DOMAIN s}
LEMMA Joined ==
  ASSUME NEW s, IsEvents(s), NEW r, IsEvents(r)
  PROVE  IsEvents(s \o r) /\ Len(s \o r) = Len(s) + Len(r)
         /\ Members(s \o r) \subseteq Members(s) \cup Members(r)
<1>1. PICK X : s \in Seq(X) /\ \A x \in X : EventForm(x)
  BY DEF IsEvents
<1>2. PICK Y : r \in Seq(Y) /\ \A x \in Y : EventForm(x)
  BY DEF IsEvents
<1>3. PICK Z : Z = X \cup Y
  OBVIOUS
<1>4. s \in Seq(Z) /\ r \in Seq(Z)
  BY <1>1, <1>2, <1>3
<1>5. s \o r \in Seq(Z) /\ Len(s \o r) = Len(s) + Len(r)
  BY <1>4, ConcatProperties
<1>6. \A x \in Z : EventForm(x)
  BY <1>1, <1>2, <1>3
<1>7. ASSUME NEW i \in DOMAIN (s \o r)
      PROVE  (s \o r)[i] \in {s[j] : j \in DOMAIN s} \cup {r[j] : j \in DOMAIN r}
  <2>1. /\ i \in 1 .. Len(s) + Len(r) /\ Len(s) \in Nat /\ Len(r) \in Nat
        /\ DOMAIN s = 1 .. Len(s) /\ DOMAIN r = 1 .. Len(r)
    BY <1>4, <1>5
  <2>2. (s \o r)[i] = IF i <= Len(s) THEN s[i] ELSE r[i - Len(s)]
    BY <1>4, <2>1, ConcatProperties
  <2>3. CASE i <= Len(s)
    BY <2>1, <2>2, <2>3
  <2>4. CASE ~(i <= Len(s))
    <3>1. i - Len(s) \in 1 .. Len(r)
      BY <2>1, <2>4
    <3> QED
      BY <2>1, <2>2, <2>4, <3>1
  <2> QED
    BY <2>3, <2>4
<1> QED
  BY <1>5, <1>6, <1>7 DEF IsEvents, Members

\* An event through which a device is written says so, and describes the
\* function that is called.
Described(ev) ==
  "write" \in ev.mode =>
    "write" \in DescribedAccess(ev.descr, ev.variant) /\ Label(ev.descr) = Label(ev.f)

\* Entries are only added; of the others no more changes than the mode.
Extends(t, u) ==
  /\ Len(t.events) <= Len(u.events)
  /\ \A i \in DOMAIN t.events :
       /\ u.events[i].name = t.events[i].name /\ u.events[i].f = t.events[i].f
       /\ u.events[i].device = t.events[i].device /\ u.events[i].sub = t.events[i].sub
       /\ u.events[i].mode \in {t.events[i].mode, ReadWrite}
  /\ u.overrun => t.overrun \/ Len(u.events) > room

LEMMA AddFacts ==
  ASSUME NEW t, Form(t), NEW ev, EventForm(ev)
  PROVE  /\ Form(Add(t, ev)) /\ Add(t, ev).events = Append(t.events, ev)
         /\ Add(t, ev).seen = t.seen
         /\ Add(t, ev).overrun => t.overrun \/ Len(Add(t, ev).events) > room
<1>0. PICK u : u = Add(t, ev)
  OBVIOUS
<1> DEFINE code == Len(t.events) + 1
<1>1. /\ u.events = Append(t.events, ev) /\ u.seen = t.seen
      /\ u.overrun = (t.overrun \/ code > room)
      /\ u = [events |-> u.events, overrun |-> u.overrun, names |-> u.names,
              unnamed |-> u.unnamed, seen |-> u.seen, fault |-> u.fault]
  BY <1>0 DEF Add, Form
<1>2. IsEvents(Append(t.events, ev)) /\ Len(Append(t.events, ev)) = code
  <2>1. IsEvents(t.events)
    BY DEF Form
  <2> QED
    BY <2>1, Appended
<1> QED
  BY <1>0, <1>1, <1>2 DEF Form

LEMMA AddAllFacts ==
  ASSUME NEW t, Form(t), NEW evs, IsEvents(evs), NEW u, u = AddAll(t, evs)
  PROVE  /\ Form(u) /\ Len(u.events) = Len(t.events) + Len(evs) /\ u.seen = t.seen
         /\ \A i \in DOMAIN t.events : u.events[i] = t.events[i]
         /\ \A i \in DOMAIN evs : u.events[Len(t.events) + i] = evs[i]
         /\ room \in Nat => (u.overrun => t.overrun \/ Len(u.events) > room)
<1> DEFINE N == Len(evs)
           M == Len(t.events)
<1>1. N \in Nat /\ M \in Nat /\ DOMAIN evs = 1 .. N /\ DOMAIN t.events = 1 .. M
  BY SomeEvents DEF Form
<1>2. PICK A : A = Added(t, evs)
  OBVIOUS
<1>3. A[0] = t /\ \A k \in 1 .. N : A[k] = Add(A[k - 1], evs[k])
  BY <1>1, <1>2, AddGo
<1> DEFINE P(k) == /\ Form(A[k]) /\ Len(A[k].events) = M + k /\ A[k].seen = t.seen
                   /\ \A i \in 1 .. M : A[k].events[i] = t.events[i]
                   /\ \A i \in 1 .. k : A[k].events[M + i] = evs[i]
                   /\ room \in Nat => (A[k].overrun => t.overrun \/ M + k > room)
           Proved == {k \in Nat : k <= N => P(k)}
<1>4. 0 \in Proved
  BY <1>1, <1>3
<1>5. ASSUME NEW k \in Nat, k \in Proved
      PROVE  k + 1 \in Proved
  <2>0. SUFFICES ASSUME k + 1 <= N PROVE P(k + 1)
    <3> HIDE DEF P
    <3> QED
      OBVIOUS
  <2>1. k + 1 \in 1 .. N /\ (k + 1) - 1 = k /\ k <= N
    BY <1>1, <2>0
  <2>2. /\ Form(A[k]) /\ Len(A[k].events) = M + k /\ A[k].seen = t.seen
        /\ \A i \in 1 .. M : A[k].events[i] = t.events[i]
        /\ \A i \in 1 .. k : A[k].events[M + i] = evs[i]
        /\ room \in Nat => (A[k].overrun => t.overrun \/ M + k > room)
    BY <1>5, <2>1
  <2> HIDE DEF P, Proved
  <2>3. A[k + 1] = Add(A[k], evs[k + 1]) /\ EventForm(evs[k + 1])
    BY <1>1, <1>3, <2>1, SomeEvents
  <2>4. /\ Form(A[k + 1]) /\ A[k + 1].events = Append(A[k].events, evs[k + 1])
        /\ A[k + 1].seen = A[k].seen
        /\ A[k + 1].overrun => A[k].overrun \/ Len(A[k + 1].events) > room
    BY ONLY <2>2, <2>3, AddFacts
  <2>5. IsEvents(A[k].events)
    BY <2>2 DEF Form
  <2>6. /\ Len(A[k + 1].events) = M + (k + 1)
        /\ \A i \in 1 .. M + k : A[k + 1].events[i] = A[k].events[i]
        /\ A[k + 1].events[M + (k + 1)] = evs[k + 1]
    <3>1. Len(A[k].events) = M + k
      BY <2>2
    <3>2. M + k \in Nat /\ M + (k + 1) = (M + k) + 1
      <4> HIDE DEF M
      <4> QED
        BY <1>1
    <3> QED
      BY ONLY <2>3, <2>4, <2>5, <3>1, <3>2, Appended
  <2>7. \A i \in 1 .. M : A[k + 1].events[i] = t.events[i]
    <3>1. \A i \in 1 .. M : i \in 1 .. M + k
      BY <1>1
    <3> QED
      BY <2>2, <2>6, <3>1
  <2>8. ASSUME NEW i \in 1 .. k + 1 PROVE A[k + 1].events[M + i] = evs[i]
    <3>1. CASE i = k + 1
      BY <2>6, <3>1
    <3>2. CASE i \in 1 .. k
      <4>1. M + i \in 1 .. M + k
        BY <1>1, <3>2
      <4> QED
        BY <2>2, <2>6, <3>2, <4>1
    <3> QED
      BY <3>1, <3>2
  <2>9. ASSUME room \in Nat PROVE A[k + 1].overrun => t.overrun \/ M + (k + 1) > room
    <3>1. M + k > room => M + (k + 1) > room
      <4> HIDE DEF M
      <4> QED
        BY <1>1, <2>9
    <3> QED
      BY <2>2, <2>4, <2>6, <2>9, <3>1
  <2> USE DEF P
  <2> QED
    BY <2>2, <2>4, <2>6, <2>7, <2>8, <2>9
<1>6. P(N)
  <2> HIDE DEF P
  <2>1. Nat \subseteq Proved
    BY ONLY <1>4, <1>5, SetInduction
  <2> QED
    BY <1>1, <2>1
<1>7. u = A[N]
  BY <1>2 DEF AddAll
<1> QED
  BY <1>1, <1>6, <1>7

-----------------------------------------------------------------------------
(* The events of one supported function.                                   *)

LEMMA Labels ==
  /\ \A f \in PerfLevel : Label(f) = "perf_level"
  /\ \A f \in FanSpeed : Label(f) = "fan_speed"
  /\ \A f \in PowerCap : Label(f) = "power_cap"
  /\ Label("gpu_clk_freq_set") = "gpu_clk_freq" /\ Label("gpu_clk_freq_get") = "gpu_clk_freq"
<1> USE DEF PerfLevel, FanSpeed, PowerCap
<1>1. \A f \in PerfLevel : Label(f) = "perf_level"
  BY DEF Label
<1>2. \A f \in FanSpeed : Label(f) = "fan_speed"
  BY DEF Label
<1>3. \A f \in PowerCap : Label(f) = "power_cap"
  BY DEF Label
<1>4. Label("gpu_clk_freq_set") = "gpu_clk_freq" /\ Label("gpu_clk_freq_get") = "gpu_clk_freq"
  BY DEF Label
<1> QED
  BY <1>1, <1>2, <1>3, <1>4

LEMMA SplitFacts ==
  ASSUME NEW f, NEW v, NEW b, NEW freq \in 0 .. Len(Frequencies)
  PROVE  /\ SplitCount(f, freq) \in Nat
         /\ DOMAIN Split(f, v, b, freq) = 1 .. SplitCount(f, freq)
<1>1. CASE f \in {"pci_throughput_get", "power_profile_presets_get"}
  <2>1. SplitCount(f, freq) = 3
    BY <1>1 DEF SplitCount
  <2>2. \E x, y, z : Split(f, v, b, freq) = <<x, y, z>>
    BY <1>1 DEF Split
  <2> QED
    BY <2>1, <2>2
<1>2. CASE f \in {"power_cap_range_get", "ecc_count_get"}
  <2>1. SplitCount(f, freq) = 2
    BY <1>2 DEF SplitCount
  <2>2. \E x, y : Split(f, v, b, freq) = <<x, y>>
    <3>1. CASE f = "power_cap_range_get"
      BY <3>1 DEF Split
    <3>2. CASE f = "ecc_count_get"
      BY <3>2 DEF Split
    <3> QED
      BY <1>2, <3>1, <3>2
  <2> QED
    BY <2>1, <2>2
<1>3. CASE f = "gpu_clk_freq_get" /\ freq > 0
  <2> DEFINE two  == <<<<v, "count">>, <<v, "current">>>>
             rest == [i \in 1 .. freq |-> <<v, Frequencies[i]>>]
  <2>1. PICK P : P = {<<v, "count">>, <<v, "current">>} \cup {<<v, Frequencies[i]>> : i \in 1 .. freq}
    OBVIOUS
  <2>2. freq \in Nat
    BY DEF Frequencies
  <2>3. two \in Seq(P) /\ Len(two) = 2
    BY <2>1
  <2>4. rest \in Seq(P) /\ Len(rest) = freq
    BY <2>1, <2>2
  <2>5. Split(f, v, b, freq) = two \o rest /\ SplitCount(f, freq) = freq + 2
    BY <1>3 DEF Split, SplitCount
  <2>6. \A r, s \in Seq(P) : r \o s \in Seq(P) /\ Len(r \o s) = Len(r) + Len(s)
    BY ConcatProperties
  <2> HIDE DEF two, rest
  <2>7. two \o rest \in Seq(P) /\ Len(two \o rest) = 2 + freq
    BY <2>3, <2>4, <2>6
  <2>8. DOMAIN (two \o rest) = 1 .. (2 + freq) /\ 2 + freq = freq + 2
    BY <2>2, <2>7
  <2> QED
    BY <2>2, <2>5, <2>8
<1>4. CASE f = "gpu_clk_freq_set" /\ freq > 0
  BY <1>4 DEF Split, SplitCount
<1>5. CASE /\ f \notin {"pci_throughput_get", "power_profile_presets_get",
                        "power_cap_range_get", "ecc_count_get"}
           /\ f \in {"gpu_clk_freq_get", "gpu_clk_freq_set"} => ~(freq > 0)
  BY <1>5 DEF Split, SplitCount
<1> QED
  BY <1>1, <1>2, <1>3, <1>4, <1>5

LEMMA SplitEventsFacts ==
  ASSUME NEW d, NEW e, Freq(d, e.f, e.variant) \in 0 .. Len(Frequencies),
         NEW evs, evs = SplitEvents(d, e)
  PROVE  /\ IsEvents(evs) /\ Len(evs) = SplitCount(e.f, Freq(d, e.f, e.variant))
         /\ \A i \in DOMAIN evs : evs[i].device = d /\ evs[i].f = e.f /\ Described(evs[i])
<1> DEFINE freq  == Freq(d, e.f, e.variant)
           parts == Split(e.f, e.variant, e.sub, freq)
           n     == SplitCount(e.f, freq)
<1>1. n \in Nat /\ DOMAIN parts = 1 .. n
  BY SplitFacts
<1>2. evs = [i \in DOMAIN parts |->
               Event(Name(Label(e.f), d, parts[i][1], parts[i][2]), e.f, d,
                     parts[i][1], parts[i][2], SplitMode(e.f))]
  BY DEF SplitEvents
<1> HIDE DEF parts, n
<1>3. ASSUME NEW i \in 1 .. n
      PROVE  /\ EventForm(evs[i]) /\ evs[i].device = d /\ evs[i].f = e.f
             /\ evs[i].descr = e.f /\ evs[i].mode = SplitMode(e.f)
  <2>1. evs[i] = Event(Name(Label(e.f), d, parts[i][1], parts[i][2]), e.f, d,
                       parts[i][1], parts[i][2], SplitMode(e.f))
    BY <1>1, <1>2
  <2> QED
    BY <2>1 DEF EventForm, Event
<1>4. "write" \in SplitMode(e.f) =>
        \A v : "write" \in DescribedAccess(e.f, v)
  BY DEF SplitMode, DescribedAccess
<1>5. evs = [i \in 1 .. n |-> evs[i]]
  BY <1>1, <1>2
<1>6. IsEvents(evs) /\ Len(evs) = n
  BY <1>1, <1>3, <1>5, AreEvents
<1>7. \A i \in 1 .. n : Described(evs[i])
  BY <1>3, <1>4 DEF Described
<1> QED
  BY <1>3, <1>5, <1>6, <1>7 DEF n

LEMMA OwnEventFacts ==
  ASSUME NEW d, NEW e, NEW ev, ev = OwnEvent(d, e)
  PROVE  /\ EventForm(ev) /\ ev.f = e.f /\ ev.device = d /\ ev.sub = e.sub /\ Described(ev)
         /\ ev.name = get_event_name(e.f, d, e.variant, e.sub)
<1>1. /\ EventForm(ev) /\ ev.f = e.f /\ ev.device = d /\ ev.sub = e.sub /\ ev.descr = e.f
      /\ ev.name = get_event_name(e.f, d, e.variant, e.sub) /\ ev.mode = get_access_mode(e.f)
  BY DEF OwnEvent, Event, EventForm
<1>2. Described(ev)
  BY <1>1 DEF Described, get_access_mode, DescribedAccess
<1> QED
  BY <1>1, <1>2

-----------------------------------------------------------------------------
(* One step of the second walk.                                            *)

AllDescribed(t) == \A i \in DOMAIN t.events : Described(t.events[i])

\* What a static remembers of a device is its merged event.
SeenRight(t, s) ==
  /\ t.seen[s] \in DOMAIN t.events
  /\ LET ev == t.events[t.seen[s]]
     IN  /\ ev.f \in Merged /\ ev.device = s[1] /\ Label(ev.f) = s[2]
         /\ ev.name = Name(s[2], s[1], "none", IF s[2] = "perf_level" THEN "none" ELSE ev.sub)
         /\ s[2] = "power_cap" => ev.sub = s[3]
Walking(t) ==
  /\ Form(t) /\ AllDescribed(t)
  /\ \A s \in DOMAIN t.seen : SeenRight(t, s)
SeenMore(t, u, new) ==
  /\ DOMAIN u.seen = DOMAIN t.seen \cup new
  /\ \A s \in DOMAIN t.seen : u.seen[s] = t.seen[s]

\* u is the table t with some events more.
AddedTo(t, evs, u) ==
  /\ Walking(u) /\ Extends(t, u) /\ SeenMore(t, u, {})
  /\ Len(u.events) = Len(t.events) + Len(evs)
  /\ \A i \in DOMAIN evs : Len(t.events) + i \in DOMAIN u.events
                           /\ u.events[Len(t.events) + i] = evs[i]

\* Whatever only adds events that are described keeps the rest.
LEMMA AddedWalking ==
  ASSUME NEW t, Walking(t), NEW evs, IsEvents(evs),
         \A i \in DOMAIN evs : Described(evs[i]),
         room \in Nat
  PROVE  AddedTo(t, evs, AddAll(t, evs))
<1>a. PICK u : u = AddAll(t, evs)
  OBVIOUS
<1> DEFINE M == Len(t.events)
           N == Len(evs)
<1>0. M \in Nat /\ N \in Nat /\ DOMAIN t.events = 1 .. M /\ DOMAIN evs = 1 .. N
  BY SomeEvents DEF Walking, Form
<1>1. /\ Form(u) /\ Len(u.events) = M + N /\ u.seen = t.seen
      /\ \A i \in DOMAIN t.events : u.events[i] = t.events[i]
      /\ \A i \in DOMAIN evs : u.events[M + i] = evs[i]
      /\ u.overrun => t.overrun \/ Len(u.events) > room
  BY <1>a, AddAllFacts DEF Walking
<1>2. DOMAIN u.events = 1 .. (M + N)
  BY <1>1, SomeEvents DEF Form
<1> HIDE DEF M, N
<1>3. \A i \in 1 .. N : M + i \in 1 .. (M + N)
  BY <1>0
<1>4. \A i \in 1 .. (M + N) : i \in 1 .. M \/ (i - M \in 1 .. N /\ M + (i - M) = i)
  BY <1>0
<1>5. AllDescribed(u)
  <2>1. SUFFICES ASSUME NEW i \in 1 .. (M + N) PROVE Described(u.events[i])
    BY <1>2 DEF AllDescribed
  <2>2. CASE i \in 1 .. M
    BY <1>0, <1>1, <2>2 DEF Walking, AllDescribed
  <2>3. CASE i - M \in 1 .. N /\ M + (i - M) = i
    <3>1. u.events[M + (i - M)] = evs[i - M]
      BY <1>0, <1>1, <2>3
    <3> QED
      BY <1>0, <2>3, <3>1
  <2> QED
    BY <1>4, <2>2, <2>3
<1>6. DOMAIN t.events \subseteq DOMAIN u.events
  BY <1>0, <1>2
<1>7. \A s \in DOMAIN u.seen : SeenRight(u, s)
  BY <1>1, <1>6 DEF Walking, SeenRight
<1>8. Extends(t, u)
  <2>1. M <= Len(u.events)
    BY <1>0, <1>1
  <2> USE DEF M
  <2> QED
    BY <1>1, <2>1 DEF Extends
<1>9. SeenMore(t, u, {})
  BY <1>1 DEF SeenMore
<1> USE DEF M, N
<1>10. AddedTo(t, evs, u)
  BY <1>0, <1>1, <1>2, <1>3, <1>5, <1>7, <1>8, <1>9 DEF Walking, AddedTo
<1> QED
  BY <1>a, <1>10

\* What a function of the list adds, and what the statics remember of it.
Gain(seen, d, e) ==
  IF e.f \in SplitFunctions THEN SplitCount(e.f, Freq(d, e.f, e.variant))
  ELSE IF e.f \in Merged THEN IF Slot(d, e) \in DOMAIN seen THEN 0 ELSE 1
  ELSE IF HasName(e.f, e.variant) THEN 1 ELSE 0
NewSlots(d, e) == IF e.f \in Merged THEN {Slot(d, e)} ELSE {}
Setters == {"fan_speed_set", "power_cap_set", "perf_level_set"}
Entered(t, u, d, e) ==
  /\ e.f \in SplitFunctions /\ SplitCount(e.f, Freq(d, e.f, e.variant)) > 0 =>
       \E i \in DOMAIN u.events : u.events[i].device = d /\ u.events[i].f = e.f
  /\ e.f \in Merged /\ Slot(d, e) \notin DOMAIN t.seen =>
       u.events[u.seen[Slot(d, e)]] = OwnEvent(d, e)
  /\ e.f \in Setters /\ Slot(d, e) \in DOMAIN t.seen =>
       u.events[u.seen[Slot(d, e)]].mode = ReadWrite
  /\ e.f \notin SplitFunctions \cup Merged /\ HasName(e.f, e.variant) =>
       \E i \in DOMAIN u.events : u.events[i] = OwnEvent(d, e)
EntryDone(t, u, d, e) ==
  /\ Walking(u) /\ Extends(t, u) /\ SeenMore(t, u, NewSlots(d, e))
  /\ Len(u.events) = Len(t.events) + Gain(t.seen, d, e)
  /\ Entered(t, u, d, e)

LEMMA Disjoint ==
  SplitFunctions \cap Merged = {} /\ Setters \subseteq Merged
BY DEF SplitFunctions, Merged, FanSpeed, PowerCap, PerfLevel, Setters

LEMMA MergedNames ==
  ASSUME NEW f \in Merged, NEW d, NEW v, NEW b
  PROVE  /\ get_event_name(f, d, v, b)
              = Name(Label(f), d, "none", IF Label(f) = "perf_level" THEN "none" ELSE b)
         /\ f \in PowerCap <=> Label(f) = "power_cap"
<1>1. CASE f \in FanSpeed \cup PowerCap
  <2>1. f \in SensorFunctions /\ f # "temp_metric_get"
    BY <1>1 DEF SensorFunctions, FanSpeed, PowerCap
  <2>2. Label(f) # "perf_level" /\ (f \in PowerCap <=> Label(f) = "power_cap")
    BY <1>1, Labels DEF FanSpeed, PowerCap
  <2>3. KnownVariants(f) = {}
    BY <1>1 DEF KnownVariants, FanSpeed, PowerCap
  <2> QED
    BY <2>1, <2>2, <2>3 DEF get_event_name
<1>2. CASE f \in PerfLevel
  <2>1. f \notin SensorFunctions /\ f # "temp_metric_get" /\ f \notin PowerCap
    BY <1>2 DEF SensorFunctions, FanSpeed, PowerCap, PerfLevel
  <2>2. KnownVariants(f) = {}
    BY <1>2 DEF KnownVariants, PerfLevel
  <2>3. Label(f) = "perf_level"
    BY <1>2, Labels
  <2> QED
    BY <2>1, <2>2, <2>3 DEF get_event_name
<1> QED
  BY <1>1, <1>2 DEF Merged

LEMMA EntrySplit ==
  ASSUME NEW t, Walking(t), NEW d, NEW e, e.f \in SplitFunctions, room \in Nat,
         Freq(d, e.f, e.variant) \in 0 .. Len(Frequencies),
         NEW u, u = FillEntry(t, d, e)
  PROVE  EntryDone(t, u, d, e)
<1>0. e.f \notin Merged /\ e.f \notin Setters
  BY Disjoint
<1>1. PICK evs : evs = SplitEvents(d, e)
  OBVIOUS
<1>2. u = AddAll(t, evs)
  BY <1>0, <1>1 DEF FillEntry
<1>3. /\ IsEvents(evs) /\ Len(evs) = SplitCount(e.f, Freq(d, e.f, e.variant))
      /\ \A i \in DOMAIN evs : evs[i].device = d /\ evs[i].f = e.f /\ Described(evs[i])
  BY <1>1, SplitEventsFacts
<1>4. AddedTo(t, evs, u)
  <2>1. Walking(t) /\ room \in Nat
    OBVIOUS
  <2>2. \A i \in DOMAIN evs : Described(evs[i])
    BY <1>3
  <2> QED
    BY ONLY <1>2, <1>3, <2>1, <2>2, AddedWalking
<1>5. Len(evs) > 0 => 1 \in DOMAIN evs
  BY <1>3, SomeEvents
<1>6. Entered(t, u, d, e)
  BY <1>0, <1>3, <1>4, <1>5 DEF Entered, AddedTo
<1> QED
  BY <1>0, <1>3, <1>4, <1>6 DEF EntryDone, Gain, NewSlots, AddedTo

LEMMA EntryNew ==
  ASSUME NEW t, Walking(t), NEW d, NEW e, e.f \in Merged, Slot(d, e) \notin DOMAIN t.seen,
         room \in Nat, NEW u, u = FillEntry(t, d, e)
  PROVE  EntryDone(t, u, d, e)
<1> DEFINE s == Slot(d, e)
           M == Len(t.events)
<1>0. /\ e.f \notin SplitFunctions /\ SlotOf(t.seen, s) = 0
      /\ M \in Nat /\ DOMAIN t.events = 1 .. M
  BY Disjoint, SomeEvents DEF SlotOf, Walking, Form
<1>1. PICK ev : ev = OwnEvent(d, e)
  OBVIOUS
<1>2. PICK t0 : t0 = [t EXCEPT !.seen = Take(@, s, M + 1)]
  OBVIOUS
<1>3. u = Add(t0, ev)
  BY <1>0, <1>1, <1>2 DEF FillEntry
<1>4. /\ EventForm(ev) /\ ev.f = e.f /\ ev.device = d /\ ev.sub = e.sub /\ Described(ev)
      /\ ev.name = get_event_name(e.f, d, e.variant, e.sub)
  BY <1>1, OwnEventFacts
<1>5. /\ Form(t0) /\ t0.events = t.events /\ t0.seen = Take(t.seen, s, M + 1)
      /\ t0.overrun = t.overrun
  <2>1. /\ t = [events |-> t.events, overrun |-> t.overrun, names |-> t.names,
                unnamed |-> t.unnamed, seen |-> t.seen, fault |-> t.fault]
        /\ IsEvents(t.events) /\ t.overrun \in BOOLEAN
    BY DEF Walking, Form
  <2>2. t0 = [events |-> t.events, overrun |-> t.overrun, names |-> t.names,
              unnamed |-> t.unnamed, seen |-> Take(t.seen, s, M + 1), fault |-> t.fault]
    BY <1>2, <2>1
  <2> HIDE DEF s, M
  <2> QED
    BY <2>1, <2>2 DEF Form
<1>6. /\ Form(u) /\ u.events = Append(t.events, ev) /\ u.seen = Take(t.seen, s, M + 1)
      /\ u.overrun => t.overrun \/ Len(u.events) > room
  BY <1>3, <1>4, <1>5, AddFacts
<1>7. /\ Len(u.events) = M + 1 /\ u.events[M + 1] = ev
      /\ \A i \in 1 .. M : u.events[i] = t.events[i]
  BY <1>4, <1>5, <1>6, Appended DEF Form
<1> HIDE DEF s, M
<1>8. /\ DOMAIN u.events = 1 .. (M + 1) /\ M + 1 \in 1 .. (M + 1)
      /\ \A i \in 1 .. (M + 1) : i \in 1 .. M \/ i = M + 1
      /\ \A i \in 1 .. M : i \in 1 .. (M + 1)
  BY <1>0, <1>6, <1>7, SomeEvents DEF Form
<1>9. /\ DOMAIN u.seen = DOMAIN t.seen \cup {s} /\ u.seen[s] = M + 1
      /\ \A x \in DOMAIN t.seen : u.seen[x] = t.seen[x]
  <2>1. s \notin DOMAIN t.seen
    BY DEF s
  <2> QED
    BY <1>6, <2>1 DEF Take
<1>10. AllDescribed(u)
  BY <1>0, <1>4, <1>7, <1>8 DEF Walking, AllDescribed
<1>11. SeenRight(u, s)
  <2>1. /\ s[1] = d /\ s[2] = Label(e.f) /\ (e.f \in PowerCap => s[3] = e.sub)
    BY DEF s, Slot
  <2>2. ev.name = Name(s[2], s[1], "none", IF s[2] = "perf_level" THEN "none" ELSE ev.sub)
    BY <1>4, <2>1, MergedNames
  <2> QED
    BY <1>4, <1>7, <1>8, <1>9, <2>1, <2>2, MergedNames DEF SeenRight
<1>12. ASSUME NEW x \in DOMAIN t.seen PROVE SeenRight(u, x)
  <2>1. SeenRight(t, x)
    BY DEF Walking
  <2> QED
    BY <1>0, <1>7, <1>8, <1>9, <2>1 DEF SeenRight
<1>13. Extends(t, u)
  <2>1. M <= Len(u.events)
    BY <1>0, <1>7
  <2> QED
    BY <1>0, <1>6, <1>7, <2>1 DEF Extends, M
<1>14. SeenMore(t, u, NewSlots(d, e))
  BY <1>9 DEF SeenMore, NewSlots, s
<1>15. Gain(t.seen, d, e) = 1
  BY <1>0 DEF Gain
<1>16. Entered(t, u, d, e)
  BY <1>0, <1>1, <1>7, <1>9 DEF Entered, s
<1> QED
  BY <1>6, <1>7, <1>9, <1>10, <1>11, <1>12, <1>13, <1>14, <1>15, <1>16 DEF EntryDone, Walking, M

\* A set function that writes over the event of its get function.
LEMMA OverwriteFacts ==
  ASSUME NEW t, Form(t), NEW code \in DOMAIN t.events, NEW f, NEW u, u = Overwrite(t, code, f)
  PROVE  /\ Form(u) /\ Len(u.events) = Len(t.events) /\ u.seen = t.seen /\ u.overrun = t.overrun
         /\ \A i \in DOMAIN t.events : i # code => u.events[i] = t.events[i]
         /\ LET ev  == t.events[code]
                new == u.events[code]
            IN  /\ new.name = ev.name /\ new.f = ev.f /\ new.device = ev.device
                /\ new.variant = ev.variant /\ new.sub = ev.sub
                /\ new.descr = f /\ new.mode = ReadWrite
<1> DEFINE M  == Len(t.events)
           ev == t.events[code]
<1>1. /\ IsEvents(t.events) /\ M \in Nat /\ DOMAIN t.events = 1 .. M /\ code \in 1 .. M
      /\ \A i \in 1 .. M : EventForm(t.events[i])
  BY SomeEvents DEF Form
<1>2. PICK new : new = [ev EXCEPT !.descr = f, !.mode = ReadWrite]
  OBVIOUS
<1>3. EventForm(ev)
  BY <1>1
<1>4. /\ EventForm(new) /\ new.name = ev.name /\ new.f = ev.f /\ new.device = ev.device
      /\ new.variant = ev.variant /\ new.sub = ev.sub /\ new.descr = f /\ new.mode = ReadWrite
  <2> HIDE DEF ev
  <2> QED
    BY <1>2, <1>3 DEF EventForm
<1>5. /\ t = [events |-> t.events, overrun |-> t.overrun, names |-> t.names,
              unnamed |-> t.unnamed, seen |-> t.seen, fault |-> t.fault]
      /\ t.overrun \in BOOLEAN
  BY DEF Form
<1>6. t.events = [i \in 1 .. M |-> t.events[i]]
  BY <1>1 DEF IsEvents
<1>7. /\ u.events = [t.events EXCEPT ![code] = new]
      /\ u = [events |-> u.events, overrun |-> t.overrun, names |-> t.names,
              unnamed |-> t.unnamed, seen |-> t.seen, fault |-> t.fault]
  <2>1. PICK ev1 : ev1 = [ev EXCEPT !.descr = f]
    OBVIOUS
  <2>2. PICK evs1 : evs1 = [t.events EXCEPT ![code] = ev1]
    OBVIOUS
  <2>3. /\ evs1 = [i \in 1 .. M |-> evs1[i]] /\ evs1[code] = ev1
        /\ \A i \in 1 .. M : i # code => evs1[i] = t.events[i]
    BY <1>1, <1>6, <2>2
  <2>4. new = [ev1 EXCEPT !.mode = ReadWrite]
    <3> HIDE DEF ev
    <3> QED
      BY <1>2, <1>3, <2>1 DEF EventForm
  <2>5. PICK t1 : t1 = [t EXCEPT !.events = evs1]
    OBVIOUS
  <2>6. t1 = [events |-> evs1, overrun |-> t.overrun, names |-> t.names,
              unnamed |-> t.unnamed, seen |-> t.seen, fault |-> t.fault]
    <3> HIDE DEF ev, M
    <3> QED
      BY <1>5, <2>5
  <2>7. u = [t1 EXCEPT !.events = [evs1 EXCEPT ![code] = [evs1[code] EXCEPT !.mode = ReadWrite]]]
    BY <1>5, <2>1, <2>2, <2>5, <2>6 DEF Overwrite
  <2>8. u = [t1 EXCEPT !.events = [evs1 EXCEPT ![code] = new]]
    BY <2>3, <2>4, <2>7
  <2>9. [evs1 EXCEPT ![code] = new] = [t.events EXCEPT ![code] = new]
    <3> HIDE DEF M
    <3> QED
      BY <1>1, <1>6, <2>3
  <2> HIDE DEF ev, M
  <2> QED
    BY <2>6, <2>8, <2>9
<1> HIDE DEF ev
<1>8. /\ u.events = [i \in 1 .. M |-> u.events[i]] /\ u.events[code] = new
      /\ \A i \in 1 .. M : i # code => u.events[i] = t.events[i]
  BY <1>1, <1>6, <1>7
<1> HIDE DEF M
<1>9. \A i \in 1 .. M : EventForm(u.events[i])
  BY <1>1, <1>4, <1>8
<1>10. IsEvents(u.events) /\ Len(u.events) = M
  BY <1>1, <1>8, <1>9, AreEvents
<1>11. Form(u) /\ u.seen = t.seen /\ u.overrun = t.overrun
  BY <1>5, <1>7, <1>10 DEF Form
<1> QED
  BY <1>1, <1>4, <1>8, <1>10, <1>11 DEF ev, M

LEMMA EntryAgain ==
  ASSUME NEW t, Walking(t), NEW d, NEW e, e.f \in Merged, Slot(d, e) \in DOMAIN t.seen,
         room \in Nat, NEW u, u = FillEntry(t, d, e)
  PROVE  EntryDone(t, u, d, e)
<1> DEFINE s    == Slot(d, e)
           M    == Len(t.events)
           code == t.seen[s]
           ev   == t.events[code]
<1>0. /\ e.f \notin SplitFunctions /\ SeenRight(t, s) /\ IsEvents(t.events)
      /\ M \in Nat /\ DOMAIN t.events = 1 .. M /\ \A i \in 1 .. M : EventForm(t.events[i])
  BY Disjoint, SomeEvents DEF Walking, Form
<1>1. /\ code \in 1 .. M /\ SlotOf(t.seen, s) = code /\ code > 0 /\ code # 0
  BY <1>0 DEF SlotOf, SeenRight
<1>2. u = MergeSet(t, code, e.f)
  BY <1>0, <1>1 DEF FillEntry
<1>3. Gain(t.seen, d, e) = 0 /\ NewSlots(d, e) = {s} /\ s \in DOMAIN t.seen
  BY <1>0 DEF Gain, NewSlots
<1> HIDE DEF s
<1>4. CASE e.f \notin Setters
  <2>1. u = t
    BY <1>2, <1>4 DEF MergeSet, Setters
  <2>2. Extends(t, u)
    BY <1>0, <2>1 DEF Extends
  <2>3. SeenMore(t, u, NewSlots(d, e))
    BY <1>3, <2>1 DEF SeenMore
  <2>4. Entered(t, u, d, e)
    BY <1>0, <1>3, <1>4 DEF Entered, s
  <2> QED
    BY <1>0, <1>3, <2>1, <2>2, <2>3, <2>4 DEF EntryDone
<1>5. CASE e.f \in Setters
  <2>1. u = Overwrite(t, code, e.f)
    BY <1>0, <1>1, <1>2, <1>5 DEF MergeSet, Setters
  <2>2. /\ Form(u) /\ Len(u.events) = M /\ u.seen = t.seen /\ u.overrun = t.overrun
        /\ \A i \in 1 .. M : i # code => u.events[i] = t.events[i]
        /\ u.events[code].name = ev.name /\ u.events[code].f = ev.f
        /\ u.events[code].device = ev.device /\ u.events[code].sub = ev.sub
        /\ u.events[code].descr = e.f /\ u.events[code].mode = ReadWrite
    BY <1>0, <1>1, <2>1, OverwriteFacts DEF Walking
  <2>3. DOMAIN u.events = 1 .. M
    BY <2>2, SomeEvents DEF Form
  <2> HIDE DEF code, ev, M
  <2>4. Described(u.events[code])
    <3>1. "write" \in DescribedAccess(e.f, u.events[code].variant)
      BY <1>5 DEF Setters, DescribedAccess, ReadWrite
    <3>2. Label(ev.f) = Label(e.f)
      BY <1>0 DEF SeenRight, s, Slot, code, ev
    <3> QED
      BY <2>2, <3>1, <3>2 DEF Described
  <2>5. AllDescribed(u)
    BY <1>0, <2>2, <2>3, <2>4 DEF Walking, AllDescribed
  <2>6. \A i \in 1 .. M : /\ u.events[i].name = t.events[i].name
                          /\ u.events[i].f = t.events[i].f
                          /\ u.events[i].device = t.events[i].device
                          /\ u.events[i].sub = t.events[i].sub
                          /\ u.events[i].mode \in {t.events[i].mode, ReadWrite}
    BY <2>2 DEF ev
  <2>7. ASSUME NEW x \in DOMAIN u.seen PROVE SeenRight(u, x)
    <3>1. SeenRight(t, x)
      BY <2>2 DEF Walking
    <3>2. t.seen[x] \in 1 .. M
      BY <1>0, <3>1 DEF SeenRight
    <3> QED
      BY <2>2, <2>3, <2>6, <3>1, <3>2 DEF SeenRight
  <2>8. Extends(t, u)
    <3>1. M <= Len(u.events)
      BY <1>0, <2>2
    <3> QED
      BY <1>0, <2>2, <2>6, <3>1 DEF Extends, M
  <2>9. SeenMore(t, u, NewSlots(d, e))
    BY <1>3, <2>2 DEF SeenMore
  <2>10. Entered(t, u, d, e)
    BY <1>0, <1>3, <2>2 DEF Entered, s, code
  <2> QED
    BY <1>0, <1>3, <2>2, <2>5, <2>7, <2>8, <2>9, <2>10 DEF EntryDone, Walking, M
<1> QED
  BY <1>4, <1>5

LEMMA EntryPlain ==
  ASSUME NEW t, Walking(t), NEW d, NEW e, e.f \notin SplitFunctions \cup Merged,
         HasName(e.f, e.variant), room \in Nat, NEW u, u = FillEntry(t, d, e)
  PROVE  EntryDone(t, u, d, e)
<1> DEFINE M == Len(t.events)
<1>0. /\ M \in Nat /\ DOMAIN t.events = 1 .. M /\ e.f \notin Setters
  BY Disjoint, SomeEvents DEF Walking, Form
<1>1. PICK ev : ev = OwnEvent(d, e)
  OBVIOUS
<1>2. u = Add(t, ev)
  BY <1>1 DEF FillEntry
<1>3. EventForm(ev) /\ Described(ev)
  BY <1>1, OwnEventFacts
<1>4. /\ Form(u) /\ u.events = Append(t.events, ev) /\ u.seen = t.seen
      /\ u.overrun => t.overrun \/ Len(u.events) > room
  BY <1>2, <1>3, AddFacts DEF Walking
<1>5. /\ Len(u.events) = M + 1 /\ u.events[M + 1] = ev
      /\ \A i \in 1 .. M : u.events[i] = t.events[i]
  BY <1>3, <1>4, Appended DEF Walking, Form
<1> HIDE DEF M
<1>6. /\ DOMAIN u.events = 1 .. (M + 1) /\ M + 1 \in 1 .. (M + 1)
      /\ \A i \in 1 .. (M + 1) : i \in 1 .. M \/ i = M + 1
      /\ \A i \in 1 .. M : i \in 1 .. (M + 1)
  BY <1>0, <1>4, <1>5, SomeEvents DEF Form
<1>7. AllDescribed(u)
  BY <1>0, <1>3, <1>5, <1>6 DEF Walking, AllDescribed
<1>8. ASSUME NEW x \in DOMAIN u.seen PROVE SeenRight(u, x)
  <2>1. SeenRight(t, x)
    BY <1>4 DEF Walking
  <2> QED
    BY <1>0, <1>4, <1>5, <1>6, <2>1 DEF SeenRight
<1>9. Extends(t, u)
  <2>1. M <= Len(u.events)
    BY <1>0, <1>5
  <2> QED
    BY <1>0, <1>4, <1>5, <2>1 DEF Extends, M
<1>10. SeenMore(t, u, NewSlots(d, e)) /\ Gain(t.seen, d, e) = 1
  BY <1>4 DEF SeenMore, NewSlots, Gain
<1>11. Entered(t, u, d, e)
  BY <1>0, <1>1, <1>5, <1>6 DEF Entered
<1> QED
  BY <1>4, <1>5, <1>7, <1>8, <1>9, <1>10, <1>11 DEF EntryDone, Walking, M

\* One function of the list, whichever it is.
LEMMA EntryStep ==
  ASSUME NEW t, Walking(t), NEW d, NEW e, room \in Nat,
         Freq(d, e.f, e.variant) \in 0 .. Len(Frequencies)
  PROVE  EntryDone(t, FillEntry(t, d, e), d, e)
<1>1. CASE e.f \in SplitFunctions
  BY <1>1, EntrySplit
<1>2. CASE e.f \in Merged
  <2>1. CASE Slot(d, e) \in DOMAIN t.seen
    BY <1>2, <2>1, EntryAgain
  <2>2. CASE Slot(d, e) \notin DOMAIN t.seen
    BY <1>2, <2>2, EntryNew
  <2> QED
    BY <2>1, <2>2
<1>3. CASE e.f \notin SplitFunctions \cup Merged
  <2>1. CASE HasName(e.f, e.variant)
    BY <1>3, <2>1, EntryPlain
  <2>2. CASE ~HasName(e.f, e.variant)
    <3>1. FillEntry(t, d, e) = t
      BY <1>3, <2>2 DEF FillEntry
    <3>2. Len(t.events) \in Nat /\ e.f \notin Setters
      BY <1>3, Disjoint, SomeEvents DEF Walking, Form
    <3>3. Extends(t, t) /\ SeenMore(t, t, NewSlots(d, e)) /\ Gain(t.seen, d, e) = 0
      BY <1>3, <2>2, <3>2 DEF Extends, SeenMore, NewSlots, Gain
    <3>4. Entered(t, t, d, e)
      BY <1>3, <2>2, <3>2 DEF Entered
    <3> QED
      BY <3>1, <3>2, <3>3, <3>4 DEF EntryDone
  <2> QED
    BY <2>1, <2>2
<1> QED
  BY <1>1, <1>2, <1>3

-----------------------------------------------------------------------------
(* The second walk over the list of a device.                              *)

FreqsKnown(d) ==
  \A i \in DOMAIN system[d].functions :
    Freq(d, system[d].functions[i].f, system[d].functions[i].variant)
      \in 0 .. Len(Frequencies)

LEMMA ExtendsOn ==
  ASSUME NEW t, NEW u, NEW v, Form(t), Form(u), Form(v), Extends(t, u), Extends(u, v), room \in Nat
  PROVE  Extends(t, v)
<1>1. /\ Len(t.events) \in Nat /\ Len(u.events) \in Nat /\ Len(v.events) \in Nat
      /\ DOMAIN t.events = 1 .. Len(t.events) /\ DOMAIN u.events = 1 .. Len(u.events)
  BY SomeEvents DEF Form
<1>2. Len(t.events) <= Len(u.events) /\ Len(u.events) <= Len(v.events)
  BY DEF Extends
<1>3. Len(t.events) <= Len(v.events) /\ DOMAIN t.events \subseteq DOMAIN u.events
  BY <1>1, <1>2
<1>4. v.overrun => t.overrun \/ Len(v.events) > room
  <2>1. v.overrun => u.overrun \/ Len(v.events) > room
    BY DEF Extends
  <2>2. u.overrun => t.overrun \/ Len(u.events) > room
    BY DEF Extends
  <2>3. Len(u.events) > room => Len(v.events) > room
    BY <1>1, <1>2
  <2> QED
    BY <2>1, <2>2, <2>3
<1>5. ASSUME NEW i \in DOMAIN t.events
      PROVE  /\ v.events[i].name = t.events[i].name /\ v.events[i].f = t.events[i].f
             /\ v.events[i].device = t.events[i].device /\ v.events[i].sub = t.events[i].sub
             /\ v.events[i].mode \in {t.events[i].mode, ReadWrite}
  BY <1>3 DEF Extends
<1> QED
  BY <1>3, <1>4, <1>5 DEF Extends

LEMMA FillGoes ==
  ASSUME NEW t, Walking(t), NEW d, NEW N \in Nat, N = Len(system[d].functions),
         DOMAIN system[d].functions = 1 .. N, FreqsKnown(d), room \in Nat,
         NEW T, T = FillList(t, d)
  PROVE  /\ T[0] = t
         /\ \A k \in 0 .. N : Walking(T[k]) /\ Extends(t, T[k])
         /\ \A k \in 1 .. N : EntryDone(T[k - 1], T[k], d, system[d].functions[k])
<1> DEFINE fs == system[d].functions
           P(k) == Walking(T[k]) /\ Extends(t, T[k])
           Proved == {k \in Nat : k <= N => P(k)}
<1>1. T[0] = t /\ \A k \in 1 .. N : T[k] = FillEntry(T[k - 1], d, fs[k])
  BY FillGo
<1>2. ASSUME NEW k \in 1 .. N, Walking(T[k - 1]) PROVE EntryDone(T[k - 1], T[k], d, fs[k])
  <2>1. Freq(d, fs[k].f, fs[k].variant) \in 0 .. Len(Frequencies)
    BY DEF FreqsKnown
  <2> QED
    BY <1>1, <1>2, <2>1, EntryStep
<1>3. 0 \in Proved
  <2>1. Len(t.events) \in Nat
    BY SomeEvents DEF Walking, Form
  <2> QED
    BY <1>1, <2>1 DEF Extends
<1>4. ASSUME NEW k \in Nat, k \in Proved PROVE k + 1 \in Proved
  <2>0. SUFFICES ASSUME k + 1 <= N PROVE P(k + 1)
    <3> HIDE DEF P
    <3> QED
      OBVIOUS
  <2>1. k + 1 \in 1 .. N /\ (k + 1) - 1 = k /\ k <= N
    BY <2>0
  <2>2. Walking(T[k]) /\ Extends(t, T[k])
    BY <1>4, <2>1
  <2>3. EntryDone(T[k], T[k + 1], d, fs[k + 1])
    BY <1>2, <2>1, <2>2
  <2> HIDE DEF P, Proved
  <2>4. Walking(T[k + 1]) /\ Extends(T[k], T[k + 1])
    BY <2>3 DEF EntryDone
  <2>5. Extends(t, T[k + 1])
    BY <2>2, <2>4, ExtendsOn DEF Walking
  <2> USE DEF P
  <2> QED
    BY <2>4, <2>5
<1>5. ASSUME NEW k \in 0 .. N PROVE P(k)
  <2> HIDE DEF P
  <2>1. Nat \subseteq Proved
    BY ONLY <1>3, <1>4, SetInduction
  <2> QED
    BY <2>1
<1>6. \A k \in 1 .. N : k - 1 \in 0 .. N
  OBVIOUS
<1> QED
  BY <1>1, <1>2, <1>5, <1>6

-----------------------------------------------------------------------------
(* The two walks agree on a list.                                          *)

Counting(c) ==
  /\ c = [n |-> c.n, seen |-> c.seen] /\ c.n \in Nat \ {0}
  /\ \A s \in DOMAIN c.seen : c.seen[s] \in Nat \ {0}
\* As far as they went, the first walk has counted what the second one wrote.
Same(c, t) == Counting(c) /\ Len(t.events) = c.n /\ DOMAIN c.seen = DOMAIN t.seen

LEMMA GainFacts ==
  ASSUME NEW seen, NEW d, NEW e, Freq(d, e.f, e.variant) \in 0 .. Len(Frequencies)
  PROVE  Gain(seen, d, e) \in Nat
BY SplitFacts DEF Gain

LEMMA CountStep ==
  ASSUME NEW c, Counting(c), NEW d, NEW e, Freq(d, e.f, e.variant) \in 0 .. Len(Frequencies),
         NEW x, x = CountEntry(c, d, e)
  PROVE  /\ Counting(x) /\ x.n = c.n + Gain(c.seen, d, e)
         /\ DOMAIN x.seen = DOMAIN c.seen \cup NewSlots(d, e)
<1>0. /\ Gain(c.seen, d, e) \in Nat /\ c.n \in Nat \ {0} /\ c.n + 0 = c.n
      /\ c.n + Gain(c.seen, d, e) \in Nat \ {0}
  BY GainFacts DEF Counting
<1>1. CASE e.f \in SplitFunctions
  <2>1. e.f \notin Merged
    BY <1>1, Disjoint
  <2>2. x = [c EXCEPT !.n = @ + Gain(c.seen, d, e)]
    <3>1. Gain(c.seen, d, e) = SplitCount(e.f, Freq(d, e.f, e.variant))
      BY <1>1 DEF Gain
    <3>2. x = [c EXCEPT !.n = @ + SplitCount(e.f, Freq(d, e.f, e.variant))]
      BY <1>1, <2>1 DEF CountEntry
    <3> QED
      BY <3>1, <3>2
  <2> QED
    BY <1>0, <2>1, <2>2 DEF Counting, NewSlots
<1>2. CASE e.f \in Merged /\ Slot(d, e) \notin DOMAIN c.seen
  <2>1. e.f \notin SplitFunctions /\ SlotOf(c.seen, Slot(d, e)) = 0
    BY <1>2, Disjoint DEF SlotOf
  <2>2. x = [n |-> c.n + 1, seen |-> Take(c.seen, Slot(d, e), c.n)]
    BY <1>2, <2>1 DEF CountEntry
  <2>3. Gain(c.seen, d, e) = 1 /\ NewSlots(d, e) = {Slot(d, e)}
    BY <1>2, <2>1 DEF Gain, NewSlots
  <2> QED
    BY <1>0, <2>2, <2>3 DEF Counting, Take
<1>3. CASE e.f \in Merged /\ Slot(d, e) \in DOMAIN c.seen
  <2>1. e.f \notin SplitFunctions /\ SlotOf(c.seen, Slot(d, e)) # 0
    BY <1>3, Disjoint DEF SlotOf, Counting
  <2>2. x = c
    BY <1>3, <2>1 DEF CountEntry
  <2>3. Gain(c.seen, d, e) = 0 /\ NewSlots(d, e) = {Slot(d, e)}
    BY <1>3, <2>1 DEF Gain, NewSlots
  <2> QED
    BY <1>0, <1>3, <2>2, <2>3
<1>4. CASE e.f \notin SplitFunctions \cup Merged /\ HasName(e.f, e.variant)
  <2>1. x = [c EXCEPT !.n = @ + 1] /\ Gain(c.seen, d, e) = 1 /\ NewSlots(d, e) = {}
    BY <1>4 DEF CountEntry, Gain, NewSlots
  <2> QED
    BY <1>0, <2>1 DEF Counting
<1>5. CASE e.f \notin SplitFunctions \cup Merged /\ ~HasName(e.f, e.variant)
  <2>1. x = c /\ Gain(c.seen, d, e) = 0 /\ NewSlots(d, e) = {}
    BY <1>5 DEF CountEntry, Gain, NewSlots
  <2> QED
    BY <1>0, <2>1
<1> QED
  BY <1>1, <1>2, <1>3, <1>4, <1>5

LEMMA SameStep ==
  ASSUME NEW c, NEW t, Same(c, t), NEW d, NEW e,
         Freq(d, e.f, e.variant) \in 0 .. Len(Frequencies), NEW u, EntryDone(t, u, d, e)
  PROVE  Same(CountEntry(c, d, e), u) /\ c.n <= CountEntry(c, d, e).n
<1>1. PICK x : x = CountEntry(c, d, e)
  OBVIOUS
<1>2. /\ Counting(x) /\ x.n = c.n + Gain(c.seen, d, e)
      /\ DOMAIN x.seen = DOMAIN c.seen \cup NewSlots(d, e)
  BY <1>1, CountStep DEF Same
<1>3. Gain(c.seen, d, e) = Gain(t.seen, d, e) /\ Gain(c.seen, d, e) \in Nat /\ c.n \in Nat
  BY GainFacts DEF Gain, Same, Counting
<1>4. Len(u.events) = x.n /\ DOMAIN u.seen = DOMAIN x.seen
  BY <1>2, <1>3 DEF EntryDone, SeenMore, Same
<1> QED
  BY <1>1, <1>2, <1>3, <1>4 DEF Same

\* The first walk over a list only counts on.
LEMMA CountGoes ==
  ASSUME NEW c, Counting(c), NEW d, NEW N \in Nat, N = Len(system[d].functions),
         DOMAIN system[d].functions = 1 .. N, FreqsKnown(d), NEW C, C = CountList(c, d)
  PROVE  Counting(C[N]) /\ c.n <= C[N].n
<1> DEFINE fs == system[d].functions
           P(k) == Counting(C[k]) /\ c.n <= C[k].n
           Proved == {k \in Nat : k <= N => P(k)}
<1>1. C[0] = c /\ \A k \in 1 .. N : C[k] = CountEntry(C[k - 1], d, fs[k])
  BY CountGo
<1>2. 0 \in Proved
  BY <1>1 DEF Counting
<1>3. ASSUME NEW k \in Nat, k \in Proved PROVE k + 1 \in Proved
  <2>0. SUFFICES ASSUME k + 1 <= N PROVE P(k + 1)
    <3> HIDE DEF P
    <3> QED
      OBVIOUS
  <2>1. k + 1 \in 1 .. N /\ (k + 1) - 1 = k /\ k <= N
    BY <2>0
  <2>2. Counting(C[k]) /\ c.n <= C[k].n
    BY <1>3, <2>1
  <2> HIDE DEF P, Proved
  <2>3. C[k + 1] = CountEntry(C[k], d, fs[k + 1])
    BY <1>1, <2>1
  <2>4. Freq(d, fs[k + 1].f, fs[k + 1].variant) \in 0 .. Len(Frequencies)
    BY <2>1 DEF FreqsKnown
  <2>5. Counting(C[k + 1]) /\ C[k + 1].n = C[k].n + Gain(C[k].seen, d, fs[k + 1])
    BY <2>2, <2>3, <2>4, CountStep
  <2>6. Gain(C[k].seen, d, fs[k + 1]) \in Nat /\ C[k].n \in Nat /\ c.n \in Nat
    BY <2>2, <2>4, GainFacts DEF Counting
  <2>7. c.n <= C[k + 1].n
    BY <2>2, <2>5, <2>6
  <2> USE DEF P
  <2> QED
    BY <2>5, <2>7
<1>4. P(N)
  <2> HIDE DEF P
  <2>1. Nat \subseteq Proved
    BY ONLY <1>2, <1>3, SetInduction
  <2> QED
    BY <2>1
<1> QED
  BY <1>4

LEMMA ListsAgree ==
  ASSUME NEW c, NEW t, Same(c, t), Walking(t), NEW d, NEW N \in Nat,
         N = Len(system[d].functions), DOMAIN system[d].functions = 1 .. N,
         FreqsKnown(d), room \in Nat
  PROVE  Same(CountList(c, d)[N], FillList(t, d)[N])
<1> DEFINE fs == system[d].functions
<1>0. PICK C, T : C = CountList(c, d) /\ T = FillList(t, d)
  OBVIOUS
<1> DEFINE P(k) == Same(C[k], T[k])
           Proved == {k \in Nat : k <= N => P(k)}
<1>1. C[0] = c /\ \A k \in 1 .. N : C[k] = CountEntry(C[k - 1], d, fs[k])
  BY <1>0, CountGo
<1>2. T[0] = t /\ \A k \in 1 .. N : EntryDone(T[k - 1], T[k], d, fs[k])
  BY <1>0, FillGoes
<1>3. 0 \in Proved
  BY <1>1, <1>2
<1>4. ASSUME NEW k \in Nat, k \in Proved PROVE k + 1 \in Proved
  <2>0. SUFFICES ASSUME k + 1 <= N PROVE P(k + 1)
    <3> HIDE DEF P
    <3> QED
      OBVIOUS
  <2>1. k + 1 \in 1 .. N /\ (k + 1) - 1 = k /\ k <= N
    BY <2>0
  <2>2. Same(C[k], T[k])
    BY <1>4, <2>1
  <2> HIDE DEF P, Proved
  <2>3. C[k + 1] = CountEntry(C[k], d, fs[k + 1]) /\ EntryDone(T[k], T[k + 1], d, fs[k + 1])
    BY <1>1, <1>2, <2>1
  <2>4. Freq(d, fs[k + 1].f, fs[k + 1].variant) \in 0 .. Len(Frequencies)
    BY <2>1 DEF FreqsKnown
  <2>5. Same(C[k + 1], T[k + 1])
    BY <2>2, <2>3, <2>4, SameStep
  <2> USE DEF P
  <2> QED
    BY <2>5
<1>5. P(N)
  <2> HIDE DEF P
  <2>1. Nat \subseteq Proved
    BY ONLY <1>3, <1>4, SetInduction
  <2> QED
    BY <2>1
<1> QED
  BY <1>0, <1>5

-----------------------------------------------------------------------------
(* What is added behind the list of a device.                              *)

LEMMA NoEvents == IsEvents(<<>>) /\ Len(<<>>) = 0 /\ DOMAIN <<>> = {}
<1>1. <<>> \in Seq({}) /\ Len(<<>>) = 0 /\ DOMAIN <<>> = {}
  OBVIOUS
<1>2. \A ev \in {} : EventForm(ev)
  OBVIOUS
<1> QED
  BY <1>1, <1>2 DEF IsEvents

LEMMA WayFacts ==
  ASSUME NEW d, NEW o
  PROVE  /\ IsEvents(WayOf(d, o)) /\ \A i \in DOMAIN WayOf(d, o) : Described(WayOf(d, o)[i])
         /\ Len(WayOf(d, o)) = IF o \in FilledWays(d) THEN 2 ELSE 0
<1>0. PICK evs : evs = WayOf(d, o)
  OBVIOUS
<1>1. CASE o \in FilledWays(d)
  <2>1. \A i \in 1 .. 2 : EventForm(evs[i]) /\ evs[i].mode = {"read"}
    BY <1>0, <1>1 DEF WayOf, Event, EventForm
  <2>2. evs = [i \in 1 .. 2 |-> evs[i]]
    BY <1>0, <1>1 DEF WayOf
  <2>3. IsEvents(evs) /\ Len(evs) = 2
    BY <2>1, <2>2, AreEvents
  <2>4. DOMAIN evs = 1 .. 2
    BY <2>2
  <2>5. \A i \in DOMAIN evs : Described(evs[i])
    BY <2>1, <2>4 DEF Described
  <2> QED
    BY <1>0, <1>1, <2>3, <2>5
<1>2. CASE o \notin FilledWays(d)
  BY <1>2, NoEvents DEF WayOf
<1> QED
  BY <1>1, <1>2

LEMMA GroupFacts ==
  ASSUME NEW d, NEW g \in {"XGMI", "XGMI_DATA_OUT"}
  PROVE  /\ IsEvents(GroupOf(d, g)) /\ \A i \in DOMAIN GroupOf(d, g) : Described(GroupOf(d, g)[i])
         /\ system[d].xgmi = {} => Len(GroupOf(d, g)) = 0
<1>1. CASE g \notin system[d].xgmi
  BY <1>1, NoEvents DEF GroupOf
<1>2. CASE g \in system[d].xgmi
  <2>1. PICK n \in Nat : DOMAIN XgmiEvents[g] = 1 .. n
    <3>1. CASE g = "XGMI"
      <4>1. DOMAIN XgmiEvents[g] = 1 .. 8
        BY <3>1 DEF XgmiEvents
      <4> QED
        BY <4>1
    <3>2. CASE g = "XGMI_DATA_OUT"
      <4>1. DOMAIN XgmiEvents[g] = 1 .. 6
        BY <3>2 DEF XgmiEvents
      <4> QED
        BY <4>1
    <3> QED
      BY <3>1, <3>2
  <2>2. PICK evs : evs = XgmiOf(d, g)
    OBVIOUS
  <2>3. \A i \in 1 .. n : EventForm(evs[i]) /\ evs[i].mode = {"read"}
    BY <2>1, <2>2 DEF XgmiOf, Event, EventForm
  <2>4. evs = [i \in 1 .. n |-> evs[i]]
    BY <2>1, <2>2 DEF XgmiOf
  <2>5. IsEvents(evs)
    BY <2>3, <2>4, AreEvents
  <2>6. \A i \in DOMAIN evs : Described(evs[i])
    BY <2>3, <2>4 DEF Described
  <2> QED
    BY <1>2, <2>2, <2>5, <2>6 DEF GroupOf
<1> QED
  BY <1>1, <1>2

LEMMA JoinedDescribed ==
  ASSUME NEW s, IsEvents(s), NEW r, IsEvents(r),
         \A i \in DOMAIN s : Described(s[i]), \A i \in DOMAIN r : Described(r[i])
  PROVE  /\ IsEvents(s \o r) /\ Len(s \o r) = Len(s) + Len(r)
         /\ \A i \in DOMAIN (s \o r) : Described((s \o r)[i])
<1>1. /\ IsEvents(s \o r) /\ Len(s \o r) = Len(s) + Len(r)
      /\ Members(s \o r) \subseteq Members(s) \cup Members(r)
  <2>1. IsEvents(s) /\ IsEvents(r)
    OBVIOUS
  <2> QED
    BY ONLY <2>1, Joined
<1>2. \A x \in Members(s) \cup Members(r) : Described(x)
  BY DEF Members
<1>3. \A i \in DOMAIN (s \o r) : (s \o r)[i] \in Members(s \o r)
  BY DEF Members
<1> QED
  BY <1>1, <1>2, <1>3

LEMMA WaysFacts ==
  ASSUME NEW d, NEW N \in Nat, N = Len(system), DOMAIN system = 1 .. N
  PROVE  /\ IsEvents(WaysOf(d)[N]) /\ Len(WaysOf(d)[N]) = 2 * Cardinality(FilledWays(d))
         /\ \A i \in DOMAIN WaysOf(d)[N] : Described(WaysOf(d)[N][i])
<1>0. PICK W : W = WaysOf(d)
  OBVIOUS
<1>1. /\ W[0] = <<>>
      /\ \A k \in 1 .. N : W[k] = W[k - 1] \o WayOf(d, k)
  BY <1>0, WaysGo
<1> DEFINE S(k) == {o \in FilledWays(d) : o <= k}
           P(k) == /\ IsEvents(W[k]) /\ \A i \in DOMAIN W[k] : Described(W[k][i])
                   /\ IsFiniteSet(S(k)) /\ Len(W[k]) = 2 * Cardinality(S(k))
           Proved == {k \in Nat : k <= N => P(k)}
<1>2. FilledWays(d) \subseteq 1 .. N
  BY DEF FilledWays, Devices
<1>3. 0 \in Proved
  <2>1. S(0) = {}
    BY <1>2
  <2>2. IsFiniteSet({}) /\ Cardinality({}) = 0
    BY FS_EmptySet
  <2>3. IsEvents(W[0]) /\ Len(W[0]) = 0 /\ DOMAIN W[0] = {}
    BY <1>1, NoEvents
  <2> HIDE DEF S
  <2> QED
    BY <2>1, <2>2, <2>3
<1>4. ASSUME NEW k \in Nat, k \in Proved PROVE k + 1 \in Proved
  <2>0. SUFFICES ASSUME k + 1 <= N PROVE P(k + 1)
    <3> HIDE DEF P
    <3> QED
      OBVIOUS
  <2>1. k + 1 \in 1 .. N /\ (k + 1) - 1 = k /\ k <= N
    BY <2>0
  <2>2. /\ IsEvents(W[k]) /\ \A i \in DOMAIN W[k] : Described(W[k][i])
        /\ IsFiniteSet(S(k)) /\ Len(W[k]) = 2 * Cardinality(S(k))
    BY <1>4, <2>1
  <2> HIDE DEF P, Proved
  <2>3. PICK r : r = WayOf(d, k + 1)
    OBVIOUS
  <2>4. W[k + 1] = W[k] \o r
    BY <1>1, <2>1, <2>3
  <2>5. /\ IsEvents(r) /\ \A i \in DOMAIN r : Described(r[i])
        /\ Len(r) = IF k + 1 \in FilledWays(d) THEN 2 ELSE 0
    BY <2>3, WayFacts
  <2>6. /\ IsEvents(W[k + 1]) /\ Len(W[k + 1]) = Len(W[k]) + Len(r)
        /\ \A i \in DOMAIN W[k + 1] : Described(W[k + 1][i])
    BY <2>2, <2>4, <2>5, JoinedDescribed
  <2>7. S(k + 1) = IF k + 1 \in FilledWays(d) THEN S(k) \cup {k + 1} ELSE S(k)
    BY <1>2
  <2>8. k + 1 \notin S(k)
    OBVIOUS
  <2> HIDE DEF S
  <2>9. /\ IsFiniteSet(S(k + 1)) /\ Cardinality(S(k)) \in Nat
        /\ Cardinality(S(k + 1)) = Cardinality(S(k)) + (IF k + 1 \in FilledWays(d) THEN 1 ELSE 0)
    BY <2>2, <2>7, <2>8, FS_AddElement, FS_CardinalityType
  <2>10. Len(W[k + 1]) = 2 * Cardinality(S(k + 1))
    BY <2>2, <2>5, <2>6, <2>9
  <2> USE DEF P
  <2> QED
    BY <2>6, <2>9, <2>10
<1>5. P(N)
  <2> HIDE DEF P
  <2>1. Nat \subseteq Proved
    BY ONLY <1>3, <1>4, SetInduction
  <2> QED
    BY <2>1
<1>6. S(N) = FilledWays(d)
  BY <1>2
<1> QED
  BY <1>0, <1>5, <1>6

LEMMA XgmiAdded ==
  ASSUME NEW t, Walking(t), NEW d, NEW N \in Nat, N = Len(system), DOMAIN system = 1 .. N,
         room \in Nat, NEW u, u = handle_xgmi_events(t, d)
  PROVE  /\ Walking(u) /\ Extends(t, u) /\ SeenMore(t, u, {})
         /\ system[d].xgmi = {} => Len(u.events) = Len(t.events) + 2 * Cardinality(FilledWays(d))
<1>1. PICK g1, g2, ws : /\ g1 = GroupOf(d, "XGMI") /\ g2 = GroupOf(d, "XGMI_DATA_OUT")
                        /\ ws = WaysOf(d)[N]
  OBVIOUS
<1>2. /\ IsEvents(g1) /\ \A i \in DOMAIN g1 : Described(g1[i])
      /\ IsEvents(g2) /\ \A i \in DOMAIN g2 : Described(g2[i])
      /\ system[d].xgmi = {} => Len(g1) = 0 /\ Len(g2) = 0
  BY <1>1, GroupFacts
<1>3. /\ IsEvents(ws) /\ \A i \in DOMAIN ws : Described(ws[i])
      /\ Len(ws) = 2 * Cardinality(FilledWays(d))
  BY <1>1, WaysFacts
<1>4. PICK gs : gs = g1 \o g2
  OBVIOUS
<1>5. /\ IsEvents(gs) /\ \A i \in DOMAIN gs : Described(gs[i])
      /\ Len(gs) = Len(g1) + Len(g2)
  BY <1>2, <1>4, JoinedDescribed
<1>6. PICK evs : evs = gs \o ws
  OBVIOUS
<1>7. /\ IsEvents(evs) /\ \A i \in DOMAIN evs : Described(evs[i])
      /\ Len(evs) = Len(gs) + Len(ws)
  BY <1>3, <1>5, <1>6, JoinedDescribed
<1>8. u = AddAll(t, evs)
  BY <1>1, <1>4, <1>6 DEF handle_xgmi_events
<1>9. AddedTo(t, evs, u)
  BY <1>7, <1>8, AddedWalking
<1>10. system[d].xgmi = {} => Len(evs) = Len(ws)
  <2>1. Len(ws) \in Nat
    BY <1>3, SomeEvents
  <2> QED
    BY <1>2, <1>5, <1>7, <2>1
<1> QED
  BY <1>3, <1>9, <1>10 DEF AddedTo

-----------------------------------------------------------------------------
(* What the second walk offers.                                            *)

\* The merged event of the fans of a device is that of the first fan.
FanRight(t) ==
  \A s \in DOMAIN t.seen : s[2] = "fan_speed" => t.events[t.seen[s]].sub = "sensor0"

OfferedIn(t, d, e) ==
  \E i \in DOMAIN t.events :
    /\ t.events[i].device = d /\ Label(t.events[i].f) = Label(e.f)
    /\ e.f \in Setters => t.events[i].mode = ReadWrite
    /\ e.f \notin SplitFunctions => t.events[i].name = get_event_name(e.f, d, e.variant, e.sub)
Excused(d, e) ==
  \/ ~HasName(e.f, e.variant)
  \/ e.f \in FanSpeed /\ e.sub # "sensor0"
  \/ e.f \in {"gpu_clk_freq_get", "gpu_clk_freq_set"} /\ Freq(d, e.f, e.variant) = 0

\* What is offered stays so.
LEMMA OfferStays ==
  ASSUME NEW t, Form(t), NEW u, Form(u), Extends(t, u), NEW d, NEW e, OfferedIn(t, d, e)
  PROVE  OfferedIn(u, d, e)
<1>1. PICK i \in DOMAIN t.events :
        /\ t.events[i].device = d /\ Label(t.events[i].f) = Label(e.f)
        /\ e.f \in Setters => t.events[i].mode = ReadWrite
        /\ e.f \notin SplitFunctions => t.events[i].name = get_event_name(e.f, d, e.variant, e.sub)
  BY DEF OfferedIn
<1>2. i \in DOMAIN u.events
  <2>1. /\ Len(t.events) \in Nat /\ Len(u.events) \in Nat
        /\ DOMAIN t.events = 1 .. Len(t.events) /\ DOMAIN u.events = 1 .. Len(u.events)
    BY SomeEvents DEF Form
  <2>2. Len(t.events) <= Len(u.events)
    BY DEF Extends
  <2> QED
    BY <2>1, <2>2
<1> QED
  BY <1>1, <1>2 DEF Extends, OfferedIn

LEMMA FanStays ==
  ASSUME NEW t, Walking(t), NEW u, Extends(t, u), SeenMore(t, u, {}), FanRight(t)
  PROVE  FanRight(u)
BY DEF Walking, SeenRight, Extends, SeenMore, FanRight

LEMMA NoSplitName ==
  ASSUME NEW f \in SplitFunctions, NEW v, NEW freq \in Nat, SplitCount(f, freq) = 0
  PROVE  ~HasName(f, v) \/ (f \in {"gpu_clk_freq_get", "gpu_clk_freq_set"} /\ freq = 0)
<1>1. CASE f \in {"pci_throughput_get", "power_profile_presets_get"}
  BY <1>1 DEF SplitCount
<1>2. CASE f \in {"power_cap_range_get", "ecc_count_get"}
  BY <1>2 DEF SplitCount
<1>3. CASE f = "gpu_clk_freq_get"
  BY <1>3 DEF SplitCount
<1>4. CASE f = "gpu_clk_freq_set"
  BY <1>4 DEF SplitCount
<1>5. CASE f \in {"pci_bandwidth_get", "pci_bandwidth_set"}
  <2>1. KnownVariants(f) = {}
    BY <1>5 DEF KnownVariants
  <2> QED
    BY <1>5, <2>1 DEF HasName, DeviceFunctions, TextFunctions, PerfLevel, SensorFunctions,
                      FanSpeed, PowerCap
<1> QED
  BY <1>1, <1>2, <1>3, <1>4, <1>5 DEF SplitFunctions

\* A function of the list is offered when the second walk has been there.
LEMMA EntryOffered ==
  ASSUME NEW t, NEW u, NEW d, NEW e, EntryDone(t, u, d, e), FanRight(u),
         Freq(d, e.f, e.variant) \in 0 .. Len(Frequencies),
         e.f \in Setters => Slot(d, e) \in DOMAIN t.seen
  PROVE  OfferedIn(u, d, e) \/ Excused(d, e)
<1> DEFINE s == Slot(d, e)
<1>0. /\ Walking(u) /\ SeenMore(t, u, NewSlots(d, e)) /\ Entered(t, u, d, e)
  BY DEF EntryDone
<1>1. CASE e.f \in SplitFunctions
  <2>1. e.f \notin Setters
    BY <1>1, Disjoint
  <2>2. SplitCount(e.f, Freq(d, e.f, e.variant)) \in Nat /\ Freq(d, e.f, e.variant) \in Nat
    BY SplitFacts DEF Frequencies
  <2>3. CASE SplitCount(e.f, Freq(d, e.f, e.variant)) > 0
    BY <1>0, <1>1, <2>1, <2>3 DEF Entered, OfferedIn
  <2>4. CASE SplitCount(e.f, Freq(d, e.f, e.variant)) = 0
    BY <1>1, <2>2, <2>4, NoSplitName DEF Excused
  <2> QED
    BY <2>2, <2>3, <2>4
<1>2. CASE e.f \in Merged
  <2>1. /\ s \in DOMAIN u.seen /\ SeenRight(u, s)
        /\ s[1] = d /\ s[2] = Label(e.f) /\ (e.f \in PowerCap => s[3] = e.sub)
    BY <1>0, <1>2 DEF Walking, SeenMore, NewSlots, Slot
  <2>2. PICK ev : ev = u.events[u.seen[s]]
    OBVIOUS
  <2>3. /\ u.seen[s] \in DOMAIN u.events /\ ev.device = d /\ Label(ev.f) = Label(e.f)
        /\ ev.name = Name(Label(e.f), d, "none", IF Label(e.f) = "perf_level" THEN "none" ELSE ev.sub)
        /\ e.f \in PowerCap => ev.sub = e.sub
    BY <1>2, <2>1, <2>2, MergedNames DEF SeenRight
  <2>4. e.f \in FanSpeed => ev.sub = "sensor0"
    BY <2>1, <2>2, Labels DEF FanRight
  <2>5. get_event_name(e.f, d, e.variant, e.sub)
          = Name(Label(e.f), d, "none", IF Label(e.f) = "perf_level" THEN "none" ELSE e.sub)
    BY <1>2, MergedNames
  <2>6. e.f \in Setters => ev.mode = ReadWrite
    BY <1>0, <2>2 DEF Entered
  <2>7. (e.f \in FanSpeed => e.sub = "sensor0") => ev.name = get_event_name(e.f, d, e.variant, e.sub)
    <3>1. e.f \in PerfLevel \/ e.f \in FanSpeed \/ e.f \in PowerCap
      BY <1>2 DEF Merged
    <3>2. e.f \in PerfLevel => Label(e.f) = "perf_level"
      BY Labels
    <3> QED
      BY <2>3, <2>4, <2>5, <3>1, <3>2
  <2> HIDE DEF s
  <2> QED
    BY <2>2, <2>3, <2>6, <2>7 DEF OfferedIn, Excused
<1>3. CASE e.f \notin SplitFunctions \cup Merged /\ HasName(e.f, e.variant)
  <2>1. PICK i \in DOMAIN u.events : u.events[i] = OwnEvent(d, e)
    BY <1>0, <1>3 DEF Entered
  <2>2. /\ u.events[i].f = e.f /\ u.events[i].device = d
        /\ u.events[i].name = get_event_name(e.f, d, e.variant, e.sub)
    BY <2>1, OwnEventFacts
  <2>3. e.f \notin Setters
    BY <1>3, Disjoint
  <2> QED
    BY <2>2, <2>3 DEF OfferedIn
<1>4. CASE ~HasName(e.f, e.variant)
  BY <1>4 DEF Excused
<1> QED
  BY <1>1, <1>2, <1>3, <1>4

\* The first fan function of a sorted list is that of the first fan, and a set
\* function comes after its get function.
LEMMA InList ==
  ASSUME NEW d, NEW fs, Ordered(fs), NEW k \in Nat, k + 1 \in DOMAIN fs, NEW seen,
         \A j \in 1 .. k : fs[j].f \in Merged => Slot(d, fs[j]) \in seen
  PROVE  /\ fs[k + 1].f \in Setters => Slot(d, fs[k + 1]) \in seen
         /\ fs[k + 1].f \in FanSpeed /\ Slot(d, fs[k + 1]) \notin seen =>
              fs[k + 1].sub = "sensor0"
<1> DEFINE e == fs[k + 1]
<1>0. (k + 1) - 1 = k /\ \A j \in 1 .. k + 1 : j \in 1 .. k \/ j = k + 1
  OBVIOUS
<1>1. /\ e.f = "power_cap_set" =>
           \E j \in 1 .. k : fs[j].f = "power_cap_get" /\ fs[j].sub = e.sub
      /\ e.f = "perf_level_set" => \E j \in 1 .. k : fs[j].f = "perf_level_get"
      /\ e.f \in FanSpeed => \E j \in 1 .. k + 1 : fs[j].f = "fan_speed_get" /\ fs[j].sub = "sensor0"
  BY <1>0 DEF Ordered
<1> HIDE DEF e
<1>2. CASE e.f = "power_cap_set"
  <2>1. PICK j \in 1 .. k : fs[j].f = "power_cap_get" /\ fs[j].sub = e.sub
    BY <1>1, <1>2
  <2>2. fs[j].f \in Merged /\ Slot(d, fs[j]) = Slot(d, e)
    BY <1>2, <2>1, Labels DEF Merged, PowerCap, Slot
  <2> QED
    BY <1>2, <2>2 DEF e, FanSpeed
<1>3. CASE e.f = "perf_level_set"
  <2>1. PICK j \in 1 .. k : fs[j].f = "perf_level_get"
    BY <1>1, <1>3
  <2>2. fs[j].f \in Merged /\ Slot(d, fs[j]) = Slot(d, e)
    BY <1>3, <2>1, Labels DEF Merged, PowerCap, PerfLevel, Slot
  <2> QED
    BY <1>3, <2>2 DEF e, FanSpeed
<1>4. CASE e.f \in FanSpeed
  <2>1. PICK j \in 1 .. k + 1 : fs[j].f = "fan_speed_get" /\ fs[j].sub = "sensor0"
    BY <1>1, <1>4
  <2>2. fs[j].f \in Merged /\ Slot(d, fs[j]) = Slot(d, e)
    BY <1>4, <2>1, Labels DEF Merged, PowerCap, FanSpeed, Slot
  <2>3. CASE j \in 1 .. k
    BY <2>2, <2>3 DEF e
  <2>4. CASE j = k + 1
    BY <1>4, <2>1, <2>4 DEF e, Setters
  <2> QED
    BY <1>0, <2>3, <2>4
<1> QED
  BY <1>2, <1>3, <1>4 DEF e, Setters, FanSpeed

LEMMA FillOffers ==
  ASSUME NEW t, Walking(t), FanRight(t), NEW d, NEW N \in Nat, N = Len(system[d].functions),
         DOMAIN system[d].functions = 1 .. N, FreqsKnown(d), room \in Nat,
         Ordered(system[d].functions), NEW T, T = FillList(t, d)
  PROVE  /\ FanRight(T[N])
         /\ \A i \in 1 .. N : \/ OfferedIn(T[N], d, system[d].functions[i])
                              \/ Excused(d, system[d].functions[i])
<1> DEFINE fs == system[d].functions
           P(k) == /\ FanRight(T[k])
                   /\ \A j \in 1 .. k : fs[j].f \in Merged => Slot(d, fs[j]) \in DOMAIN T[k].seen
                   /\ \A j \in 1 .. k : OfferedIn(T[k], d, fs[j]) \/ Excused(d, fs[j])
           Proved == {k \in Nat : k <= N => P(k)}
<1>1. /\ T[0] = t /\ \A k \in 0 .. N : Walking(T[k])
      /\ \A k \in 1 .. N : EntryDone(T[k - 1], T[k], d, fs[k])
  BY FillGoes
<1>2. 0 \in Proved
  BY <1>1
<1>3. ASSUME NEW k \in Nat, k \in Proved PROVE k + 1 \in Proved
  <2>0. SUFFICES ASSUME k + 1 <= N PROVE P(k + 1)
    <3> HIDE DEF P
    <3> QED
      OBVIOUS
  <2>1. /\ k + 1 \in 1 .. N /\ (k + 1) - 1 = k /\ k <= N /\ k \in 0 .. N
        /\ \A j \in 1 .. k + 1 : j \in 1 .. k \/ j = k + 1
    BY <2>0
  <2>2. /\ FanRight(T[k])
        /\ \A j \in 1 .. k : fs[j].f \in Merged => Slot(d, fs[j]) \in DOMAIN T[k].seen
        /\ \A j \in 1 .. k : OfferedIn(T[k], d, fs[j]) \/ Excused(d, fs[j])
    BY <1>3, <2>1
  <2> HIDE DEF P, Proved
  <2>3. PICK e, a, b : e = fs[k + 1] /\ a = T[k] /\ b = T[k + 1]
    OBVIOUS
  <2>4. EntryDone(a, b, d, e) /\ Walking(a) /\ Walking(b)
    BY <1>1, <2>1, <2>3 DEF EntryDone
  <2>5. /\ e.f \in Setters => Slot(d, e) \in DOMAIN a.seen
        /\ e.f \in FanSpeed /\ Slot(d, e) \notin DOMAIN a.seen => e.sub = "sensor0"
    BY <2>1, <2>2, <2>3, InList
  <2>6. Extends(a, b) /\ SeenMore(a, b, NewSlots(d, e)) /\ Entered(a, b, d, e)
    BY <2>4 DEF EntryDone
  <2>7. FanRight(b)
    <3>1. SUFFICES ASSUME NEW s \in DOMAIN b.seen, s[2] = "fan_speed"
                   PROVE  b.events[b.seen[s]].sub = "sensor0"
      BY DEF FanRight
    <3>2. CASE s \in DOMAIN a.seen
      <4>1. SeenRight(a, s) /\ a.events[a.seen[s]].sub = "sensor0" /\ b.seen[s] = a.seen[s]
        BY <2>2, <2>3, <2>4, <2>6, <3>1, <3>2 DEF Walking, FanRight, SeenMore
      <4> QED
        BY <2>6, <4>1 DEF SeenRight, Extends
    <3>3. CASE s \notin DOMAIN a.seen
      <4>1. e.f \in Merged /\ s = Slot(d, e)
        BY <2>6, <3>3 DEF SeenMore, NewSlots
      <4>2. b.events[b.seen[s]] = OwnEvent(d, e)
        BY <2>6, <3>3, <4>1 DEF Entered
      <4>3. e.f \in FanSpeed
        BY <3>1, <4>1, Labels DEF Slot, Merged
      <4>4. e.sub = "sensor0"
        BY <2>5, <3>3, <4>1, <4>3
      <4> QED
        BY <4>2, <4>4, OwnEventFacts
    <3> QED
      BY <3>2, <3>3
  <2>8. ASSUME NEW j \in 1 .. k + 1, fs[j].f \in Merged
        PROVE  Slot(d, fs[j]) \in DOMAIN b.seen
    BY <2>1, <2>2, <2>3, <2>6, <2>8 DEF SeenMore, NewSlots
  <2>9. ASSUME NEW j \in 1 .. k + 1
        PROVE  OfferedIn(b, d, fs[j]) \/ Excused(d, fs[j])
    <3>1. CASE j = k + 1
      <4>1. Freq(d, e.f, e.variant) \in 0 .. Len(Frequencies)
        BY <2>1, <2>3 DEF FreqsKnown
      <4> QED
        BY <2>3, <2>4, <2>5, <2>7, <3>1, <4>1, EntryOffered
    <3>2. CASE j \in 1 .. k
      BY <2>2, <2>3, <2>4, <2>6, <3>2, OfferStays DEF Walking
    <3> QED
      BY <2>1, <3>1, <3>2
  <2> USE DEF P
  <2> QED
    BY <2>3, <2>7, <2>8, <2>9
<1>4. P(N)
  <2> HIDE DEF P
  <2>1. Nat \subseteq Proved
    BY ONLY <1>2, <1>3, SetInduction
  <2> QED
    BY <2>1
<1> QED
  BY <1>4

-----------------------------------------------------------------------------
(* The ways between the devices, and the stages of the first walk.         *)

NumberOf == Len(system)

LEMMA SystemFacts ==
  ASSUME system \in Systems
  PROVE  /\ NumberOf \in Nat /\ DOMAIN system = 1 .. NumberOf /\ Devices = 1 .. NumberOf
         /\ \A d \in Devices :
              /\ system[d].listed \in BOOLEAN /\ FreqsKnown(d)
              /\ Len(system[d].functions) \in Nat
              /\ DOMAIN system[d].functions = 1 .. Len(system[d].functions)
<1>1. system \in Seq(Device)
  BY EventTableAssumption DEF EventTableAssumption
<1>2. /\ NumberOf \in Nat /\ DOMAIN system = 1 .. NumberOf /\ Devices = 1 .. NumberOf
      /\ \A d \in Devices : system[d] \in Device
  BY <1>1 DEF NumberOf, Devices
<1>3. ASSUME NEW d \in Devices
      PROVE  /\ system[d].listed \in BOOLEAN
             /\ Len(system[d].functions) \in Nat
             /\ DOMAIN system[d].functions = 1 .. Len(system[d].functions)
             /\ \A v \in Clocks : system[d].freq[v] \in 0 .. Len(Frequencies)
  <2>1. /\ system[d].listed \in BOOLEAN /\ system[d].functions \in Seq(SupportedFunction)
        /\ system[d].freq \in [Clocks -> 0 .. Len(Frequencies)]
    BY <1>2 DEF Device
  <2> QED
    BY <2>1
<1>4. ASSUME NEW d \in Devices PROVE FreqsKnown(d)
  <2>1. SUFFICES ASSUME NEW i \in DOMAIN system[d].functions,
                        NEW e, e = system[d].functions[i]
                 PROVE  Freq(d, e.f, e.variant) \in 0 .. Len(Frequencies)
    BY DEF FreqsKnown
  <2>2. 0 \in 0 .. Len(Frequencies)
    BY DEF Frequencies
  <2>3. e.f \in {"gpu_clk_freq_get", "gpu_clk_freq_set"} => e.variant \in Clocks
    BY <2>1, EventTableAssumption DEF EventTableAssumption, Devices
  <2> QED
    BY <1>3, <2>2, <2>3 DEF Freq
<1> QED
  BY <1>2, <1>3, <1>4

\* On a machine whose devices agree about their ways, the first walk counts the
\* ways that the second one fills.
LEMMA SameWays ==
  ASSUME system \in Systems, WaysAgree, NEW d \in Devices
  PROVE  CountedWays(d) = FilledWays(d)
<1>1. system \in Seq(Device)
  BY EventTableAssumption DEF EventTableAssumption
<1>2. /\ NumberOf \in Nat /\ DOMAIN system = 1 .. NumberOf /\ Devices = 1 .. NumberOf
      /\ \A x \in Devices : system[x] \in Device
  BY <1>1 DEF NumberOf, Devices
<1>3. ASSUME NEW x \in Devices \ {d}
      PROVE  /\ system[x].p2p[d] = system[d].p2p[x]
             /\ system[d].p2p[x] \in {"yes", "no", "error"}
             /\ system[d].p2p[x] = "no" /\ ~system[d].bandwidth[x] =>
                  \A o \in Devices : o > x /\ o # d => system[d].p2p[o] # "yes"
  <2>1. /\ system[x].p2p[d] = system[d].p2p[x]
        /\ system[d].p2p[x] = "no" /\ ~system[d].bandwidth[x] =>
             \A o \in DOMAIN system : o > x /\ o # d => system[d].p2p[o] # "yes"
    BY DEF WaysAgree, Devices
  <2>2. system[d].p2p \in Seq({"yes", "no", "error"})
    BY <1>2 DEF Device
  <2>3. Len(system[d].p2p) = NumberOf
    BY EventTableAssumption DEF EventTableAssumption, Devices, NumberOf
  <2>4. x \in 1 .. Len(system[d].p2p)
    BY <1>2, <2>3
  <2> QED
    BY <2>1, <2>2, <2>4 DEF Devices
<1>4. ASSUME NEW o \in Devices \ {d} PROVE o \in CountedWays(d) <=> o \in FilledWays(d)
  <2>1. Before(d, o) \subseteq Devices \ {d} /\ \A x \in Before(d, o) : x < o \/ x = o
    BY <1>2 DEF Before
  <2>2. ASSUME o \in CountedWays(d) PROVE o \in FilledWays(d)
    <3>1. /\ system[d].p2p[o] = "yes"
          /\ \A x \in Before(d, o) : system[d].p2p[x] # "error" /\ system[d].bandwidth[x]
      BY <2>2 DEF CountedWays, RefusedInCount
    <3> QED
      BY <1>3, <2>1, <3>1 DEF FilledWays, RefusedInFill
  <2>3. ASSUME o \in FilledWays(d) PROVE o \in CountedWays(d)
    <3>1. /\ system[o].p2p[d] = "yes"
          /\ \A x \in Before(d, o) : /\ system[x].p2p[d] # "error"
                                     /\ system[x].p2p[d] = "yes" => system[d].bandwidth[x]
      BY <2>3 DEF FilledWays, RefusedInFill
    <3>2. ASSUME NEW x \in Before(d, o), ~system[d].bandwidth[x] PROVE FALSE
      <4>1. system[d].p2p[x] = "no"
        BY <1>3, <2>1, <3>1, <3>2
      <4>2. x # o
        BY <1>3, <3>1, <4>1
      <4>3. o > x
        BY <1>2, <2>1, <4>2
      <4> QED
        BY <1>3, <2>1, <3>1, <3>2, <4>1, <4>3
    <3> QED
      BY <1>3, <2>1, <3>1, <3>2 DEF CountedWays, RefusedInCount
  <2> QED
    BY <2>2, <2>3
<1> QED
  BY <1>4 DEF CountedWays, FilledWays

LEMMA XgmiCount ==
  ASSUME system \in Systems, NEW d \in Devices
  PROVE  /\ handle_xgmi_events_count(d) \in Nat
         /\ system[d].xgmi = {} => handle_xgmi_events_count(d) = 2 * Cardinality(CountedWays(d))
<1>1. Cardinality(CountedWays(d)) \in Nat
  <2>1. CountedWays(d) \subseteq 1 .. NumberOf /\ NumberOf \in Nat
    BY SystemFacts DEF CountedWays
  <2>2. IsFiniteSet(1 .. NumberOf)
    BY <2>1, FS_Interval
  <2>3. IsFiniteSet(CountedWays(d))
    BY ONLY <2>1, <2>2, FS_Subset
  <2> QED
    BY <2>3, FS_CardinalityType
<1>2. PICK a : a = IF "XGMI" \in system[d].xgmi THEN Len(XgmiEvents["XGMI"]) - 1 ELSE 0
  OBVIOUS
<1>3. PICK b : b = IF "XGMI_DATA_OUT" \in system[d].xgmi
                   THEN Len(XgmiEvents["XGMI_DATA_OUT"]) - 1 ELSE 0
  OBVIOUS
<1>4. a \in Nat /\ (system[d].xgmi = {} => a = 0)
  <2>1. Len(XgmiEvents["XGMI"]) = 8
    BY DEF XgmiEvents
  <2> QED
    BY <1>2, <2>1
<1>5. b \in Nat /\ (system[d].xgmi = {} => b = 0)
  <2>1. Len(XgmiEvents["XGMI_DATA_OUT"]) = 6
    BY DEF XgmiEvents
  <2> QED
    BY <1>3, <2>1
<1>6. handle_xgmi_events_count(d) = a + b + 2 * Cardinality(CountedWays(d))
  BY <1>2, <1>3 DEF handle_xgmi_events_count
<1> QED
  BY <1>1, <1>4, <1>5, <1>6

\* What the first walk has counted when it is through with a device.
FirstStage == [n |-> Len(InfoFunctions), seen |-> <<>>]
Listed(c, d) == CountList(c, d)[Len(system[d].functions)]
NextStage(c, d) ==
  IF ~system[d].listed THEN c
  ELSE [n |-> Listed(c, d).n + handle_xgmi_events_count(d), seen |-> Listed(c, d).seen]
Stages ==
  LET S[k \in 0 .. Len(system)] == IF k = 0 THEN FirstStage ELSE NextStage(S[k - 1], k)
  IN S

\* So is the first walk over the devices.
LEMMA StagesGo ==
  ASSUME NEW N \in Nat, N = Len(system), NEW S, S = Stages
  PROVE  /\ S[0] = FirstStage
         /\ \A k \in 1 .. N : S[k] = NextStage(S[k - 1], k)
<1> DEFINE G(k, X) == NextStage(X, k)
           F(V, n) == [k \in 0 .. n |-> IF k = 0 THEN FirstStage ELSE G(k, V[k - 1])]
           Good == {n \in Nat : \E V : V = F(V, n)}
<1>1. 0 \in Good
  <2>1. PICK V : V = [k \in 0 .. 0 |-> FirstStage]
    OBVIOUS
  <2>2. V = F(V, 0)
    BY <2>1
  <2> QED
    BY <2>2
<1>2. ASSUME NEW n \in Nat, n \in Good
      PROVE  n + 1 \in Good
  <2>1. PICK V : V = F(V, n)
    BY <1>2
  <2>2. PICK U : U = [k \in 0 .. n + 1 |-> IF k = n + 1 THEN G(n + 1, V[n]) ELSE V[k]]
    OBVIOUS
  <2> HIDE DEF G
  <2>3. ASSUME NEW k \in 0 .. n + 1
        PROVE  U[k] = IF k = 0 THEN FirstStage ELSE G(k, U[k - 1])
    <3>1. CASE k = 0
      <4>1. U[0] = V[0] /\ V[0] = FirstStage
        BY <2>1, <2>2
      <4> QED
        BY <3>1, <4>1
    <3>2. CASE k \in 1 .. n
      <4>1. k - 1 \in 0 .. n /\ k \in 0 .. n /\ k # n + 1 /\ k - 1 # n + 1
        BY <3>2
      <4>2. U[k] = V[k] /\ U[k - 1] = V[k - 1]
        BY <2>2, <4>1
      <4>3. V[k] = G(k, V[k - 1])
        BY <2>1, <3>2, <4>1
      <4> QED
        BY <3>2, <4>2, <4>3
    <3>3. CASE k = n + 1
      <4>1. U[k] = G(n + 1, V[n])
        BY <2>2, <3>3
      <4>2. k - 1 = n /\ U[n] = V[n]
        BY <2>2, <3>3
      <4> QED
        BY <3>3, <4>1, <4>2
    <3> QED
      BY <3>1, <3>2, <3>3
  <2>4. U = F(U, n + 1)
    BY <2>2, <2>3
  <2> QED
    BY <2>4
<1>3. \E V : V = F(V, N)
  <2> HIDE DEF F
  <2>1. Nat \subseteq Good
    BY ONLY <1>1, <1>2, SetInduction
  <2> QED
    BY <2>1
<1>4. S = CHOOSE V : V = F(V, N)
  BY DEF Stages
<1>5. S = F(S, N)
  <2> HIDE DEF F
  <2> QED
    BY <1>3, <1>4
<1> HIDE DEF G
<1>6. 0 \in 0 .. N /\ \A k \in 1 .. N : k \in 0 .. N /\ k # 0
  OBVIOUS
<1>7. S[0] = FirstStage /\ \A k \in 1 .. N : S[k] = G(k, S[k - 1])
  BY <1>5, <1>6
<1> QED
  BY <1>7 DEF G

LEMMA InfoCount == Len(InfoFunctions) = 3
BY DEF InfoFunctions

LEMMA StageStep ==
  ASSUME system \in Systems, NEW d \in Devices, NEW c, Counting(c)
  PROVE  /\ Counting(NextStage(c, d)) /\ c.n <= NextStage(c, d).n
         /\ system[d].listed => Listed(c, d).n <= NextStage(c, d).n
<1>1. CASE ~system[d].listed
  BY <1>1 DEF NextStage, Counting
<1>2. CASE system[d].listed
  <2>1. PICK l : l = Listed(c, d)
    OBVIOUS
  <2>2. Counting(l) /\ c.n <= l.n
    BY <2>1, CountGoes, SystemFacts DEF Listed
  <2>3. handle_xgmi_events_count(d) \in Nat
    BY XgmiCount
  <2>4. NextStage(c, d) = [n |-> l.n + handle_xgmi_events_count(d), seen |-> l.seen]
    BY <1>2, <2>1 DEF NextStage
  <2> QED
    BY <2>1, <2>2, <2>3, <2>4 DEF Counting
<1> QED
  BY <1>1, <1>2

LEMMA StageFacts ==
  ASSUME system \in Systems, NEW N \in Nat, N = Len(system), NEW S, S = Stages
  PROVE  /\ S[0] = FirstStage /\ \A k \in 1 .. N : S[k] = NextStage(S[k - 1], k)
         /\ \A k \in 0 .. N : Counting(S[k]) /\ \A j \in 0 .. k : S[j].n <= S[k].n
<1> DEFINE P(k) == Counting(S[k]) /\ \A j \in 0 .. k : S[j].n \in Nat /\ S[j].n <= S[k].n
           Proved == {k \in Nat : k <= N => P(k)}
<1>1. S[0] = FirstStage /\ \A k \in 1 .. N : S[k] = NextStage(S[k - 1], k)
  BY StagesGo
<1>2. 0 \in Proved
  <2>1. Counting(FirstStage) /\ FirstStage.n = 3
    BY InfoCount DEF Counting, FirstStage
  <2> QED
    BY <1>1, <2>1
<1>3. ASSUME NEW k \in Nat, k \in Proved PROVE k + 1 \in Proved
  <2>0. SUFFICES ASSUME k + 1 <= N PROVE P(k + 1)
    <3> HIDE DEF P
    <3> QED
      OBVIOUS
  <2>1. /\ k + 1 \in 1 .. N /\ (k + 1) - 1 = k /\ k <= N
        /\ \A j \in 0 .. k + 1 : j \in 0 .. k \/ j = k + 1
        /\ \A j \in 0 .. k : j \in 0 .. N
    BY <2>0
  <2>2. Counting(S[k]) /\ \A j \in 0 .. k : S[j].n \in Nat /\ S[j].n <= S[k].n
    BY <1>3, <2>1
  <2> HIDE DEF P, Proved
  <2>3. S[k + 1] = NextStage(S[k], k + 1) /\ k + 1 \in Devices
    BY <1>1, <2>1, SystemFacts DEF NumberOf
  <2>4. Counting(S[k + 1]) /\ S[k].n <= S[k + 1].n
    BY <2>2, <2>3, StageStep
  <2>5. ASSUME NEW j \in 0 .. k + 1 PROVE S[j].n \in Nat /\ S[j].n <= S[k + 1].n
    <3>1. CASE j = k + 1
      BY <2>4, <3>1 DEF Counting
    <3>2. CASE j \in 0 .. k
      <4>1. /\ S[j].n \in Nat /\ S[j].n <= S[k].n
            /\ S[k].n \in Nat /\ S[k + 1].n \in Nat
        BY <2>2, <2>4, <3>2 DEF Counting
      <4> QED
        BY <2>4, <4>1
    <3> QED
      BY <2>1, <3>1, <3>2
  <2> USE DEF P
  <2> QED
    BY <2>4, <2>5
<1>4. ASSUME NEW k \in 0 .. N PROVE P(k)
  <2> HIDE DEF P
  <2>1. Nat \subseteq Proved
    BY ONLY <1>2, <1>3, SetInduction
  <2> QED
    BY <2>1
<1> QED
  BY <1>1, <1>4

LEMMA StagesStay ==
  ASSUME system' = system
  PROVE  Stages' = Stages
<1>1. \A c, d : CountList(c, d)' = CountList(c, d)
  BY DEF CountList, CountEntry, Freq, Slot, SlotOf, Take, Merged
<1> QED
  BY DEF Stages, NextStage, Listed, CountList, CountEntry, Freq, Slot, SlotOf, Take, Merged,
         handle_xgmi_events_count, CountedWays, Before, RefusedInCount, Devices

-----------------------------------------------------------------------------
(* The walks over one device.                                              *)

ExcusedOn(sys, d, e) ==
  \/ ~HasName(e.f, e.variant)
  \/ e.f \in FanSpeed /\ e.sub # "sensor0"
  \/ e.f \in {"gpu_clk_freq_get", "gpu_clk_freq_set"} /\ sys[d].freq[e.variant] = 0
Offers(sys, t, d) ==
  sys[d].listed =>
    \A i \in DOMAIN sys[d].functions :
      \/ OfferedIn(t, d, sys[d].functions[i])
      \/ ExcusedOn(sys, d, sys[d].functions[i])

LEMMA ExcuseOf ==
  ASSUME NEW d, NEW e, Excused(d, e)
  PROVE  ExcusedOn(system, d, e)
BY DEF Excused, ExcusedOn, Freq

LEMMA OffersStay ==
  ASSUME NEW t, Form(t), NEW u, Form(u), Extends(t, u), NEW sys, NEW d, Offers(sys, t, d)
  PROVE  Offers(sys, u, d)
BY OfferStays DEF Offers

LEMMA DeviceFill ==
  ASSUME system \in Systems, NEW d \in Devices, NEW t, Walking(t), room \in Nat,
         NEW w, w = FillList(t, d)[Len(system[d].functions)],
         NEW u, u = handle_xgmi_events(w, d)
  PROVE  /\ Walking(w) /\ Walking(u) /\ Extends(t, w) /\ Extends(t, u)
         /\ \A c : Same(c, t) => Same(Listed(c, d), w)
         /\ \A c : Same(c, t) /\ system[d].listed /\ WaysAgree /\ system[d].xgmi = {} =>
              Same(NextStage(c, d), u)
         /\ InOrder /\ FanRight(t) => FanRight(u) /\ Offers(system, u, d)
<1>1. PICK N : N = Len(system[d].functions)
  OBVIOUS
<1>2. N \in Nat /\ DOMAIN system[d].functions = 1 .. N /\ FreqsKnown(d) /\ w = FillList(t, d)[N]
  BY <1>1, SystemFacts
<1>3. N \in 0 .. N
  BY <1>2
<1>4. Walking(w) /\ Extends(t, w)
  BY <1>1, <1>2, <1>3, FillGoes
<1>5. /\ Walking(u) /\ Extends(w, u) /\ SeenMore(w, u, {})
      /\ system[d].xgmi = {} => Len(u.events) = Len(w.events) + 2 * Cardinality(FilledWays(d))
  <2>1. NumberOf \in Nat /\ NumberOf = Len(system) /\ DOMAIN system = 1 .. NumberOf
    BY SystemFacts DEF NumberOf
  <2> QED
    BY <1>4, <2>1, XgmiAdded
<1>6. Extends(t, u)
  BY <1>4, <1>5, ExtendsOn DEF Walking
<1>7. ASSUME NEW c, Same(c, t) PROVE Same(Listed(c, d), w)
  BY <1>1, <1>2, <1>7, ListsAgree DEF Listed
<1>8. ASSUME NEW c, Same(c, t), system[d].listed, WaysAgree, system[d].xgmi = {}
      PROVE  Same(NextStage(c, d), u)
  <2>1. PICK l : l = Listed(c, d)
    OBVIOUS
  <2>2. Same(l, w) /\ NextStage(c, d) = [n |-> l.n + handle_xgmi_events_count(d), seen |-> l.seen]
    BY <1>7, <1>8, <2>1 DEF NextStage
  <2>3. /\ handle_xgmi_events_count(d) \in Nat
        /\ handle_xgmi_events_count(d) = 2 * Cardinality(FilledWays(d))
    BY <1>8, XgmiCount, SameWays
  <2>4. /\ Len(u.events) = Len(w.events) + 2 * Cardinality(FilledWays(d))
        /\ DOMAIN u.seen = DOMAIN w.seen
    BY <1>5, <1>8 DEF SeenMore
  <2> QED
    BY <2>2, <2>3, <2>4 DEF Same, Counting
<1>9. ASSUME InOrder, FanRight(t) PROVE FanRight(u) /\ Offers(system, u, d)
  <2>1. Ordered(system[d].functions)
    BY <1>9 DEF InOrder, Devices
  <2>2. /\ FanRight(w)
        /\ \A i \in 1 .. N : OfferedIn(w, d, system[d].functions[i]) \/ Excused(d, system[d].functions[i])
    BY <1>1, <1>2, <1>9, <2>1, FillOffers
  <2>3. FanRight(u)
    BY <1>4, <1>5, <2>2, FanStays
  <2>4. Offers(system, w, d)
    BY <1>2, <2>2, ExcuseOf DEF Offers
  <2>5. Offers(system, u, d)
    BY <1>4, <1>5, <2>4, OffersStay DEF Walking
  <2> QED
    BY <2>3, <2>5
<1> QED
  BY <1>4, <1>5, <1>6, <1>7, <1>8, <1>9

\* Only the events and what the statics remember matter.
LEMMA TableOf ==
  ASSUME NEW t, Walking(t), NEW o \in BOOLEAN, NEW ns, NEW un, NEW f,
         NEW u, u = [events |-> t.events, overrun |-> o, names |-> ns, unnamed |-> un,
                     seen |-> t.seen, fault |-> f]
  PROVE  /\ Walking(u) /\ \A c : Same(c, t) => Same(c, u)
         /\ FanRight(t) => FanRight(u)
         /\ \A sys, d : Offers(sys, t, d) => Offers(sys, u, d)
<1>1. u.events = t.events /\ u.seen = t.seen /\ u.overrun = o
  OBVIOUS
<1>2. Walking(u)
  BY <1>1 DEF Walking, Form, AllDescribed, SeenRight
<1>3. \A c : Same(c, t) => Same(c, u)
  BY <1>1 DEF Same
<1>4. FanRight(t) => FanRight(u)
  BY <1>1 DEF FanRight
<1>5. \A d, e : OfferedIn(t, d, e) => OfferedIn(u, d, e)
  BY <1>1 DEF OfferedIn
<1> QED
  BY <1>2, <1>3, <1>4, <1>5 DEF Offers

\* The table that the second walk starts from.
LEMMA InfoEventsFacts ==
  ASSUME NEW evs, evs = InfoEvents
  PROVE  IsEvents(evs) /\ Len(evs) = 3 /\ \A i \in DOMAIN evs : Described(evs[i])
<1>1. DOMAIN InfoFunctions = 1 .. 3
  BY DEF InfoFunctions
<1>2. \A i \in 1 .. 3 : EventForm(evs[i]) /\ Described(evs[i])
  BY <1>1 DEF InfoEvents, Event, EventForm, Described
<1>3. evs = [i \in 1 .. 3 |-> evs[i]]
  BY <1>1 DEF InfoEvents
<1>4. IsEvents(evs) /\ Len(evs) = 3
  BY <1>2, <1>3, AreEvents
<1> QED
  BY <1>2, <1>3, <1>4

LEMMA InfoFill ==
  ASSUME NEW t, Form(t), t.events = <<>>, t.seen = <<>>, room \in Nat,
         NEW u, u = AddAll(t, InfoEvents)
  PROVE  Walking(u) /\ Len(u.events) = 3 /\ u.seen = <<>> /\ FanRight(u)
<1>1. PICK evs : evs = InfoEvents
  OBVIOUS
<1>2. IsEvents(evs) /\ Len(evs) = 3 /\ \A i \in DOMAIN evs : Described(evs[i])
  BY <1>1, InfoEventsFacts
<1>3. Walking(t)
  <2>1. DOMAIN t.events = {} /\ DOMAIN t.seen = {}
    OBVIOUS
  <2> QED
    BY <2>1 DEF Walking, AllDescribed
<1>4. AddedTo(t, evs, u)
  BY <1>1, <1>2, <1>3, AddedWalking
<1>5. Len(u.events) = 3
  BY <1>2, <1>4 DEF AddedTo
<1>6. u.seen = <<>>
  BY <1>1, <1>2, AddAllFacts
<1>7. FanRight(u)
  BY <1>6 DEF FanRight
<1> QED
  BY <1>4, <1>5, <1>6, <1>7 DEF AddedTo

-----------------------------------------------------------------------------
(* The invariant of the first time that the component is initialised.      *)

NoGroups == \A d \in Devices : system[d].xgmi = {}

\* So far the first walk has counted, and nothing has been written.
Counted ==
  /\ dev \in 1 .. NumberOf + 1 /\ room = 0 /\ events = <<>> /\ seenFill = <<>>
  /\ [n |-> count, seen |-> seenCount] = Stages[dev - 1]
\* The second walk is as far as the first one was when it was at this device.
Filled ==
  /\ dev \in 1 .. NumberOf + 1 /\ count = Stages[NumberOf].n /\ room = count
  /\ Walking(Table)
  /\ WaysAgree /\ NoGroups => Same(Stages[dev - 1], Table)
  /\ InOrder => FanRight(Table) /\ \A d \in 1 .. dev - 1 : Offers(system, Table, d)
Complete ==
  /\ Walking(Table)
  /\ InOrder => \A d \in Devices : Offers(system, Table, d)

WroteWritable ==
  last.wrote => /\ phase = "up" /\ last.code \in DOMAIN events
                /\ "write" \in events[last.code].mode
FirstSession ==
  /\ WroteWritable
  /\ WaysAgree /\ NoGroups => ~overrun
  /\ phase = "count" => Counted
  /\ phase = "fill" => Filled
  /\ phase = "up" => Complete
\* Whether it was written behind the table.
Latched == sessions \in {0, 1} => overrun \in BOOLEAN
TableInv ==
  /\ system \in Systems /\ sessions \in Nat /\ Latched
  /\ sessions = 0 => /\ phase = "down" /\ room = 0 /\ events = <<>> /\ ~overrun /\ ~last.wrote
                     /\ seenCount = <<>> /\ seenFill = <<>>
  /\ sessions = 1 => FirstSession

LEMMA SameMachine ==
  ASSUME system' = system
  PROVE  NumberOf' = NumberOf /\ Devices' = Devices /\ NoGroups' = NoGroups /\ Stages' = Stages
BY StagesStay DEF NumberOf, Devices, NoGroups

LEMMA TableInit ==
  ASSUME Init
  PROVE  TableInv
<1>1. /\ system \in Systems /\ phase = "down" /\ room = 0 /\ events = <<>> /\ overrun = FALSE
      /\ seenCount = <<>> /\ seenFill = <<>> /\ last = None /\ sessions = 0
  BY DEF Init
<1>2. ~last.wrote
  BY <1>1 DEF None
<1>3. Latched /\ ~overrun
  BY <1>1 DEF Latched
<1> QED
  BY <1>1, <1>2, <1>3 DEF TableInv

LEMMA InitTablesStep ==
  ASSUME TableInv, InitTables
  PROVE  TableInv'
<1>1. /\ sessions' = sessions + 1 /\ phase' = "count" /\ dev' = 1
      /\ count' = Len(InfoFunctions) /\ system' = system /\ room' = room /\ events' = events
      /\ overrun' = overrun /\ seenCount' = seenCount /\ seenFill' = seenFill /\ last' = last
  BY DEF InitTables, seenVars
<1>2. system' \in Systems /\ sessions' \in Nat /\ sessions' # 0 /\ Latched'
  BY <1>1 DEF TableInv, Latched
<1>3. ASSUME sessions' = 1 PROVE FirstSession'
  <2>1. sessions = 0
    BY <1>1, <1>3 DEF TableInv
  <2>2. /\ room = 0 /\ events = <<>> /\ ~overrun /\ ~last.wrote
        /\ seenCount = <<>> /\ seenFill = <<>>
    BY <2>1 DEF TableInv
  <2>3. NumberOf' = NumberOf /\ Stages' = Stages /\ NumberOf \in Nat
    BY <1>1, SameMachine, SystemFacts DEF TableInv
  <2>4. Stages[0] = FirstStage
    BY <2>3, StageFacts DEF TableInv, NumberOf
  <2>5. dev' \in 1 .. NumberOf' + 1 /\ dev' - 1 = 0
    BY <1>1, <2>3
  <2>6. Counted'
    BY <1>1, <2>2, <2>3, <2>4, <2>5 DEF Counted, FirstStage
  <2> QED
    BY <1>1, <2>2, <2>6 DEF FirstSession, WroteWritable
<1> QED
  BY <1>2, <1>3 DEF TableInv

LEMMA CountDeviceStep ==
  ASSUME TableInv, CountDevice
  PROVE  TableInv'
<1>1. /\ phase = "count" /\ dev \in Devices
      /\ system' = system /\ overrun' = overrun /\ seenFill' = seenFill /\ last' = last
      /\ sessions' = sessions
  BY DEF CountDevice
<1>2. /\ system' \in Systems /\ sessions' \in Nat /\ Latched' /\ sessions # 0
  BY <1>1 DEF TableInv, Latched
<1>3. ASSUME sessions = 1 PROVE FirstSession'
  <2>1. WroteWritable /\ (WaysAgree /\ NoGroups => ~overrun) /\ Counted
    BY <1>1, <1>3 DEF TableInv, FirstSession
  <2>2. /\ NumberOf' = NumberOf /\ Stages' = Stages /\ NoGroups' = NoGroups /\ NumberOf \in Nat
        /\ Devices = 1 .. NumberOf
    BY <1>1, SameMachine, SystemFacts DEF TableInv
  <2>3. WroteWritable' /\ (WaysAgree /\ NoGroups => ~overrun)'
    BY <1>1, <2>1, <2>2 DEF WroteWritable
  <2>4. CASE phase' = "down"
    BY <2>3, <2>4 DEF FirstSession
  <2>5. CASE /\ phase' = phase /\ dev' = dev + 1 /\ room' = room /\ events' = events
             /\ [n |-> count', seen |-> seenCount']
                  = NextStage([n |-> count, seen |-> seenCount], dev)
    <3>1. Stages[dev] = NextStage(Stages[dev - 1], dev)
      BY <1>1, <2>2, StageFacts DEF TableInv, NumberOf
    <3>2. dev' \in 1 .. NumberOf' + 1 /\ dev' - 1 = dev
      BY <1>1, <2>2, <2>5
    <3>3. Counted'
      BY <1>1, <2>1, <2>2, <2>5, <3>1, <3>2 DEF Counted
    <3> QED
      BY <1>1, <2>3, <2>5, <3>3 DEF FirstSession
  <2>6. \/ phase' = "down"
        \/ /\ phase' = phase /\ dev' = dev + 1 /\ room' = room /\ events' = events
           /\ [n |-> count', seen |-> seenCount']
                = NextStage([n |-> count, seen |-> seenCount], dev)
    BY DEF CountDevice, Fail, NextStage, Listed
  <2> QED
    BY <2>4, <2>5, <2>6
<1> QED
  BY <1>1, <1>2, <1>3 DEF TableInv

LEMMA AllocateStep ==
  ASSUME TableInv, Allocate
  PROVE  TableInv'
<1>1. /\ phase = "count" /\ dev \notin Devices
      /\ system' = system /\ overrun' = overrun /\ seenFill' = seenFill /\ last' = last
      /\ sessions' = sessions /\ count' = count
  BY DEF Allocate, seenVars
<1>2. /\ system' \in Systems /\ sessions' \in Nat /\ Latched' /\ sessions # 0
  BY <1>1 DEF TableInv, Latched
<1>3. ASSUME sessions = 1 PROVE FirstSession'
  <2>1. WroteWritable /\ (WaysAgree /\ NoGroups => ~overrun) /\ Counted /\ overrun \in BOOLEAN
    BY <1>1, <1>3 DEF TableInv, FirstSession, Latched
  <2>2. /\ NumberOf' = NumberOf /\ Stages' = Stages /\ NoGroups' = NoGroups /\ NumberOf \in Nat
        /\ Devices = 1 .. NumberOf
    BY <1>1, SameMachine, SystemFacts DEF TableInv
  <2>3. WroteWritable' /\ (WaysAgree /\ NoGroups => ~overrun)'
    BY <1>1, <2>1, <2>2 DEF WroteWritable
  <2>4. CASE phase' = "down"
    BY <2>3, <2>4 DEF FirstSession
  <2>5. CASE /\ phase' = "fill" /\ dev' = 1 /\ room' = count
             /\ events' = AddAll(Table, InfoEvents).events
    <3>1. PICK t0, t : t0 = Table /\ t = AddAll(t0, InfoEvents)
      OBVIOUS
    <3>2. Form(t0) /\ t0.events = <<>> /\ t0.seen = <<>>
      BY <2>1, <3>1, NoEvents DEF Form, Table, Counted
    <3>3. dev = NumberOf + 1 /\ dev - 1 = NumberOf
      BY <1>1, <2>1, <2>2 DEF Counted
    <3>4. Stages[0] = FirstStage /\ count = Stages[NumberOf].n
      <4>1. Stages[0] = FirstStage
        BY <2>2, StageFacts DEF TableInv, NumberOf
      <4>2. [n |-> count, seen |-> seenCount] = Stages[NumberOf]
        BY <2>1, <3>3 DEF Counted
      <4>3. [n |-> count, seen |-> seenCount].n = count
        OBVIOUS
      <4> QED
        BY <4>1, <4>2, <4>3
    <3>5. Walking(t) /\ Len(t.events) = 3 /\ t.seen = <<>> /\ FanRight(t)
      BY <2>1, <3>1, <3>2, InfoFill DEF Counted
    <3>6. PICK u : u = Table'
      OBVIOUS
    <3>7. u = [events |-> t.events, overrun |-> overrun, names |-> names', unnamed |-> unnamed',
               seen |-> t.seen, fault |-> FALSE]
      BY <1>1, <2>1, <2>5, <3>1, <3>5, <3>6 DEF Table, Counted
    <3>8. /\ Walking(u) /\ \A c : Same(c, t) => Same(c, u)
          /\ FanRight(u)
      BY <2>1, <3>5, <3>7, TableOf
    <3>9. Same(FirstStage, t)
      BY <3>5, InfoCount DEF Same, Counting, FirstStage
    <3>10. Same(Stages[0], u)
      BY <3>4, <3>8, <3>9
    <3>11. dev' \in 1 .. NumberOf' + 1 /\ dev' - 1 = 0 /\ 1 .. dev' - 1 = {}
      BY <2>2, <2>5
    <3>12. Filled'
      BY <1>1, <2>2, <2>5, <3>4, <3>6, <3>8, <3>10, <3>11 DEF Filled
    <3> QED
      BY <2>3, <2>5, <3>12 DEF FirstSession
  <2>6. \/ phase' = "down"
        \/ /\ phase' = "fill" /\ dev' = 1 /\ room' = count
           /\ events' = AddAll(Table, InfoEvents).events
    BY DEF Allocate, Fail
  <2> QED
    BY <2>4, <2>5, <2>6
<1> QED
  BY <1>1, <1>2, <1>3 DEF TableInv

LEMMA FillDeviceStep ==
  ASSUME TableInv, FillDevice
  PROVE  TableInv'
<1> DEFINE fs == system[dev].functions
<1>0. PICK t0, w, t : /\ t0 = Table /\ w = FillList(t0, dev)[Len(fs)]
                      /\ t = handle_xgmi_events(w, dev)
  OBVIOUS
<1>1. /\ phase = "fill" /\ dev \in Devices
      /\ system' = system /\ count' = count /\ last' = last /\ sessions' = sessions
      /\ \/ /\ ~system[dev].listed
            /\ dev' = dev + 1
            /\ phase' = phase /\ room' = room /\ events' = events /\ overrun' = overrun
            /\ names' = names /\ unnamed' = unnamed /\ seenFill' = seenFill
         \/ /\ system[dev].listed
            /\ overrun' = w.overrun /\ phase' = "down"
         \/ /\ system[dev].listed
            /\ dev' = dev + 1 /\ room' = room
            /\ events' = t.events /\ overrun' = t.overrun /\ names' = t.names
            /\ unnamed' = t.unnamed /\ seenFill' = t.seen
            /\ phase' = (IF t.fault THEN "dead" ELSE "fill")
  BY <1>0 DEF FillDevice, Fail
<1>2. /\ system' \in Systems /\ sessions' \in Nat /\ sessions # 0
      /\ sessions = 1 => overrun \in BOOLEAN
  BY <1>1 DEF TableInv, Latched
<1>3. /\ NumberOf' = NumberOf /\ Stages' = Stages /\ NoGroups' = NoGroups /\ NumberOf \in Nat
      /\ Devices = 1 .. NumberOf
  BY <1>1, SameMachine, SystemFacts DEF TableInv
<1>4. ASSUME sessions = 1 PROVE FirstSession' /\ overrun' \in BOOLEAN
  <2>1. WroteWritable /\ (WaysAgree /\ NoGroups => ~overrun) /\ Filled
    BY <1>1, <1>4 DEF TableInv, FirstSession
  <2>2. /\ WroteWritable' /\ ~last'.wrote
    BY <1>1, <2>1 DEF WroteWritable
  <2>3. /\ Stages[dev] = NextStage(Stages[dev - 1], dev)
        /\ Counting(Stages[dev]) /\ Counting(Stages[NumberOf])
        /\ Stages[dev].n <= Stages[NumberOf].n
        /\ system[dev].listed => Listed(Stages[dev - 1], dev).n <= Stages[dev].n
    <3>1. /\ dev \in 1 .. NumberOf /\ dev \in 0 .. NumberOf /\ dev - 1 \in 0 .. NumberOf
          /\ NumberOf \in 0 .. NumberOf
      BY <1>1, <1>3
    <3>2. PICK S : S = Stages
      OBVIOUS
    <3>3. /\ S[dev] = NextStage(S[dev - 1], dev) /\ Counting(S[dev - 1])
          /\ Counting(S[dev]) /\ Counting(S[NumberOf])
          /\ S[dev].n <= S[NumberOf].n
      BY <1>3, <3>1, <3>2, StageFacts DEF TableInv, NumberOf
    <3>4. system[dev].listed => Listed(S[dev - 1], dev).n <= S[dev].n
      BY <1>1, <3>3, StageStep DEF TableInv
    <3> QED
      BY <3>2, <3>3, <3>4
  <2>4. room \in Nat /\ room = Stages[NumberOf].n
    BY <2>1, <2>3 DEF Filled, Counting
  <2>5. /\ Walking(t0) /\ (WaysAgree /\ NoGroups => Same(Stages[dev - 1], t0))
        /\ InOrder => FanRight(t0) /\ \A d \in 1 .. dev - 1 : Offers(system, t0, d)
        /\ t0.overrun = overrun
    BY <1>0, <2>1 DEF Filled, Table
  <2>6. /\ Walking(w) /\ Walking(t) /\ Extends(t0, w) /\ Extends(t0, t)
        /\ \A c : Same(c, t0) => Same(Listed(c, dev), w)
        /\ \A c : Same(c, t0) /\ system[dev].listed /\ WaysAgree /\ system[dev].xgmi = {} =>
             Same(NextStage(c, dev), t)
        /\ InOrder /\ FanRight(t0) => FanRight(t) /\ Offers(system, t, dev)
    BY <1>0, <1>1, <2>4, <2>5, DeviceFill DEF TableInv
  <2>7. w.overrun \in BOOLEAN /\ t.overrun \in BOOLEAN
    BY <2>6 DEF Walking, Form
  <2>8. ASSUME system[dev].listed, WaysAgree, NoGroups
        PROVE  ~w.overrun /\ ~t.overrun /\ Same(Stages[dev], t)
    <3>1. system[dev].xgmi = {} /\ ~t0.overrun
      BY <1>1, <2>1, <2>5, <2>8 DEF NoGroups
    <3>2. Same(Listed(Stages[dev - 1], dev), w) /\ Same(Stages[dev], t)
      BY <2>3, <2>5, <2>6, <2>8, <3>1
    <3>3. /\ Len(w.events) = Listed(Stages[dev - 1], dev).n /\ Len(w.events) \in Nat
          /\ Len(t.events) = Stages[dev].n /\ Len(t.events) \in Nat
      BY <3>2 DEF Same, Counting
    <3>4. ~(Len(w.events) > room) /\ ~(Len(t.events) > room)
      BY <2>3, <2>4, <2>8, <3>3
    <3> QED
      BY <2>6, <3>1, <3>2, <3>4 DEF Extends
  <2>9. /\ dev + 1 \in 1 .. NumberOf + 1 /\ (dev + 1) - 1 = dev
        /\ \A d \in 1 .. (dev + 1) - 1 : d \in 1 .. dev - 1 \/ d = dev
    BY <1>1, <1>3
  <2>10. PICK u : u = Table'
    OBVIOUS
  <2>11. CASE /\ ~system[dev].listed /\ dev' = dev + 1
              /\ phase' = phase /\ room' = room /\ events' = events /\ overrun' = overrun
              /\ names' = names /\ unnamed' = unnamed /\ seenFill' = seenFill
    <3>1. u = t0
      BY <1>0, <2>10, <2>11 DEF Table
    <3>2. Stages[dev] = Stages[dev - 1]
      BY <2>3, <2>11 DEF NextStage
    <3>3. Offers(system, u, dev)
      BY <2>11 DEF Offers
    <3>4. /\ Walking(u) /\ (WaysAgree /\ NoGroups => Same(Stages[dev], u))
          /\ InOrder => FanRight(u) /\ \A d \in 1 .. (dev + 1) - 1 : Offers(system, u, d)
      BY <2>5, <2>9, <3>1, <3>2, <3>3
    <3>5. Filled'
      BY <1>1, <1>3, <2>1, <2>9, <2>10, <2>11, <3>4 DEF Filled
    <3> QED
      BY <1>1, <1>2, <1>3, <1>4, <2>1, <2>2, <2>11, <3>5 DEF FirstSession
  <2>12. CASE system[dev].listed /\ overrun' = w.overrun /\ phase' = "down"
    BY <1>3, <2>2, <2>7, <2>8, <2>12 DEF FirstSession
  <2>13. CASE /\ system[dev].listed /\ dev' = dev + 1 /\ room' = room
              /\ events' = t.events /\ overrun' = t.overrun /\ names' = t.names
              /\ unnamed' = t.unnamed /\ seenFill' = t.seen
              /\ phase' = (IF t.fault THEN "dead" ELSE "fill")
    <3>1. u = [events |-> t.events, overrun |-> overrun', names |-> names',
               unnamed |-> unnamed', seen |-> t.seen, fault |-> FALSE]
      BY <2>10, <2>13 DEF Table
    <3>2. overrun' \in BOOLEAN
      BY <2>7, <2>13
    <3>3. /\ Walking(u) /\ \A c : Same(c, t) => Same(c, u)
          /\ FanRight(t) => FanRight(u)
          /\ \A sys, d : Offers(sys, t, d) => Offers(sys, u, d)
      BY <2>6, <3>1, <3>2, TableOf
    <3>4. WaysAgree /\ NoGroups => Same(Stages[dev], u)
      BY <2>8, <2>13, <3>3
    <3>5. ASSUME InOrder
          PROVE  FanRight(u) /\ \A d \in 1 .. (dev + 1) - 1 : Offers(system, u, d)
      <4>1. FanRight(t) /\ Offers(system, t, dev)
        BY <2>5, <2>6, <3>5
      <4>2. \A d \in 1 .. dev - 1 : Offers(system, t, d)
        BY <2>5, <2>6, <3>5, OffersStay DEF Walking
      <4> QED
        BY <2>9, <3>3, <4>1, <4>2
    <3>6. Filled'
      BY <1>1, <1>3, <2>1, <2>9, <2>10, <2>13, <3>3, <3>4, <3>5 DEF Filled
    <3>7. (WaysAgree /\ NoGroups => ~overrun)'
      BY <1>3, <2>8, <2>13
    <3>8. phase' \in {"dead", "fill"}
      BY <2>13
    <3> QED
      BY <2>2, <3>2, <3>6, <3>7, <3>8 DEF FirstSession
  <2> QED
    BY <1>1, <2>11, <2>12, <2>13
<1>5. Latched'
  BY <1>1, <1>2, <1>4 DEF Latched
<1> QED
  BY <1>1, <1>2, <1>4, <1>5 DEF TableInv

LEMMA FillEndsStep ==
  ASSUME TableInv, FillEnds
  PROVE  TableInv'
<1>1. /\ phase = "fill" /\ dev \notin Devices
      /\ system' = system /\ count' = count /\ last' = last /\ sessions' = sessions
      /\ overrun' = overrun /\ seenFill' = seenFill
      /\ \/ /\ Len(events) = count
            /\ phase' = "up" /\ events' = events /\ names' = names /\ unnamed' = unnamed
         \/ phase' = "down"
  BY DEF FillEnds, Fail, seenVars
<1>2. /\ system' \in Systems /\ sessions' \in Nat /\ Latched' /\ sessions # 0
  BY <1>1 DEF TableInv, Latched
<1>3. ASSUME sessions = 1 PROVE FirstSession'
  <2>1. WroteWritable /\ (WaysAgree /\ NoGroups => ~overrun) /\ Filled
    BY <1>1, <1>3 DEF TableInv, FirstSession
  <2>2. /\ NumberOf \in Nat /\ NoGroups' = NoGroups /\ Devices' = Devices
        /\ Devices = 1 .. NumberOf
    BY <1>1, SameMachine, SystemFacts DEF TableInv
  <2>3. WroteWritable' /\ (WaysAgree /\ NoGroups => ~overrun)'
    BY <1>1, <2>1, <2>2 DEF WroteWritable
  <2>4. CASE phase' = "down"
    BY <2>3, <2>4 DEF FirstSession
  <2>5. CASE phase' = "up" /\ events' = events /\ names' = names /\ unnamed' = unnamed
    <3>1. dev = NumberOf + 1 /\ 1 .. dev - 1 = Devices
      BY <1>1, <2>1, <2>2 DEF Filled
    <3>2. Table' = Table
      BY <1>1, <2>5 DEF Table
    <3>3. Complete'
      BY <1>1, <2>1, <2>2, <3>1, <3>2 DEF Filled, Complete
    <3> QED
      BY <2>3, <2>5, <3>3 DEF FirstSession
  <2> QED
    BY <1>1, <2>4, <2>5
<1> QED
  BY <1>1, <1>2, <1>3 DEF TableInv

\* A device is written through an event that permits it.
LEMMA AccessWrites ==
  ASSUME NEW code \in DOMAIN events, NEW mode \in ReadWrite, Access(code, mode), last'.wrote
  PROVE  /\ last'.code = code /\ "write" \in events[code].mode
         /\ events[code].f \in Masked \cup WriteOnly
<1>1. PICK ev : ev = events[code]
  OBVIOUS
<1>2. CASE ev.f \in Masked
  <2>1. last' \in MaskedAccess(ev, code, mode)
    <3>1. ev.f \notin WriteOnly /\ ev.f \notin FanSpeed
      BY <1>2 DEF Masked, WriteOnly, FanSpeed, PowerCap, PerfLevel
    <3> QED
      BY <1>1, <1>2, <3>1 DEF Access
  <2>2. mode \in ev.mode
    BY <2>1 DEF MaskedAccess, NoValue
  <2>3. last' \in {IF mode = "read" THEN Read(code, "sample") ELSE Written(code),
                   Failed(code, mode, "old"), [Refused(code, mode) EXCEPT !.result = "EINVAL"]}
    BY <2>1, <2>2 DEF MaskedAccess
  <2>4. last'.code = code /\ mode = "write"
    BY <2>3 DEF Read, Written, Failed, Refused, ReadWrite
  <2> QED
    BY <1>1, <1>2, <2>2, <2>4
<1>3. CASE ev.f \in WriteOnly
  <2>1. last' \in WriteOnlyAccess(ev, code, mode)
    <3>1. ev.f \notin Masked /\ ev.f \notin FanSpeed
      BY <1>3 DEF Masked, WriteOnly, FanSpeed, PowerCap, PerfLevel
    <3> QED
      BY <1>1, <1>3, <3>1 DEF Access
  <2>2. last'.code = code /\ ev.mode = {"write"}
    BY <2>1 DEF WriteOnlyAccess, NoValue, Written, Failed
  <2> QED
    BY <1>1, <1>3, <2>2
<1>4. CASE ev.f \in FanSpeed
  <2>1. last' \in FanSpeedAccess(ev, code, mode)
    <3>1. ev.f \notin Masked /\ ev.f \notin WriteOnly
      BY <1>4 DEF Masked, WriteOnly, FanSpeed, PowerCap, PerfLevel
    <3> QED
      BY <1>1, <1>4, <3>1 DEF Access
  <2> QED
    BY <2>1 DEF FanSpeedAccess, NoValue, Read, Failed
<1>5. CASE ev.f \notin Masked \cup WriteOnly \cup FanSpeed
  <2>1. last' \in ReadOnlyAccess(ev, code, mode)
    BY <1>1, <1>5 DEF Access
  <2> QED
    BY <2>1 DEF ReadOnlyAccess, Refused, Read, Failed
<1> QED
  BY <1>2, <1>3, <1>4, <1>5

LEMMA AccessStep ==
  ASSUME TableInv, NEW code \in DOMAIN events, NEW mode \in ReadWrite, Access(code, mode)
  PROVE  TableInv'
<1>1. /\ phase = "up" /\ phase' = phase /\ system' = system /\ sessions' = sessions
      /\ overrun' = overrun /\ events' = events /\ Table' = Table
  BY DEF Access, tableVars, seenVars, Table
<1>2. /\ system' \in Systems /\ sessions' \in Nat /\ Latched' /\ sessions # 0
  BY <1>1 DEF TableInv, Latched
<1>3. ASSUME sessions = 1 PROVE FirstSession'
  <2>1. (WaysAgree /\ NoGroups => ~overrun) /\ Complete
    BY <1>1, <1>3 DEF TableInv, FirstSession
  <2>2. NoGroups' = NoGroups /\ Devices' = Devices
    BY <1>1, SameMachine
  <2>3. Complete'
    BY <1>1, <2>1, <2>2 DEF Complete
  <2>4. WroteWritable'
    BY <1>1, AccessWrites DEF WroteWritable
  <2> QED
    BY <1>1, <2>1, <2>2, <2>3, <2>4 DEF FirstSession
<1> QED
  BY <1>1, <1>2, <1>3 DEF TableInv

LEMMA ShutdownSteps ==
  ASSUME TableInv, shutdown_event_table \/ htable_shutdown
  PROVE  TableInv'
<1>1. /\ phase \in {"up", "closing"} /\ phase' \in {"closing", "down"} /\ system' = system
      /\ sessions' = sessions /\ overrun' = overrun
      /\ last' = None \/ (phase = "closing" /\ last' = last)
  BY DEF shutdown_event_table, htable_shutdown, seenVars
<1>2. /\ system' \in Systems /\ sessions' \in Nat /\ Latched' /\ sessions # 0
  BY <1>1 DEF TableInv, Latched
<1>3. ASSUME sessions = 1 PROVE FirstSession'
  <2>1. (WaysAgree /\ NoGroups => ~overrun) /\ WroteWritable
    BY <1>3 DEF TableInv, FirstSession
  <2>2. NoGroups' = NoGroups
    BY <1>1, SameMachine
  <2>3. ~last'.wrote
    BY <1>1, <2>1 DEF WroteWritable, None
  <2> QED
    BY <1>1, <2>1, <2>2, <2>3 DEF FirstSession, WroteWritable
<1> QED
  BY <1>1, <1>2, <1>3 DEF TableInv

LEMMA TableStuttering ==
  ASSUME TableInv, UNCHANGED vars
  PROVE  TableInv'
<1>1. /\ system' = system /\ phase' = phase /\ dev' = dev /\ count' = count /\ room' = room
      /\ events' = events /\ overrun' = overrun /\ seenCount' = seenCount
      /\ seenFill' = seenFill /\ last' = last /\ sessions' = sessions /\ Table' = Table
  BY DEF vars, tableVars, seenVars, Table
<1>2. NumberOf' = NumberOf /\ Devices' = Devices /\ NoGroups' = NoGroups /\ Stages' = Stages
  BY <1>1, SameMachine
<1>3. /\ Counted' = Counted /\ Filled' = Filled /\ Complete' = Complete
      /\ WroteWritable' = WroteWritable
  BY <1>1, <1>2 DEF Counted, Filled, Complete, WroteWritable
<1>4. FirstSession' = FirstSession /\ Latched' = Latched
  BY <1>1, <1>2, <1>3 DEF FirstSession, Latched
<1> QED
  BY <1>1, <1>4 DEF TableInv

LEMMA TableStep ==
  ASSUME TableInv, [Next]_vars
  PROVE  TableInv'
<1>1. CASE InitTables
  BY <1>1, InitTablesStep
<1>2. CASE CountDevice
  BY <1>2, CountDeviceStep
<1>3. CASE Allocate
  BY <1>3, AllocateStep
<1>4. CASE FillDevice
  BY <1>4, FillDeviceStep
<1>5. CASE FillEnds
  BY <1>5, FillEndsStep
<1>6. CASE \E code \in DOMAIN events, mode \in ReadWrite : Access(code, mode)
  BY <1>6, AccessStep
<1>7. CASE shutdown_event_table \/ htable_shutdown
  BY <1>7, ShutdownSteps
<1>8. CASE UNCHANGED vars
  BY <1>8, TableStuttering
<1> QED
  BY <1>1, <1>2, <1>3, <1>4, <1>5, <1>6, <1>7, <1>8 DEF Next

\* The walks of rocs_init keep their books together.
THEOREM TableInvHolds == Spec => []TableInv
<1>1. Init => TableInv
  BY TableInit
<1>2. TableInv /\ [Next]_vars => TableInv'
  BY TableStep
<1> QED
  BY <1>1, <1>2, PTL DEF Spec

\* On a machine whose devices agree about the ways between them, the second
\* walk of rocs_init writes as many events as the first one counted, and none
\* behind the table.
THEOREM TheTableIsExact ==
  ASSUME WaysAgree
  PROVE  Spec => []TableExact
<1>1. TableInv => TableExact
  <2>1. SUFFICES ASSUME TableInv, sessions = 1, NoGroups
                 PROVE  /\ ~overrun
                        /\ phase = "fill" /\ dev \notin Devices => Len(events) = room
    BY DEF TableExact, NoGroups
  <2>2. ~overrun /\ (phase = "fill" => Filled)
    BY <2>1 DEF TableInv, FirstSession
  <2>3. ASSUME phase = "fill", dev \notin Devices PROVE Len(events) = room
    <3>1. Devices = 1 .. NumberOf /\ NumberOf \in Nat
      BY <2>1, SystemFacts DEF TableInv
    <3>2. dev - 1 = NumberOf
      BY <2>2, <2>3, <3>1 DEF Filled
    <3>3. Same(Stages[NumberOf], Table) /\ room = Stages[NumberOf].n
      BY <2>1, <2>2, <2>3, <3>2 DEF Filled
    <3> QED
      BY <3>3 DEF Same, Table
  <2> QED
    BY <2>2, <2>3
<1> QED
  BY <1>1, TableInvHolds, PTL

\* When the lists of the devices are in order, every function on them that has
\* a name is offered by an event, a set function by one that can be written.
THEOREM TheSupportedIsOffered ==
  ASSUME InOrder
  PROVE  Spec => []SupportedOffered
<1>1. TableInv => SupportedOffered
  <2>1. SUFFICES ASSUME TableInv, phase = "up", sessions = 1, NEW d \in Devices,
                        system[d].listed, NEW i \in DOMAIN system[d].functions,
                        NEW e, e = system[d].functions[i]
                 PROVE  \/ ~HasName(e.f, e.variant) \/ Offered(d, e)
                        \/ e.f \in FanSpeed /\ e.sub # "sensor0"
                        \/ /\ e.f \in {"gpu_clk_freq_get", "gpu_clk_freq_set"}
                           /\ Freq(d, e.f, e.variant) = 0
    BY DEF SupportedOffered
  <2>2. Offers(system, Table, d)
    BY <2>1 DEF TableInv, FirstSession, Complete
  <2>3. OfferedIn(Table, d, e) \/ ExcusedOn(system, d, e)
    BY <2>1, <2>2 DEF Offers
  <2>4. OfferedIn(Table, d, e) => Offered(d, e)
    BY DEF OfferedIn, Offered, Table, Setters
  <2> QED
    BY <2>3, <2>4 DEF ExcusedOn, Freq
<1> QED
  BY <1>1, TableInvHolds, PTL

\* The first time that the component is initialised, a device is only written
\* through an event whose description says so and is of the function called.
THEOREM FirstWritesAsDescribed == Spec => [](sessions = 1 => WritesAsDescribed)
<1>1. TableInv => (sessions = 1 => WritesAsDescribed)
  <2>1. SUFFICES ASSUME TableInv, sessions = 1, last.wrote, NEW ev, ev = events[last.code]
                 PROVE  /\ "write" \in DescribedAccess(ev.descr, ev.variant)
                        /\ Label(ev.descr) = Label(ev.f)
    BY DEF WritesAsDescribed
  <2>2. /\ phase = "up" /\ last.code \in DOMAIN events /\ "write" \in ev.mode
        /\ Complete
    BY <2>1 DEF TableInv, FirstSession, WroteWritable
  <2>3. Described(ev)
    BY <2>1, <2>2 DEF Complete, Walking, AllDescribed, Table
  <2> QED
    BY <2>2, <2>3 DEF Described
<1> QED
  BY <1>1, TableInvHolds, PTL

-----------------------------------------------------------------------------
(* Later sessions.  A static that outlives its table names a place in the  *)
(* next one.  What stands there when a set function comes to write over it *)
(* is nothing that is ever written.                                        *)

\* Sums of numbers are a recursion too.
Sums(g, n) == LET S[k \in 0 .. n] == IF k = 0 THEN 0 ELSE S[k - 1] + g[k] IN S

LEMMA SumsGo ==
  ASSUME NEW g, NEW N \in Nat, NEW S, S = Sums(g, N)
  PROVE  /\ S[0] = 0
         /\ \A k \in 1 .. N : S[k] = S[k - 1] + g[k]
<1> DEFINE G(k, X) == X + g[k]
           F(V, n) == [k \in 0 .. n |-> IF k = 0 THEN 0 ELSE G(k, V[k - 1])]
           Good == {n \in Nat : \E V : V = F(V, n)}
<1>1. 0 \in Good
  <2>1. PICK V : V = [k \in 0 .. 0 |-> 0]
    OBVIOUS
  <2>2. V = F(V, 0)
    BY <2>1
  <2> QED
    BY <2>2
<1>2. ASSUME NEW n \in Nat, n \in Good
      PROVE  n + 1 \in Good
  <2>1. PICK V : V = F(V, n)
    BY <1>2
  <2>2. PICK U : U = [k \in 0 .. n + 1 |-> IF k = n + 1 THEN G(n + 1, V[n]) ELSE V[k]]
    OBVIOUS
  <2> HIDE DEF G
  <2>3. ASSUME NEW k \in 0 .. n + 1
        PROVE  U[k] = IF k = 0 THEN 0 ELSE G(k, U[k - 1])
    <3>1. CASE k = 0
      <4>1. U[0] = V[0] /\ V[0] = 0
        BY <2>1, <2>2
      <4> QED
        BY <3>1, <4>1
    <3>2. CASE k \in 1 .. n
      <4>1. k - 1 \in 0 .. n /\ k \in 0 .. n /\ k # n + 1 /\ k - 1 # n + 1
        BY <3>2
      <4>2. U[k] = V[k] /\ U[k - 1] = V[k - 1]
        BY <2>2, <4>1
      <4>3. V[k] = G(k, V[k - 1])
        BY <2>1, <3>2, <4>1
      <4> QED
        BY <3>2, <4>2, <4>3
    <3>3. CASE k = n + 1
      <4>1. U[k] = G(n + 1, V[n])
        BY <2>2, <3>3
      <4>2. k - 1 = n /\ U[n] = V[n]
        BY <2>2, <3>3
      <4> QED
        BY <3>3, <4>1, <4>2
    <3> QED
      BY <3>1, <3>2, <3>3
  <2>4. U = F(U, n + 1)
    BY <2>2, <2>3
  <2> QED
    BY <2>4
<1>3. \E V : V = F(V, N)
  <2> HIDE DEF F
  <2>1. Nat \subseteq Good
    BY ONLY <1>1, <1>2, SetInduction
  <2> QED
    BY <2>1
<1>4. S = CHOOSE V : V = F(V, N)
  BY DEF Sums
<1>5. S = F(S, N)
  <2> HIDE DEF F
  <2> QED
    BY <1>3, <1>4
<1> HIDE DEF G
<1>6. 0 \in 0 .. N /\ \A k \in 1 .. N : k \in 0 .. N /\ k # 0
  OBVIOUS
<1>7. S[0] = 0 /\ \A k \in 1 .. N : S[k] = G(k, S[k - 1])
  BY <1>5, <1>6
<1> QED
  BY <1>7 DEF G
LEMMA SumsFacts ==
  ASSUME NEW g, NEW N \in Nat, \A k \in 1 .. N : g[k] \in Nat, NEW S, S = Sums(g, N)
  PROVE  /\ S[0] = 0 /\ \A k \in 1 .. N : S[k] = S[k - 1] + g[k]
         /\ \A k \in 0 .. N : S[k] \in Nat /\ \A j \in 0 .. k : S[j] <= S[k]
<1> DEFINE P(k) == S[k] \in Nat /\ \A j \in 0 .. k : S[j] \in Nat /\ S[j] <= S[k]
           Proved == {k \in Nat : k <= N => P(k)}
<1>1. S[0] = 0 /\ \A k \in 1 .. N : S[k] = S[k - 1] + g[k]
  BY SumsGo
<1>2. 0 \in Proved
  BY <1>1
<1>3. ASSUME NEW k \in Nat, k \in Proved PROVE k + 1 \in Proved
  <2>0. SUFFICES ASSUME k + 1 <= N PROVE P(k + 1)
    <3> HIDE DEF P
    <3> QED
      OBVIOUS
  <2>1. /\ k + 1 \in 1 .. N /\ (k + 1) - 1 = k /\ k <= N
        /\ \A j \in 0 .. k + 1 : j \in 0 .. k \/ j = k + 1
    BY <2>0
  <2>2. S[k] \in Nat /\ \A j \in 0 .. k : S[j] \in Nat /\ S[j] <= S[k]
    BY <1>3, <2>1
  <2> HIDE DEF P, Proved
  <2>3. S[k + 1] = S[k] + g[k + 1] /\ g[k + 1] \in Nat
    BY <1>1, <2>1
  <2>4. S[k + 1] \in Nat /\ S[k] <= S[k + 1]
    BY <2>2, <2>3
  <2>5. ASSUME NEW j \in 0 .. k + 1 PROVE S[j] \in Nat /\ S[j] <= S[k + 1]
    <3>1. CASE j = k + 1
      BY <2>4, <3>1
    <3>2. CASE j \in 0 .. k
      BY <2>2, <2>4, <3>2
    <3> QED
      BY <2>1, <3>1, <3>2
  <2> USE DEF P
  <2> QED
    BY <2>4, <2>5
<1>4. ASSUME NEW k \in 0 .. N PROVE P(k)
  <2> HIDE DEF P
  <2>1. Nat \subseteq Proved
    BY ONLY <1>2, <1>3, SetInduction
  <2> QED
    BY <2>1
<1> QED
  BY <1>1, <1>4

\* The functions of a device add at least what they add when all that merges
\* was seen before: a place in the list has this many events before it.
Least(d, e) == IF e.f \in Merged THEN 0 ELSE Gain(<<>>, d, e)
LeastIn(d) ==
  Sums([i \in DOMAIN system[d].functions |-> Least(d, system[d].functions[i])],
       Len(system[d].functions))
WayEvents(d) ==
  GroupOf(d, "XGMI") \o GroupOf(d, "XGMI_DATA_OUT") \o WaysOf(d)[Len(system)]
LeastBy(d) ==
  IF system[d].listed THEN LeastIn(d)[Len(system[d].functions)] + Len(WayEvents(d)) ELSE 0
Start(d) ==
  Len(InfoFunctions) + Sums([x \in DOMAIN system |-> LeastBy(x)], Len(system))[d - 1]

LEMMA LeastFacts ==
  ASSUME NEW d, NEW e, Freq(d, e.f, e.variant) \in 0 .. Len(Frequencies), NEW seen
  PROVE  /\ Least(d, e) \in Nat /\ Gain(seen, d, e) \in Nat /\ Least(d, e) <= Gain(seen, d, e)
         /\ e.f \notin Merged \/ Slot(d, e) \in DOMAIN seen => Gain(seen, d, e) = Least(d, e)
<1>1. Gain(seen, d, e) \in Nat /\ Gain(<<>>, d, e) \in Nat
  BY GainFacts
<1>2. e.f \in Merged => e.f \notin SplitFunctions
  BY Disjoint
<1>3. e.f \notin Merged => Gain(seen, d, e) = Gain(<<>>, d, e)
  BY DEF Gain
<1>4. e.f \in Merged /\ Slot(d, e) \in DOMAIN seen => Gain(seen, d, e) = 0
  BY <1>2 DEF Gain
<1> QED
  BY <1>1, <1>3, <1>4 DEF Least

LEMMA LeastInFacts ==
  ASSUME system \in Systems, NEW d \in Devices, NEW N, N = Len(system[d].functions),
         NEW S, S = LeastIn(d)
  PROVE  /\ N \in Nat /\ DOMAIN system[d].functions = 1 .. N
         /\ S[0] = 0 /\ \A k \in 1 .. N : S[k] = S[k - 1] + Least(d, system[d].functions[k])
         /\ \A k \in 0 .. N : S[k] \in Nat /\ \A j \in 0 .. k : S[j] <= S[k]
<1>1. N \in Nat /\ DOMAIN system[d].functions = 1 .. N /\ FreqsKnown(d)
  BY SystemFacts
<1>2. PICK g : g = [i \in DOMAIN system[d].functions |-> Least(d, system[d].functions[i])]
  OBVIOUS
<1>3. \A k \in 1 .. N : g[k] = Least(d, system[d].functions[k]) /\ g[k] \in Nat
  <2>1. \A k \in 1 .. N : Least(d, system[d].functions[k]) \in Nat
    BY <1>1, LeastFacts DEF FreqsKnown
  <2> QED
    BY <1>1, <1>2, <2>1
<1>4. S = Sums(g, N)
  BY <1>2 DEF LeastIn
<1>5. /\ S[0] = 0 /\ \A k \in 1 .. N : S[k] = S[k - 1] + g[k]
      /\ \A k \in 0 .. N : S[k] \in Nat /\ \A j \in 0 .. k : S[j] <= S[k]
  BY <1>1, <1>3, <1>4, SumsFacts
<1> QED
  BY <1>1, <1>3, <1>5

LEMMA WayEventsFacts ==
  ASSUME system \in Systems, NEW d, NEW evs, evs = WayEvents(d)
  PROVE  /\ IsEvents(evs) /\ Len(evs) \in Nat /\ \A i \in DOMAIN evs : Described(evs[i])
<1>1. PICK g1, g2, ws : /\ g1 = GroupOf(d, "XGMI") /\ g2 = GroupOf(d, "XGMI_DATA_OUT")
                        /\ ws = WaysOf(d)[Len(system)]
  OBVIOUS
<1>2. /\ IsEvents(g1) /\ \A i \in DOMAIN g1 : Described(g1[i])
      /\ IsEvents(g2) /\ \A i \in DOMAIN g2 : Described(g2[i])
  BY <1>1, GroupFacts
<1>3. IsEvents(ws) /\ \A i \in DOMAIN ws : Described(ws[i])
  <2>1. NumberOf \in Nat /\ NumberOf = Len(system) /\ DOMAIN system = 1 .. NumberOf
    BY SystemFacts DEF NumberOf
  <2> QED
    BY <1>1, <2>1, WaysFacts
<1>4. PICK gs : gs = g1 \o g2
  OBVIOUS
<1>5. IsEvents(gs) /\ \A i \in DOMAIN gs : Described(gs[i])
  BY <1>2, <1>4, JoinedDescribed
<1>6. evs = gs \o ws
  BY <1>1, <1>4 DEF WayEvents
<1>7. IsEvents(evs) /\ \A i \in DOMAIN evs : Described(evs[i])
  BY <1>3, <1>5, <1>6, JoinedDescribed
<1> QED
  BY <1>7, SomeEvents

LEMMA StartFacts ==
  ASSUME system \in Systems
  PROVE  /\ Start(1) = 3 /\ \A d \in 1 .. NumberOf + 1 : Start(d) \in Nat
         /\ \A d \in 1 .. NumberOf : LeastBy(d) \in Nat /\ Start(d + 1) = Start(d) + LeastBy(d)
<1>1. NumberOf \in Nat /\ DOMAIN system = 1 .. NumberOf /\ Devices = 1 .. NumberOf
  BY SystemFacts
<1>2. ASSUME NEW d \in 1 .. NumberOf PROVE LeastBy(d) \in Nat
  <2>1. PICK N : N = Len(system[d].functions)
    OBVIOUS
  <2>2. N \in 0 .. N
    BY <1>1, <1>2, <2>1, LeastInFacts
  <2>3. LeastIn(d)[N] \in Nat
    BY <1>1, <1>2, <2>1, <2>2, LeastInFacts
  <2>4. Len(WayEvents(d)) \in Nat
    BY WayEventsFacts
  <2> QED
    BY <2>1, <2>3, <2>4 DEF LeastBy
<1>3. PICK g : g = [x \in DOMAIN system |-> LeastBy(x)]
  OBVIOUS
<1>4. \A k \in 1 .. NumberOf : g[k] = LeastBy(k) /\ g[k] \in Nat
  BY <1>1, <1>2, <1>3
<1>5. PICK S : S = Sums(g, NumberOf)
  OBVIOUS
<1>6. /\ S[0] = 0 /\ \A k \in 1 .. NumberOf : S[k] = S[k - 1] + g[k]
      /\ \A k \in 0 .. NumberOf : S[k] \in Nat
  BY <1>1, <1>4, <1>5, SumsFacts
<1>7. \A d : Start(d) = 3 + S[d - 1]
  BY <1>3, <1>5, InfoCount DEF Start, NumberOf
<1>8. Start(1) = 3
  BY <1>6, <1>7
<1>9. ASSUME NEW d \in 1 .. NumberOf + 1 PROVE Start(d) \in Nat
  <2>1. d - 1 \in 0 .. NumberOf
    BY <1>1
  <2>2. S[d - 1] \in Nat
    BY <1>6, <2>1
  <2> QED
    BY <1>7, <2>2
<1>10. ASSUME NEW d \in 1 .. NumberOf PROVE Start(d + 1) = Start(d) + LeastBy(d)
  <2>1. d \in Nat /\ (d + 1) - 1 = d /\ d - 1 \in 0 .. NumberOf
    BY <1>1
  <2>2. S[d] = S[d - 1] + LeastBy(d) /\ S[d - 1] \in Nat /\ LeastBy(d) \in Nat
    BY <1>2, <1>4, <1>6, <2>1
  <2>3. Start(d + 1) = 3 + S[d] /\ Start(d) = 3 + S[d - 1]
    BY <1>7, <2>1
  <2> QED
    BY <2>2, <2>3
<1> QED
  BY <1>2, <1>8, <1>9, <1>10

\* An event that may be written through says so.  Of a function that is only
\* read nothing is said: its accesses refuse an event that has another mode.
Careful(ev) == ev.f \in Masked \cup WriteOnly => Described(ev)
Kept(t) == Form(t) /\ \A i \in DOMAIN t.events : Careful(t.events[i])

\* u is the table t with n events more, of the functions F.
Grown(t, u, n, F) ==
  /\ Kept(u) /\ Len(u.events) = Len(t.events) + n
  /\ \A i \in DOMAIN t.events : u.events[i] = t.events[i]
  /\ \A i \in DOMAIN u.events \ DOMAIN t.events : u.events[i].f \in F

LEMMA KeptBy ==
  ASSUME NEW t, Kept(t), NEW u, Form(u), NEW n \in Nat, Len(u.events) = Len(t.events) + n,
         \A i \in DOMAIN t.events : u.events[i] = t.events[i],
         NEW F, \A i \in 1 .. n : /\ Described(u.events[Len(t.events) + i])
                                  /\ u.events[Len(t.events) + i].f \in F
  PROVE  Grown(t, u, n, F)
<1> DEFINE M == Len(t.events)
<1>1. /\ M \in Nat /\ DOMAIN t.events = 1 .. M /\ DOMAIN u.events = 1 .. (M + n)
  BY SomeEvents DEF Kept, Form
<1> HIDE DEF M
<1>2. ASSUME NEW i \in DOMAIN u.events \ DOMAIN t.events
      PROVE  Described(u.events[i]) /\ u.events[i].f \in F
  <2>1. i - M \in 1 .. n /\ M + (i - M) = i
    BY <1>1
  <2> QED
    BY <2>1 DEF M
<1>3. \A i \in DOMAIN u.events : Careful(u.events[i])
  BY <1>2 DEF Kept, Careful
<1> QED
  BY <1>2, <1>3 DEF Grown, Kept

LEMMA GrownByAll ==
  ASSUME NEW t, Kept(t), NEW evs, IsEvents(evs), NEW F,
         \A i \in DOMAIN evs : Described(evs[i]) /\ evs[i].f \in F,
         NEW u, u = AddAll(t, evs)
  PROVE  Grown(t, u, Len(evs), F) /\ u.seen = t.seen
<1>1. /\ Form(u) /\ Len(u.events) = Len(t.events) + Len(evs) /\ u.seen = t.seen
      /\ \A i \in DOMAIN t.events : u.events[i] = t.events[i]
      /\ \A i \in DOMAIN evs : u.events[Len(t.events) + i] = evs[i]
  BY AddAllFacts DEF Kept
<1>2. Len(evs) \in Nat /\ DOMAIN evs = 1 .. Len(evs)
  BY SomeEvents
<1> QED
  BY <1>1, <1>2, KeptBy

LEMMA GrownByOne ==
  ASSUME NEW t, Kept(t), NEW ev, EventForm(ev), Described(ev), NEW t0, Form(t0),
         t0.events = t.events, NEW u, u = Add(t0, ev)
  PROVE  Grown(t, u, 1, {ev.f}) /\ u.seen = t0.seen
<1>1. /\ Form(u) /\ u.events = Append(t.events, ev) /\ u.seen = t0.seen
  BY AddFacts
<1>2. IsEvents(t.events)
  BY DEF Kept, Form
<1>3. /\ Len(u.events) = Len(t.events) + 1 /\ u.events[Len(t.events) + 1] = ev
      /\ \A i \in 1 .. Len(t.events) : u.events[i] = t.events[i]
      /\ DOMAIN t.events = 1 .. Len(t.events)
  BY <1>1, <1>2, Appended, SomeEvents
<1>4. \A i \in 1 .. 1 : i = 1
  OBVIOUS
<1> QED
  BY <1>1, <1>3, <1>4, KeptBy

\* A function of the list: nothing but a set function that finds its slot
\* touches what is there.
Retouches(t, d, e) == e.f \in Setters /\ Slot(d, e) \in DOMAIN t.seen
NewSlot(t, d, e) == e.f \in Merged /\ Slot(d, e) \notin DOMAIN t.seen
Grows(t, u, d, e) ==
  /\ Grown(t, u, Gain(t.seen, d, e), {e.f})
  /\ NewSlot(t, d, e) => u.seen = Take(t.seen, Slot(d, e), Len(t.events) + 1)
  /\ ~NewSlot(t, d, e) => u.seen = t.seen
LEMMA GrowingStep ==
  ASSUME NEW t, Kept(t), NEW d, NEW e, Freq(d, e.f, e.variant) \in 0 .. Len(Frequencies),
         \A s \in DOMAIN t.seen : t.seen[s] \in Nat \ {0},
         ~Retouches(t, d, e), NEW u, u = FillEntry(t, d, e)
  PROVE  Grows(t, u, d, e)
<1>0. PICK n : n = Gain(t.seen, d, e)
  OBVIOUS
<1>a. Grown(t, t, 0, {e.f})
  <2>1. Len(t.events) \in Nat
    BY SomeEvents DEF Kept, Form
  <2> QED
    BY <2>1 DEF Grown
<1>1. CASE e.f \in SplitFunctions
  <2>1. e.f \notin Merged
    BY <1>1, Disjoint
  <2>2. PICK evs : evs = SplitEvents(d, e)
    OBVIOUS
  <2>3. /\ IsEvents(evs) /\ Len(evs) = SplitCount(e.f, Freq(d, e.f, e.variant))
        /\ \A i \in DOMAIN evs : evs[i].f = e.f /\ Described(evs[i])
    BY <2>2, SplitEventsFacts
  <2>4. u = AddAll(t, evs) /\ n = Len(evs)
    BY <1>0, <1>1, <2>1, <2>2, <2>3 DEF FillEntry, Gain
  <2>5. Grown(t, u, Len(evs), {e.f}) /\ u.seen = t.seen
    <3>1. PICK F : F = {e.f}
      OBVIOUS
    <3>2. \A i \in DOMAIN evs : Described(evs[i]) /\ evs[i].f \in F
      BY <2>3, <3>1
    <3>3. Grown(t, u, Len(evs), F) /\ u.seen = t.seen
      BY <2>3, <2>4, <3>2, GrownByAll
    <3> QED
      BY <3>1, <3>3
  <2>6. Grown(t, u, n, {e.f})
    BY <2>4, <2>5
  <2> QED
    BY <1>0, <2>1, <2>5, <2>6 DEF NewSlot, Grows
<1>2. CASE e.f \in Merged /\ Slot(d, e) \notin DOMAIN t.seen
  <2> DEFINE s == Slot(d, e)
             M == Len(t.events)
  <2>1. e.f \notin SplitFunctions /\ SlotOf(t.seen, s) = 0 /\ n = 1
    BY <1>0, <1>2, Disjoint DEF SlotOf, Gain
  <2>2. PICK ev : ev = OwnEvent(d, e)
    OBVIOUS
  <2>3. PICK t0 : t0 = [t EXCEPT !.seen = Take(@, s, M + 1)]
    OBVIOUS
  <2>4. u = Add(t0, ev)
    BY <1>2, <2>1, <2>2, <2>3 DEF FillEntry
  <2>5. EventForm(ev) /\ ev.f = e.f /\ Described(ev)
    BY <2>2, OwnEventFacts
  <2>6. Form(t0) /\ t0.events = t.events /\ t0.seen = Take(t.seen, s, M + 1)
    <3>1. /\ t = [events |-> t.events, overrun |-> t.overrun, names |-> t.names,
                  unnamed |-> t.unnamed, seen |-> t.seen, fault |-> t.fault]
          /\ IsEvents(t.events) /\ t.overrun \in BOOLEAN
      BY DEF Kept, Form
    <3>2. t0 = [events |-> t.events, overrun |-> t.overrun, names |-> t.names,
                unnamed |-> t.unnamed, seen |-> Take(t.seen, s, M + 1), fault |-> t.fault]
      BY <2>3, <3>1
    <3> HIDE DEF s, M
    <3> QED
      BY <3>1, <3>2 DEF Form
  <2> HIDE DEF s, M
  <2>7. Grown(t, u, 1, {e.f}) /\ u.seen = t0.seen
    <3>1. Grown(t, u, 1, {ev.f}) /\ u.seen = t0.seen
      BY <2>4, <2>5, <2>6, GrownByOne
    <3> QED
      BY <2>5, <3>1
  <2>8. Grown(t, u, n, {e.f})
    BY <2>1, <2>7
  <2>9. u.seen = Take(t.seen, Slot(d, e), Len(t.events) + 1)
    BY <2>6, <2>7 DEF s, M
  <2> QED
    BY <1>0, <1>2, <2>8, <2>9 DEF NewSlot, Grows
<1>3. CASE e.f \in Merged /\ Slot(d, e) \in DOMAIN t.seen
  <2>1. /\ e.f \notin SplitFunctions /\ e.f \notin Setters /\ n = 0
        /\ SlotOf(t.seen, Slot(d, e)) > 0 /\ SlotOf(t.seen, Slot(d, e)) # 0
    BY <1>0, <1>3, Disjoint DEF SlotOf, Gain, Retouches
  <2>2. u = MergeSet(t, t.seen[Slot(d, e)], e.f)
    BY <1>3, <2>1 DEF FillEntry
  <2>3. u = t
    BY <2>1, <2>2 DEF MergeSet, Setters
  <2> QED
    BY <1>0, <1>a, <1>3, <2>1, <2>3 DEF NewSlot, Grows
<1>4. CASE e.f \notin SplitFunctions \cup Merged /\ HasName(e.f, e.variant)
  <2>1. PICK ev : ev = OwnEvent(d, e)
    OBVIOUS
  <2>2. EventForm(ev) /\ ev.f = e.f /\ Described(ev)
    BY <2>1, OwnEventFacts
  <2>3. u = Add(t, ev) /\ n = 1 /\ Form(t)
    BY <1>0, <1>4, <2>1 DEF FillEntry, Gain, Kept
  <2>4. Grown(t, u, 1, {ev.f}) /\ u.seen = t.seen
    BY <2>2, <2>3, GrownByOne
  <2>5. Grown(t, u, n, {e.f})
    BY <2>2, <2>3, <2>4
  <2> QED
    BY <1>0, <1>4, <2>4, <2>5 DEF NewSlot, Grows
<1>5. CASE e.f \notin SplitFunctions \cup Merged /\ ~HasName(e.f, e.variant)
  <2>1. u = t /\ n = 0
    BY <1>0, <1>5 DEF FillEntry, Gain
  <2> QED
    BY <1>0, <1>a, <1>5, <2>1 DEF NewSlot, Grows
<1> QED
  BY <1>1, <1>2, <1>3, <1>4, <1>5

\* A set function that finds its slot: at most the event at the place that the
\* static remembers gets another description and mode.
Retouched(t, u, code, e) ==
  /\ Form(u) /\ Len(u.events) = Len(t.events) /\ u.seen = t.seen
  /\ \A i \in DOMAIN t.events : i # code => u.events[i] = t.events[i]
  /\ code \in DOMAIN t.events =>
       u.events[code].f = t.events[code].f /\ u.events[code].descr = e.f
LEMMA RetouchingStep ==
  ASSUME NEW t, Form(t), NEW d, NEW e, NEW code \in Nat \ {0}, Retouches(t, d, e),
         code = t.seen[Slot(d, e)], NEW u, u = FillEntry(t, d, e)
  PROVE  Retouched(t, u, code, e)
<1>1. e.f \in Merged /\ e.f \notin SplitFunctions /\ Slot(d, e) \in DOMAIN t.seen
  BY Disjoint DEF Retouches
<1>2. SlotOf(t.seen, Slot(d, e)) > 0 /\ SlotOf(t.seen, Slot(d, e)) # 0
  BY <1>1 DEF SlotOf
<1>3. u = MergeSet(t, code, e.f)
  BY <1>1, <1>2 DEF FillEntry
<1>4. CASE code \in DOMAIN t.events
  <2>1. u = Overwrite(t, code, e.f)
    BY <1>3, <1>4 DEF MergeSet, Retouches, Setters
  <2> QED
    BY <1>4, <2>1, OverwriteFacts DEF Retouched
<1>5. CASE code \notin DOMAIN t.events
  <2>1. u = [t EXCEPT !.overrun = @ \/ code > room]
    BY <1>3, <1>5 DEF MergeSet, Retouches, Setters
  <2>2. /\ t = [events |-> t.events, overrun |-> t.overrun, names |-> t.names,
                unnamed |-> t.unnamed, seen |-> t.seen, fault |-> t.fault]
        /\ IsEvents(t.events) /\ t.overrun \in BOOLEAN
    BY DEF Form
  <2>3. u = [events |-> t.events, overrun |-> t.overrun \/ code > room, names |-> t.names,
             unnamed |-> t.unnamed, seen |-> t.seen, fault |-> t.fault]
    BY <2>1, <2>2
  <2>4. u.events = t.events /\ u.seen = t.seen /\ u.overrun \in BOOLEAN
    BY <2>2, <2>3
  <2>5. Form(u)
    BY <2>2, <2>3, <2>4 DEF Form
  <2> QED
    BY <1>5, <2>4, <2>5 DEF Retouched
<1> QED
  BY <1>4, <1>5

-----------------------------------------------------------------------------
(* Later sessions: the walk over one device.                               *)

\* What a static remembers lies behind the place of a function of its slot.
LedOne(seen, s) ==
  /\ s[1] \in Devices /\ seen[s] \in Nat \ {0}
  /\ \E i \in DOMAIN system[s[1]].functions :
       /\ system[s[1]].functions[i].f \in Merged
       /\ Slot(s[1], system[s[1]].functions[i]) = s
       /\ Start(s[1]) + LeastIn(s[1])[i] < seen[s]
Led(seen) == \A s \in DOMAIN seen : LedOne(seen, s)
\* The slots of a device are remembered together, and device after device.
SlotsSeen(seen, d) ==
  system[d].listed =>
    \A i \in DOMAIN system[d].functions :
      system[d].functions[i].f \in Merged => Slot(d, system[d].functions[i]) \in DOMAIN seen
Whole(seen) == \A s \in DOMAIN seen, d \in Devices : d <= s[1] => SlotsSeen(seen, d)

LEMMA SlotParts ==
  ASSUME NEW d, NEW e
  PROVE  Slot(d, e)[1] = d /\ Slot(d, e)[2] = Label(e.f)
BY DEF Slot

LEMMA HarmlessBetween ==
  {"fan_speed_max_get", "power_cap_range_get"} \cap (Masked \cup WriteOnly) = {}
BY DEF Masked, WriteOnly, PerfLevel, PowerCap

\* A device that was walked in an earlier session gets the least of events, and
\* its set functions write over none that is ever written through.
LEMMA StaleWalk ==
  ASSUME system \in Systems, NEW d \in Devices, system[d].listed, Ordered(system[d].functions),
         NEW t, Kept(t), Led(t.seen), SlotsSeen(t.seen, d), Len(t.events) = Start(d),
         NEW N, N = Len(system[d].functions), NEW T, T = FillList(t, d)
  PROVE  /\ Kept(T[N]) /\ T[N].seen = t.seen /\ Len(T[N].events) = Start(d) + LeastIn(d)[N]
<1>1. PICK fs, S, M : fs = system[d].functions /\ S = LeastIn(d) /\ M = Start(d)
  OBVIOUS
<1>2. /\ N \in Nat /\ DOMAIN fs = 1 .. N /\ S[0] = 0
      /\ \A k \in 1 .. N : S[k] = S[k - 1] + Least(d, fs[k])
      /\ \A k \in 0 .. N : S[k] \in Nat /\ \A j \in 0 .. k : S[j] <= S[k]
  BY <1>1, LeastInFacts
<1>3. FreqsKnown(d) /\ M \in Nat
  BY <1>1, SystemFacts, SomeEvents DEF Kept, Form
<1>4. T[0] = t /\ \A k \in 1 .. N : T[k] = FillEntry(T[k - 1], d, fs[k])
  BY <1>1, <1>2, FillGo
<1>5. \A k \in 1 .. N : fs[k].f \in Merged => Slot(d, fs[k]) \in DOMAIN t.seen
  BY <1>1, <1>2 DEF SlotsSeen
<1>6. \A s \in DOMAIN t.seen : t.seen[s] \in Nat \ {0}
  BY DEF Led, LedOne
<1> DEFINE Owned(k, p) == \E m \in 1 .. k : /\ p <= M + S[m] /\ fs[m].f \notin Merged
                                           /\ T[k].events[p].f = fs[m].f
           P(k) == /\ Kept(T[k]) /\ T[k].seen = t.seen /\ Len(T[k].events) = M + S[k]
                   /\ \A p \in M + 1 .. M + S[k] : Owned(k, p)
           Proved == {k \in Nat : k <= N => P(k)}
<1>7. 0 \in Proved
  <2>1. M + S[0] = M /\ M + 1 .. M = {}
    BY <1>2, <1>3
  <2> HIDE DEF Owned
  <2> QED
    BY <1>1, <1>4, <2>1
<1>8. ASSUME NEW k \in Nat, k \in Proved PROVE k + 1 \in Proved
  <2>0. SUFFICES ASSUME k + 1 <= N PROVE P(k + 1)
    <3> HIDE DEF P
    <3> QED
      OBVIOUS
  <2>1. /\ k + 1 \in 1 .. N /\ (k + 1) - 1 = k /\ k <= N /\ k \in 0 .. N /\ k + 1 \in 0 .. N
        /\ \A m \in 1 .. k : m \in 1 .. k + 1 /\ m \in 1 .. N /\ m \in 0 .. N
    BY <2>0
  <2>2. /\ Kept(T[k]) /\ T[k].seen = t.seen /\ Len(T[k].events) = M + S[k]
        /\ \A p \in M + 1 .. M + S[k] : Owned(k, p)
    BY <1>8, <2>1
  <2> HIDE DEF P, Proved
  <2>3. PICK e : e = fs[k + 1]
    OBVIOUS
  <2>4. T[k + 1] = FillEntry(T[k], d, e) /\ Freq(d, e.f, e.variant) \in 0 .. Len(Frequencies)
    BY <1>1, <1>2, <1>3, <1>4, <2>1, <2>3 DEF FreqsKnown
  <2>5. /\ Gain(t.seen, d, e) = Least(d, e) /\ Least(d, e) \in Nat
    BY <1>5, <2>1, <2>3, <2>4, LeastFacts
  <2>6. /\ S[k] \in Nat /\ S[k + 1] \in Nat /\ S[k + 1] = S[k] + Least(d, e)
        /\ e.f \in Merged => S[k + 1] = S[k]
    BY <1>2, <2>1, <2>3, <2>5 DEF Least
  <2>7. DOMAIN T[k].events = 1 .. (M + S[k])
    BY <2>2, SomeEvents DEF Kept, Form
  <2>8. CASE ~Retouches(T[k], d, e)
    <3>1. /\ Grown(T[k], T[k + 1], Gain(T[k].seen, d, e), {e.f})
          /\ T[k + 1].seen = T[k].seen
      <4>1. \A s \in DOMAIN T[k].seen : T[k].seen[s] \in Nat \ {0}
        BY <1>6, <2>2
      <4>2. ~NewSlot(T[k], d, e)
        BY <1>5, <2>1, <2>2, <2>3 DEF NewSlot
      <4>3. PICK a, b : a = T[k] /\ b = T[k + 1]
        OBVIOUS
      <4> HIDE DEF Owned
      <4>4. /\ Kept(a) /\ ~Retouches(a, d, e) /\ b = FillEntry(a, d, e)
            /\ \A s \in DOMAIN a.seen : a.seen[s] \in Nat \ {0}
            /\ ~NewSlot(a, d, e)
        BY <2>2, <2>4, <2>8, <4>1, <4>2, <4>3
      <4>5. Freq(d, e.f, e.variant) \in 0 .. Len(Frequencies)
        BY <2>4
      <4>6. Grown(a, b, Gain(a.seen, d, e), {e.f}) /\ b.seen = a.seen
        <5>1. Grows(a, b, d, e)
          BY ONLY <4>4, <4>5, GrowingStep
        <5> QED
          BY <4>4, <5>1 DEF Grows
      <4> QED
        BY <4>3, <4>6
    <3>2. /\ Kept(T[k + 1]) /\ Len(T[k + 1].events) = Len(T[k].events) + Least(d, e)
          /\ \A p \in DOMAIN T[k].events : T[k + 1].events[p] = T[k].events[p]
          /\ \A p \in DOMAIN T[k + 1].events \ DOMAIN T[k].events : T[k + 1].events[p].f = e.f
      BY <2>2, <2>5, <3>1 DEF Grown
    <3>3. Len(T[k + 1].events) = M + S[k + 1]
      BY <1>3, <2>2, <2>5, <2>6, <3>2
    <3>4. DOMAIN T[k + 1].events = 1 .. (M + S[k + 1])
      BY <3>2, <3>3, SomeEvents DEF Kept, Form
    <3>5. ASSUME NEW p \in M + 1 .. M + S[k + 1] PROVE Owned(k + 1, p)
      <4>1. CASE p <= M + S[k]
        <5>1. p \in M + 1 .. M + S[k] /\ p \in 1 .. (M + S[k])
          BY <1>3, <2>6, <4>1
        <5>2. PICK m \in 1 .. k : /\ p <= M + S[m] /\ fs[m].f \notin Merged
                                  /\ T[k].events[p].f = fs[m].f
          BY <2>2, <5>1
        <5>3. m \in 1 .. k + 1 /\ T[k + 1].events[p].f = fs[m].f
          BY <2>1, <2>7, <3>2, <5>1, <5>2
        <5> QED
          BY <5>2, <5>3
      <4>2. CASE ~(p <= M + S[k])
        <5>1. /\ p \in 1 .. (M + S[k + 1]) /\ p \notin 1 .. (M + S[k]) /\ S[k + 1] # S[k]
              /\ p <= M + S[k + 1] /\ k + 1 \in 1 .. k + 1
          BY <1>3, <2>6, <4>2
        <5>2. T[k + 1].events[p].f = fs[k + 1].f /\ fs[k + 1].f \notin Merged
          BY <2>3, <2>6, <2>7, <3>2, <3>4, <5>1
        <5> QED
          BY <5>1, <5>2
      <4> QED
        BY <4>1, <4>2
    <3> HIDE DEF Owned
    <3> USE DEF P
    <3> QED
      BY <2>2, <3>1, <3>2, <3>3, <3>5
  <2>9. CASE Retouches(T[k], d, e)
    <3>1. e.f \in Merged /\ Slot(d, e) \in DOMAIN t.seen
      BY <2>2, <2>9, Disjoint DEF Retouches
    <3>2. PICK code : code = t.seen[Slot(d, e)]
      OBVIOUS
    <3>3. PICK i \in DOMAIN fs : /\ fs[i].f \in Merged /\ Slot(d, fs[i]) = Slot(d, e)
                                 /\ code \in Nat \ {0} /\ M + S[i] < code
      <4>1. LedOne(t.seen, Slot(d, e)) /\ Slot(d, e)[1] = d
        BY <3>1, SlotParts DEF Led
      <4> QED
        BY <1>1, <3>2, <4>1 DEF LedOne
    <3>4. /\ Form(T[k + 1]) /\ Len(T[k + 1].events) = Len(T[k].events)
          /\ T[k + 1].seen = T[k].seen
          /\ \A p \in DOMAIN T[k].events : p # code => T[k + 1].events[p] = T[k].events[p]
          /\ code \in DOMAIN T[k].events => T[k + 1].events[code].f = T[k].events[code].f
      <4>1. PICK a, b : a = T[k] /\ b = T[k + 1]
        OBVIOUS
      <4> HIDE DEF Owned
      <4>2. /\ Form(a) /\ Retouches(a, d, e) /\ b = FillEntry(a, d, e)
            /\ code = a.seen[Slot(d, e)] /\ code \in Nat \ {0}
        BY <2>2, <2>4, <2>9, <3>2, <3>3, <4>1 DEF Kept
      <4>3. /\ Form(b) /\ Len(b.events) = Len(a.events) /\ b.seen = a.seen
            /\ \A p \in DOMAIN a.events : p # code => b.events[p] = a.events[p]
            /\ code \in DOMAIN a.events => b.events[code].f = a.events[code].f
        <5>1. Retouched(a, b, code, e)
          BY <4>2, RetouchingStep
        <5> QED
          BY <5>1 DEF Retouched
      <4> QED
        BY <4>1, <4>3
    <3>5. /\ Len(T[k + 1].events) = M + S[k + 1] /\ S[k + 1] = S[k]
          /\ DOMAIN T[k + 1].events = 1 .. (M + S[k])
      BY <2>2, <2>6, <3>1, <3>4, SomeEvents DEF Form
    <3>6. ASSUME code \in DOMAIN T[k].events PROVE Careful(T[k + 1].events[code])
      <4>1. i \in 1 .. N /\ i \in 0 .. N /\ S[i] \in Nat
        BY <1>2, <3>3
      <4>2. code \in M + 1 .. M + S[k]
        BY <1>3, <2>6, <2>7, <3>3, <3>6, <4>1
      <4>3. PICK m \in 1 .. k : /\ code <= M + S[m] /\ fs[m].f \notin Merged
                                /\ T[k].events[code].f = fs[m].f
        BY <2>2, <4>2
      <4>4. i < m
        <5>1. m \in 0 .. N /\ S[m] \in Nat
          BY <1>2, <2>1
        <5>2. m <= i => S[m] <= S[i]
          BY <1>2, <2>1, <4>1
        <5>3. ~(S[m] <= S[i])
          BY <1>3, <3>3, <4>1, <4>3, <5>1
        <5> QED
          BY <4>1, <5>1, <5>2, <5>3
      <4>5. i \in 1 .. (k + 1) - 1 /\ m \in 1 .. (k + 1) - 1 /\ k + 1 \in DOMAIN fs
        BY <1>2, <2>1, <4>1, <4>4
      <4>6. Label(fs[i].f) = Label(fs[k + 1].f) /\ {fs[k + 1].f, fs[i].f} \subseteq Merged
        <5>1. Slot(d, fs[i])[2] = Slot(d, e)[2]
          BY <3>3
        <5> QED
          BY <2>3, <3>1, <3>3, <5>1, SlotParts
      <4>7. fs[m].f \in Merged \cup {"fan_speed_max_get", "power_cap_range_get"}
        BY <1>1, <4>4, <4>5, <4>6 DEF Ordered
      <4>8. T[k + 1].events[code].f \in {"fan_speed_max_get", "power_cap_range_get"}
        BY <3>4, <3>6, <4>3, <4>7
      <4> QED
        BY <4>8, HarmlessBetween DEF Careful
    <3>7. Kept(T[k + 1])
      <4>1. ASSUME NEW p \in 1 .. (M + S[k]) PROVE Careful(T[k + 1].events[p])
        <5>1. Careful(T[k].events[p])
          BY <2>2, <2>7 DEF Kept
        <5> QED
          BY <2>7, <3>4, <3>6, <5>1
      <4> QED
        BY <3>4, <3>5, <4>1 DEF Kept
    <3>8. ASSUME NEW p \in M + 1 .. M + S[k + 1] PROVE Owned(k + 1, p)
      <4>1. p \in M + 1 .. M + S[k] /\ p \in 1 .. (M + S[k])
        BY <1>3, <2>6, <3>5
      <4>2. PICK m \in 1 .. k : /\ p <= M + S[m] /\ fs[m].f \notin Merged
                                /\ T[k].events[p].f = fs[m].f
        BY <2>2, <4>1
      <4>3. m \in 1 .. k + 1 /\ T[k + 1].events[p].f = fs[m].f
        BY <2>1, <2>7, <3>4, <4>1, <4>2
      <4> QED
        BY <4>2, <4>3
    <3> HIDE DEF Owned
    <3> USE DEF P
    <3> QED
      BY <2>2, <3>4, <3>5, <3>7, <3>8
  <2> QED
    BY <2>8, <2>9
<1>9. P(N)
  <2> HIDE DEF P
  <2>1. Nat \subseteq Proved
    BY ONLY <1>7, <1>8, SetInduction
  <2> QED
    BY <1>2, <2>1
<1> HIDE DEF Owned
<1> QED
  BY <1>1, <1>9


\* A device that is walked the first time: what its statics remember are events
\* of this session.
OwnOne(u, s) == u.seen[s] \in DOMAIN u.events /\ Label(u.events[u.seen[s]].f) = s[2]
Fresh(t, u, d, k) ==
  /\ Kept(u) /\ Led(u.seen) /\ DOMAIN t.seen \subseteq DOMAIN u.seen
  /\ \A s \in DOMAIN u.seen : s \in DOMAIN t.seen \/ (s[1] = d /\ OwnOne(u, s))
  /\ Start(d) + LeastIn(d)[k] <= Len(u.events)
  /\ \A m \in 1 .. k : system[d].functions[m].f \in Merged =>
                         Slot(d, system[d].functions[m]) \in DOMAIN u.seen

LEMMA FreshStep ==
  ASSUME system \in Systems, NEW d \in Devices, NEW t, \A s \in DOMAIN t.seen : s[1] < d,
         NEW k \in Nat, k + 1 <= Len(system[d].functions), NEW a, Fresh(t, a, d, k),
         NEW e, e = system[d].functions[k + 1], NEW b, b = FillEntry(a, d, e)
  PROVE  Fresh(t, b, d, k + 1)
<1>1. PICK fs, S, M, L, s0 : /\ fs = system[d].functions /\ S = LeastIn(d) /\ M = Start(d)
                             /\ L = Len(a.events) /\ s0 = Slot(d, e)
  OBVIOUS
<1>2. /\ k + 1 \in 1 .. Len(fs) /\ (k + 1) - 1 = k /\ k \in 0 .. Len(fs) /\ k + 1 \in 0 .. Len(fs)
      /\ DOMAIN fs = 1 .. Len(fs) /\ \A m \in 1 .. k + 1 : m \in 1 .. k \/ m = k + 1
  BY <1>1, SystemFacts
<1>3. /\ S[k + 1] = S[k] + Least(d, e) /\ S[k] \in Nat /\ S[k + 1] \in Nat
      /\ e.f \in Merged => S[k + 1] = S[k]
  <2>1. S[k + 1] = S[k] + Least(d, e) /\ S[k] \in Nat
    BY <1>1, <1>2, LeastInFacts
  <2>2. S[k + 1] \in Nat
    BY <1>1, <1>2, LeastInFacts
  <2>3. e.f \in Merged => Least(d, e) = 0
    BY DEF Least
  <2> QED
    BY <2>1, <2>2, <2>3
<1>4. /\ Kept(a) /\ Led(a.seen) /\ DOMAIN t.seen \subseteq DOMAIN a.seen /\ M + S[k] <= L
      /\ \A s \in DOMAIN a.seen : s \in DOMAIN t.seen \/ (s[1] = d /\ OwnOne(a, s))
      /\ \A m \in 1 .. k : fs[m].f \in Merged => Slot(d, fs[m]) \in DOMAIN a.seen
  BY <1>1 DEF Fresh
<1>5. /\ L \in Nat /\ DOMAIN a.events = 1 .. L /\ M \in Nat
  <2>1. Devices = 1 .. NumberOf /\ NumberOf \in Nat
    BY SystemFacts
  <2>2. d \in 1 .. NumberOf + 1
    BY <2>1
  <2> QED
    BY <1>1, <1>4, <2>2, StartFacts, SomeEvents DEF Kept, Form
<1>6. Freq(d, e.f, e.variant) \in 0 .. Len(Frequencies)
  BY <1>1, <1>2, SystemFacts DEF FreqsKnown
<1>7. /\ Gain(a.seen, d, e) \in Nat /\ Least(d, e) \in Nat /\ Least(d, e) <= Gain(a.seen, d, e)
  BY <1>6, LeastFacts
<1>8. \A s \in DOMAIN a.seen : a.seen[s] \in Nat \ {0}
  BY <1>4 DEF Led, LedOne
<1>9. s0[1] = d /\ s0[2] = Label(e.f) /\ d \in Nat
  BY <1>1, SlotParts, SystemFacts
<1>10. s0 \notin DOMAIN t.seen
  BY <1>9
<1>11. CASE ~Retouches(a, d, e)
  <2>1. Grows(a, b, d, e)
    BY <1>4, <1>6, <1>8, <1>11, GrowingStep
  <2>2. /\ Kept(b) /\ Len(b.events) = L + Gain(a.seen, d, e)
        /\ \A i \in 1 .. L : b.events[i] = a.events[i]
        /\ \A i \in DOMAIN b.events \ 1 .. L : b.events[i].f = e.f
    BY <1>1, <1>5, <2>1 DEF Grows, Grown
  <2>3. /\ DOMAIN b.events = 1 .. (L + Gain(a.seen, d, e)) /\ M + S[k + 1] <= Len(b.events)
        /\ 1 .. L \subseteq DOMAIN b.events
    <3>1. DOMAIN b.events = 1 .. (L + Gain(a.seen, d, e))
      BY <2>2, SomeEvents DEF Kept, Form
    <3>2. PICK G, LS : G = Gain(a.seen, d, e) /\ LS = Least(d, e)
      OBVIOUS
    <3>3. G \in Nat /\ LS \in Nat /\ LS <= G /\ S[k + 1] = S[k] + LS
      BY <1>3, <1>7, <3>2
    <3>4. M + S[k + 1] <= L + G
      BY <1>3, <1>4, <1>5, <3>3
    <3> QED
      BY <1>5, <2>2, <3>1, <3>2, <3>3, <3>4
  <2>4. CASE NewSlot(a, d, e)
    <3>1. e.f \in Merged /\ s0 \notin DOMAIN a.seen /\ Gain(a.seen, d, e) = 1
      BY <1>1, <2>4, Disjoint DEF NewSlot, Gain
    <3>2. b.seen = Take(a.seen, s0, L + 1)
      BY <1>1, <2>1, <2>4 DEF Grows
    <3>3. /\ DOMAIN b.seen = DOMAIN a.seen \cup {s0} /\ b.seen[s0] = L + 1
          /\ \A s \in DOMAIN a.seen : b.seen[s] = a.seen[s]
      BY <3>1, <3>2 DEF Take
    <3>4. L + 1 \in DOMAIN b.events /\ b.events[L + 1].f = e.f /\ L + 1 \in Nat \ {0}
      BY <1>5, <2>2, <2>3, <3>1
    <3>5. Led(b.seen)
      <4>1. ASSUME NEW s \in DOMAIN a.seen PROVE LedOne(b.seen, s)
        BY <1>4, <3>3 DEF Led, LedOne
      <4>2. LedOne(b.seen, s0)
        <5>1. M + S[k + 1] < L + 1
          BY <1>3, <1>4, <1>5, <3>1
        <5>2. /\ s0[1] \in Devices /\ k + 1 \in DOMAIN system[s0[1]].functions
              /\ system[s0[1]].functions[k + 1] = e /\ Slot(s0[1], e) = s0
              /\ Start(s0[1]) + LeastIn(s0[1])[k + 1] < b.seen[s0]
          BY <1>1, <1>2, <1>9, <3>3, <5>1
        <5> QED
          BY <3>1, <3>3, <3>4, <5>2 DEF LedOne
      <4> QED
        BY <3>3, <4>1, <4>2 DEF Led
    <3>6. ASSUME NEW s \in DOMAIN b.seen PROVE s \in DOMAIN t.seen \/ (s[1] = d /\ OwnOne(b, s))
      <4>1. CASE s = s0
        BY <1>9, <3>3, <3>4, <4>1 DEF OwnOne
      <4>2. CASE s \in DOMAIN a.seen /\ OwnOne(a, s)
        BY <1>4, <1>5, <1>10, <2>2, <2>3, <3>3, <4>2 DEF OwnOne
      <4> QED
        BY <1>4, <3>3, <4>1, <4>2
    <3>7. \A m \in 1 .. k + 1 : fs[m].f \in Merged => Slot(d, fs[m]) \in DOMAIN b.seen
      BY <1>1, <1>2, <1>4, <3>3
    <3> QED
      BY <1>1, <1>4, <2>2, <2>3, <3>3, <3>5, <3>6, <3>7 DEF Fresh
  <2>5. CASE ~NewSlot(a, d, e)
    <3>1. b.seen = a.seen
      BY <2>1, <2>5 DEF Grows
    <3>2. \A s \in DOMAIN a.seen : OwnOne(a, s) => OwnOne(b, s)
      BY <1>5, <2>2, <2>3, <3>1 DEF OwnOne
    <3>3. \A m \in 1 .. k + 1 : fs[m].f \in Merged => Slot(d, fs[m]) \in DOMAIN b.seen
      BY <1>1, <1>2, <1>4, <2>5, <3>1 DEF NewSlot
    <3> QED
      BY <1>1, <1>4, <2>2, <2>3, <3>1, <3>2, <3>3 DEF Fresh
  <2> QED
    BY <2>4, <2>5
<1>12. CASE Retouches(a, d, e)
  <2>1. e.f \in Setters /\ e.f \in Merged /\ s0 \in DOMAIN a.seen
    BY <1>1, <1>12, Disjoint DEF Retouches
  <2>2. PICK code : code = a.seen[s0]
    OBVIOUS
  <2>3. OwnOne(a, s0)
    BY <1>4, <1>10, <2>1
  <2>4. /\ code \in 1 .. L /\ code \in Nat \ {0} /\ Label(a.events[code].f) = Label(e.f)
    BY <1>5, <1>8, <1>9, <2>1, <2>2, <2>3 DEF OwnOne
  <2>5. Form(a)
    BY <1>4 DEF Kept
  <2>6. /\ Form(b) /\ Len(b.events) = L /\ b.seen = a.seen
        /\ \A i \in 1 .. L : i # code => b.events[i] = a.events[i]
        /\ b.events[code].f = a.events[code].f /\ b.events[code].descr = e.f
    <3>1. code = a.seen[Slot(d, e)] /\ code \in DOMAIN a.events
      BY <1>1, <1>5, <2>2, <2>4
    <3>2. /\ Form(b) /\ Len(b.events) = Len(a.events) /\ b.seen = a.seen
          /\ \A i \in DOMAIN a.events : i # code => b.events[i] = a.events[i]
          /\ code \in DOMAIN a.events =>
               /\ b.events[code].f = a.events[code].f /\ b.events[code].descr = e.f
      <4>1. Retouched(a, b, code, e)
        BY <1>12, <2>4, <2>5, <3>1, RetouchingStep
      <4> QED
        BY <4>1 DEF Retouched
    <3> QED
      BY <1>1, <1>5, <3>1, <3>2
  <2>7. DOMAIN b.events = 1 .. L /\ \A i \in 1 .. L : b.events[i].f = a.events[i].f
    BY <2>6, SomeEvents DEF Form
  <2>8. Careful(b.events[code])
    <3>1. "write" \in DescribedAccess(e.f, b.events[code].variant)
      BY <2>1 DEF Setters, DescribedAccess, ReadWrite
    <3> QED
      BY <2>4, <2>6, <3>1 DEF Careful, Described
  <2>9. Kept(b)
    BY <1>4, <1>5, <2>6, <2>7, <2>8 DEF Kept
  <2>10. \A s \in DOMAIN a.seen : OwnOne(a, s) => OwnOne(b, s)
    BY <1>5, <2>6, <2>7 DEF OwnOne
  <2>11. \A m \in 1 .. k + 1 : fs[m].f \in Merged => Slot(d, fs[m]) \in DOMAIN b.seen
    BY <1>1, <1>2, <1>4, <2>1, <2>6
  <2>12. M + S[k + 1] <= Len(b.events)
    BY <1>3, <1>4, <2>1, <2>6
  <2> QED
    BY <1>1, <1>4, <2>6, <2>9, <2>10, <2>11, <2>12 DEF Fresh
<1> QED
  BY <1>11, <1>12

LEMMA FreshWalk ==
  ASSUME system \in Systems, NEW d \in Devices, NEW t, Kept(t), Led(t.seen),
         \A s \in DOMAIN t.seen : s[1] < d, Start(d) <= Len(t.events),
         NEW N, N = Len(system[d].functions), NEW T, T = FillList(t, d)
  PROVE  Fresh(t, T[N], d, N)
<1>1. PICK fs : fs = system[d].functions
  OBVIOUS
<1>2. N \in Nat /\ DOMAIN fs = 1 .. N
  BY <1>1, SystemFacts
<1>3. T[0] = t /\ \A k \in 1 .. N : T[k] = FillEntry(T[k - 1], d, fs[k])
  BY <1>1, <1>2, FillGo
<1> DEFINE P(k) == Fresh(t, T[k], d, k)
           Proved == {k \in Nat : k <= N => P(k)}
<1>4. 0 \in Proved
  <2>1. LeastIn(d)[0] = 0 /\ 1 .. 0 = {}
    BY LeastInFacts
  <2>2. Start(d) \in Nat
    BY SystemFacts, StartFacts
  <2> QED
    BY <1>3, <2>1, <2>2 DEF Fresh
<1>5. ASSUME NEW k \in Nat, k \in Proved PROVE k + 1 \in Proved
  <2>0. SUFFICES ASSUME k + 1 <= N PROVE P(k + 1)
    <3> HIDE DEF P
    <3> QED
      OBVIOUS
  <2>1. k + 1 \in 1 .. N /\ (k + 1) - 1 = k /\ k <= N
    BY <1>2, <2>0
  <2>2. PICK a, b : a = T[k] /\ b = T[k + 1]
    OBVIOUS
  <2>3. Fresh(t, a, d, k)
    BY <1>5, <2>1, <2>2
  <2>4. b = FillEntry(a, d, fs[k + 1])
    BY <1>3, <2>1, <2>2
  <2> HIDE DEF P, Proved
  <2>5. Fresh(t, b, d, k + 1)
    BY <1>1, <2>0, <2>3, <2>4, FreshStep
  <2> USE DEF P
  <2> QED
    BY <2>2, <2>5
<1>6. P(N)
  <2> HIDE DEF P
  <2>1. Nat \subseteq Proved
    BY ONLY <1>4, <1>5, SetInduction
  <2> QED
    BY <1>2, <2>1
<1> QED
  BY <1>6

\* The second walk before device d.  Once it wrote more than the least, it has
\* come to a device that it never walked before, and neither the later ones.
Ready(t, d) ==
  /\ Kept(t) /\ Led(t.seen) /\ Whole(t.seen) /\ Start(d) <= Len(t.events)
  /\ \A x \in Devices : x < d => SlotsSeen(t.seen, x)
  /\ Len(t.events) = Start(d) \/ \A s \in DOMAIN t.seen : s[1] < d

WaysGrown(w, u, d) ==
  /\ Kept(u) /\ u.seen = w.seen
  /\ LeastBy(d) = LeastIn(d)[Len(system[d].functions)] + (Len(u.events) - Len(w.events))
  /\ Len(u.events) \in Nat /\ Len(w.events) \in Nat /\ Start(d) \in Nat
  /\ Start(d + 1) = Start(d) + LeastBy(d)
  /\ LeastIn(d)[Len(system[d].functions)] \in Nat
LEMMA WaysLater ==
  ASSUME system \in Systems, NEW d \in Devices, system[d].listed, NEW w, Kept(w),
         NEW u, u = handle_xgmi_events(w, d)
  PROVE  WaysGrown(w, u, d)
<1>1. PICK evs : evs = WayEvents(d)
  OBVIOUS
<1>2. IsEvents(evs) /\ Len(evs) \in Nat /\ \A i \in DOMAIN evs : Described(evs[i])
  BY <1>1, WayEventsFacts
<1>3. PICK F : F = {evs[i].f : i \in DOMAIN evs}
  OBVIOUS
<1>4. \A i \in DOMAIN evs : Described(evs[i]) /\ evs[i].f \in F
  BY <1>2, <1>3
<1>5. u = AddAll(w, evs)
  BY <1>1 DEF handle_xgmi_events, WayEvents
<1>6. Grown(w, u, Len(evs), F) /\ u.seen = w.seen
  BY <1>2, <1>4, <1>5, GrownByAll
<1>7. Kept(u) /\ Len(u.events) = Len(w.events) + Len(evs)
  BY <1>6 DEF Grown
<1>8. Len(w.events) \in Nat /\ Len(u.events) \in Nat
  BY <1>7, SomeEvents DEF Kept, Form
<1>9. PICK LS : LS = LeastIn(d)[Len(system[d].functions)]
  OBVIOUS
<1>10. LS \in Nat
  <2>1. PICK N : N = Len(system[d].functions)
    OBVIOUS
  <2>2. N \in Nat
    BY <2>1, LeastInFacts
  <2>3. N \in 0 .. N
    BY <2>2
  <2> QED
    BY <1>9, <2>1, <2>3, LeastInFacts
<1>11. LeastBy(d) = LS + Len(evs)
  BY <1>1, <1>9 DEF LeastBy
<1>12. Start(d) \in Nat /\ Start(d + 1) = Start(d) + LeastBy(d)
  <2>1. d \in 1 .. NumberOf /\ d \in 1 .. NumberOf + 1
    BY SystemFacts
  <2> QED
    BY <2>1, StartFacts
<1>13. LeastBy(d) = LS + (Len(u.events) - Len(w.events))
  BY <1>2, <1>7, <1>8, <1>11
<1> QED
  BY <1>6, <1>7, <1>8, <1>9, <1>10, <1>12, <1>13 DEF WaysGrown

LEMMA DeviceLater ==
  ASSUME system \in Systems, InOrder, NEW d \in Devices, system[d].listed,
         NEW t, Ready(t, d), NEW w, w = FillList(t, d)[Len(system[d].functions)],
         NEW u, u = handle_xgmi_events(w, d)
  PROVE  Kept(w) /\ Led(w.seen) /\ Whole(w.seen) /\ Ready(u, d + 1)
<1>1. PICK N, T, LS : /\ N = Len(system[d].functions) /\ T = FillList(t, d)
                      /\ LS = LeastIn(d)[N]
  OBVIOUS
<1>2. /\ Kept(t) /\ Led(t.seen) /\ Whole(t.seen) /\ Start(d) <= Len(t.events)
      /\ \A x \in Devices : x < d => SlotsSeen(t.seen, x)
      /\ Len(t.events) = Start(d) \/ \A s \in DOMAIN t.seen : s[1] < d
  BY DEF Ready
<1>3. w = T[N] /\ N \in Nat /\ DOMAIN system[d].functions = 1 .. N
  BY <1>1, SystemFacts
<1>4. /\ Devices = 1 .. NumberOf /\ NumberOf \in Nat /\ d \in Nat
      /\ \A s \in DOMAIN t.seen : s[1] \in Devices
  BY <1>2, SystemFacts DEF Led, LedOne
<1>5. \A x \in Devices : x < d + 1 => x < d \/ x = d
  BY <1>4
<1>6. CASE \E s \in DOMAIN t.seen : ~(s[1] < d)
  <2>1. Len(t.events) = Start(d)
    BY <1>2, <1>6
  <2>2. SlotsSeen(t.seen, d)
    <3>1. PICK s \in DOMAIN t.seen : ~(s[1] < d)
      BY <1>6
    <3>2. d <= s[1]
      BY <1>4, <3>1
    <3> QED
      BY <1>2, <3>2 DEF Whole
  <2>3. Ordered(system[d].functions)
    BY DEF InOrder, Devices
  <2>4. /\ Kept(w) /\ w.seen = t.seen /\ Len(w.events) = Start(d) + LS
    BY <1>1, <1>2, <1>3, <2>1, <2>2, <2>3, StaleWalk
  <2>5. /\ Kept(u) /\ u.seen = w.seen /\ LeastBy(d) = LS + (Len(u.events) - Len(w.events))
        /\ Len(u.events) \in Nat /\ Len(w.events) \in Nat /\ Start(d) \in Nat
        /\ Start(d + 1) = Start(d) + LeastBy(d) /\ LS \in Nat
    <3>1. WaysGrown(w, u, d)
      BY <2>4, WaysLater
    <3> QED
      BY <1>1, <3>1 DEF WaysGrown
  <2>6. Len(u.events) = Start(d + 1)
    BY <2>4, <2>5
  <2>7. /\ Start(d + 1) <= Len(u.events)
    BY <2>5, <2>6
  <2>8. \A x \in Devices : x < d + 1 => SlotsSeen(u.seen, x)
    BY <1>2, <1>5, <2>2, <2>4, <2>5
  <2> QED
    BY <1>2, <2>4, <2>5, <2>6, <2>7, <2>8 DEF Ready
<1>7. CASE \A s \in DOMAIN t.seen : s[1] < d
  <2>1. Fresh(t, w, d, N)
    BY <1>1, <1>2, <1>3, <1>7, FreshWalk
  <2>2. /\ Kept(w) /\ Led(w.seen) /\ DOMAIN t.seen \subseteq DOMAIN w.seen
        /\ \A s \in DOMAIN w.seen : s \in DOMAIN t.seen \/ s[1] = d
        /\ Start(d) + LS <= Len(w.events)
        /\ \A m \in 1 .. N : system[d].functions[m].f \in Merged =>
                               Slot(d, system[d].functions[m]) \in DOMAIN w.seen
    BY <1>1, <2>1 DEF Fresh
  <2>3. SlotsSeen(w.seen, d)
    BY <1>3, <2>2 DEF SlotsSeen
  <2>4. \A x \in Devices : x < d + 1 => SlotsSeen(w.seen, x)
    <3>1. \A x \in Devices : x < d => SlotsSeen(w.seen, x)
      BY <1>2, <2>2 DEF SlotsSeen
    <3> QED
      BY <1>5, <2>3, <3>1
  <2>5. \A s \in DOMAIN w.seen : s[1] < d + 1
    BY <1>4, <1>7, <2>2
  <2>6. Whole(w.seen)
    <3>1. SUFFICES ASSUME NEW s \in DOMAIN w.seen, NEW x \in Devices, x <= s[1]
                   PROVE  SlotsSeen(w.seen, x)
      BY DEF Whole
    <3>2. x < d + 1
      <4>1. s[1] \in Nat
        BY <1>4, <2>2
      <4> QED
        BY <1>4, <2>5, <3>1, <4>1
    <3> QED
      BY <2>4, <3>2
  <2>7. /\ Kept(u) /\ u.seen = w.seen /\ LeastBy(d) = LS + (Len(u.events) - Len(w.events))
        /\ Len(u.events) \in Nat /\ Len(w.events) \in Nat /\ Start(d) \in Nat
        /\ Start(d + 1) = Start(d) + LeastBy(d) /\ LS \in Nat
    <3>1. WaysGrown(w, u, d)
      BY <2>2, WaysLater
    <3> QED
      BY <1>1, <3>1 DEF WaysGrown
  <2>8. Start(d + 1) <= Len(u.events)
    <3>1. PICK lu, lw, st : lu = Len(u.events) /\ lw = Len(w.events) /\ st = Start(d)
      OBVIOUS
    <3>2. /\ lu \in Nat /\ lw \in Nat /\ st \in Nat /\ LS \in Nat /\ st + LS <= lw
          /\ Start(d + 1) = st + (LS + (lu - lw))
      BY <2>2, <2>7, <3>1
    <3>3. Start(d + 1) <= lu
      BY ONLY <3>2
    <3> QED
      BY <3>1, <3>3
  <2> QED
    BY <2>2, <2>4, <2>5, <2>6, <2>7, <2>8 DEF Ready
<1> QED
  BY <1>6, <1>7

LEMMA UnlistedLater ==
  ASSUME system \in Systems, NEW d \in Devices, ~system[d].listed, NEW t, Ready(t, d)
  PROVE  Ready(t, d + 1)
<1>1. Devices = 1 .. NumberOf /\ NumberOf \in Nat /\ d \in 1 .. NumberOf /\ d \in 1 .. NumberOf + 1
  BY SystemFacts
<1>2. Start(d + 1) = Start(d) + LeastBy(d) /\ Start(d) \in Nat
  BY <1>1, StartFacts
<1>3. Start(d + 1) = Start(d)
  BY <1>2 DEF LeastBy
<1>4. SlotsSeen(t.seen, d)
  BY DEF SlotsSeen
<1>5. \A x \in Devices : x < d + 1 => SlotsSeen(t.seen, x)
  BY <1>1, <1>4 DEF Ready
<1>6. (\A s \in DOMAIN t.seen : s[1] < d) => \A s \in DOMAIN t.seen : s[1] < d + 1
  <2>1. \A s \in DOMAIN t.seen : s[1] \in Nat
    BY <1>1 DEF Ready, Led, LedOne
  <2> QED
    BY <1>1, <2>1
<1> QED
  BY <1>3, <1>5, <1>6 DEF Ready

\* Only the events and what the statics remember matter.
LEMMA ReadyOf ==
  ASSUME NEW t, Kept(t), NEW o \in BOOLEAN, NEW ns, NEW un, NEW f,
         NEW u, u = [events |-> t.events, overrun |-> o, names |-> ns, unnamed |-> un,
                     seen |-> t.seen, fault |-> f]
  PROVE  Kept(u) /\ \A d : Ready(t, d) => Ready(u, d)
<1>1. u.events = t.events /\ u.seen = t.seen /\ u.overrun = o
  OBVIOUS
<1>2. Kept(u)
  BY <1>1 DEF Kept, Form
<1> QED
  BY <1>1, <1>2 DEF Ready

LEMMA ReadyStays ==
  ASSUME system' = system, NEW t, NEW d
  PROVE  /\ Ready(t, d)' = Ready(t, d) /\ Led(t)' = Led(t) /\ Whole(t)' = Whole(t)
<1>1. \A x, e : Least(x, e)' = Least(x, e)
  BY DEF Least, Gain, Freq, Slot
<1>2. \A x : LeastIn(x)' = LeastIn(x)
  BY <1>1 DEF LeastIn, Least, Gain, Freq, Slot
<1>3. \A x : WayEvents(x)' = WayEvents(x)
  BY DEF WayEvents, GroupOf, WaysOf, WayOf, FilledWays, Before, RefusedInFill, Devices, XgmiOf
<1>4. \A x : LeastBy(x)' = LeastBy(x)
  BY <1>2, <1>3 DEF LeastBy
<1>5. \A x : Start(x)' = Start(x)
  BY <1>4 DEF Start
<1>6. Devices' = Devices
  BY DEF Devices
<1>7. \A seen : Led(seen)' = Led(seen)
  BY <1>2, <1>5, <1>6 DEF Led, LedOne, Slot
<1>8. \A seen, x : SlotsSeen(seen, x)' = SlotsSeen(seen, x)
  BY DEF SlotsSeen, Slot
<1>9. \A seen : Whole(seen)' = Whole(seen)
  BY <1>6, <1>8 DEF Whole
<1> QED
  BY <1>5, <1>6, <1>7, <1>8, <1>9 DEF Ready

-----------------------------------------------------------------------------
(* The invariant of all sessions.                                          *)

WroteThrough ==
  last.wrote => /\ phase = "up" /\ last.code \in DOMAIN events
                /\ events[last.code].f \in Masked \cup WriteOnly
                /\ "write" \in events[last.code].mode
WriteInv ==
  /\ system \in Systems /\ overrun \in BOOLEAN /\ WroteThrough
  /\ Led(seenFill) /\ Whole(seenFill)
  /\ phase \in {"down", "count", "closing"} => events = <<>>
  /\ phase = "fill" => dev \in 1 .. NumberOf + 1 /\ Ready(Table, dev)
  /\ phase = "up" => Kept(Table)

LEMMA WriteInit ==
  ASSUME Init
  PROVE  WriteInv
<1>1. /\ system \in Systems /\ phase = "down" /\ events = <<>> /\ overrun = FALSE
      /\ seenFill = <<>> /\ last = None
  BY DEF Init
<1>2. ~last.wrote
  BY <1>1 DEF None
<1>3. DOMAIN seenFill = {}
  BY <1>1
<1> QED
  BY <1>1, <1>2, <1>3 DEF WriteInv, WroteThrough, Led, Whole

\* No table, and the statics as they were.
LEMMA WithoutTable ==
  ASSUME WriteInv, system' = system, overrun' \in BOOLEAN, events' = <<>>,
         Led(seenFill'), Whole(seenFill'),
         phase' \in {"down", "count", "closing"}, ~last'.wrote
  PROVE  WriteInv'
<1>1. PICK seen : seen = seenFill'
  OBVIOUS
<1>2. Led(seen)' = Led(seen) /\ Whole(seen)' = Whole(seen)
  BY ReadyStays
<1>3. Led(seenFill)' /\ Whole(seenFill)'
  BY <1>1, <1>2
<1> QED
  BY <1>3 DEF WriteInv, WroteThrough

LEMMA WriteQuiet ==
  ASSUME WriteInv, InitTables \/ CountDevice \/ shutdown_event_table \/ htable_shutdown
  PROVE  WriteInv'
<1>1. /\ phase \in {"down", "count", "closing", "up"}
      /\ phase' \in {"down", "count", "closing"} /\ system' = system
      /\ overrun' = overrun /\ seenFill' = seenFill
      /\ events' = <<>> \/ (events' = events /\ phase # "up")
      /\ last' = None \/ (last' = last /\ phase # "up")
  BY DEF InitTables, CountDevice, shutdown_event_table, htable_shutdown, Fail, seenVars
<1>2. events' = <<>> /\ overrun' \in BOOLEAN /\ Led(seenFill') /\ Whole(seenFill')
  BY <1>1 DEF WriteInv
<1>3. ~last'.wrote
  BY <1>1 DEF WriteInv, WroteThrough, None
<1> QED
  BY <1>1, <1>2, <1>3, WithoutTable

\* The second walk is as far as it is ready.
LEMMA StillFilling ==
  ASSUME WriteInv, system' = system, overrun' \in BOOLEAN, phase' \in {"fill", "dead"},
         dev' \in 1 .. NumberOf + 1, ~last'.wrote, Ready(Table', dev'), NEW seen, seen = seenFill',
         Led(seen), Whole(seen)
  PROVE  WriteInv'
<1>1. PICK t, d : t = Table' /\ d = dev'
  OBVIOUS
<1>2. Ready(t, d)' = Ready(t, d) /\ Led(seen)' = Led(seen) /\ Whole(seen)' = Whole(seen)
  BY ReadyStays
<1>3. Ready(t, d)' /\ Led(seen)' /\ Whole(seen)'
  BY <1>1, <1>2
<1>4. Ready(Table, dev)' /\ Led(seenFill)' /\ Whole(seenFill)'
  BY <1>1, <1>3
<1>5. NumberOf' = NumberOf
  BY DEF NumberOf
<1> QED
  BY <1>4, <1>5 DEF WriteInv, WroteThrough

LEMMA WriteAllocate ==
  ASSUME WriteInv, Allocate
  PROVE  WriteInv'
<1>1. /\ phase = "count" /\ system' = system /\ overrun' = overrun /\ seenFill' = seenFill
      /\ last' = last
  BY DEF Allocate, seenVars
<1>2. /\ system \in Systems /\ overrun' \in BOOLEAN /\ overrun \in BOOLEAN /\ ~last'.wrote
      /\ Led(seenFill') /\ Whole(seenFill') /\ Led(seenFill) /\ Whole(seenFill) /\ events = <<>>
  BY <1>1 DEF WriteInv, WroteThrough
<1>3. CASE phase' = "down" /\ events' = <<>>
  BY <1>1, <1>2, <1>3, WithoutTable
<1>4. CASE phase' = "fill" /\ dev' = 1 /\ events' = AddAll(Table, InfoEvents).events
  <2>1. PICK t0, evs, t, F : /\ t0 = Table /\ evs = InfoEvents /\ t = AddAll(t0, evs)
                             /\ F = {evs[i].f : i \in DOMAIN evs}
    OBVIOUS
  <2>2. t0.events = <<>> /\ t0.seen = seenFill /\ DOMAIN t0.events = {}
    BY <1>2, <2>1 DEF Table
  <2>3. Kept(t0) /\ Len(t0.events) = 0
    BY <1>2, <2>1, <2>2, NoEvents DEF Kept, Form, Table
  <2>4. IsEvents(evs) /\ Len(evs) = 3 /\ \A i \in DOMAIN evs : Described(evs[i]) /\ evs[i].f \in F
    BY <2>1, InfoEventsFacts
  <2>5. Grown(t0, t, Len(evs), F) /\ t.seen = t0.seen
    BY <2>1, <2>3, <2>4, GrownByAll
  <2>6. Kept(t) /\ Len(t.events) = 3 /\ t.seen = seenFill
    BY <2>2, <2>3, <2>4, <2>5 DEF Grown
  <2>7. Start(1) = 3 /\ Devices = 1 .. NumberOf /\ NumberOf \in Nat /\ 1 \in 1 .. NumberOf + 1
    BY <1>2, StartFacts, SystemFacts
  <2>8. Ready(t, 1)
    BY <1>2, <2>6, <2>7 DEF Ready
  <2>9. PICK u : u = Table'
    OBVIOUS
  <2>10. u = [events |-> t.events, overrun |-> overrun, names |-> names', unnamed |-> unnamed',
              seen |-> t.seen, fault |-> FALSE]
    BY <1>1, <1>4, <2>1, <2>6, <2>9 DEF Table
  <2>11. Ready(u, 1)
    BY <1>2, <2>6, <2>8, <2>10, ReadyOf
  <2> QED
    BY <1>1, <1>2, <1>4, <2>7, <2>9, <2>11, StillFilling
<1>5. \/ phase' = "down" /\ events' = <<>>
      \/ phase' = "fill" /\ dev' = 1 /\ events' = AddAll(Table, InfoEvents).events
  BY DEF Allocate, Fail
<1> QED
  BY <1>3, <1>4, <1>5

LEMMA WriteFill ==
  ASSUME InOrder, WriteInv, FillDevice
  PROVE  WriteInv'
<1>1. PICK d, t, w, u : /\ d = dev /\ t = Table
                        /\ w = FillList(t, d)[Len(system[d].functions)]
                        /\ u = handle_xgmi_events(w, d)
  OBVIOUS
<1>2. /\ phase = "fill" /\ d \in Devices /\ system' = system /\ last' = last
      /\ \/ /\ ~system[d].listed
            /\ dev' = d + 1 /\ phase' = phase /\ events' = events /\ overrun' = overrun
            /\ names' = names /\ unnamed' = unnamed /\ seenFill' = seenFill
         \/ /\ system[d].listed
            /\ seenFill' = w.seen /\ overrun' = w.overrun /\ phase' = "down" /\ events' = <<>>
         \/ /\ system[d].listed
            /\ dev' = d + 1 /\ phase' \in {"dead", "fill"}
            /\ events' = u.events /\ overrun' = u.overrun /\ seenFill' = u.seen
  BY <1>1 DEF FillDevice, Fail
<1>3. /\ system \in Systems /\ overrun \in BOOLEAN /\ ~last'.wrote /\ Ready(t, d)
      /\ Led(seenFill) /\ Whole(seenFill)
  BY <1>1, <1>2 DEF WriteInv, WroteThrough
<1>4. d + 1 \in 1 .. NumberOf + 1
  BY <1>2, <1>3, SystemFacts
<1>5. PICK x : x = Table'
  OBVIOUS
<1>6. CASE /\ ~system[d].listed
           /\ dev' = d + 1 /\ phase' = phase /\ events' = events /\ overrun' = overrun
           /\ names' = names /\ unnamed' = unnamed /\ seenFill' = seenFill
  <2>1. x = t
    BY <1>1, <1>5, <1>6 DEF Table
  <2>2. Ready(x, d + 1)
    BY <1>2, <1>3, <1>6, <2>1, UnlistedLater
  <2> QED
    BY <1>2, <1>3, <1>4, <1>5, <1>6, <2>2, StillFilling
<1>7. ASSUME system[d].listed
      PROVE  /\ Kept(w) /\ Led(w.seen) /\ Whole(w.seen) /\ Ready(u, d + 1)
             /\ w.overrun \in BOOLEAN /\ u.overrun \in BOOLEAN
  <2>1. Kept(w) /\ Led(w.seen) /\ Whole(w.seen) /\ Ready(u, d + 1)
    BY <1>1, <1>2, <1>3, <1>7, DeviceLater
  <2> QED
    BY <2>1 DEF Ready, Kept, Form
<1>8. CASE /\ system[d].listed
           /\ seenFill' = w.seen /\ overrun' = w.overrun /\ phase' = "down" /\ events' = <<>>
  BY <1>2, <1>3, <1>7, <1>8, WithoutTable
<1>9. CASE /\ system[d].listed
           /\ dev' = d + 1 /\ phase' \in {"dead", "fill"}
           /\ events' = u.events /\ overrun' = u.overrun /\ seenFill' = u.seen
  <2>1. x = [events |-> u.events, overrun |-> overrun', names |-> names',
             unnamed |-> unnamed', seen |-> u.seen, fault |-> FALSE]
    BY <1>5, <1>9 DEF Table
  <2>2. overrun' \in BOOLEAN /\ Kept(u) /\ Led(u.seen) /\ Whole(u.seen) /\ Ready(u, d + 1)
    BY <1>7, <1>9 DEF Ready
  <2>3. Ready(x, d + 1)
    BY <2>1, <2>2, ReadyOf
  <2> QED
    BY <1>2, <1>3, <1>4, <1>5, <1>9, <2>2, <2>3, StillFilling
<1> QED
  BY <1>2, <1>6, <1>8, <1>9

LEMMA WriteEnds ==
  ASSUME WriteInv, FillEnds
  PROVE  WriteInv'
<1>1. /\ phase = "fill" /\ system' = system /\ last' = last /\ overrun' = overrun
      /\ seenFill' = seenFill
      /\ \/ phase' = "up" /\ events' = events /\ names' = names /\ unnamed' = unnamed
         \/ phase' = "down" /\ events' = <<>>
  BY DEF FillEnds, Fail, seenVars
<1>2. /\ ~last'.wrote /\ overrun' \in BOOLEAN /\ Led(seenFill) /\ Whole(seenFill)
      /\ Led(seenFill') /\ Whole(seenFill') /\ Ready(Table, dev)
  BY <1>1 DEF WriteInv, WroteThrough
<1>3. CASE phase' = "down" /\ events' = <<>>
  BY <1>1, <1>2, <1>3, WithoutTable
<1>4. CASE phase' = "up" /\ events' = events /\ names' = names /\ unnamed' = unnamed
  <2>1. Table' = Table
    BY <1>1, <1>4 DEF Table
  <2>2. Kept(Table)'
    BY <1>2, <2>1 DEF Ready, Kept
  <2>3. PICK seen : seen = seenFill
    OBVIOUS
  <2>4. Led(seen)' = Led(seen) /\ Whole(seen)' = Whole(seen)
    BY <1>1, ReadyStays
  <2>5. Led(seenFill)' /\ Whole(seenFill)'
    BY <1>1, <1>2, <2>3, <2>4
  <2> QED
    BY <1>1, <1>2, <1>4, <2>2, <2>5 DEF WriteInv, WroteThrough
<1> QED
  BY <1>1, <1>3, <1>4

LEMMA WriteAccess ==
  ASSUME WriteInv, NEW code \in DOMAIN events, NEW mode \in ReadWrite, Access(code, mode)
  PROVE  WriteInv'
<1>1. /\ phase = "up" /\ phase' = phase /\ system' = system /\ overrun' = overrun
      /\ events' = events /\ seenFill' = seenFill /\ Table' = Table
  BY DEF Access, tableVars, seenVars, Table
<1>2. WroteThrough'
  BY <1>1, AccessWrites DEF WroteThrough
<1>3. PICK seen : seen = seenFill
  OBVIOUS
<1>4. Led(seen)' = Led(seen) /\ Whole(seen)' = Whole(seen)
  BY <1>1, ReadyStays
<1>5. Led(seenFill)' /\ Whole(seenFill)'
  BY <1>1, <1>3, <1>4 DEF WriteInv
<1>6. Kept(Table)'
  BY <1>1 DEF WriteInv, Kept
<1> QED
  BY <1>1, <1>2, <1>5, <1>6 DEF WriteInv

LEMMA WriteStuttering ==
  ASSUME WriteInv, UNCHANGED vars
  PROVE  WriteInv'
<1>1. /\ system' = system /\ phase' = phase /\ dev' = dev /\ events' = events
      /\ overrun' = overrun /\ seenFill' = seenFill /\ last' = last /\ Table' = Table
  BY DEF vars, tableVars, seenVars, Table
<1>2. PICK seen, t, d : seen = seenFill /\ t = Table /\ d = dev
  OBVIOUS
<1>3. Led(seen)' = Led(seen) /\ Whole(seen)' = Whole(seen) /\ Ready(t, d)' = Ready(t, d)
  BY <1>1, ReadyStays
<1>4. Led(seenFill)' = Led(seenFill) /\ Whole(seenFill)' = Whole(seenFill)
  BY <1>1, <1>2, <1>3
<1>5. Ready(Table, dev)' = Ready(Table, dev)
  BY <1>1, <1>2, <1>3
<1>6. Kept(Table)' = Kept(Table) /\ NumberOf' = NumberOf
  BY <1>1 DEF Kept, NumberOf
<1> QED
  BY <1>1, <1>4, <1>5, <1>6 DEF WriteInv, WroteThrough

LEMMA WriteStep ==
  ASSUME InOrder, WriteInv, [Next]_vars
  PROVE  WriteInv'
<1>1. CASE InitTables \/ CountDevice \/ shutdown_event_table \/ htable_shutdown
  BY <1>1, WriteQuiet
<1>2. CASE Allocate
  BY <1>2, WriteAllocate
<1>3. CASE FillDevice
  BY <1>3, WriteFill
<1>4. CASE FillEnds
  BY <1>4, WriteEnds
<1>5. CASE \E code \in DOMAIN events, mode \in ReadWrite : Access(code, mode)
  BY <1>5, WriteAccess
<1>6. CASE UNCHANGED vars
  BY <1>6, WriteStuttering
<1> QED
  BY <1>1, <1>2, <1>3, <1>4, <1>5, <1>6 DEF Next

\* However often the component is initialised: when the lists of the devices
\* are in order, a device is only written through an event whose description
\* says so and is of the function called, although the statics of an earlier
\* session name places in a table that is gone.
THEOREM WritesAreDescribed ==
  ASSUME InOrder
  PROVE  Spec => []WritesAsDescribed
<1>1. Init => WriteInv
  BY WriteInit
<1>2. WriteInv /\ [Next]_vars => WriteInv'
  BY WriteStep
<1>3. WriteInv => WritesAsDescribed
  <2>1. SUFFICES ASSUME WriteInv, last.wrote, NEW ev, ev = events[last.code]
                 PROVE  /\ "write" \in DescribedAccess(ev.descr, ev.variant)
                        /\ Label(ev.descr) = Label(ev.f)
    BY DEF WritesAsDescribed
  <2>2. /\ Kept(Table) /\ last.code \in DOMAIN events /\ "write" \in ev.mode
        /\ ev.f \in Masked \cup WriteOnly
    BY <2>1 DEF WriteInv, WroteThrough
  <2>3. Careful(ev)
    BY <2>1, <2>2 DEF Kept, Table
  <2> QED
    BY <2>2, <2>3 DEF Careful, Described
<1> QED
  BY <1>1, <1>2, <1>3, PTL DEF Spec

=============================================================================
