-------------------------- MODULE RsmiCallsProofs ---------------------------
(***************************************************************************)
(* What the mutex of the device gives the processes that call the          *)
(* functions of rocm_smi_lib, and that a success they report is true,      *)
(* proved for any number of processes.                                     *)
(***************************************************************************)
EXTENDS RsmiCalls, FiniteSetTheorems, FunctionTheorems, SequenceTheorems,
        TLAPS

-----------------------------------------------------------------------------
(* Frames and what they hold.                                              *)

\* What is needed of a frame: its function, what is left of it to do, and the
\* number of locks it took.
IsFrame(f) == {"fn", "todo", "held"} \subseteq DOMAIN f /\ f.held \in Nat

\* A stack of frames; what else is in them does not matter.
IsStack(s) == \E S : s \in Seq(S) /\ \A f \in S : IsFrame(f)

(* A sequence of frames: its elements are frames.                          *)
LEMMA StackFrames ==
  ASSUME NEW s, IsStack(s)
  PROVE  /\ Len(s) \in Nat
         /\ DOMAIN s = 1 .. Len(s)
         /\ \A i \in 1 .. Len(s) : IsFrame(s[i])
<1>1. PICK S : s \in Seq(S) /\ \A f \in S : IsFrame(f)
  BY DEF IsStack
<1>2. /\ Len(s) \in Nat
      /\ DOMAIN s = 1 .. Len(s)
  BY <1>1, LenProperties
<1>3. \A i \in 1 .. Len(s) : s[i] \in S
  BY <1>1, ElementOfSeq
<1> QED
  BY <1>1, <1>2, <1>3

(* No frame, no locks.                                                     *)
LEMMA EmptyStack == IsStack(<<>>) /\ HeldIn(<<>>) = 0
<1>1. IsStack(<<>>)
  <2> DEFINE S == {} s == <<>>
  <2>1. s \in Seq(S)
    BY EmptySeq
  <2>2. \A f \in S : IsFrame(f)
    OBVIOUS
  <2> HIDE DEF S, s
  <2>3. IsStack(s)
    BY <2>1, <2>2 DEF IsStack
  <2> QED
    BY <2>3 DEF s
<1>2. Holds(<<>>) = {}
  <2>1. DOMAIN <<>> = {}
    OBVIOUS
  <2> QED
    BY <2>1 DEF Holds
<1> QED
  BY <1>1, <1>2, FS_EmptySet DEF HeldIn

(* The numbers up to n.                                                    *)
LEMMA UpTo ==
  ASSUME NEW n \in Nat
  PROVE  IsFiniteSet(1 .. n) /\ Cardinality(1 .. n) = n
<1>1. /\ IsFiniteSet(1 .. n)
      /\ Cardinality(1 .. n) = IF 1 > n THEN 0 ELSE n - 1 + 1
  BY FS_Interval
<1>2. (IF 1 > n THEN 0 ELSE n - 1 + 1) = n
  OBVIOUS
<1> QED
  BY <1>1, <1>2

(* The locks of a stack can be counted.                                    *)
LEMMA HoldsFinite ==
  ASSUME NEW s, IsStack(s)
  PROVE  IsFiniteSet(Holds(s)) /\ HeldIn(s) \in Nat
<1> DEFINE B(i) == {i} \X (1 .. s[Len(s) + 1 - i].held)
           T == {B(i) : i \in 1 .. Len(s)}
           g == [i \in 1 .. Len(s) |-> B(i)]
<1>1. /\ Len(s) \in Nat
      /\ DOMAIN s = 1 .. Len(s)
      /\ \A i \in 1 .. Len(s) : IsFrame(s[i])
  BY StackFrames
<1>2. IsFiniteSet(T)
  <2>1. IsFiniteSet(1 .. Len(s))
    BY <1>1, UpTo
  <2>2. g \in Surjection(1 .. Len(s), T)
    BY DEF Surjection
  <2> QED
    BY <2>1, <2>2, FS_Surjection
<1>3. ASSUME NEW i \in 1 .. Len(s)
      PROVE  IsFiniteSet(B(i))
  <2>1. Len(s) + 1 - i \in 1 .. Len(s)
    BY <1>1
  <2>2. s[Len(s) + 1 - i].held \in Nat
    BY <1>1, <2>1 DEF IsFrame
  <2> DEFINE h == s[Len(s) + 1 - i].held
  <2>3. IsFiniteSet(1 .. h)
    BY <2>2, UpTo
  <2>4. IsFiniteSet({i})
    BY FS_Singleton
  <2>5. IsFiniteSet({i} \X (1 .. h))
    BY <2>3, <2>4, FS_Product
  <2> QED
    BY <2>5 DEF h
<1>4. IsFiniteSet(UNION T)
  <2>1. \A t \in T : IsFiniteSet(t)
    BY <1>3
  <2> HIDE DEF T
  <2> QED
    BY <1>2, <2>1, FS_UNION
<1>5. Holds(s) = UNION T
  BY <1>1 DEF Holds
<1> QED
  BY <1>4, <1>5, FS_CardinalityType DEF HeldIn

(* A call pushes a frame: its locks are counted with the others.           *)
LEMMA Pushed ==
  ASSUME NEW s, IsStack(s), NEW f, IsFrame(f)
  PROVE  /\ IsStack(<<f>> \o s)
         /\ <<f>> \o s # <<>>
         /\ Len(<<f>> \o s) = Len(s) + 1
         /\ (<<f>> \o s)[1] = f
         /\ \A i \in 1 .. Len(s) : (<<f>> \o s)[i + 1] = s[i]
         /\ HeldIn(<<f>> \o s) = HeldIn(s) + f.held
<1>1. PICK S : s \in Seq(S) /\ \A e \in S : IsFrame(e)
  BY DEF IsStack
<1> DEFINE R == S \cup {f}
           t == <<f>> \o s
           n == Len(s)
           New == {n + 1} \X (1 .. f.held)
<1>2. s \in Seq(R) /\ <<f>> \in Seq(R) /\ Len(<<f>>) = 1
  <2>1. s \in Seq(R)
    BY <1>1, SeqMonotonic
  <2> QED
    BY <2>1
<1>3. /\ t \in Seq(R)
      /\ Len(t) = n + 1
      /\ \A i \in 1 .. 1 + n : t[i] = IF i <= 1 THEN <<f>>[i] ELSE s[i - 1]
  <2> HIDE DEF R
  <2> QED
    BY <1>2, ConcatProperties
<1>4. n \in Nat /\ DOMAIN s = 1 .. n /\ (\A i \in 1 .. n : IsFrame(s[i]))
  BY StackFrames
<1>5. DOMAIN t = 1 .. n + 1
  BY <1>3, LenProperties
<1>6. IsStack(t)
  <2>1. \A e \in R : IsFrame(e)
    BY <1>1
  <2> QED
    BY <1>3, <2>1 DEF IsStack
<1>7. t[1] = f /\ \A i \in 1 .. n : t[i + 1] = s[i]
  BY <1>3, <1>4
<1> HIDE DEF t, n
<1>8. Holds(t) = Holds(s) \cup New
  <2> DEFINE Bt(i) == {i} \X (1 .. t[Len(t) + 1 - i].held)
             Bs(i) == {i} \X (1 .. s[n + 1 - i].held)
  <2>1. \A i \in 1 .. n : Bt(i) = Bs(i)
    <3> SUFFICES ASSUME NEW i \in 1 .. n
                 PROVE  t[Len(t) + 1 - i] = s[n + 1 - i]
      OBVIOUS
    <3>1. n + 1 - i \in 1 .. n /\ Len(t) + 1 - i = (n + 1 - i) + 1
      BY <1>3, <1>4
    <3> QED
      BY <3>1, <1>7
  <2>2. Bt(n + 1) = New
    <3>1. Len(t) + 1 - (n + 1) = 1
      BY <1>3, <1>4
    <3> QED
      BY <3>1, <1>7
  <2>3. Holds(t) = UNION {Bt(i) : i \in 1 .. n + 1}
    BY <1>5 DEF Holds
  <2>4. Holds(s) = UNION {Bs(i) : i \in 1 .. n}
    BY <1>4 DEF Holds, n
  <2>5. 1 .. n + 1 = (1 .. n) \cup {n + 1}
    BY <1>4
  <2> HIDE DEF Bt, Bs, New
  <2> QED
    BY <2>1, <2>2, <2>3, <2>4, <2>5
<1>9. Holds(s) \cap New = {}
  <2>1. \A h \in Holds(s) : h[1] \in 1 .. n
    BY <1>4 DEF Holds
  <2>2. \A h \in New : h[1] = n + 1
    OBVIOUS
  <2> HIDE DEF New
  <2>3. n + 1 \notin 1 .. n
    BY <1>4
  <2> QED
    BY <2>1, <2>2, <2>3
<1>10. IsFiniteSet(New) /\ Cardinality(New) = f.held
  <2>1. f.held \in Nat
    BY DEF IsFrame
  <2>2. IsFiniteSet(1 .. f.held) /\ Cardinality(1 .. f.held) = f.held
    BY ONLY <2>1, UpTo
  <2>3. IsFiniteSet({n + 1}) /\ Cardinality({n + 1}) = 1
    BY FS_Singleton
  <2>4. /\ IsFiniteSet(New)
        /\ Cardinality(New) = Cardinality({n + 1}) * Cardinality(1 .. f.held)
    BY <2>2, <2>3, FS_Product
  <2>5. 1 * f.held = f.held
    BY <2>1
  <2> HIDE DEF New
  <2> QED
    BY <2>2, <2>3, <2>4, <2>5
<1>11. HeldIn(t) = HeldIn(s) + f.held
  <2>1. IsFiniteSet(Holds(s)) /\ HeldIn(s) \in Nat
    BY HoldsFinite
  <2>2. Cardinality(Holds(s) \cap New) = 0
    BY <1>9, FS_EmptySet
  <2> HIDE DEF New
  <2>3. Cardinality(Holds(s) \cup New) =
          Cardinality(Holds(s)) + Cardinality(New)
            - Cardinality(Holds(s) \cap New)
    BY <2>1, <1>10, FS_Union
  <2>4. f.held \in Nat
    BY DEF IsFrame
  <2> QED
    BY <1>8, <1>10, <2>1, <2>2, <2>3, <2>4 DEF HeldIn
<1>12. t # <<>>
  <2>1. 1 \in DOMAIN t
    BY <1>4, <1>5
  <2> QED
    BY <2>1
<1> QED
  BY <1>3, <1>6, <1>7, <1>11, <1>12 DEF t, n

(* A stack that is not empty is its innermost frame on the others.         *)
LEMMA Popped ==
  ASSUME NEW s, IsStack(s), s # <<>>
  PROVE  /\ IsStack(Tail(s)) /\ IsFrame(Head(s))
         /\ Len(s) \in Nat \ {0} /\ Len(Tail(s)) = Len(s) - 1
         /\ s[1] = Head(s)
         /\ \A i \in 1 .. Len(s) - 1 : Tail(s)[i] = s[i + 1]
         /\ s = <<Head(s)>> \o Tail(s)
         /\ HeldIn(s) = HeldIn(Tail(s)) + Head(s).held
<1>1. PICK S : s \in Seq(S) /\ \A e \in S : IsFrame(e)
  BY DEF IsStack
<1>2. /\ Head(s) \in S
      /\ Tail(s) \in Seq(S)
      /\ Len(Tail(s)) = Len(s) - 1
      /\ \A i \in 1 .. Len(Tail(s)) : Tail(s)[i] = s[i + 1]
  BY <1>1, HeadTailProperties
<1>3. IsStack(Tail(s)) /\ IsFrame(Head(s))
  BY <1>1, <1>2 DEF IsStack
<1>4. Len(s) \in Nat \ {0}
  BY <1>1, EmptySeq
<1>5. s[1] = Head(s)
  BY <1>1, <1>4
<1>6. s = <<Head(s)>> \o Tail(s)
  <2>1. <<Head(s)>> \in Seq(S) /\ Len(<<Head(s)>>) = 1
    BY <1>2
  <2>2. /\ <<Head(s)>> \o Tail(s) \in Seq(S)
        /\ Len(<<Head(s)>> \o Tail(s)) = 1 + Len(Tail(s))
        /\ \A i \in 1 .. 1 + Len(Tail(s)) :
             (<<Head(s)>> \o Tail(s))[i] =
               IF i <= 1 THEN <<Head(s)>>[i] ELSE Tail(s)[i - 1]
    BY <1>2, <2>1, ConcatProperties
  <2>3. Len(<<Head(s)>> \o Tail(s)) = Len(s)
    BY <1>2, <1>4, <2>2
  <2>4. \A i \in 1 .. Len(s) : s[i] = (<<Head(s)>> \o Tail(s))[i]
    <3> SUFFICES ASSUME NEW i \in 1 .. Len(s)
                 PROVE  s[i] = (<<Head(s)>> \o Tail(s))[i]
      OBVIOUS
    <3>1. CASE i = 1
      BY <3>1, <1>2, <1>4, <1>5, <2>2
    <3>2. CASE i # 1
      <4>1. i - 1 \in 1 .. Len(Tail(s)) /\ i \in 1 .. 1 + Len(Tail(s)) /\ ~(i <= 1)
        BY <3>2, <1>2, <1>4
      <4>2. Tail(s)[i - 1] = s[(i - 1) + 1]
        BY <4>1, <1>2
      <4> QED
        BY <4>1, <4>2, <2>2
    <3> QED
      BY <3>1, <3>2
  <2>5. PICK c : c = <<Head(s)>> \o Tail(s)
    OBVIOUS
  <2>6. c \in Seq(S) /\ s \in Seq(S)
    BY <1>1, <2>2, <2>5
  <2>7. Len(s) = Len(c) /\ \A i \in 1 .. Len(s) : s[i] = c[i]
    BY <2>3, <2>4, <2>5
  <2>8. s = c
    BY ONLY <2>6, <2>7, SeqEqual
  <2> QED
    BY <2>5, <2>8
<1>7. HeldIn(s) = HeldIn(Tail(s)) + Head(s).held
  <2>1. PICK f, u : f = Head(s) /\ u = Tail(s)
    OBVIOUS
  <2>2. IsFrame(f) /\ IsStack(u)
    BY <1>3, <2>1
  <2>3. HeldIn(<<f>> \o u) = HeldIn(u) + f.held
    BY ONLY <2>2, Pushed
  <2>4. s = <<f>> \o u
    BY <1>6, <2>1
  <2> QED
    BY ONLY <2>1, <2>3, <2>4
<1> QED
  BY <1>2, <1>3, <1>4, <1>5, <1>6, <1>7

(* The innermost frame goes on.                                            *)
LEMMA TopChanged ==
  ASSUME NEW s, IsStack(s), s # <<>>, NEW g, IsFrame(g)
  PROVE  [s EXCEPT ![1] = g] = <<g>> \o Tail(s)
<1> DEFINE t == [s EXCEPT ![1] = g]
           u == <<g>> \o Tail(s)
<1>1. PICK S : s \in Seq(S) /\ \A e \in S : IsFrame(e)
  BY DEF IsStack
<1> DEFINE R == S \cup {g}
<1>2. s \in Seq(R)
  BY <1>1, SeqMonotonic
<1>3. Len(s) \in Nat \ {0} /\ Len(Tail(s)) = Len(s) - 1
  BY Popped
<1>4. /\ t \in Seq(R)
      /\ Len(t) = Len(s)
      /\ \A j \in 1 .. Len(s) : t[j] = IF j = 1 THEN g ELSE s[j]
  <2>1. 1 \in 1 .. Len(s) /\ g \in R
    BY <1>3
  <2> HIDE DEF R
  <2> QED
    BY <1>2, <2>1, ExceptSeq
<1>5. /\ Len(u) = Len(s)
      /\ u[1] = g
      /\ \A i \in 1 .. Len(s) - 1 : u[i + 1] = s[i + 1]
  <2>1. IsStack(Tail(s)) /\ \A i \in 1 .. Len(s) - 1 : Tail(s)[i] = s[i + 1]
    BY Popped
  <2>2. /\ Len(u) = Len(Tail(s)) + 1
        /\ u[1] = g
        /\ \A i \in 1 .. Len(Tail(s)) : u[i + 1] = Tail(s)[i]
    BY <2>1, Pushed
  <2> HIDE DEF u
  <2> QED
    BY <1>3, <2>1, <2>2
<1>6. u \in Seq(R)
  <2>1. Tail(s) \in Seq(R)
    BY <1>2, HeadTailProperties
  <2>2. <<g>> \in Seq(R)
    OBVIOUS
  <2> HIDE DEF R
  <2> QED
    BY <2>1, <2>2, ConcatProperties
<1> HIDE DEF t, u, R
<1>7. \A i \in 1 .. Len(s) : t[i] = u[i]
  <2> SUFFICES ASSUME NEW i \in 1 .. Len(s)
               PROVE  t[i] = u[i]
    OBVIOUS
  <2>1. CASE i = 1
    BY <2>1, <1>4, <1>5
  <2>2. CASE i # 1
    <3>1. i - 1 \in 1 .. Len(s) - 1 /\ (i - 1) + 1 = i
      BY <2>2, <1>3
    <3>2. u[(i - 1) + 1] = s[(i - 1) + 1]
      BY <3>1, <1>5
    <3> QED
      BY <2>2, <3>1, <3>2, <1>4
  <2> QED
    BY <2>1, <2>2
<1>8. t = u
  BY <1>4, <1>5, <1>6, <1>7, SeqEqual
<1> QED
  BY <1>8 DEF t, u

-----------------------------------------------------------------------------
(* The inductive invariant of the mutex.                                   *)

StackInv == /\ stack = [p \in Procs |-> stack[p]]
            /\ \A p \in Procs : IsStack(stack[p])
MutexInv == /\ mutex \in [owner : Procs \cup {None}, count : Nat,
                         state : {"ok", "taken_over", "unusable"}]
            /\ mutex.owner = None => mutex.count = 0
LockInv == StackInv /\ MutexInv /\ LocksReturned

(* The steps of a process, by what they do to its stack and the mutex.     *)
\* The innermost frame of p is replaced by g.
TopBecomes(p, g) ==
  IsFrame(g) /\ stack' = [stack EXCEPT ![p] = <<g>> \o Tail(stack[p])]
\* A function of the API is entered,
\* Edits of the overdrive table are made, committed or given up.
Edited(p) ==
  \/ UNCHANGED <<edits, given_up>>
  \/ /\ Step(p).op = "write" /\ Step(p).val = "edit"
     /\ edits' = edits \cup {p} /\ given_up' = given_up \ {p}
  \/ edits' = {} /\ given_up' = {}
GivesUp(p) == edits' = edits /\ given_up' = given_up \cup (edits \cap {p})
Enters(p) ==
  \E f : /\ p \notin dead /\ stack[p] = <<>>
         /\ IsFrame(f) /\ f.fn \in Workload[p]
         /\ f.todo = Program[f.fn] /\ f.held = 0
         /\ stack' = [stack EXCEPT ![p] = <<f>>]
         /\ UNCHANGED <<mutex, dead, edits, given_up>>
\* left with its locks given back, to nobody or to a caller that goes on,
Ends(p) ==
  /\ Running(p) /\ Tail(stack[p]) = <<>>
  /\ mutex' = Released(Top(p).held)
  /\ stack' = [stack EXCEPT ![p] = <<>>]
  /\ GivesUp(p)
  /\ UNCHANGED dead
Resumed(f, g) ==
  /\ g.fn = f.fn /\ g.held = f.held
  /\ g.todo = f.todo \/ \E s : g.todo = Return(s)
Returns(p) ==
  LET rest == Tail(stack[p])
  IN \E g : /\ Running(p) /\ rest # <<>>
            /\ mutex' = Released(Top(p).held)
            /\ IsFrame(g) /\ Resumed(Head(rest), g)
            /\ stack' = [stack EXCEPT ![p] = <<g>> \o Tail(rest)]
            /\ UNCHANGED <<dead, edits, given_up>>
\* calls another one,
Pushes(p) ==
  \E callee, caller :
    /\ Ready(p, "call")
    /\ IsFrame(callee) /\ IsFrame(caller)
    /\ callee.fn = Step(p).fn /\ callee.todo = Program[Step(p).fn]
    /\ callee.held = 0
    /\ caller.fn = Top(p).fn /\ caller.held = Top(p).held
    /\ caller.todo = Tail(Top(p).todo)
    /\ stack' = [stack EXCEPT
                   ![p] = <<callee>> \o (<<caller>> \o Tail(stack[p]))]
    /\ UNCHANGED <<mutex, dead, edits, given_up>>
\* locks the mutex,
Taken(p) == IF mutex.owner \in dead
            THEN [owner |-> p, count |-> 1, state |-> "taken_over"]
            ELSE [mutex EXCEPT !.owner = p, !.count = mutex.count + 1]
Locks(p) ==
  \E g : /\ Running(p) /\ Top(p).todo # <<>> /\ IsLock(Step(p))
         /\ mutex.state # "unusable" /\ mutex.owner \in {None, p} \cup dead
         /\ g.fn = Top(p).fn /\ g.held = Top(p).held + 1
         /\ g.todo = Tail(Top(p).todo)
         /\ mutex' = Taken(p)
         /\ TopBecomes(p, g)
         /\ UNCHANGED <<dead, edits, given_up>>
\* goes on with its next step, or with one of several programs,
Onward(p, g) ==
  \/ g.todo = Tail(Top(p).todo)
  \/ /\ Step(p).op = "choose"
     /\ \E P \in Step(p).of : g.todo = P \o Tail(Top(p).todo)
Moves(p) ==
  \E g : /\ Running(p) /\ Top(p).todo # <<>>
         /\ IsLock(Step(p)) => mutex.state = "unusable"
         /\ g.fn = Top(p).fn /\ g.held = Top(p).held
         /\ Onward(p, g)
         /\ TopBecomes(p, g)
         /\ Edited(p)
         /\ UNCHANGED <<mutex, dead>>
\* or ends with the process.
Dies(p) ==
  /\ dead' = dead \cup {p}
  /\ stack' = [stack EXCEPT ![p] = <<>>]
  /\ GivesUp(p)
  /\ UNCHANGED mutex
Rests == UNCHANGED <<mutex, stack, dead, edits, given_up>>

(* The frame that goes on is still a frame.                                *)
LEMMA GotoFrame ==
  ASSUME StackInv, NEW p \in Procs, stack[p] # <<>>, NEW todo, Goto(p, todo)
  PROVE  \E g : /\ g.fn = Top(p).fn /\ g.held = Top(p).held
                /\ g.todo = todo
                /\ TopBecomes(p, g)
<1> DEFINE g == [stack[p][1] EXCEPT !.todo = todo]
<1>1. IsStack(stack[p]) /\ IsFrame(Top(p)) /\ stack[p][1] = Top(p)
  BY Popped DEF StackInv, Top
<1>2. /\ IsFrame(g) /\ g.fn = Top(p).fn /\ g.held = Top(p).held
      /\ g.todo = todo
  BY <1>1 DEF IsFrame
<1>3. stack' = [stack EXCEPT ![p] = [stack[p] EXCEPT ![1] = g]]
  BY DEF Goto, StackInv
<1> HIDE DEF g
<1>4. [stack[p] EXCEPT ![1] = g] = <<g>> \o Tail(stack[p])
  BY <1>1, <1>2, TopChanged
<1>5. PICK h : h = g
  OBVIOUS
<1>6. TopBecomes(p, h)
  BY <1>2, <1>3, <1>4, <1>5 DEF TopBecomes
<1> QED
  BY <1>2, <1>5, <1>6

LEMMA AdvanceFrame ==
  ASSUME StackInv, NEW p \in Procs, stack[p] # <<>>, Advance(p)
  PROVE  \E g : /\ g.fn = Top(p).fn /\ g.held = Top(p).held
                /\ g.todo = Tail(Top(p).todo)
                /\ TopBecomes(p, g)
<1>0. stack[p] # <<>> /\ Advance(p)
  OBVIOUS
<1>1. PICK todo : todo = Tail(Top(p).todo)
  OBVIOUS
<1>2. Goto(p, todo)
  BY <1>1 DEF Advance, Goto
<1>3. \E g : /\ g.fn = Top(p).fn /\ g.held = Top(p).held
             /\ g.todo = todo
             /\ TopBecomes(p, g)
  BY <1>0, <1>2, GotoFrame
<1> QED
  BY <1>1, <1>3

(* Two frames pushed at once.                                              *)
LEMMA TwoPushed ==
  ASSUME NEW s, IsStack(s), NEW f, IsFrame(f), NEW g, IsFrame(g)
  PROVE  <<f, g>> \o s = <<f>> \o (<<g>> \o s)
<1>1. PICK S : s \in Seq(S) /\ \A e \in S : IsFrame(e)
  BY DEF IsStack
<1> DEFINE R == S \cup {f, g}
<1>2. s \in Seq(R)
  BY <1>1, SeqMonotonic
<1>3. <<f>> \in Seq(R) /\ <<g>> \in Seq(R) /\ <<f>> \o <<g>> = <<f, g>>
  <2>1. f \in R /\ g \in R /\ <<f>> \in Seq(R) /\ <<g>> \in Seq(R)
    OBVIOUS
  <2>2. <<f, g>> \in Seq(R) /\ Len(<<f, g>>) = 2 /\ Len(<<f>>) = 1 /\ Len(<<g>>) = 1
    OBVIOUS
  <2>3. <<f>>[1] = f /\ <<g>>[1] = g /\ <<f, g>>[1] = f /\ <<f, g>>[2] = g
    OBVIOUS
  <2> HIDE DEF R
  <2>4. /\ <<f>> \o <<g>> \in Seq(R)
        /\ Len(<<f>> \o <<g>>) = Len(<<f>>) + Len(<<g>>)
        /\ \A i \in 1 .. Len(<<f>>) + Len(<<g>>) : (<<f>> \o <<g>>)[i] =
             IF i <= Len(<<f>>) THEN <<f>>[i] ELSE <<g>>[i - Len(<<f>>)]
    BY <2>1, ConcatProperties
  <2> DEFINE c == <<f>> \o <<g>>
             d == <<f, g>>
  <2>5. c[1] = d[1] /\ c[2] = d[2]
    BY <2>2, <2>3, <2>4
  <2>6. Len(c) = 2 /\ Len(d) = 2 /\ c \in Seq(R) /\ d \in Seq(R)
    BY <2>2, <2>4
  <2> HIDE DEF c, d
  <2>7. c = d
    BY <2>5, <2>6, SeqEqual
  <2> QED
    BY <2>1, <2>7 DEF c, d
<1> HIDE DEF R
<1>4. (<<f>> \o <<g>>) \o s = <<f>> \o (<<g>> \o s)
  BY <1>2, <1>3, ConcatAssociative
<1> QED
  BY <1>3, <1>4

(* A return of a function, whatever it returns.                            *)
LEMMA ReturnKinds ==
  ASSUME StackInv, NEW p \in Procs, Running(p), NEW s, NEW fails,
         ReturnWith(p, s, fails)
  PROVE  Ends(p) \/ Returns(p)
<1> DEFINE f == Top(p)
           rest == Tail(stack[p])
           caller == Head(rest)
           g == GoesOn(caller, f, s)
<1>1. mutex' = Released(f.held) /\ dead' = dead /\ edits' = edits
  BY DEF ReturnWith
<1>2. CASE rest = <<>>
  <2>1. stack' = [stack EXCEPT ![p] = <<>>] /\ GivesUp(p)
    BY <1>1, <1>2 DEF ReturnWith, GivesUp
  <2> QED
    BY <1>1, <1>2, <2>1 DEF Ends
<1>3. CASE rest # <<>>
  <2>1. stack' = [stack EXCEPT ![p] = <<g>> \o Tail(rest)]
        /\ given_up' = given_up
    BY <1>3 DEF ReturnWith
  <2>2. IsStack(rest) /\ IsFrame(caller)
    BY <1>3, Popped DEF StackInv, Running
  <2>3. IsFrame(g) /\ g.fn = caller.fn /\ g.held = caller.held
    BY <2>2 DEF IsFrame, GoesOn
  <2>4. g.todo = caller.todo \/ g.todo = Return(s)
    BY <2>2 DEF IsFrame, GoesOn
  <2>5. PICK h : h = g
    OBVIOUS
  <2> HIDE DEF g
  <2>6. Resumed(caller, h)
    BY <2>3, <2>4, <2>5 DEF Resumed
  <2> QED
    BY <1>1, <1>3, <2>1, <2>3, <2>5, <2>6 DEF Returns
<1> QED
  BY <1>2, <1>3
(* Every step of the next-state relation is of one of these kinds.         *)
LEMMA AcquireKinds ==
  ASSUME StackInv, MutexInv, NEW p \in Procs, Running(p), Top(p).todo # <<>>,
         IsLock(Step(p)), Acquire(p)
  PROVE  Locks(p) \/ Moves(p)
<1>0. stack[p] # <<>>
  BY DEF Running
<1>1. CASE mutex.state = "unusable"
  <2>1. \E g : /\ g.fn = Top(p).fn /\ g.held = Top(p).held
               /\ g.todo = Tail(Top(p).todo)
               /\ TopBecomes(p, g)
    BY <1>0, <1>1, AdvanceFrame DEF Acquire
  <2>2. Edited(p) /\ UNCHANGED <<mutex, dead>>
    BY <1>1 DEF Acquire, Edited
  <2>3. Moves(p)
    BY <1>1, <2>1, <2>2 DEF Moves, Onward
  <2> QED
    BY <2>3
<1>2. CASE mutex.state # "unusable"
  <2> DEFINE g0 == [stack[p][1] EXCEPT !.todo = Tail(@)]
             g == [g0 EXCEPT !.held = @ + 1]
  <2>1. IsStack(stack[p]) /\ IsFrame(Top(p)) /\ stack[p][1] = Top(p)
        /\ Len(stack[p]) \in Nat \ {0} /\ DOMAIN stack[p] = 1 .. Len(stack[p])
    BY <1>0, Popped, StackFrames DEF StackInv, Top
  <2>2. IsFrame(g0) /\ g0.fn = Top(p).fn /\ g0.held = Top(p).held
        /\ g0.todo = Tail(Top(p).todo)
    BY <2>1 DEF IsFrame
  <2> HIDE DEF g0
  <2>3. IsFrame(g) /\ g.fn = Top(p).fn /\ g.held = Top(p).held + 1
        /\ g.todo = Tail(Top(p).todo)
    BY <2>1, <2>2 DEF IsFrame
  <2>4. stack' = [stack EXCEPT ![p][1].todo = Tail(@), ![p][1].held = @ + 1]
    BY <1>2 DEF Acquire
  <2>5. stack' = [stack EXCEPT ![p] = <<g>> \o Tail(stack[p])]
    <3> DEFINE u == [stack[p] EXCEPT ![1] = g0]
               S2 == [stack EXCEPT ![p] = u]
    <3>1. stack' = [S2 EXCEPT ![p][1].held = @ + 1]
      BY <2>4 DEF g0
    <3>2. S2[p] = u
      BY DEF StackInv
    <3>3. u[1] = g0
      BY <2>1
    <3>4. stack' = [S2 EXCEPT ![p] = [u EXCEPT ![1] = g]]
      BY <3>1, <3>2, <3>3
    <3> HIDE DEF g, g0
    <3>5. [u EXCEPT ![1] = g] = [stack[p] EXCEPT ![1] = g]
      OBVIOUS
    <3>6. [S2 EXCEPT ![p] = [u EXCEPT ![1] = g]]
            = [stack EXCEPT ![p] = [u EXCEPT ![1] = g]]
      OBVIOUS
    <3>7. [stack[p] EXCEPT ![1] = g] = <<g>> \o Tail(stack[p])
      BY <2>1, <1>0, <2>3, TopChanged
    <3> QED
      BY <3>4, <3>5, <3>6, <3>7
  <2>6. /\ mutex.owner \in {None, p} \cup dead
        /\ mutex' = Taken(p)
        /\ UNCHANGED <<dead, edits, given_up>>
    BY <1>2 DEF Acquire, Taken
  <2>7. PICK h : h = g
    OBVIOUS
  <2>8. TopBecomes(p, h)
    BY <2>3, <2>5, <2>7 DEF TopBecomes
  <2>9. h.fn = Top(p).fn /\ h.held = Top(p).held + 1
        /\ h.todo = Tail(Top(p).todo)
    BY <2>3, <2>7
  <2>10. Locks(p)
    BY <1>2, <2>6, <2>8, <2>9 DEF Locks
  <2> QED
    BY <2>10
<1> QED
  BY <1>1, <1>2

\* A step of p is one of these.
Kind(p) == \/ Enters(p) \/ Ends(p) \/ Returns(p) \/ Pushes(p) \/ Locks(p)
           \/ Moves(p) \/ Dies(p) \/ Rests
LEMMA Kinds ==
  ASSUME StackInv, MutexInv, NEW p \in Procs,
         CallApi(p) \/ TakeResult(p) \/ Kill(p) \/ Work(p)
  PROVE  Kind(p)
<1>1. CASE CallApi(p)
  <2>1. PICK fn \in Workload[p], null \in BOOLEAN, root \in BOOLEAN,
             bad \in BOOLEAN :
          stack' = [stack EXCEPT ![p] =
            <<[fn |-> fn, todo |-> Program[fn], held |-> 0, null |-> null,
               stored |-> FALSE, pass |-> FALSE, try |-> FALSE,
               root |-> root, bad |-> bad]>>]
    BY ONLY <1>1, ZenonT(30) DEF CallApi
  <2> DEFINE f == [fn |-> fn, todo |-> Program[fn], held |-> 0, null |-> null,
               stored |-> FALSE, pass |-> FALSE, try |-> FALSE,
               root |-> root, bad |-> bad]
  <2>2. IsFrame(f) /\ f.fn = fn /\ f.todo = Program[fn] /\ f.held = 0
    BY DEF IsFrame
  <2>3. stack' = [stack EXCEPT ![p] = <<f>>]
    BY <2>1
  <2> HIDE DEF f
  <2>4. Enters(p)
    BY <1>1, <2>2, <2>3 DEF CallApi, Enters
  <2> QED
    BY <2>4 DEF Kind
<1>2. CASE TakeResult(p)
  BY <1>2 DEF TakeResult, Kind, Rests
<1>3. CASE Kill(p) \/ Crash_(p)
  BY <1>3 DEF Kill, Crash_, Die, Kind, Dies, GivesUp
<1>4. CASE LockDevice(p)
  <2>1. Running(p) /\ Top(p).todo # <<>> /\ IsLock(Step(p))
    BY <1>4 DEF LockDevice, Ready, IsLock
  <2>2. CASE Acquire(p)
    BY <2>1, <2>2, AcquireKinds DEF Kind
  <2>3. CASE ReturnWith(p, "BUSY", failed[p])
    BY <2>1, <2>3, ReturnKinds DEF Kind
  <2> QED
    BY <1>4, <2>2, <2>3 DEF LockDevice
<1>5. ASSUME NEW s, NEW fails, Running(p), ReturnWith(p, s, fails)
      PROVE  Kind(p)
  BY <1>5, ReturnKinds DEF Kind
<1>6. ASSUME Running(p), Top(p).todo # <<>>, ~IsLock(Step(p)), Advance(p),
             Edited(p), UNCHANGED <<mutex, dead>>
      PROVE  Kind(p)
  <2>0. stack[p] # <<>>
    BY <1>6 DEF Running
  <2>1. \E g : /\ g.fn = Top(p).fn /\ g.held = Top(p).held
               /\ g.todo = Tail(Top(p).todo)
               /\ TopBecomes(p, g)
    BY <1>6, <2>0, AdvanceFrame
  <2>2. Moves(p)
    BY <1>6, <2>1 DEF Moves, Onward
  <2> QED
    BY <2>2 DEF Kind
<1>7. CASE Refuse(p)
  <2>1. \E s : ReturnWith(p, s, failed[p])
    BY <1>7 DEF Refuse
  <2>2. Running(p)
    BY <1>7 DEF Refuse, Ready
  <2> QED
    BY <1>5, <2>1, <2>2
<1>8. CASE Pass(p)
  BY <1>6, <1>8 DEF Pass, Local, Ready, IsLock, Edited
<1>9. CASE Access(p)
  <2>1. Running(p) /\ Top(p).todo # <<>> /\ ~IsLock(Step(p))
    BY <1>9 DEF Access, Ready, IsLock
  <2>2. \/ Advance(p) /\ Edited(p) /\ UNCHANGED <<mutex, dead>>
        \/ \E s : ReturnWith(p, s, TRUE)
    BY <1>9 DEF Access, Local, Edited
  <2> QED
    BY <1>5, <1>6, <2>1, <2>2
<1>10. CASE CallFunction(p)
  <2> DEFINE s == Step(p)
             callee == [Top(p) EXCEPT
               !.fn = s.fn, !.todo = Program[s.fn], !.held = 0,
               !.null = s.pass /\ @, !.stored = FALSE, !.pass = s.pass,
               !.try = s.try]
             caller == [Top(p) EXCEPT !.todo = Tail(@)]
  <2>1. Ready(p, "call") /\ UNCHANGED <<mutex, dead, edits, given_up>>
    BY <1>10 DEF CallFunction, Local
  <2>2. IsFrame(Top(p)) /\ IsStack(Tail(stack[p]))
    BY <2>1, Popped DEF Ready, Running, StackInv, Top
  <2>3. IsFrame(caller) /\ caller.fn = Top(p).fn /\ caller.held = Top(p).held
        /\ caller.todo = Tail(Top(p).todo)
    BY <2>2 DEF IsFrame
  <2>4. IsFrame(callee) /\ callee.fn = s.fn /\ callee.todo = Program[s.fn]
        /\ callee.held = 0
    BY <2>2 DEF IsFrame
  <2>5. stack' = [stack EXCEPT ![p] = <<callee, caller>> \o Tail(stack[p])]
    BY <1>10 DEF CallFunction, StackInv
  <2> HIDE DEF callee, caller
  <2>6. <<callee, caller>> \o Tail(stack[p])
          = <<callee>> \o (<<caller>> \o Tail(stack[p]))
    BY <2>2, <2>3, <2>4, TwoPushed
  <2>7. Pushes(p)
    BY <2>1, <2>3, <2>4, <2>5, <2>6 DEF Pushes
  <2> QED
    BY <2>7 DEF Kind
<1>11. CASE StoreResult(p)
  <2>1. Running(p) /\ Top(p).todo # <<>> /\ ~IsLock(Step(p))
        /\ stack[p] # <<>> /\ Edited(p) /\ UNCHANGED <<mutex, dead>>
    BY <1>11 DEF StoreResult, Ready, Running, IsLock, Local, Edited
  <2>2. PICK c : stack' = [stack EXCEPT ![p][1].todo = Tail(@),
                                        ![p][1].stored = @ \/ c]
    <3> DEFINE c == ~Top(p).null /\ (Step(p).op = "stored" => status[p] = "SUCCESS")
    <3>1. stack' = [stack EXCEPT ![p][1].todo = Tail(@),
                                 ![p][1].stored = @ \/ c]
      BY <1>11 DEF StoreResult
    <3> HIDE DEF c
    <3> QED
      BY <3>1
  <2> DEFINE g0 == [stack[p][1] EXCEPT !.todo = Tail(@)]
             g == [g0 EXCEPT !.stored = @ \/ c]
  <2>3. IsFrame(Top(p)) /\ stack[p][1] = Top(p) /\ IsStack(stack[p])
        /\ 1 \in DOMAIN stack[p]
    BY <2>1, Popped, StackFrames DEF StackInv, Top
  <2>4. IsFrame(g0) /\ g0.fn = Top(p).fn /\ g0.held = Top(p).held
        /\ g0.todo = Tail(Top(p).todo)
    BY <2>3 DEF IsFrame
  <2> HIDE DEF g0
  <2>5. IsFrame(g) /\ g.fn = Top(p).fn /\ g.held = Top(p).held
        /\ g.todo = Tail(Top(p).todo)
    BY <2>4 DEF IsFrame
  <2>6. stack' = [stack EXCEPT ![p] = <<g>> \o Tail(stack[p])]
    <3> DEFINE u == [stack[p] EXCEPT ![1] = g0]
               S2 == [stack EXCEPT ![p] = u]
    <3>1. stack' = [S2 EXCEPT ![p][1].stored = @ \/ c]
      BY <2>2 DEF g0
    <3>2. S2[p] = u
      BY DEF StackInv
    <3>3. u[1] = g0
      BY <2>3
    <3>4. stack' = [S2 EXCEPT ![p] = [u EXCEPT ![1] = g]]
      BY <3>1, <3>2, <3>3
    <3> HIDE DEF g, g0
    <3>5. [u EXCEPT ![1] = g] = [stack[p] EXCEPT ![1] = g]
      OBVIOUS
    <3>6. [S2 EXCEPT ![p] = [u EXCEPT ![1] = g]]
            = [stack EXCEPT ![p] = [u EXCEPT ![1] = g]]
      OBVIOUS
    <3>7. [stack[p] EXCEPT ![1] = g] = <<g>> \o Tail(stack[p])
      BY <2>1, <2>3, <2>5, TopChanged
    <3> QED
      BY <3>4, <3>5, <3>6, <3>7
  <2> HIDE DEF g
  <2>7. PICK h : h = g
    OBVIOUS
  <2>8. TopBecomes(p, h)
    BY <2>5, <2>6, <2>7 DEF TopBecomes
  <2>9. Moves(p)
    BY <2>1, <2>5, <2>7, <2>8 DEF Moves, Onward
  <2> QED
    BY <2>9 DEF Kind
<1>12. CASE Decide(p)
  BY <1>6, <1>12 DEF Decide, Local, Ready, IsLock, Edited
<1>13. CASE Choose(p)
  <2>1. Running(p) /\ Top(p).todo # <<>> /\ Step(p).op = "choose"
        /\ stack[p] # <<>> /\ Edited(p) /\ UNCHANGED <<mutex, dead>>
    BY <1>13 DEF Choose, Ready, Running, Local, Edited
  <2>2. PICK P \in Step(p).of : Goto(p, P \o Tail(Top(p).todo))
    BY <1>13 DEF Choose
  <2> DEFINE todo0 == P \o Tail(Top(p).todo)
  <2>3. PICK todo : todo = todo0
    OBVIOUS
  <2>4. Goto(p, todo)
    BY <2>2, <2>3 DEF Goto
  <2>5. \E g : /\ g.fn = Top(p).fn /\ g.held = Top(p).held
               /\ g.todo = todo
               /\ TopBecomes(p, g)
    BY <2>1, <2>4, GotoFrame
  <2>6. Moves(p)
    BY <2>1, <2>2, <2>3, <2>5 DEF Moves, Onward, IsLock
  <2> QED
    BY <2>6 DEF Kind
<1>14. CASE Leave(p)
  <2>1. \E s : ReturnWith(p, s, failed[p])
    BY <1>14 DEF Leave
  <2>2. Running(p)
    BY <1>14 DEF Leave, Ready
  <2> QED
    BY <1>5, <2>1, <2>2
<1> QED
  BY <1>1, <1>2, <1>3, <1>4, <1>7, <1>8, <1>9, <1>10, <1>11, <1>12, <1>13,
     <1>14 DEF Work

-----------------------------------------------------------------------------
(* The steps keep the invariant.                                           *)

\* The locks that the mutex counts for p.
Share(p) == IF mutex.owner = p THEN mutex.count ELSE 0

(* One process changed its stack, and of the mutex at most its own share.  *)
LEMMA StackStep ==
  ASSUME LockInv, NEW p \in Procs, NEW s, IsStack(s),
         stack' = [stack EXCEPT ![p] = s], dead \subseteq dead', MutexInv',
         mutex'.state # "unusable" =>
           /\ mutex.state # "unusable"
           /\ p \notin dead' => HeldIn(s) = Share(p)'
           /\ \A q \in Procs \ {p} : q \notin dead' => Share(q)' = Share(q)
  PROVE  LockInv'
<1>1. stack'[p] = s /\ \A q \in Procs \ {p} : stack'[q] = stack[q]
  BY DEF LockInv, StackInv
<1>2. StackInv'
  BY <1>1 DEF LockInv, StackInv
<1>3. LocksReturned'
  <2> SUFFICES ASSUME NEW q \in Procs, q \notin dead', mutex'.state # "unusable"
               PROVE  HeldIn(stack'[q]) = Share(q)'
    BY DEF LocksReturned, Share
  <2>1. CASE q = p
    BY <1>1, <2>1
  <2>2. CASE q # p
    <3>1. HeldIn(stack[q]) = Share(q)
      BY DEF LockInv, LocksReturned, Share
    <3> QED
      BY <1>1, <2>2, <3>1
  <2> QED
    BY <2>1, <2>2
<1> QED
  BY <1>2, <1>3 DEF LockInv

(* The mutex counts n less for the process that gives n locks back.        *)
LEMMA ReleasedShare ==
  ASSUME MutexInv, NEW p \in Procs, NEW n \in Nat, NEW h \in Nat,
         mutex' = Released(n),
         mutex.state # "unusable" => h + n = Share(p)
  PROVE  /\ MutexInv'
         /\ mutex'.state # "unusable" =>
              /\ mutex.state # "unusable"
              /\ h = Share(p)'
              /\ \A q \in Procs \ {p} : Share(q)' = Share(q)
<1>1. CASE n = 0
  BY <1>1 DEF Released, MutexInv, Share
<1>2. CASE n # 0
  <2>1. CASE mutex.count > n
    BY <1>2, <2>1 DEF Released, MutexInv, Share
  <2>2. CASE ~(mutex.count > n)
    <3>1. mutex' = [owner |-> None, count |-> 0,
                    state |-> IF mutex.state = "taken_over" THEN "unusable"
                              ELSE mutex.state]
      BY <1>2, <2>2 DEF Released
    <3>2. MutexInv'
      BY <3>1 DEF MutexInv
    <3>3. ASSUME mutex'.state # "unusable"
          PROVE  /\ mutex.state # "unusable"
                 /\ mutex.owner = p /\ mutex.count = n /\ h = 0
      <4>1. mutex.state # "unusable"
        BY <3>1, <3>3
      <4>2. h + n = Share(p) /\ mutex.count \in Nat
        BY <4>1 DEF MutexInv
      <4> QED
        BY <1>2, <2>2, <4>1, <4>2 DEF Share
    <3>4. \A q \in Procs : Share(q)' = 0
      BY <3>1, CallsAssumption DEF Share
    <3> QED
      BY <3>2, <3>3, <3>4 DEF Share
  <2> QED
    BY <2>1, <2>2
<1> QED
  BY <1>1, <1>2

(* Entering, leaving, calling, locking and dying.                          *)
LEMMA KindKeepsLocks ==
  ASSUME LockInv, NEW p \in Procs, Kind(p)
  PROVE  LockInv'
<1>0. /\ StackInv /\ MutexInv
      /\ IsStack(stack[p])
      /\ p \notin dead /\ mutex.state # "unusable" => HeldIn(stack[p]) = Share(p)
  BY DEF LockInv, StackInv, LocksReturned, Share
<1>1. CASE Enters(p)
  <2>1. PICK f : /\ p \notin dead /\ stack[p] = <<>>
                 /\ IsFrame(f) /\ f.held = 0
                 /\ stack' = [stack EXCEPT ![p] = <<f>>]
                 /\ UNCHANGED <<mutex, dead>>
    BY <1>1 DEF Enters
  <2>2. <<f>> = <<f>> \o <<>>
    <3>1. <<f>> \in Seq({f})
      OBVIOUS
    <3> QED
      BY <3>1, ConcatEmptySeq
  <2>3. IsStack(<<f>>) /\ HeldIn(<<f>>) = 0
    <3>1. IsStack(<<f>> \o <<>>) /\ HeldIn(<<f>> \o <<>>) = HeldIn(<<>>) + f.held
      BY <2>1, EmptyStack, Pushed
    <3> QED
      BY <2>1, <2>2, <3>1, EmptyStack
  <2>4. mutex.state # "unusable" => Share(p) = 0
    BY <1>0, <2>1, EmptyStack
  <2>5. MutexInv' /\ (\A q \in Procs : Share(q)' = Share(q)) /\ mutex' = mutex
        /\ dead \subseteq dead'
    BY <1>0, <2>1 DEF MutexInv, Share
  <2> QED
    BY <2>1, <2>3, <2>4, <2>5, StackStep
<1>2. ASSUME Running(p)
      PROVE  /\ Top(p) = Head(stack[p]) /\ Top(p).held \in Nat
             /\ IsFrame(Top(p)) /\ IsStack(Tail(stack[p]))
             /\ HeldIn(Tail(stack[p])) \in Nat
             /\ HeldIn(stack[p]) = HeldIn(Tail(stack[p])) + Top(p).held
             /\ p \notin dead
  <2>1. stack[p] # <<>> /\ p \notin dead
    BY <1>2 DEF Running
  <2> QED
    BY <1>0, <2>1, Popped, HoldsFinite DEF Top, IsFrame
<1>3. CASE Ends(p)
  <2>1. /\ Running(p) /\ Tail(stack[p]) = <<>>
        /\ mutex' = Released(Top(p).held)
        /\ stack' = [stack EXCEPT ![p] = <<>>]
        /\ UNCHANGED dead
    BY <1>3 DEF Ends
  <2>2. PICK n \in Nat : n = Top(p).held
    BY <1>2, <2>1
  <2>3. mutex.state # "unusable" => 0 + n = Share(p)
    BY <1>0, <1>2, <2>1, <2>2, EmptyStack
  <2>4. mutex' = Released(n)
    BY <2>1, <2>2
  <2>5. /\ MutexInv'
        /\ mutex'.state # "unusable" =>
              /\ mutex.state # "unusable"
              /\ 0 = Share(p)'
              /\ \A q \in Procs \ {p} : Share(q)' = Share(q)
    BY <1>0, <2>3, <2>4, ReleasedShare
  <2> QED
    BY <2>1, <2>5, EmptyStack, StackStep
<1>4. CASE Returns(p)
  <2> DEFINE rest == Tail(stack[p])
  <2>1. PICK g :
          /\ Running(p) /\ rest # <<>>
          /\ mutex' = Released(Top(p).held)
          /\ IsFrame(g) /\ Resumed(Head(rest), g)
          /\ stack' = [stack EXCEPT ![p] = <<g>> \o Tail(rest)]
          /\ UNCHANGED dead
    BY <1>4 DEF Returns
  <2>2. PICK n \in Nat, h \in Nat : n = Top(p).held /\ h = HeldIn(rest)
    BY <1>2, <2>1
  <2>3. /\ IsStack(Tail(rest))
        /\ HeldIn(rest) = HeldIn(Tail(rest)) + Head(rest).held
    BY <1>2, <2>1, Popped
  <2>4. PICK s : s = <<g>> \o Tail(rest)
    OBVIOUS
  <2>5. IsStack(s) /\ HeldIn(s) = h
    <3>1. IsStack(s) /\ HeldIn(s) = HeldIn(Tail(rest)) + g.held
      BY <2>1, <2>3, <2>4, Pushed
    <3> QED
      BY <2>1, <2>2, <2>3, <3>1 DEF Resumed
  <2>6. mutex.state # "unusable" => h + n = Share(p)
    BY <1>0, <1>2, <2>1, <2>2
  <2>7. mutex' = Released(n) /\ stack' = [stack EXCEPT ![p] = s]
    BY <2>1, <2>2, <2>4
  <2>8. /\ MutexInv'
        /\ mutex'.state # "unusable" =>
              /\ mutex.state # "unusable"
              /\ h = Share(p)'
              /\ \A q \in Procs \ {p} : Share(q)' = Share(q)
    BY <1>0, <2>6, <2>7, ReleasedShare
  <2> QED
    BY <2>1, <2>5, <2>7, <2>8, StackStep
<1>5. ASSUME NEW s, IsStack(s), HeldIn(s) = HeldIn(stack[p]), p \notin dead,
             stack' = [stack EXCEPT ![p] = s], UNCHANGED <<mutex, dead>>
      PROVE  LockInv'
  <2>1. MutexInv' /\ (\A q \in Procs : Share(q)' = Share(q)) /\ mutex' = mutex
        /\ dead \subseteq dead'
    BY <1>0, <1>5 DEF MutexInv, Share
  <2> QED
    BY <1>0, <1>5, <2>1, StackStep
<1>6. CASE Pushes(p)
  <2>1. PICK callee, caller :
          /\ Running(p)
          /\ IsFrame(callee) /\ IsFrame(caller)
          /\ callee.held = 0 /\ caller.held = Top(p).held
          /\ stack' = [stack EXCEPT
                   ![p] = <<callee>> \o (<<caller>> \o Tail(stack[p]))]
          /\ UNCHANGED <<mutex, dead>>
    BY <1>6 DEF Pushes, Ready
  <2>2. PICK t : t = <<caller>> \o Tail(stack[p])
    OBVIOUS
  <2>3. PICK s : s = <<callee>> \o t
    OBVIOUS
  <2>4. IsStack(t) /\ HeldIn(t) = HeldIn(stack[p]) /\ HeldIn(t) \in Nat
    <3>1. IsStack(t) /\ HeldIn(t) = HeldIn(Tail(stack[p])) + caller.held
      BY SMTT(30), <1>2, <2>1, <2>2, Pushed
    <3> QED
      BY <1>2, <2>1, <3>1, HoldsFinite
  <2>5. IsStack(s) /\ HeldIn(s) = HeldIn(stack[p])
    <3>1. IsStack(s) /\ HeldIn(s) = HeldIn(t) + callee.held
      BY ZenonT(30), <2>1, <2>3, <2>4, Pushed
    <3>2. HeldIn(t) + callee.held = HeldIn(t)
      BY <2>1, <2>4
    <3> QED
      BY <2>4, <3>1, <3>2
  <2>6. stack' = [stack EXCEPT ![p] = s]
    BY <2>1, <2>2, <2>3
  <2> QED
    BY <1>2, <1>5, <2>1, <2>5, <2>6
<1>7. CASE Locks(p)
  <2>1. PICK g : /\ Running(p)
                 /\ mutex.state # "unusable" /\ mutex.owner \in {None, p} \cup dead
                 /\ g.held = Top(p).held + 1
                 /\ mutex' = Taken(p)
                 /\ TopBecomes(p, g)
                 /\ UNCHANGED dead
    BY <1>7 DEF Locks
  <2>2. PICK s : s = <<g>> \o Tail(stack[p])
    OBVIOUS
  <2>3. IsFrame(g) /\ stack' = [stack EXCEPT ![p] = s]
    BY <2>1, <2>2 DEF TopBecomes
  <2>4. IsStack(s) /\ HeldIn(s) = HeldIn(stack[p]) + 1
    <3>1. IsStack(s) /\ HeldIn(s) = HeldIn(Tail(stack[p])) + g.held
      BY <1>2, <2>1, <2>2, <2>3, Pushed
    <3> QED
      BY <1>2, <2>1, <3>1
  <2>5. HeldIn(stack[p]) = Share(p)
    BY <1>0, <1>2, <2>1
  <2>6. MutexInv' /\ Share(p)' = Share(p) + 1
        /\ \A q \in Procs \ {p} : q \notin dead => Share(q)' = Share(q)
    <3>1. CASE mutex.owner \in dead
      <4>1. mutex' = [owner |-> p, count |-> 1, state |-> "taken_over"]
        BY <2>1, <3>1 DEF Taken
      <4>2. mutex.owner # p
        BY <1>2, <2>1, <3>1
      <4>3. MutexInv'
        BY <4>1, CallsAssumption DEF MutexInv
      <4> QED
        BY <3>1, <4>1, <4>2, <4>3 DEF Share
    <3>2. CASE mutex.owner \notin dead
      <4>1. mutex' = [mutex EXCEPT !.owner = p, !.count = mutex.count + 1]
        BY <2>1, <3>2 DEF Taken
      <4>2. mutex.owner = None \/ mutex.owner = p
        BY <2>1, <3>2
      <4>3. /\ mutex'.owner = p /\ mutex'.count = mutex.count + 1
            /\ mutex' \in [owner : Procs \cup {None}, count : Nat,
                         state : {"ok", "taken_over", "unusable"}]
        <5> DEFINE T == [owner : Procs \cup {None}, count : Nat,
                         state : {"ok", "taken_over", "unusable"}]
                   m == [mutex EXCEPT !.owner = p]
        <5>1. m \in T /\ m.owner = p /\ m.count = mutex.count
              /\ mutex.count \in Nat
          BY <1>0 DEF MutexInv
        <5>2. mutex' = [m EXCEPT !.count = mutex.count + 1]
          BY <4>1
        <5> HIDE DEF m
        <5> QED
          BY <5>1, <5>2
      <4>4. mutex.count \in Nat /\ (mutex.owner = None => mutex.count = 0)
        BY <1>0 DEF MutexInv
      <4>5. p # None /\ \A q \in Procs : q # None
        BY CallsAssumption
      <4>6. MutexInv'
        BY <4>3, <4>5 DEF MutexInv
      <4> QED
        BY <4>2, <4>3, <4>4, <4>5, <4>6 DEF Share
    <3> QED
      BY <3>1, <3>2
  <2>7. HeldIn(s) = Share(p)'
    BY <2>4, <2>5, <2>6
  <2> QED
    BY <2>1, <2>3, <2>4, <2>6, <2>7, StackStep
<1>8. CASE Moves(p)
  <2>1. PICK g :
          /\ Running(p) /\ Top(p).todo # <<>>
          /\ IsLock(Step(p)) => mutex.state = "unusable"
          /\ g.fn = Top(p).fn /\ g.held = Top(p).held
          /\ Onward(p, g)
          /\ TopBecomes(p, g)
          /\ Edited(p)
          /\ UNCHANGED <<mutex, dead>>
    BY <1>8 DEF Moves
  <2>2. PICK s : s = <<g>> \o Tail(stack[p])
    OBVIOUS
  <2>3. IsFrame(g) /\ stack' = [stack EXCEPT ![p] = s]
    BY <2>1, <2>2 DEF TopBecomes
  <2>4. IsStack(s) /\ HeldIn(s) = HeldIn(stack[p])
    <3>1. IsStack(s) /\ HeldIn(s) = HeldIn(Tail(stack[p])) + g.held
      BY <1>2, <2>1, <2>2, <2>3, Pushed
    <3> QED
      BY <1>2, <2>1, <3>1
  <2> QED
    BY <1>2, <1>5, <2>1, <2>3, <2>4
<1>9. CASE Dies(p)
  <2>1. MutexInv' /\ (\A q \in Procs : Share(q)' = Share(q)) /\ mutex' = mutex
        /\ dead \subseteq dead' /\ p \in dead'
    BY <1>0, <1>9 DEF MutexInv, Share, Dies
  <2>2. stack' = [stack EXCEPT ![p] = <<>>]
    BY <1>9 DEF Dies
  <2> QED
    BY <2>1, <2>2, EmptyStack, StackStep
<1>10. CASE Rests
  BY <1>10 DEF Rests, LockInv, StackInv, MutexInv, LocksReturned
<1> QED
  BY <1>1, <1>3, <1>4, <1>6, <1>7, <1>8, <1>9, <1>10 DEF Kind

-----------------------------------------------------------------------------
(* Every return, also one out of the middle of a function or of a call in  *)
(* a call, gives back what was locked, for any number of processes and any *)
(* functions they call: what the frames of a live process hold is what the *)
(* mutex counts for it.                                                    *)
LEMMA LockInvInit == Init => LockInv
<1> SUFFICES ASSUME Init
             PROVE  LockInv
  OBVIOUS
<1>1. /\ mutex = [owner |-> None, count |-> 0, state |-> "ok"]
      /\ stack = [p \in Procs |-> <<>>]
  BY DEF Init
<1>2. StackInv
  BY <1>1, EmptyStack DEF StackInv
<1>3. MutexInv
  BY <1>1 DEF MutexInv
<1>4. LocksReturned
  BY <1>1, EmptyStack DEF LocksReturned
<1> QED
  BY <1>2, <1>3, <1>4 DEF LockInv

LEMMA LockInvNext == LockInv /\ [Next]_vars => LockInv'
<1>1. ASSUME LockInv, NEW p \in Procs,
             CallApi(p) \/ TakeResult(p) \/ Kill(p) \/ Work(p)
      PROVE  LockInv'
  BY <1>1, Kinds, KindKeepsLocks DEF LockInv
<1>2. ASSUME LockInv, UNCHANGED vars
      PROVE  LockInv'
  BY <1>2 DEF LockInv, StackInv, MutexInv, LocksReturned, vars
<1> QED
  BY <1>1, <1>2 DEF Next

LEMMA LockInvariant == Spec => []LockInv
<1>1. Init => LockInv
  BY LockInvInit
<1>2. LockInv /\ [Next]_vars => LockInv'
  BY LockInvNext
<1> QED
  BY <1>1, <1>2, PTL DEF Spec

THEOREM ReturnsLocks == Spec => []LocksReturned
<1>1. LockInv => LocksReturned
  BY DEF LockInv
<1> QED
  BY <1>1, LockInvariant, PTL

-----------------------------------------------------------------------------
(* Programs that take the mutex first.                                     *)

(* A program is a sequence: it has a first step and a rest.                *)
LEMMA ProgramParts ==
  ASSUME NEW t, IsProgram(t), t # <<>>
  PROVE  /\ Len(t) \in Nat \ {0} /\ DOMAIN t = 1 .. Len(t)
         /\ Head(t) = t[1]
         /\ Len(Tail(t)) = Len(t) - 1 /\ IsProgram(Tail(t))
         /\ DOMAIN Tail(t) = 1 .. Len(t) - 1
         /\ \A i \in 1 .. Len(t) - 1 : Tail(t)[i] = t[i + 1]
<1> DEFINE S == {t[i] : i \in 1 .. Len(t)}
           n == Len(t)
<1>1. n \in Nat /\ t = [i \in 1 .. n |-> t[i]]
  BY DEF IsProgram
<1>2. t \in [1 .. n -> S]
  BY <1>1
<1>3. t \in Seq(S)
  <2> HIDE DEF S, n
  <2> QED
    BY <1>1, <1>2, SeqDef
<1> HIDE DEF S
<1>4. /\ Tail(t) \in Seq(S) /\ Len(Tail(t)) = Len(t) - 1
      /\ \A i \in 1 .. Len(Tail(t)) : Tail(t)[i] = t[i + 1]
  BY <1>3, HeadTailProperties
<1>5. Len(t) \in Nat \ {0} /\ DOMAIN t = 1 .. Len(t)
  BY <1>3, EmptySeq, LenProperties
<1>6. Head(t) = t[1]
  BY <1>3, <1>5
<1>7. IsProgram(Tail(t)) /\ DOMAIN Tail(t) = 1 .. Len(Tail(t))
  <2>1. Tail(t) \in [1 .. Len(Tail(t)) -> S] /\ Len(Tail(t)) \in Nat
        /\ DOMAIN Tail(t) = 1 .. Len(Tail(t))
    BY <1>4, LenProperties
  <2> QED
    BY <2>1 DEF IsProgram
<1> QED
  BY <1>4, <1>5, <1>6, <1>7

(* What remains after a step that is no lock still takes the mutex first.  *)
LEMMA LocksFirstTail ==
  ASSUME NEW t, LocksFirst(t), t # <<>>
  PROVE  /\ NeedsNoMutex(Head(t))
         /\ ~IsLock(Head(t)) => LocksFirst(Tail(t))
         /\ Head(t).op = "choose" => \A P \in Head(t).of : Straight(P)
<1>1. IsProgram(t)
  BY DEF LocksFirst
<1>2. /\ Len(t) \in Nat \ {0} /\ DOMAIN t = 1 .. Len(t)
      /\ Head(t) = t[1]
      /\ Len(Tail(t)) = Len(t) - 1 /\ IsProgram(Tail(t))
      /\ DOMAIN Tail(t) = 1 .. Len(t) - 1
      /\ \A i \in 1 .. Len(t) - 1 : Tail(t)[i] = t[i + 1]
  BY <1>1, ProgramParts
<1>3. 1 \in DOMAIN t /\ ~LockedBefore(t, 1)
  BY <1>2 DEF LockedBefore
<1>4. ASSUME ~IsLock(Head(t)), NEW i \in 1 .. Len(t) - 1, LockedBefore(t, i + 1)
      PROVE  LockedBefore(Tail(t), i)
  <2>1. PICK j \in 1 .. (i + 1) - 1 : IsLock(t[j])
    BY <1>4 DEF LockedBefore
  <2>2. j # 1
    BY <1>2, <1>4, <2>1
  <2>3. j - 1 \in 1 .. i - 1 /\ j - 1 \in 1 .. Len(t) - 1 /\ (j - 1) + 1 = j
    BY <1>2, <2>1, <2>2
  <2>4. Tail(t)[j - 1] = t[j]
    BY <1>2, <2>3
  <2> QED
    BY <2>1, <2>3, <2>4 DEF LockedBefore
<1>5. ASSUME ~IsLock(Head(t))
      PROVE  LocksFirst(Tail(t))
  <2>1. ASSUME NEW i \in 1 .. Len(t) - 1
        PROVE  \/ LockedBefore(Tail(t), i)
               \/ /\ NeedsNoMutex(Tail(t)[i])
                  /\ Tail(t)[i].op = "choose" =>
                       \A P \in Tail(t)[i].of : Straight(P)
    <3>1. i + 1 \in DOMAIN t /\ Tail(t)[i] = t[i + 1]
      BY <1>2
    <3>2. \/ LockedBefore(t, i + 1)
          \/ /\ NeedsNoMutex(t[i + 1])
             /\ t[i + 1].op = "choose" => \A P \in t[i + 1].of : Straight(P)
      BY <3>1 DEF LocksFirst
    <3> QED
      BY <1>4, <1>5, <3>1, <3>2
  <2> QED
    BY <1>2, <2>1 DEF LocksFirst
<1>6. /\ NeedsNoMutex(t[1])
      /\ t[1].op = "choose" => \A P \in t[1].of : Straight(P)
  BY <1>3 DEF LocksFirst
<1> QED
  BY <1>2, <1>5, <1>6

(* One program followed by another.                                        *)
LEMMA ProgramConcat ==
  ASSUME NEW P, IsProgram(P), NEW t, IsProgram(t)
  PROVE  /\ Len(P) \in Nat /\ DOMAIN P = 1 .. Len(P)
         /\ Len(t) \in Nat /\ DOMAIN t = 1 .. Len(t)
         /\ IsProgram(P \o t) /\ DOMAIN (P \o t) = 1 .. Len(P) + Len(t)
         /\ \A i \in 1 .. Len(P) + Len(t) :
              (P \o t)[i] = IF i <= Len(P) THEN P[i] ELSE t[i - Len(P)]
<1> DEFINE S == {P[i] : i \in 1 .. Len(P)} \cup {t[i] : i \in 1 .. Len(t)}
           c == P \o t
           m == Len(P)
           n == Len(t)
<1>1. /\ m \in Nat /\ P = [i \in 1 .. m |-> P[i]]
      /\ n \in Nat /\ t = [i \in 1 .. n |-> t[i]]
  BY DEF IsProgram
<1>2. P \in [1 .. m -> S] /\ t \in [1 .. n -> S]
  BY <1>1
<1>3. P \in Seq(S) /\ t \in Seq(S)
  <2> HIDE DEF S, m, n
  <2> QED
    BY <1>1, <1>2, SeqDef
<1> HIDE DEF S
<1>4. /\ c \in Seq(S) /\ Len(c) = m + n
      /\ \A i \in 1 .. m + n : c[i] = IF i <= m THEN P[i] ELSE t[i - m]
  BY <1>3, ConcatProperties
<1>5. DOMAIN c = 1 .. m + n /\ IsProgram(c)
  <2>1. c \in [1 .. Len(c) -> S] /\ Len(c) \in Nat /\ DOMAIN c = 1 .. Len(c)
    BY <1>4, LenProperties
  <2> HIDE DEF c
  <2> QED
    BY <1>4, <2>1 DEF IsProgram
<1> HIDE DEF c, m, n
<1>6. DOMAIN P = 1 .. m /\ DOMAIN t = 1 .. n /\ m \in Nat /\ n \in Nat
  BY <1>1
<1> QED
  BY <1>4, <1>5, <1>6 DEF c, m, n

(* A program taken instead of a step does not change that.                 *)
LEMMA LocksFirstConcat ==
  ASSUME NEW P, Straight(P), NEW t, LocksFirst(t)
  PROVE  LocksFirst(P \o t)
<1> DEFINE c == P \o t
           m == Len(P)
           n == Len(t)
<1>1. IsProgram(P) /\ IsProgram(t)
  BY DEF Straight, LocksFirst
<1>2. \A i \in 1 .. m + n : c[i] = IF i <= m THEN P[i] ELSE t[i - m]
  BY <1>1, ProgramConcat
<1>3. DOMAIN c = 1 .. m + n /\ IsProgram(c)
  BY <1>1, ProgramConcat
<1>4. DOMAIN P = 1 .. m /\ DOMAIN t = 1 .. n /\ m \in Nat /\ n \in Nat
  BY <1>1, ProgramConcat
<1> HIDE DEF c, m, n
<1>5. ASSUME NEW i \in 1 .. m + n
      PROVE  \/ LockedBefore(c, i)
             \/ /\ NeedsNoMutex(c[i])
                /\ c[i].op = "choose" => \A Q \in c[i].of : Straight(Q)
  <2>1. CASE i <= m
    <3>1. i \in DOMAIN P /\ c[i] = P[i]
      <4>1. i \in 1 .. m
        BY <1>4, <2>1
      <4> QED
        BY <1>2, <1>4, <2>1, <4>1
    <3>2. LockedBefore(P, i) \/ (NeedsNoMutex(P[i]) /\ P[i].op # "choose")
      BY <3>1 DEF Straight
    <3>3. LockedBefore(P, i) => LockedBefore(c, i)
      <4> SUFFICES ASSUME NEW j \in 1 .. i - 1, IsLock(P[j])
                   PROVE  c[j] = P[j]
        BY DEF LockedBefore
      <4>1. j \in 1 .. m + n /\ j <= m
        BY <1>4, <2>1
      <4> QED
        BY <1>2, <4>1
    <3> QED
      BY <3>1, <3>2, <3>3
  <2>2. CASE ~(i <= m)
    <3>1. i - m \in 1 .. n /\ c[i] = t[i - m]
      <4>1. i - m \in 1 .. n
        BY <1>4, <2>2
      <4> QED
        BY <1>2, <2>2, <4>1
    <3>2. \/ LockedBefore(t, i - m)
          \/ /\ NeedsNoMutex(t[i - m])
             /\ t[i - m].op = "choose" => \A Q \in t[i - m].of : Straight(Q)
      BY <1>4, <3>1 DEF LocksFirst
    <3>3. LockedBefore(t, i - m) => LockedBefore(c, i)
      <4> SUFFICES ASSUME NEW j \in 1 .. (i - m) - 1, IsLock(t[j])
                   PROVE  LockedBefore(c, i)
        BY DEF LockedBefore
      <4>1. j + m \in 1 .. i - 1 /\ j + m \in 1 .. m + n
            /\ ~(j + m <= m) /\ (j + m) - m = j
        BY <1>4, <3>1
      <4>2. c[j + m] = t[j]
        BY <1>2, <4>1
      <4> QED
        BY <4>1, <4>2 DEF LockedBefore
    <3> QED
      BY <3>1, <3>2, <3>3
  <2> QED
    BY <2>1, <2>2
<1>6. LocksFirst(c)
  BY <1>3, <1>5 DEF LocksFirst
<1> QED
  BY <1>6 DEF c

(* A return in place of the rest needs no mutex.                           *)
LEMMA ReturnLocksFirst ==
  ASSUME NEW s
  PROVE  LocksFirst(Return(s))
<1> DEFINE st == [op |-> "return", ret |-> s]
           t == <<st>>
<1>1. Return(s) = t
  BY DEF Return
<1>2. NeedsNoMutex(st) /\ st.op # "choose"
  BY DEF NeedsNoMutex, UsesDevice
<1> HIDE DEF st
<1>3. Len(t) = 1 /\ DOMAIN t = 1 .. 1 /\ t[1] = st /\ IsProgram(t)
  BY DEF IsProgram
<1>4. \A i \in DOMAIN t : NeedsNoMutex(t[i]) /\ t[i].op # "choose"
  BY <1>2, <1>3
<1>5. LocksFirst(t)
  BY <1>3, <1>4 DEF LocksFirst
<1> QED
  BY <1>1, <1>5

-----------------------------------------------------------------------------
(* Two processes are never at an access to the files of one device.        *)

\* Nothing is held by the frames of s.
AllFree(s) == \A i \in 1 .. Len(s) : s[i].held = 0
\* Where neither a frame nor a caller of it holds the mutex, what is left of
\* its program takes it first.
FreeFrom(s, i) == \A k \in i .. Len(s) : s[k].held = 0
SafeFrames(s) == \A i \in 1 .. Len(s) : FreeFrom(s, i) => LocksFirst(s[i].todo)
Outermost(s) == s[Len(s)].fn
SafeStack(s) == s = <<>> \/ Outermost(s) \in Unlocked \/ SafeFrames(s)

\* As long as the mutex works.
SafeInv == mutex.state # "unusable" =>
             \A p \in Procs \ dead : SafeStack(stack[p])

(* A frame on a safe stack.                                                *)
LEMMA SafePush ==
  ASSUME NEW s, IsStack(s), NEW f, IsFrame(f)
  PROVE  /\ AllFree(<<f>> \o s) <=> f.held = 0 /\ AllFree(s)
         /\ SafeFrames(<<f>> \o s) <=>
              /\ SafeFrames(s)
              /\ f.held = 0 /\ AllFree(s) => LocksFirst(f.todo)
         /\ s = <<>> => Outermost(<<f>> \o s) = f.fn
         /\ s # <<>> => Outermost(<<f>> \o s) = Outermost(s)
<1> DEFINE t == <<f>> \o s
           n == Len(s)
<1>1. /\ IsStack(t) /\ Len(t) = n + 1 /\ t[1] = f
      /\ \A i \in 1 .. n : t[i + 1] = s[i]
  BY Pushed
<1>2. n \in Nat
  BY StackFrames
<1> HIDE DEF t, n
<1>3. \A i \in 1 .. n + 1 : i = 1 \/ (i - 1 \in 1 .. n /\ t[i] = s[i - 1])
  <2> SUFFICES ASSUME NEW i \in 1 .. n + 1, i # 1
               PROVE  i - 1 \in 1 .. n /\ t[i] = s[i - 1]
    OBVIOUS
  <2>1. i - 1 \in 1 .. n /\ (i - 1) + 1 = i
    BY <1>2
  <2>2. t[(i - 1) + 1] = s[i - 1]
    BY <1>1, <2>1
  <2> QED
    BY <2>1, <2>2
<1>4. AllFree(t) <=> f.held = 0 /\ AllFree(s)
  <2>1. ASSUME AllFree(t)
        PROVE  f.held = 0 /\ AllFree(s)
    <3>1. f.held = 0
      <4>1. 1 \in 1 .. Len(t)
        BY <1>1, <1>2
      <4> QED
        BY <1>1, <2>1, <4>1 DEF AllFree
    <3>2. ASSUME NEW i \in 1 .. n
          PROVE  s[i].held = 0
      <4>1. i + 1 \in 1 .. Len(t)
        BY <1>1, <1>2
      <4> QED
        BY <1>1, <2>1, <4>1 DEF AllFree
    <3> QED
      BY <3>1, <3>2 DEF AllFree, n
  <2>2. ASSUME f.held = 0, AllFree(s)
        PROVE  AllFree(t)
    <3> SUFFICES ASSUME NEW i \in 1 .. n + 1
                 PROVE  t[i].held = 0
      BY <1>1 DEF AllFree
    <3>1. CASE i = 1
      BY <1>1, <2>2, <3>1
    <3>2. CASE i # 1
      BY <1>3, <2>2, <3>2 DEF AllFree, n
    <3> QED
      BY <3>1, <3>2
  <2> QED
    BY <2>1, <2>2
<1>5. FreeFrom(t, 1) <=> AllFree(t)
  BY DEF FreeFrom, AllFree
<1>6. ASSUME NEW i \in 1 .. n
      PROVE  FreeFrom(t, i + 1) <=> FreeFrom(s, i)
  <2>1. ASSUME FreeFrom(t, i + 1), NEW k \in i .. n
        PROVE  s[k].held = 0
    <3>1. k + 1 \in i + 1 .. Len(t) /\ k \in 1 .. n
      BY <1>1, <1>2
    <3>2. t[k + 1].held = 0
      BY <2>1, <3>1 DEF FreeFrom
    <3> QED
      BY <1>1, <3>1, <3>2
  <2>2. ASSUME FreeFrom(s, i), NEW k \in i + 1 .. n + 1
        PROVE  t[k].held = 0
    <3>1. k - 1 \in i .. n /\ k \in 1 .. n + 1 /\ k # 1
      BY <1>2
    <3>2. s[k - 1].held = 0
      BY <2>2, <3>1 DEF FreeFrom, n
    <3> QED
      BY <1>3, <3>1, <3>2
  <2> QED
    BY <1>1, <2>1, <2>2 DEF FreeFrom, n
<1>7. SafeFrames(t) <=> /\ SafeFrames(s)
                        /\ f.held = 0 /\ AllFree(s) => LocksFirst(f.todo)
  <2>1. ASSUME SafeFrames(t)
        PROVE  /\ SafeFrames(s)
               /\ f.held = 0 /\ AllFree(s) => LocksFirst(f.todo)
    <3>1. 1 \in 1 .. Len(t)
      BY <1>1, <1>2
    <3>2. f.held = 0 /\ AllFree(s) => LocksFirst(f.todo)
      BY <1>1, <1>4, <1>5, <2>1, <3>1 DEF SafeFrames
    <3>3. ASSUME NEW i \in 1 .. n, FreeFrom(s, i)
          PROVE  LocksFirst(s[i].todo)
      <4>1. i + 1 \in 1 .. Len(t) /\ t[i + 1] = s[i]
        BY <1>1, <1>2
      <4> QED
        BY <1>6, <2>1, <3>3, <4>1 DEF SafeFrames
    <3> QED
      BY <3>2, <3>3 DEF SafeFrames, n
  <2>2. ASSUME SafeFrames(s), f.held = 0 /\ AllFree(s) => LocksFirst(f.todo)
        PROVE  SafeFrames(t)
    <3> SUFFICES ASSUME NEW i \in 1 .. n + 1, FreeFrom(t, i)
                 PROVE  LocksFirst(t[i].todo)
      BY <1>1 DEF SafeFrames
    <3>1. CASE i = 1
      BY <1>1, <1>4, <1>5, <2>2, <3>1
    <3>2. CASE i # 1
      <4>1. i - 1 \in 1 .. n /\ t[i] = s[i - 1] /\ (i - 1) + 1 = i
        BY <1>2, <1>3, <3>2
      <4>2. FreeFrom(s, i - 1)
        BY <1>6, <4>1
      <4> QED
        BY <2>2, <4>1, <4>2 DEF SafeFrames, n
    <3> QED
      BY <3>1, <3>2
  <2> QED
    BY <2>1, <2>2
<1>8. s = <<>> => Outermost(t) = f.fn
  <2> SUFFICES ASSUME s = <<>>
               PROVE  Outermost(t) = f.fn
    OBVIOUS
  <2>1. n = 0
    BY DEF n
  <2> QED
    BY <1>1, <2>1 DEF Outermost
<1>9. s # <<>> => Outermost(t) = Outermost(s)
  <2> SUFFICES ASSUME s # <<>>
               PROVE  Outermost(t) = Outermost(s)
    OBVIOUS
  <2>1. n \in 1 .. n
    <3>1. n \in Nat \ {0}
      BY Popped DEF n
    <3> QED
      BY <3>1
  <2>2. t[n + 1] = s[n]
    BY <1>1, <2>1
  <2> QED
    BY <1>1, <2>2 DEF Outermost, n
<1> QED
  BY <1>4, <1>7, <1>8, <1>9 DEF t

(* A stack that holds something has locks that count.                      *)
LEMMA HoldsSome ==
  ASSUME NEW s, IsStack(s), ~AllFree(s)
  PROVE  HeldIn(s) # 0
<1>1. PICK i \in 1 .. Len(s) : s[i].held # 0
  BY DEF AllFree
<1>2. Len(s) \in Nat /\ DOMAIN s = 1 .. Len(s) /\ s[i].held \in Nat
  BY StackFrames DEF IsFrame
<1>3. IsFiniteSet(Holds(s))
  BY HoldsFinite
<1> DEFINE j == Len(s) + 1 - i
<1>4. j \in 1 .. Len(s) /\ Len(s) + 1 - j = i /\ 1 \in 1 .. s[i].held
  BY <1>1, <1>2
<1> HIDE DEF j
<1>5. <<j, 1>> \in {j} \X (1 .. s[Len(s) + 1 - j].held)
  BY <1>4
<1>6. <<j, 1>> \in Holds(s)
  BY <1>2, <1>4, <1>5 DEF Holds
<1> QED
  BY <1>3, <1>6, FS_EmptySet DEF HeldIn

(* One process changed its stack to another safe one.                      *)
LEMMA SafeStep ==
  ASSUME StackInv, SafeInv, NEW p \in Procs, NEW s,
         stack' = [stack EXCEPT ![p] = s], dead \subseteq dead',
         mutex'.state # "unusable" =>
           /\ mutex.state # "unusable"
           /\ p \notin dead' => SafeStack(s)
  PROVE  SafeInv'
<1>1. stack'[p] = s /\ \A q \in Procs \ {p} : stack'[q] = stack[q]
  BY DEF StackInv
<1> SUFFICES ASSUME mutex'.state # "unusable", NEW q \in Procs, q \notin dead'
             PROVE  SafeStack(stack'[q])
  BY DEF SafeInv
<1>2. CASE q = p
  BY <1>1, <1>2
<1>3. CASE q # p
  <2>1. SafeStack(stack[q])
    BY DEF SafeInv
  <2> QED
    BY <1>1, <1>3, <2>1
<1> QED
  BY <1>2, <1>3

\* A function of the API is named in Program and is no static function.
LEMMA ApiCareful ==
  ASSUME NEW p \in Procs, NEW fn \in Workload[p], fn \notin Unlocked
  PROVE  fn \in Careful
<1>1. fn \in ApiFunctions
  BY CallsAssumption
<1>2. "get_frequencies" \in StaticFunctions
  BY DEF StaticFunctions
<1> QED
  BY <1>1, <1>2 DEF ApiFunctions, Careful

\* An unusable mutex stays so.
LEMMA StaysUnusable ==
  ASSUME MutexInv, NEW n, mutex' = Released(n), mutex.state = "unusable"
  PROVE  mutex'.state = "unusable"
BY DEF MutexInv, Released

(* The stacks stay safe, whatever step a process takes.                    *)
LEMMA KindKeepsSafe ==
  ASSUME LockInv, SafeInv, NEW p \in Procs, Kind(p)
  PROVE  SafeInv'
<1>0. StackInv /\ MutexInv /\ IsStack(stack[p])
  BY DEF LockInv, StackInv
<1>1. CASE Enters(p)
  <2>1. PICK f : /\ p \notin dead /\ stack[p] = <<>>
                 /\ IsFrame(f) /\ f.fn \in Workload[p]
                 /\ f.todo = Program[f.fn] /\ f.held = 0
                 /\ stack' = [stack EXCEPT ![p] = <<f>>]
                 /\ UNCHANGED <<mutex, dead>>
    BY <1>1 DEF Enters
  <2>2. Len(<<f>>) = 1 /\ <<f>>[1] = f
    OBVIOUS
  <2>3. SafeStack(<<f>>)
    <3>1. CASE f.fn \in Unlocked
      BY <2>2, <3>1 DEF SafeStack, Outermost
    <3>2. CASE f.fn \notin Unlocked
      <4>1. LocksFirst(f.todo)
        BY <2>1, <3>2, ApiCareful, ProgramAssumption
      <4> QED
        BY <2>2, <4>1 DEF SafeStack, SafeFrames
    <3> QED
      BY <3>1, <3>2
  <2> QED
    BY <1>0, <2>1, <2>3, SafeStep
<1>2. ASSUME Running(p)
      PROVE  /\ stack[p] # <<>> /\ p \notin dead
             /\ Top(p) = Head(stack[p])
             /\ IsFrame(Top(p)) /\ IsStack(Tail(stack[p]))
             /\ stack[p] = <<Top(p)>> \o Tail(stack[p])
             /\ mutex.state # "unusable" => SafeStack(stack[p])
  <2>1. stack[p] # <<>> /\ p \notin dead
    BY <1>2 DEF Running
  <2> QED
    BY <1>0, <2>1, Popped DEF Top, SafeInv
<1>3. CASE Ends(p)
  <2>1. /\ mutex' = Released(Top(p).held)
        /\ stack' = [stack EXCEPT ![p] = <<>>]
        /\ UNCHANGED dead
    BY <1>3 DEF Ends
  <2>2. PICK n : n = Top(p).held
    OBVIOUS
  <2>3. mutex'.state # "unusable" => mutex.state # "unusable"
    BY <1>0, <2>1, <2>2, StaysUnusable
  <2>4. SafeStack(<<>>)
    BY DEF SafeStack
  <2> QED
    BY <1>0, <2>1, <2>3, <2>4, SafeStep
<1>4. CASE Returns(p)
  <2>1. PICK rest : rest = Tail(stack[p])
    OBVIOUS
  <2>2. PICK g : /\ Running(p) /\ rest # <<>>
                 /\ mutex' = Released(Top(p).held)
                 /\ IsFrame(g) /\ Resumed(Head(rest), g)
                 /\ stack' = [stack EXCEPT ![p] = <<g>> \o Tail(rest)]
                 /\ UNCHANGED dead
    BY <1>4, <2>1 DEF Returns
  <2>3. PICK n : n = Top(p).held
    OBVIOUS
  <2>4. mutex'.state # "unusable" => mutex.state # "unusable"
    BY <1>0, <2>2, <2>3, StaysUnusable
  <2>5. PICK s, u, f : s = <<g>> \o u /\ u = Tail(rest) /\ f = Head(rest)
    OBVIOUS
  <2>6. IsStack(rest) /\ IsStack(u) /\ IsFrame(f) /\ rest = <<f>> \o u
    BY <1>2, <2>1, <2>2, <2>5, Popped
  <2>7. g.fn = f.fn /\ g.held = f.held
        /\ (g.todo = f.todo \/ LocksFirst(g.todo))
    BY <2>2, <2>5, ReturnLocksFirst DEF Resumed
  <2>8. ASSUME mutex'.state # "unusable"
        PROVE  SafeStack(s)
    <3>1. SafeStack(stack[p]) /\ stack[p] = <<Top(p)>> \o rest
      BY <1>2, <2>1, <2>2, <2>4, <2>8
    <3>2. Outermost(stack[p]) = Outermost(rest)
      <4>1. PICK h : h = Top(p)
        OBVIOUS
      <4>2. IsFrame(h) /\ stack[p] = <<h>> \o rest
        BY <1>2, <2>2, <3>1, <4>1
      <4>3. Outermost(<<h>> \o rest) = Outermost(rest)
        BY <2>2, <2>6, <4>2, SafePush
      <4> QED
        BY <4>2, <4>3
    <3>3. Outermost(s) = Outermost(rest)
      <4>1. Outermost(<<g>> \o u) = IF u = <<>> THEN g.fn ELSE Outermost(u)
        BY <2>2, <2>6, SafePush
      <4>2. Outermost(<<f>> \o u) = IF u = <<>> THEN f.fn ELSE Outermost(u)
        BY <2>6, SafePush
      <4> QED
        BY <2>5, <2>6, <2>7, <4>1, <4>2
    <3>4. ASSUME SafeFrames(stack[p])
          PROVE  SafeFrames(s)
      <4>1. PICK h : h = Top(p)
        OBVIOUS
      <4>2. SafeFrames(rest)
        BY <1>2, <2>2, <2>6, <3>1, <3>4, <4>1, SafePush
      <4>3. SafeFrames(u) /\ (f.held = 0 /\ AllFree(u) => LocksFirst(f.todo))
        BY <2>6, <4>2, SafePush
      <4> QED
        BY <2>2, <2>5, <2>6, <2>7, <4>3, SafePush
    <3> QED
      BY <1>2, <2>2, <3>1, <3>2, <3>3, <3>4 DEF SafeStack
  <2>9. stack' = [stack EXCEPT ![p] = s]
    BY <2>2, <2>5
  <2> QED
    BY <1>0, <2>2, <2>4, <2>8, <2>9, SafeStep
<1>5. CASE Pushes(p)
  <2>1. PICK callee, caller :
          /\ Ready(p, "call")
          /\ IsFrame(callee) /\ IsFrame(caller)
          /\ callee.fn = Step(p).fn /\ callee.todo = Program[Step(p).fn]
          /\ callee.held = 0
          /\ caller.fn = Top(p).fn /\ caller.held = Top(p).held
          /\ caller.todo = Tail(Top(p).todo)
          /\ stack' = [stack EXCEPT
                   ![p] = <<callee>> \o (<<caller>> \o Tail(stack[p]))]
          /\ UNCHANGED <<mutex, dead>>
    BY <1>5 DEF Pushes
  <2>2. PICK f, u, t, s : /\ f = Top(p) /\ u = Tail(stack[p])
                          /\ t = <<caller>> \o u /\ s = <<callee>> \o t
    OBVIOUS
  <2>3. Running(p) /\ f.todo # <<>> /\ Head(f.todo).op = "call"
    BY <2>1, <2>2 DEF Ready, Step
  <2>4. IsFrame(f) /\ IsStack(u) /\ stack[p] = <<f>> \o u /\ stack[p] # <<>>
    BY <1>2, <2>2, <2>3
  <2>5. IsStack(t) /\ t # <<>>
    BY <2>1, <2>2, <2>4, Pushed
  <2>6. ASSUME f.held = 0 /\ AllFree(u) => LocksFirst(f.todo),
               f.held = 0 /\ AllFree(u)
        PROVE  LocksFirst(caller.todo) /\ LocksFirst(callee.todo)
    <3>1. LocksFirst(f.todo)
      BY <2>6
    <3>2. NeedsNoMutex(Head(f.todo)) /\ LocksFirst(Tail(f.todo))
      <4>1. ~IsLock(Head(f.todo))
        BY <2>3 DEF IsLock
      <4> QED
        BY <2>3, <3>1, <4>1, LocksFirstTail
    <3>3. Head(f.todo).fn \in Careful
      BY <2>3, <3>2 DEF NeedsNoMutex
    <3>4. callee.todo = Program[Head(f.todo).fn]
      BY <2>1, <2>2 DEF Step
    <3> QED
      BY <2>1, <2>2, <3>2, <3>3, <3>4, ProgramAssumption
  <2>7. ASSUME SafeFrames(stack[p])
        PROVE  SafeFrames(s)
    <3>1. SafeFrames(u) /\ (f.held = 0 /\ AllFree(u) => LocksFirst(f.todo))
      BY <2>4, <2>7, SafePush
    <3>2. caller.held = f.held
      BY <2>1, <2>2
    <3>3. SafeFrames(t) /\ (AllFree(t) <=> f.held = 0 /\ AllFree(u))
      BY <2>1, <2>2, <2>4, <2>6, <3>1, <3>2, SafePush
    <3>4. callee.held = 0 /\ AllFree(t) => LocksFirst(callee.todo)
      BY <2>6, <3>1, <3>3
    <3> QED
      BY <2>1, <2>2, <2>5, <3>3, <3>4, SafePush
  <2>8. Outermost(s) = Outermost(stack[p])
    <3>1. caller.fn = f.fn
      BY <2>1, <2>2
    <3>2. Outermost(s) = Outermost(t)
      BY <2>1, <2>2, <2>5, SafePush
    <3>3. Outermost(t) = IF u = <<>> THEN f.fn ELSE Outermost(u)
      BY <2>1, <2>2, <2>4, <3>1, SafePush
    <3>4. Outermost(stack[p]) = IF u = <<>> THEN f.fn ELSE Outermost(u)
      BY <2>4, SafePush
    <3> QED
      BY <3>2, <3>3, <3>4
  <2>9. mutex.state # "unusable" => SafeStack(s)
    BY <1>2, <2>3, <2>4, <2>7, <2>8 DEF SafeStack
  <2>10. stack' = [stack EXCEPT ![p] = s] /\ mutex' = mutex
         /\ dead \subseteq dead'
    BY <2>1, <2>2
  <2> QED
    BY <1>0, <2>9, <2>10, SafeStep
<1>6. ASSUME Running(p), NEW g, g.fn = Top(p).fn, TopBecomes(p, g),
             mutex.state # "unusable", NEW u, u = Tail(stack[p]),
             g.held = 0 /\ AllFree(u) =>
               Top(p).held = 0 /\ (LocksFirst(Top(p).todo) => LocksFirst(g.todo))
      PROVE  SafeStack(<<g>> \o u)
  <2>1. PICK f, s : f = Top(p) /\ s = <<g>> \o u
    OBVIOUS
  <2>2. IsFrame(f) /\ IsStack(u) /\ stack[p] = <<f>> \o u /\ stack[p] # <<>>
        /\ SafeStack(stack[p])
    BY <1>2, <1>6, <2>1
  <2>3. IsFrame(g)
    BY <1>6 DEF TopBecomes
  <2>4. Outermost(s) = Outermost(stack[p])
    <3>1. Outermost(s) = IF u = <<>> THEN f.fn ELSE Outermost(u)
      BY <1>6, <2>1, <2>2, <2>3, SafePush
    <3>2. Outermost(stack[p]) = IF u = <<>> THEN f.fn ELSE Outermost(u)
      BY <2>2, SafePush
    <3> QED
      BY <3>1, <3>2
  <2>5. ASSUME SafeFrames(stack[p])
        PROVE  SafeFrames(s)
    <3>1. SafeFrames(u) /\ (f.held = 0 /\ AllFree(u) => LocksFirst(f.todo))
      BY <2>2, <2>5, SafePush
    <3>2. g.held = 0 /\ AllFree(u) => LocksFirst(g.todo)
      BY <1>6, <2>1, <3>1
    <3> QED
      BY <2>1, <2>2, <2>3, <3>1, <3>2, SafePush
  <2> QED
    BY <2>1, <2>2, <2>4, <2>5 DEF SafeStack
<1>7. CASE Locks(p)
  <2>1. PICK g : /\ Running(p) /\ Top(p).todo # <<>> /\ IsLock(Step(p))
                 /\ mutex.state # "unusable"
                 /\ mutex.owner \in {None, p} \cup dead
                 /\ g.fn = Top(p).fn /\ g.held = Top(p).held + 1
                 /\ g.todo = Tail(Top(p).todo)
                 /\ mutex' = Taken(p)
                 /\ TopBecomes(p, g)
                 /\ UNCHANGED dead
    BY <1>7 DEF Locks
  <2>2. PICK u : u = Tail(stack[p])
    OBVIOUS
  <2>3. g.held # 0
    <3>1. Top(p).held \in Nat
      BY <1>2, <2>1 DEF IsFrame
    <3> QED
      BY <2>1, <3>1
  <2>4. SafeStack(<<g>> \o u)
    BY <1>6, <2>1, <2>2, <2>3
  <2>5. PICK s : s = <<g>> \o u
    OBVIOUS
  <2>6. stack' = [stack EXCEPT ![p] = s] /\ dead \subseteq dead'
    BY <2>1, <2>2, <2>5 DEF TopBecomes
  <2> QED
    BY <1>0, <2>1, <2>4, <2>5, <2>6, SafeStep
<1>8. CASE Moves(p)
  <2>1. PICK g :
          /\ Running(p) /\ Top(p).todo # <<>>
          /\ IsLock(Step(p)) => mutex.state = "unusable"
          /\ g.fn = Top(p).fn /\ g.held = Top(p).held
          /\ Onward(p, g)
          /\ TopBecomes(p, g)
          /\ Edited(p)
          /\ UNCHANGED <<mutex, dead>>
    BY <1>8 DEF Moves
  <2>2. PICK u, f, t : u = Tail(stack[p]) /\ f = Top(p) /\ t = f.todo
    OBVIOUS
  <2>3. ASSUME mutex.state # "unusable", LocksFirst(t)
        PROVE  LocksFirst(g.todo)
    <3>1. t # <<>> /\ ~IsLock(Head(t))
      BY <2>1, <2>2, <2>3 DEF Step
    <3>2. /\ LocksFirst(Tail(t))
          /\ Head(t).op = "choose" => \A P \in Head(t).of : Straight(P)
      BY <2>3, <3>1, LocksFirstTail
    <3>3. CASE g.todo = Tail(Top(p).todo)
      BY <2>2, <3>2, <3>3
    <3>4. CASE /\ Step(p).op = "choose"
               /\ \E P \in Step(p).of : g.todo = P \o Tail(Top(p).todo)
      <4>1. PICK P \in Head(t).of : g.todo = P \o Tail(t)
        BY <2>2, <3>4 DEF Step
      <4>2. Straight(P)
        BY <2>2, <3>2, <3>4, <4>1 DEF Step
      <4>3. PICK r : r = Tail(t)
        OBVIOUS
      <4> QED
        BY <3>2, <4>1, <4>2, <4>3, LocksFirstConcat
    <3> QED
      BY <2>1, <3>3, <3>4 DEF Onward
  <2>4. mutex.state # "unusable" => SafeStack(<<g>> \o u)
    BY <1>6, <2>1, <2>2, <2>3
  <2>5. PICK s : s = <<g>> \o u
    OBVIOUS
  <2>6. stack' = [stack EXCEPT ![p] = s] /\ dead \subseteq dead'
    BY <2>1, <2>2, <2>5 DEF TopBecomes
  <2> QED
    BY <1>0, <2>1, <2>4, <2>5, <2>6, SafeStep
<1>9. CASE Dies(p)
  <2>1. /\ dead' = dead \cup {p} /\ mutex' = mutex
        /\ stack' = [stack EXCEPT ![p] = <<>>]
    BY <1>9 DEF Dies
  <2>2. SafeStack(<<>>)
    BY DEF SafeStack
  <2> QED
    BY <1>0, <2>1, <2>2, SafeStep
<1>10. CASE Rests
  BY <1>10 DEF Rests, SafeInv
<1> QED
  BY <1>1, <1>3, <1>4, <1>5, <1>7, <1>8, <1>9, <1>10 DEF Kind

LEMMA SafeInvariant == Spec => []SafeInv
<1>1. Init => SafeInv
  BY DEF Init, SafeInv, SafeStack
<1>2. LockInv /\ SafeInv /\ [Next]_vars => SafeInv'
  <2>1. ASSUME LockInv, SafeInv, NEW p \in Procs,
               CallApi(p) \/ TakeResult(p) \/ Kill(p) \/ Work(p)
        PROVE  SafeInv'
    BY <2>1, Kinds, KindKeepsSafe DEF LockInv
  <2>2. ASSUME SafeInv, UNCHANGED vars
        PROVE  SafeInv'
    BY <2>2 DEF SafeInv, vars
  <2> QED
    BY <2>1, <2>2 DEF Next
<1> QED
  BY <1>1, <1>2, LockInvariant, PTL DEF Spec

(* A process at an access to a file of the device owns the mutex, if the   *)
(* function it called is one that takes it.                                *)
LEMMA UserOwns ==
  ASSUME LockInv, SafeInv, mutex.state # "unusable",
         NEW p \in Procs, InUse(p), ApiCall(p) \notin Unlocked
  PROVE  mutex.owner = p
<1>1. Running(p) /\ Top(p).todo # <<>> /\ UsesDevice(Step(p))
  BY DEF InUse, Ready
<1>2. stack[p] # <<>> /\ p \notin dead
  BY <1>1 DEF Running
<1>3. PICK s, u, f : s = stack[p] /\ u = Tail(s) /\ f = Head(s)
  OBVIOUS
<1>4. IsStack(s) /\ IsFrame(f) /\ IsStack(u) /\ s = <<f>> \o u
  BY <1>2, <1>3, Popped DEF LockInv, StackInv
<1>5. SafeFrames(s)
  BY <1>2, <1>3 DEF SafeInv, SafeStack, Outermost, ApiCall
<1>6. ~AllFree(s)
  <2> SUFFICES ASSUME AllFree(s)
               PROVE  FALSE
    OBVIOUS
  <2>1. LocksFirst(f.todo)
    BY <1>4, <1>5, SafePush
  <2>2. NeedsNoMutex(Head(f.todo))
    BY <1>1, <1>3, <2>1, LocksFirstTail DEF Top
  <2> QED
    BY <1>1, <1>3, <2>2 DEF NeedsNoMutex, Step, Top
<1>7. HeldIn(s) # 0
  BY <1>4, <1>6, HoldsSome
<1> QED
  BY <1>2, <1>3, <1>7 DEF LockInv, LocksReturned

(* Two processes are never at an access to the files of one device as long *)
(* as the mutex works, but for the functions that take no mutex: for any   *)
(* number of processes, killed at any step, and for calls made of calls.   *)
(* What is used of the programs is ProgramAssumption.                      *)
THEOREM AccessesExclude == Spec => []AccessExclusive
<1>1. LockInv /\ SafeInv => AccessExclusive
  BY UserOwns DEF AccessExclusive
<1> QED
  BY <1>1, LockInvariant, SafeInvariant, PTL

-----------------------------------------------------------------------------
(* A commit of the overdrive table takes no other process's edits along.   *)

\* Only the outermost function may be one that edits the table.
CalmFrames(s) ==
  \A i \in 1 .. Len(s) :
    \/ NoSetter(s[i].todo)
    \/ i = Len(s) /\ s[i].fn \in Setters /\ IsSetter(s[i].todo)
OuterHeld(s) == s[Len(s)].held

\* A process at work on the table took the mutex in its outermost function.
TableInv ==
  /\ edits \subseteq Procs
  /\ \A p \in Procs : CalmFrames(stack[p])
  /\ mutex.state # "unusable" =>
       \A p \in edits \ given_up :
         p \notin dead /\ stack[p] # <<>> /\ OuterHeld(stack[p]) # 0

(* What is left of a program that leaves the table alone does so too.      *)
LEMMA NoSetterTail ==
  ASSUME NEW t, NoSetter(t), t # <<>>
  PROVE  /\ LeavesTable(Head(t)) /\ NoSetter(Tail(t))
         /\ Head(t).op = "choose" => \A P \in Head(t).of : CalmChoice(P)
<1>1. /\ Len(t) \in Nat \ {0} /\ DOMAIN t = 1 .. Len(t)
      /\ Head(t) = t[1] /\ IsProgram(Tail(t))
      /\ DOMAIN Tail(t) = 1 .. Len(t) - 1
      /\ \A i \in 1 .. Len(t) - 1 : Tail(t)[i] = t[i + 1]
  BY ProgramParts DEF NoSetter
<1>2. 1 \in DOMAIN t
  BY <1>1
<1>3. \A i \in 1 .. Len(t) - 1 : i + 1 \in DOMAIN t /\ Tail(t)[i] = t[i + 1]
  BY <1>1
<1> QED
  BY <1>1, <1>2, <1>3 DEF NoSetter

LEMMA IsSetterTail ==
  ASSUME NEW t, IsSetter(t), t # <<>>
  PROVE  /\ OverdriveStep(Head(t)) => UsesDevice(Head(t))
         /\ CallsNoSetter(Head(t)) /\ Head(t).op # "choose"
         /\ IsSetter(Tail(t))
<1>1. /\ Len(t) \in Nat \ {0} /\ DOMAIN t = 1 .. Len(t)
      /\ Head(t) = t[1] /\ IsProgram(Tail(t))
      /\ DOMAIN Tail(t) = 1 .. Len(t) - 1
      /\ \A i \in 1 .. Len(t) - 1 : Tail(t)[i] = t[i + 1]
  BY ProgramParts DEF IsSetter
<1>2. 1 \in DOMAIN t
  BY <1>1
<1>3. \A i \in 1 .. Len(t) - 1 : i + 1 \in DOMAIN t /\ Tail(t)[i] = t[i + 1]
  BY <1>1
<1> QED
  BY <1>1, <1>2, <1>3 DEF IsSetter

LEMMA NoSetterConcat ==
  ASSUME NEW P, CalmChoice(P), NEW t, NoSetter(t)
  PROVE  NoSetter(P \o t)
<1> DEFINE c == P \o t
           m == Len(P)
           n == Len(t)
<1>1. IsProgram(P) /\ IsProgram(t)
  BY DEF CalmChoice, NoSetter
<1>2. /\ IsProgram(c) /\ DOMAIN c = 1 .. m + n
      /\ m \in Nat /\ DOMAIN P = 1 .. m /\ n \in Nat /\ DOMAIN t = 1 .. n
  BY <1>1, ProgramConcat
<1>3. \A i \in 1 .. m + n : c[i] = IF i <= m THEN P[i] ELSE t[i - m]
  BY <1>1, ProgramConcat
<1> HIDE DEF c, m, n
<1>4. \A Q : Calm(Q) => CalmChoice(Q)
  BY DEF Calm, CalmChoice
<1>5. ASSUME NEW i \in 1 .. m + n
      PROVE  /\ LeavesTable(c[i])
             /\ c[i].op = "choose" => \A Q \in c[i].of : CalmChoice(Q)
  <2>1. CASE i <= m
    <3>1. i \in 1 .. m
      BY <1>2, <2>1
    <3>2. i \in DOMAIN P /\ c[i] = P[i]
      BY <1>2, <1>3, <2>1, <3>1
    <3> QED
      BY <1>4, <3>2 DEF CalmChoice
  <2>2. CASE ~(i <= m)
    <3>1. i - m \in 1 .. n
      BY <1>2, <2>2
    <3>2. i - m \in DOMAIN t /\ c[i] = t[i - m]
      BY <1>2, <1>3, <2>2, <3>1
    <3> QED
      BY <3>2 DEF NoSetter
  <2> QED
    BY <2>1, <2>2
<1>6. NoSetter(c)
  BY <1>2, <1>5 DEF NoSetter
<1> QED
  BY <1>6 DEF c

LEMMA ReturnNoSetter ==
  ASSUME NEW s
  PROVE  NoSetter(Return(s))
<1> DEFINE st == [op |-> "return", ret |-> s]
           t == <<st>>
<1>1. Return(s) = t
  BY DEF Return
<1>2. LeavesTable(st) /\ st.op # "choose"
  BY DEF LeavesTable, OverdriveStep, CallsNoSetter
<1> HIDE DEF st
<1>3. Len(t) = 1 /\ DOMAIN t = 1 .. 1 /\ t[1] = st /\ IsProgram(t)
  BY DEF IsProgram
<1>4. \A i \in DOMAIN t : LeavesTable(t[i]) /\ t[i].op # "choose"
  BY <1>2, <1>3
<1>5. NoSetter(t)
  BY <1>3, <1>4 DEF NoSetter
<1> QED
  BY <1>1, <1>5

(* A frame on a stack.                                                     *)
LEMMA CalmPush ==
  ASSUME NEW s, IsStack(s), NEW f, IsFrame(f)
  PROVE  /\ CalmFrames(<<f>> \o s) <=>
              /\ CalmFrames(s)
              /\ \/ NoSetter(f.todo)
                 \/ s = <<>> /\ f.fn \in Setters /\ IsSetter(f.todo)
         /\ <<f>> \o s # <<>>
         /\ OuterHeld(<<f>> \o s) = IF s = <<>> THEN f.held ELSE OuterHeld(s)
<1> DEFINE t == <<f>> \o s
           n == Len(s)
           One(x, i, l) == \/ NoSetter(x.todo)
                           \/ i = l /\ x.fn \in Setters /\ IsSetter(x.todo)
<1>1. /\ t # <<>> /\ Len(t) = n + 1 /\ t[1] = f
      /\ \A i \in 1 .. n : t[i + 1] = s[i]
  BY Pushed
<1>2. n \in Nat /\ (n = 0 <=> s = <<>>)
  <2>1. n \in Nat
    BY StackFrames
  <2>2. s = <<>> => n = 0
    OBVIOUS
  <2>3. s # <<>> => n # 0
    BY Popped
  <2> QED
    BY <2>1, <2>2, <2>3
<1>3. CalmFrames(t) <=> \A i \in 1 .. Len(t) : One(t[i], i, Len(t))
  BY DEF CalmFrames
<1>4. CalmFrames(s) <=> \A i \in 1 .. n : One(s[i], i, n)
  BY DEF CalmFrames
<1>5. One(f, 1, n + 1) <=>
        \/ NoSetter(f.todo)
        \/ s = <<>> /\ f.fn \in Setters /\ IsSetter(f.todo)
  <2>1. 1 = n + 1 <=> s = <<>>
    BY <1>2
  <2> HIDE DEF n
  <2> QED
    BY <2>1
<1>6. \A i \in 1 .. n : One(s[i], i + 1, n + 1) <=> One(s[i], i, n)
  <2>1. \A i \in 1 .. n : i + 1 = n + 1 <=> i = n
    BY <1>2
  <2> HIDE DEF n
  <2> QED
    BY <2>1
<1> HIDE DEF t, n, One
<1>7. CalmFrames(t) <=> CalmFrames(s) /\ One(f, 1, n + 1)
  <2>1. ASSUME CalmFrames(t)
        PROVE  CalmFrames(s) /\ One(f, 1, n + 1)
    <3>1. 1 \in 1 .. Len(t) /\ \A i \in 1 .. n : i + 1 \in 1 .. Len(t)
      BY <1>1, <1>2
    <3>2. One(f, 1, n + 1)
      BY <1>1, <1>3, <2>1, <3>1
    <3>3. \A i \in 1 .. n : One(s[i], i + 1, n + 1)
      BY <1>1, <1>3, <2>1, <3>1
    <3> QED
      BY <1>4, <1>6, <3>2, <3>3
  <2>2. ASSUME CalmFrames(s), One(f, 1, n + 1), NEW i \in 1 .. n + 1
        PROVE  One(t[i], i, n + 1)
    <3>1. CASE i = 1
      BY <1>1, <2>2, <3>1
    <3>2. CASE i # 1
      <4>1. PICK j \in 1 .. n : i = j + 1
        <5>1. i - 1 \in 1 .. n /\ i = (i - 1) + 1
          BY <1>2, <3>2
        <5> QED
          BY <5>1
      <4>2. One(s[j], j + 1, n + 1)
        BY <1>4, <1>6, <2>2
      <4> QED
        BY <1>1, <4>1, <4>2
    <3> QED
      BY <3>1, <3>2
  <2> QED
    BY <1>1, <1>3, <2>1, <2>2
<1>8. OuterHeld(t) = IF s = <<>> THEN f.held ELSE OuterHeld(s)
  <2>1. CASE s = <<>>
    BY <1>1, <1>2, <2>1 DEF OuterHeld
  <2>2. CASE s # <<>>
    <3>1. n \in 1 .. n
      BY <1>2, <2>2
    <3>2. t[n + 1] = s[n]
      BY <1>1, <3>1
    <3> QED
      BY <1>1, <2>2, <3>2 DEF OuterHeld, n
  <2> QED
    BY <2>1, <2>2
<1> QED
  BY <1>1, <1>5, <1>7, <1>8 DEF t
(* Who edits the table, or commits the edits, is in the outermost function *)
(* of its call and took the mutex there.                                   *)
LEMMA EditorLocked ==
  ASSUME LockInv, SafeInv, TableInv, mutex.state # "unusable",
         NEW p \in Procs, Ready(p, "write"), OverdriveStep(Step(p))
  PROVE  /\ mutex.owner = p
         /\ Tail(stack[p]) = <<>> /\ Top(p).held # 0
<1>1. /\ stack[p] # <<>> /\ p \notin dead
      /\ Top(p).todo # <<>> /\ Step(p).op = "write"
  BY DEF Ready, Running
<1>2. PICK s, u, f : s = stack[p] /\ u = Tail(s) /\ f = Head(s)
  OBVIOUS
<1>3. IsStack(s) /\ IsFrame(f) /\ IsStack(u) /\ s = <<f>> \o u
  BY <1>1, <1>2, Popped DEF LockInv, StackInv
<1>4. Step(p) = Head(f.todo) /\ f.todo # <<>> /\ f = Top(p)
  BY <1>1, <1>2 DEF Step, Top
<1>5. ~NoSetter(f.todo)
  BY <1>4, NoSetterTail DEF LeavesTable
<1>6. CalmFrames(<<f>> \o u)
  BY <1>2, <1>3 DEF TableInv
<1>7. u = <<>> /\ f.fn \in Setters /\ IsSetter(f.todo)
  BY <1>3, <1>5, <1>6, CalmPush
<1>8. UsesDevice(Step(p))
  BY <1>4, <1>7, IsSetterTail
<1>9. ApiCall(p) = f.fn /\ f.fn \notin Unlocked
  <2>1. Outermost(<<f>> \o u) = f.fn
    BY <1>3, <1>7, SafePush
  <2>2. f.fn \in Careful
    BY <1>7, ProgramAssumption
  <2> QED
    BY <1>2, <1>3, <2>1, <2>2 DEF Outermost, ApiCall, Careful
<1>10. mutex.owner = p
  BY <1>8, <1>9, UserOwns DEF InUse
<1>11. f.held # 0
  <2> SUFFICES ASSUME f.held = 0
               PROVE  FALSE
    OBVIOUS
  <2>1. SafeFrames(<<f>> \o u)
    BY <1>1, <1>2, <1>3, <1>9 DEF SafeInv, SafeStack, Outermost, ApiCall
  <2>2. AllFree(u)
    <3>1. Len(u) = 0
      BY <1>7
    <3> QED
      BY <3>1 DEF AllFree
  <2>3. LocksFirst(f.todo)
    BY <1>3, <2>1, <2>2, SafePush
  <2>4. ~IsLock(Head(f.todo))
    BY <1>1, <1>4 DEF IsLock
  <2>5. NeedsNoMutex(Head(f.todo))
    BY <1>4, <2>3, <2>4, LocksFirstTail
  <2> QED
    BY <1>4, <1>8, <2>5 DEF NeedsNoMutex
<1> QED
  BY <1>2, <1>4, <1>7, <1>10, <1>11

(* A process changes its stack; others do not start an edit meanwhile.     *)
LEMMA TableStep ==
  ASSUME StackInv, TableInv, NEW p \in Procs, NEW s,
         stack' = [stack EXCEPT ![p] = s], dead' \subseteq dead \cup {p},
         CalmFrames(s), edits' \subseteq Procs,
         mutex'.state # "unusable" =>
           /\ mutex.state # "unusable"
           /\ (edits' \ given_up') \ {p} \subseteq edits \ given_up
           /\ p \in edits' \ given_up' =>
                p \notin dead' /\ s # <<>> /\ OuterHeld(s) # 0
  PROVE  TableInv'
<1>1. stack'[p] = s /\ \A q \in Procs \ {p} : stack'[q] = stack[q]
  BY DEF StackInv
<1>2. ASSUME NEW q \in Procs
      PROVE  CalmFrames(stack'[q])
  <2>1. CASE q = p
    BY <1>1, <2>1
  <2>2. CASE q # p
    BY <1>1, <2>2 DEF TableInv
  <2> QED
    BY <2>1, <2>2
<1>3. ASSUME mutex'.state # "unusable", NEW q \in edits' \ given_up'
      PROVE  q \notin dead' /\ stack'[q] # <<>> /\ OuterHeld(stack'[q]) # 0
  <2>1. CASE q = p
    BY <1>1, <1>3, <2>1
  <2>2. CASE q # p
    <3>1. q \in edits \ given_up /\ mutex.state # "unusable"
      BY <1>3, <2>2
    <3>2. q \notin dead /\ stack[q] # <<>> /\ OuterHeld(stack[q]) # 0
      BY <3>1 DEF TableInv
    <3>3. q \in Procs
      BY <1>3
    <3>4. stack'[q] = stack[q]
      BY <1>1, <2>2, <3>3
    <3> QED
      BY <2>2, <3>2, <3>4
  <2> QED
    BY <2>1, <2>2
<1> QED
  BY <1>2, <1>3 DEF TableInv

(* The innermost frame f on u makes place for g.                           *)
Follows(f, g) ==
  /\ IsFrame(f) /\ IsFrame(g) /\ g.fn = f.fn
  /\ NoSetter(f.todo) => NoSetter(g.todo)
  /\ IsSetter(f.todo) => IsSetter(g.todo) \/ NoSetter(g.todo)

LEMMA CalmReplaced ==
  ASSUME NEW r, NEW f, NEW u, NEW g, NEW w, IsStack(u),
         r = <<f>> \o u, w = <<g>> \o u, CalmFrames(r), Follows(f, g)
  PROVE  /\ CalmFrames(w) /\ w # <<>>
         /\ u = <<>> => OuterHeld(w) = g.held
         /\ u # <<>> => OuterHeld(w) = OuterHeld(r)
BY CalmPush DEF Follows

(* The stacks stay calm, and who is at work on the table has the mutex,    *)
(* whatever step a process takes.                                          *)
LEMMA KindKeepsTable ==
  ASSUME LockInv, SafeInv, TableInv, NEW p \in Procs, Kind(p)
  PROVE  TableInv'
<1>0. StackInv /\ MutexInv /\ IsStack(stack[p]) /\ edits \subseteq Procs
  BY DEF LockInv, StackInv, TableInv
<1>1. CASE Enters(p)
  <2>1. PICK f : /\ p \notin dead /\ stack[p] = <<>>
                 /\ IsFrame(f) /\ f.fn \in Workload[p]
                 /\ f.todo = Program[f.fn] /\ f.held = 0
                 /\ stack' = [stack EXCEPT ![p] = <<f>>]
                 /\ UNCHANGED <<mutex, dead, edits, given_up>>
    BY <1>1 DEF Enters
  <2>2. f.fn \in DOMAIN Program
    BY <2>1, CallsAssumption DEF ApiFunctions
  <2>3. NoSetter(f.todo) \/ (f.fn \in Setters /\ IsSetter(f.todo))
    BY <2>1, <2>2, ProgramAssumption
  <2>4. Len(<<f>>) = 1 /\ <<f>>[1] = f
    OBVIOUS
  <2>5. CalmFrames(<<f>>)
    BY <2>3, <2>4 DEF CalmFrames
  <2>6. mutex.state # "unusable" => p \notin edits \ given_up
    BY <2>1 DEF TableInv
  <2> QED
    BY <1>0, <2>1, <2>5, <2>6, TableStep
<1>2. ASSUME Running(p)
      PROVE  /\ stack[p] # <<>> /\ p \notin dead
             /\ Top(p) = Head(stack[p])
             /\ IsFrame(Top(p)) /\ IsStack(Tail(stack[p]))
             /\ stack[p] = <<Top(p)>> \o Tail(stack[p])
             /\ CalmFrames(stack[p])
             /\ mutex.state # "unusable" /\ p \in edits \ given_up =>
                  OuterHeld(stack[p]) # 0
  <2>1. stack[p] # <<>> /\ p \notin dead
    BY <1>2 DEF Running
  <2> QED
    BY <1>0, <2>1, Popped DEF Top, TableInv
<1>3. CASE Ends(p)
  <2>1. /\ mutex' = Released(Top(p).held)
        /\ stack' = [stack EXCEPT ![p] = <<>>]
        /\ GivesUp(p)
        /\ UNCHANGED dead
    BY <1>3 DEF Ends
  <2>2. PICK n : n = Top(p).held
    OBVIOUS
  <2>3. mutex'.state # "unusable" => mutex.state # "unusable"
    BY <1>0, <2>1, <2>2, StaysUnusable
  <2>4. CalmFrames(<<>>)
    BY DEF CalmFrames
  <2>5. edits' \subseteq Procs /\ edits' \ given_up' = (edits \ given_up) \ {p}
    BY <1>0, <2>1 DEF GivesUp
  <2> QED
    BY <1>0, <2>1, <2>3, <2>4, <2>5, TableStep
<1>4. CASE Dies(p)
  <2>1. /\ mutex' = mutex /\ GivesUp(p)
        /\ stack' = [stack EXCEPT ![p] = <<>>]
        /\ dead' = dead \cup {p}
    BY <1>4 DEF Dies
  <2>2. CalmFrames(<<>>)
    BY DEF CalmFrames
  <2>3. edits' \subseteq Procs /\ edits' \ given_up' = (edits \ given_up) \ {p}
    BY <1>0, <2>1 DEF GivesUp
  <2> QED
    BY <1>0, <2>1, <2>2, <2>3, TableStep
<1>6. CASE Returns(p)
  <2>1. PICK rest : rest = Tail(stack[p])
    OBVIOUS
  <2>2. PICK g : /\ Running(p) /\ rest # <<>>
                 /\ mutex' = Released(Top(p).held)
                 /\ IsFrame(g) /\ Resumed(Head(rest), g)
                 /\ stack' = [stack EXCEPT ![p] = <<g>> \o Tail(rest)]
                 /\ UNCHANGED <<dead, edits, given_up>>
    BY <1>6, <2>1 DEF Returns
  <2>3. PICK n, e, f, u, s : /\ n = Top(p).held /\ e = Top(p)
                             /\ f = Head(rest) /\ u = Tail(rest)
                             /\ s = <<g>> \o u
    OBVIOUS
  <2>4. mutex'.state # "unusable" => mutex.state # "unusable"
    BY <1>0, <2>2, <2>3, StaysUnusable
  <2>5. IsFrame(e) /\ IsStack(rest) /\ stack[p] = <<e>> \o rest
    BY <1>2, <2>1, <2>2, <2>3
  <2>6. IsFrame(f) /\ IsStack(u) /\ rest = <<f>> \o u
    BY <2>2, <2>3, <2>5, Popped
  <2>7. CalmFrames(rest) /\ OuterHeld(stack[p]) = OuterHeld(rest)
    BY <1>2, <2>2, <2>5, CalmPush
  <2>8. g.held = f.held /\ Follows(f, g)
    BY <2>2, <2>3, <2>6, ReturnNoSetter DEF Resumed, Follows
  <2>9. /\ CalmFrames(s) /\ s # <<>>
        /\ u = <<>> => OuterHeld(s) = g.held
        /\ u # <<>> => OuterHeld(s) = OuterHeld(rest)
    BY ZenonT(30), <2>3, <2>6, <2>7, <2>8, CalmReplaced
  <2>10. OuterHeld(rest) = IF u = <<>> THEN f.held ELSE OuterHeld(u)
    BY ONLY <2>6, CalmPush
  <2>11. OuterHeld(s) = OuterHeld(stack[p])
    BY <2>7, <2>8, <2>9, <2>10
  <2>12. /\ stack' = [stack EXCEPT ![p] = s] /\ dead' = dead
         /\ edits' = edits /\ given_up' = given_up
    BY <2>2, <2>3
  <2>13. mutex'.state # "unusable" /\ p \in edits' \ given_up' =>
           p \notin dead' /\ s # <<>> /\ OuterHeld(s) # 0
    BY <1>2, <2>2, <2>4, <2>9, <2>11, <2>12
  <2> QED
    BY <1>0, <2>4, <2>9, <2>12, <2>13, TableStep

<1>7. CASE Pushes(p)
  <2>1. PICK callee, caller :
          /\ Ready(p, "call")
          /\ IsFrame(callee) /\ IsFrame(caller)
          /\ callee.fn = Step(p).fn /\ callee.todo = Program[Step(p).fn]
          /\ callee.held = 0
          /\ caller.fn = Top(p).fn /\ caller.held = Top(p).held
          /\ caller.todo = Tail(Top(p).todo)
          /\ stack' = [stack EXCEPT
                   ![p] = <<callee>> \o (<<caller>> \o Tail(stack[p]))]
          /\ UNCHANGED <<mutex, dead, edits, given_up>>
    BY <1>7 DEF Pushes
  <2>2. PICK f, u, t, s : /\ f = Top(p) /\ u = Tail(stack[p])
                          /\ t = <<caller>> \o u /\ s = <<callee>> \o t
    OBVIOUS
  <2>3. Running(p) /\ f.todo # <<>> /\ Head(f.todo).op = "call"
    BY <2>1, <2>2 DEF Ready, Step
  <2>4. IsFrame(f) /\ IsStack(u) /\ stack[p] = <<f>> \o u
    BY <1>2, <2>2, <2>3
  <2>5. IsStack(t) /\ t # <<>>
    BY <2>1, <2>2, <2>4, Pushed
  <2>6. CalmFrames(u) /\ (NoSetter(f.todo) \/ IsSetter(f.todo))
    BY <1>2, <2>3, <2>4, CalmPush
  <2>7. Head(f.todo).fn \in DOMAIN Program \ Setters
    BY <2>3, <2>6, NoSetterTail, IsSetterTail DEF LeavesTable, CallsNoSetter
  <2>8. NoSetter(callee.todo)
    <3>1. callee.todo = Program[Head(f.todo).fn]
      BY <2>1, <2>2 DEF Step
    <3> QED
      BY <2>7, <3>1, ProgramAssumption
  <2>9. caller.held = f.held /\ Follows(f, caller)
    BY <2>1, <2>2, <2>3, <2>4, NoSetterTail, IsSetterTail DEF Follows
  <2>10. /\ CalmFrames(t)
         /\ u = <<>> => OuterHeld(t) = caller.held
         /\ u # <<>> => OuterHeld(t) = OuterHeld(stack[p])
    <3>1. PICK r : r = stack[p]
      OBVIOUS
    <3>2. CalmFrames(r) /\ r = <<f>> \o u
      BY <1>2, <2>3, <2>4, <3>1
    <3>3. t = <<caller>> \o u /\ IsStack(u) /\ Follows(f, caller)
      BY <2>2, <2>4, <2>9
    <3>4. /\ CalmFrames(t)
          /\ u = <<>> => OuterHeld(t) = caller.held
          /\ u # <<>> => OuterHeld(t) = OuterHeld(r)
      BY <3>2, <3>3, CalmReplaced
    <3> QED
      BY <3>1, <3>4
  <2>11. CalmFrames(s) /\ s # <<>> /\ OuterHeld(s) = OuterHeld(t)
    BY <2>1, <2>2, <2>5, <2>8, <2>10, CalmPush
  <2>12. OuterHeld(stack[p]) = IF u = <<>> THEN f.held ELSE OuterHeld(u)
    BY <2>4, CalmPush
  <2>13. OuterHeld(s) = OuterHeld(stack[p])
    BY <2>9, <2>10, <2>11, <2>12
  <2>14. /\ stack' = [stack EXCEPT ![p] = s] /\ dead' = dead
         /\ edits' = edits /\ given_up' = given_up /\ mutex' = mutex
    BY <2>1, <2>2
  <2>15. mutex.state # "unusable" /\ p \in edits' \ given_up' =>
           p \notin dead' /\ s # <<>> /\ OuterHeld(s) # 0
    BY <1>2, <2>3, <2>11, <2>13, <2>14
  <2> QED
    BY <1>0, <2>11, <2>14, <2>15, TableStep
<1>8. CASE Locks(p)
  <2>1. PICK g : /\ Running(p) /\ Top(p).todo # <<>> /\ IsLock(Step(p))
                 /\ mutex.state # "unusable"
                 /\ mutex.owner \in {None, p} \cup dead
                 /\ g.fn = Top(p).fn /\ g.held = Top(p).held + 1
                 /\ g.todo = Tail(Top(p).todo)
                 /\ mutex' = Taken(p)
                 /\ TopBecomes(p, g)
                 /\ UNCHANGED <<dead, edits, given_up>>
    BY <1>8 DEF Locks
  <2>2. PICK u, f, s : u = Tail(stack[p]) /\ f = Top(p) /\ s = <<g>> \o u
    OBVIOUS
  <2>3. IsFrame(f) /\ IsStack(u) /\ stack[p] = <<f>> \o u /\ IsFrame(g)
    BY <1>2, <2>1, <2>2 DEF TopBecomes
  <2>4. Follows(f, g)
    BY <2>1, <2>2, <2>3, NoSetterTail, IsSetterTail DEF Follows
  <2>5. /\ CalmFrames(s) /\ s # <<>>
        /\ u = <<>> => OuterHeld(s) = g.held
        /\ u # <<>> => OuterHeld(s) = OuterHeld(stack[p])
    <3>1. PICK r : r = stack[p]
      OBVIOUS
    <3>2. CalmFrames(r) /\ r = <<f>> \o u
      BY <1>2, <2>1, <2>3, <3>1
    <3>3. Follows(f, g)
      BY <2>4
    <3>4. s = <<g>> \o u /\ IsStack(u)
      BY <2>2, <2>3
    <3>5. /\ CalmFrames(s) /\ s # <<>>
          /\ u = <<>> => OuterHeld(s) = g.held
          /\ u # <<>> => OuterHeld(s) = OuterHeld(r)
      BY <3>2, <3>3, <3>4, CalmReplaced
    <3> QED
      BY <3>1, <3>5
  <2>6. g.held # 0
    <3>1. f.held \in Nat /\ g.held = f.held + 1
      BY <2>1, <2>2, <2>3 DEF IsFrame
    <3> QED
      BY <3>1
  <2>7. /\ stack' = [stack EXCEPT ![p] = s] /\ dead' = dead
        /\ edits' = edits /\ given_up' = given_up
    BY <2>1, <2>2 DEF TopBecomes
  <2>8. p \in edits' \ given_up' =>
          p \notin dead' /\ s # <<>> /\ OuterHeld(s) # 0
    BY <1>2, <2>1, <2>5, <2>6, <2>7
  <2> QED
    BY <1>0, <2>1, <2>5, <2>7, <2>8, TableStep
<1>9. CASE Moves(p)
  <2>1. PICK g :
          /\ Running(p) /\ Top(p).todo # <<>>
          /\ IsLock(Step(p)) => mutex.state = "unusable"
          /\ g.fn = Top(p).fn /\ g.held = Top(p).held
          /\ Onward(p, g)
          /\ TopBecomes(p, g)
          /\ Edited(p)
          /\ UNCHANGED <<mutex, dead>>
    BY <1>9 DEF Moves
  <2>2. PICK u, f, t, s : /\ u = Tail(stack[p]) /\ f = Top(p) /\ t = f.todo
                          /\ s = <<g>> \o u
    OBVIOUS
  <2>3. IsFrame(f) /\ IsStack(u) /\ stack[p] = <<f>> \o u /\ IsFrame(g)
    BY <1>2, <2>1, <2>2 DEF TopBecomes
  <2>4. t # <<>> /\ Step(p) = Head(t)
    BY <2>1, <2>2 DEF Step
  <2>5. /\ NoSetter(t) => NoSetter(g.todo)
        /\ IsSetter(t) => IsSetter(g.todo) \/ NoSetter(g.todo)
    <3>1. CASE g.todo = Tail(Top(p).todo)
      BY <2>2, <2>4, <3>1, NoSetterTail, IsSetterTail
    <3>2. CASE /\ Step(p).op = "choose"
               /\ \E P \in Step(p).of : g.todo = P \o Tail(Top(p).todo)
      <4>1. PICK P \in Head(t).of : g.todo = P \o Tail(t)
        BY <2>2, <2>4, <3>2
      <4>2. ~IsSetter(t)
        BY <2>4, <3>2, IsSetterTail
      <4>3. PICK r : r = Tail(t)
        OBVIOUS
      <4>4. NoSetter(t) => CalmChoice(P) /\ NoSetter(r)
        BY <2>4, <3>2, <4>1, <4>3, NoSetterTail
      <4> QED
        BY <4>1, <4>2, <4>3, <4>4, NoSetterConcat
    <3> QED
      BY <2>1, <3>1, <3>2 DEF Onward
  <2>6. /\ CalmFrames(s) /\ s # <<>>
        /\ u = <<>> => OuterHeld(s) = g.held
        /\ u # <<>> => OuterHeld(s) = OuterHeld(stack[p])
    <3>1. PICK r : r = stack[p]
      OBVIOUS
    <3>2. CalmFrames(r) /\ r = <<f>> \o u
      BY <1>2, <2>1, <2>3, <3>1
    <3>3. Follows(f, g)
      BY <2>1, <2>2, <2>3, <2>5 DEF Follows
    <3>4. s = <<g>> \o u /\ IsStack(u)
      BY <2>2, <2>3
    <3>5. /\ CalmFrames(s) /\ s # <<>>
          /\ u = <<>> => OuterHeld(s) = g.held
          /\ u # <<>> => OuterHeld(s) = OuterHeld(r)
      BY <3>2, <3>3, <3>4, CalmReplaced
    <3> QED
      BY <3>1, <3>5
  <2>7. OuterHeld(s) = OuterHeld(stack[p])
    <3>1. OuterHeld(stack[p]) = IF u = <<>> THEN f.held ELSE OuterHeld(u)
      BY <2>3, CalmPush
    <3>2. g.held = f.held
      BY <2>1, <2>2
    <3> QED
      BY <2>6, <3>1, <3>2
  <2>8. /\ stack' = [stack EXCEPT ![p] = s] /\ dead' = dead
        /\ mutex' = mutex
    BY <2>1, <2>2 DEF TopBecomes
  <2>9. CASE UNCHANGED <<edits, given_up>>
    <3>1. mutex.state # "unusable" /\ p \in edits' \ given_up' =>
            p \notin dead' /\ s # <<>> /\ OuterHeld(s) # 0
      BY <1>2, <2>1, <2>6, <2>7, <2>8, <2>9
    <3> QED
      BY <1>0, <2>6, <2>8, <2>9, <3>1, TableStep
  <2>10. CASE /\ Step(p).op = "write" /\ Step(p).val = "edit"
              /\ edits' = edits \cup {p} /\ given_up' = given_up \ {p}
    <3>1. Ready(p, "write") /\ OverdriveStep(Step(p))
      BY <2>1, <2>10 DEF Ready, OverdriveStep
    <3>2. mutex.state # "unusable" =>
            p \notin dead' /\ s # <<>> /\ OuterHeld(s) # 0
      <4>1. mutex.state # "unusable" => u = <<>> /\ f.held # 0
        BY <2>2, <3>1, EditorLocked
      <4>2. g.held = f.held
        BY <2>1, <2>2
      <4> QED
        BY <1>2, <2>1, <2>6, <2>8, <4>1, <4>2
    <3>3. /\ edits' \subseteq Procs
          /\ (edits' \ given_up') \ {p} \subseteq edits \ given_up
      BY <1>0, <2>10
    <3> QED
      BY <1>0, <2>6, <2>8, <3>2, <3>3, TableStep
  <2>11. CASE edits' = {} /\ given_up' = {}
    BY <1>0, <2>6, <2>8, <2>11, TableStep
  <2> QED
    BY <2>1, <2>9, <2>10, <2>11 DEF Edited
<1>10. CASE Rests
  BY <1>10 DEF Rests, TableInv
<1> QED
  BY <1>1, <1>3, <1>4, <1>6, <1>7, <1>8, <1>9, <1>10 DEF Kind

LEMMA TableInvariant == Spec => []TableInv
<1>1. Init => TableInv
  <2>1. CalmFrames(<<>>)
    BY DEF CalmFrames
  <2> QED
    BY <2>1 DEF Init, TableInv
<1>2. LockInv /\ SafeInv /\ TableInv /\ [Next]_vars => TableInv'
  <2>1. ASSUME LockInv, SafeInv, TableInv, NEW p \in Procs,
               CallApi(p) \/ TakeResult(p) \/ Kill(p) \/ Work(p)
        PROVE  TableInv'
    BY <2>1, Kinds, KindKeepsTable DEF LockInv
  <2>2. ASSUME TableInv, UNCHANGED vars
        PROVE  TableInv'
    BY <2>2 DEF TableInv, vars
  <2> QED
    BY <2>1, <2>2 DEF Next
<1> QED
  BY <1>1, <1>2, LockInvariant, SafeInvariant, PTL DEF Spec

(* A commit of the overdrive table never commits the edits of a process    *)
(* that is still at work on them, as long as the mutex works: both would   *)
(* own the mutex, which has one owner.  For any number of processes,       *)
(* killed at any step, and setters whose writes fail halfway.              *)
THEOREM CommitsOwn == Spec => []CommitsOwnEdits
<1>1. ASSUME LockInv, SafeInv, TableInv, NEW p \in Procs,
             Ready(p, "write"), Step(p).val = "c", mutex.state # "unusable",
             NEW q \in edits \ given_up
      PROVE  q = p
  <2>1. OverdriveStep(Step(p))
    BY <1>1 DEF OverdriveStep, Ready
  <2>2. mutex.owner = p
    BY <1>1, <2>1, EditorLocked
  <2>3. q \in Procs /\ q \notin dead /\ stack[q] # <<>>
        /\ OuterHeld(stack[q]) # 0
    BY <1>1 DEF TableInv
  <2>4. PICK s : s = stack[q]
    OBVIOUS
  <2>5. IsStack(s) /\ s # <<>>
    BY <1>1, <2>3, <2>4 DEF LockInv, StackInv
  <2>6. Len(s) \in 1 .. Len(s)
    BY <2>5, Popped
  <2>7. ~AllFree(s)
    BY <2>3, <2>4, <2>6 DEF AllFree, OuterHeld
  <2>8. HeldIn(s) # 0
    BY <2>5, <2>7, HoldsSome
  <2>9. mutex.owner = q
    BY <1>1, <2>3, <2>4, <2>8 DEF LockInv, LocksReturned
  <2> QED
    BY <2>2, <2>9
<1>2. LockInv /\ SafeInv /\ TableInv => CommitsOwnEdits
  BY <1>1 DEF CommitsOwnEdits
<1> QED
  BY <1>2, LockInvariant, SafeInvariant, TableInvariant, PTL

-----------------------------------------------------------------------------
(* What the choices of a program make of it.                               *)

(* Programs of the same steps are the same.                                *)
LEMMA ProgramEqual ==
  ASSUME NEW a, IsProgram(a), NEW b, IsProgram(b), Len(a) = Len(b),
         \A i \in 1 .. Len(a) : a[i] = b[i]
  PROVE  a = b
BY DEF IsProgram

LEMMA ProgramEmpty ==
  ASSUME NEW t, IsProgram(t)
  PROVE  /\ Len(t) \in Nat /\ DOMAIN t = 1 .. Len(t)
         /\ t = <<>> <=> Len(t) = 0
<1>1. Len(t) \in Nat /\ DOMAIN t = 1 .. Len(t)
  BY DEF IsProgram
<1>2. t # <<>> => Len(t) # 0
  BY ProgramParts
<1>3. t = <<>> => Len(t) = 0
  OBVIOUS
<1> QED
  BY <1>1, <1>2, <1>3

(* A program with another in place of one of its steps.                    *)
LEMMA ChosenProgram ==
  ASSUME NEW t, IsProgram(t), NEW i \in 1 .. Len(t), NEW P, IsProgram(P)
  PROVE  /\ IsProgram(Chosen(t, i, P))
         /\ Len(Chosen(t, i, P)) = Len(t) + Len(P) - 1
         /\ \A k \in 1 .. Len(t) + Len(P) - 1 :
              Chosen(t, i, P)[k] =
                IF k < i THEN t[k]
                ELSE IF k < i + Len(P) THEN P[k - i + 1]
                ELSE t[k - Len(P) + 1]
<1> DEFINE n == Len(t) + Len(P) - 1
           At(k) == IF k < i THEN t[k]
                    ELSE IF k < i + Len(P) THEN P[k - i + 1]
                    ELSE t[k - Len(P) + 1]
           c == [k \in 1 .. n |-> At(k)]
           S == {At(k) : k \in 1 .. n}
<1>1. n \in Nat
  BY ProgramEmpty
<1>2. Chosen(t, i, P) = c
  BY DEF Chosen
<1> HIDE DEF n, At
<1>3. c \in [1 .. n -> S]
  OBVIOUS
<1>4. c \in Seq(S)
  <2> HIDE DEF S, c
  <2> QED
    BY <1>1, <1>3, SeqDef
<1>5. DOMAIN c = 1 .. n /\ \A k \in 1 .. n : c[k] = At(k)
  OBVIOUS
<1> HIDE DEF c, S
<1>6. Len(c) \in Nat /\ DOMAIN c = 1 .. Len(c) /\ c \in [1 .. Len(c) -> S]
  BY <1>4, LenProperties
<1>7. Len(c) = n
  BY <1>1, <1>5, <1>6
<1>8. IsProgram(c)
  BY <1>6 DEF IsProgram
<1> QED
  BY <1>2, <1>5, <1>7, <1>8 DEF n, At

(* In place of a later step: the first step stays.                         *)
LEMMA ChosenTail ==
  ASSUME NEW t, IsProgram(t), t # <<>>, NEW i \in 1 .. Len(t) - 1,
         NEW P, IsProgram(P)
  PROVE  /\ Chosen(t, i + 1, P) # <<>>
         /\ Head(Chosen(t, i + 1, P)) = Head(t)
         /\ Tail(Chosen(t, i + 1, P)) = Chosen(Tail(t), i, P)
<1> DEFINE n == Len(t)
           m == Len(P)
           c == Chosen(t, i + 1, P)
           d == Chosen(Tail(t), i, P)
<1>1. /\ n \in Nat \ {0} /\ Head(t) = t[1] /\ IsProgram(Tail(t))
      /\ Len(Tail(t)) = n - 1
      /\ \A k \in 1 .. n - 1 : Tail(t)[k] = t[k + 1]
  BY ProgramParts
<1>2. m \in Nat
  BY ProgramEmpty
<1>3. i + 1 \in 1 .. n /\ i \in 1 .. n - 1
  BY <1>1
<1>4. /\ IsProgram(c) /\ Len(c) = n + m - 1
      /\ \A k \in 1 .. n + m - 1 :
           c[k] = IF k < i + 1 THEN t[k]
                  ELSE IF k < i + 1 + m THEN P[k - (i + 1) + 1]
                  ELSE t[k - m + 1]
  <2>1. PICK j : j = i + 1
    OBVIOUS
  <2>2. j \in 1 .. Len(t)
    BY <1>3, <2>1
  <2>3. /\ IsProgram(Chosen(t, j, P)) /\ Len(Chosen(t, j, P)) = n + m - 1
        /\ \A k \in 1 .. n + m - 1 :
             Chosen(t, j, P)[k] = IF k < j THEN t[k]
                    ELSE IF k < j + m THEN P[k - j + 1]
                    ELSE t[k - m + 1]
    BY <2>2, ChosenProgram
  <2> QED
    BY <2>1, <2>3
<1>5. /\ IsProgram(d) /\ Len(d) = (n - 1) + m - 1
      /\ \A k \in 1 .. (n - 1) + m - 1 :
           d[k] = IF k < i THEN Tail(t)[k]
                  ELSE IF k < i + m THEN P[k - i + 1]
                  ELSE Tail(t)[k - m + 1]
  <2>1. PICK u : u = Tail(t)
    OBVIOUS
  <2>2. IsProgram(u) /\ i \in 1 .. Len(u) /\ Len(u) = n - 1
    BY <1>1, <1>3, <2>1
  <2>3. /\ IsProgram(Chosen(u, i, P)) /\ Len(Chosen(u, i, P)) = Len(u) + m - 1
        /\ \A k \in 1 .. Len(u) + m - 1 :
             Chosen(u, i, P)[k] = IF k < i THEN u[k]
                    ELSE IF k < i + m THEN P[k - i + 1]
                    ELSE u[k - m + 1]
    BY <2>2, ChosenProgram
  <2> QED
    BY <2>1, <2>2, <2>3
<1> HIDE DEF c, d, n, m
<1>6. c # <<>> /\ Len(c) # 0
  BY <1>1, <1>2, <1>3, <1>4, ProgramEmpty
<1>7. /\ Head(c) = c[1] /\ IsProgram(Tail(c)) /\ Len(Tail(c)) = Len(c) - 1
      /\ \A k \in 1 .. Len(c) - 1 : Tail(c)[k] = c[k + 1]
  BY <1>4, <1>6, ProgramParts
<1>8. c[1] = t[1]
  BY <1>1, <1>2, <1>3, <1>4
<1>9. \A k \in 1 .. Len(c) - 1 : c[k + 1] = d[k]
  <2> SUFFICES ASSUME NEW k \in 1 .. Len(c) - 1
               PROVE  c[k + 1] = d[k]
    OBVIOUS
  <2>0. /\ k \in 1 .. (n - 1) + m - 1 /\ k + 1 \in 1 .. n + m - 1
        /\ k \in Nat /\ i \in Nat /\ m \in Nat /\ n \in Nat
    BY <1>1, <1>2, <1>3, <1>4
  <2>1. CASE k < i
    <3>1. k + 1 < i + 1 /\ k \in 1 .. n - 1
      BY <2>0, <2>1, <1>3
    <3> QED
      BY <1>1, <1>4, <1>5, <2>0, <2>1, <3>1
  <2>2. CASE ~(k < i) /\ k < i + m
    <3>1. ~(k + 1 < i + 1) /\ k + 1 < i + 1 + m /\ (k + 1) - (i + 1) + 1 = k - i + 1
      BY <2>0, <2>2
    <3>2. c[k + 1] = P[(k + 1) - (i + 1) + 1]
      BY <1>4, <2>0, <3>1
    <3>3. d[k] = P[k - i + 1]
      BY <1>5, <2>0, <2>2
    <3> QED
      BY <3>1, <3>2, <3>3
  <2>3. CASE ~(k < i + m)
    <3>1. /\ ~(k + 1 < i + 1) /\ ~(k + 1 < i + 1 + m) /\ ~(k < i)
          /\ k - m + 1 \in 1 .. n - 1 /\ (k + 1) - m + 1 = (k - m + 1) + 1
      BY <2>0, <2>3, <1>3
    <3>2. c[k + 1] = t[(k + 1) - m + 1]
      BY <1>4, <2>0, <3>1
    <3>3. d[k] = Tail(t)[k - m + 1]
      BY <1>5, <2>0, <2>3, <3>1
    <3>4. Tail(t)[k - m + 1] = t[(k - m + 1) + 1]
      BY <1>1, <3>1
    <3> QED
      BY <3>1, <3>2, <3>3, <3>4
  <2> QED
    BY <2>1, <2>2, <2>3
<1>10. Len(Tail(c)) = Len(d)
  BY <1>1, <1>2, <1>4, <1>5, <1>7
<1>11. Tail(c) = d
  BY <1>5, <1>7, <1>9, <1>10, ProgramEqual
<1> QED
  BY <1>1, <1>6, <1>7, <1>8, <1>11 DEF c, d

(* In place of the first step.                                             *)
LEMMA ChosenFirst ==
  ASSUME NEW t, IsProgram(t), t # <<>>, NEW P, IsProgram(P)
  PROVE  P \o Tail(t) = Chosen(t, 1, P)
<1> DEFINE n == Len(t)
           m == Len(P)
           c == Chosen(t, 1, P)
           d == P \o Tail(t)
<1>1. /\ n \in Nat \ {0} /\ IsProgram(Tail(t)) /\ Len(Tail(t)) = n - 1
      /\ \A k \in 1 .. n - 1 : Tail(t)[k] = t[k + 1]
  BY ProgramParts
<1>2. m \in Nat /\ 1 \in 1 .. n
  BY <1>1, ProgramEmpty
<1>3. /\ IsProgram(c) /\ Len(c) = n + m - 1
      /\ \A k \in 1 .. n + m - 1 :
           c[k] = IF k < 1 THEN t[k]
                  ELSE IF k < 1 + m THEN P[k - 1 + 1] ELSE t[k - m + 1]
  BY <1>2, ChosenProgram
<1>4. /\ IsProgram(d) /\ DOMAIN d = 1 .. m + (n - 1)
      /\ \A k \in 1 .. m + (n - 1) :
           d[k] = IF k <= m THEN P[k] ELSE Tail(t)[k - m]
  <2>1. PICK u : u = Tail(t)
    OBVIOUS
  <2>2. /\ IsProgram(P \o u) /\ DOMAIN (P \o u) = 1 .. Len(P) + Len(u)
        /\ \A k \in 1 .. Len(P) + Len(u) :
             (P \o u)[k] = IF k <= Len(P) THEN P[k] ELSE u[k - Len(P)]
    BY <1>1, <2>1, ProgramConcat
  <2> QED
    BY <1>1, <2>1, <2>2
<1> HIDE DEF c, d, n, m
<1>5. Len(d) = Len(c)
  <2>1. Len(d) \in Nat /\ DOMAIN d = 1 .. Len(d)
    BY <1>4, ProgramEmpty
  <2> QED
    BY <1>1, <1>2, <1>3, <1>4, <2>1
<1>6. \A k \in 1 .. Len(d) : d[k] = c[k]
  <2> SUFFICES ASSUME NEW k \in 1 .. Len(d)
               PROVE  d[k] = c[k]
    OBVIOUS
  <2>0. /\ k \in 1 .. m + (n - 1) /\ k \in 1 .. n + m - 1
        /\ k \in Nat /\ m \in Nat /\ n \in Nat /\ ~(k < 1)
    BY <1>1, <1>2, <1>3, <1>5
  <2>1. CASE k <= m
    <3>1. k < 1 + m /\ k - 1 + 1 = k
      BY <2>0, <2>1
    <3>2. c[k] = P[k - 1 + 1] /\ d[k] = P[k]
      BY <1>3, <1>4, <2>0, <2>1, <3>1
    <3> QED
      BY <3>1, <3>2
  <2>2. CASE ~(k <= m)
    <3>1. ~(k < 1 + m) /\ k - m \in 1 .. n - 1 /\ (k - m) + 1 = k - m + 1
      BY <2>0, <2>2
    <3>2. c[k] = t[k - m + 1] /\ d[k] = Tail(t)[k - m]
      BY <1>3, <1>4, <2>0, <2>2, <3>1
    <3> QED
      BY <1>1, <3>1, <3>2
  <2> QED
    BY <2>1, <2>2
<1>7. d = c
  BY <1>3, <1>4, <1>5, <1>6, ProgramEqual
<1> QED
  BY <1>7 DEF c, d

(* What may be chosen after a first step that is no choice.                *)
LEMMA PicksTail ==
  ASSUME NEW t, Shaped(t), t # <<>>, Head(t).op # "choose"
  PROVE  /\ Shaped(Tail(t))
         /\ \A u \in Picks(t) :
              /\ u # <<>> /\ Head(u) = Head(t)
              /\ Tail(u) \in Picks(Tail(t))
         /\ \A v \in Picks(Tail(t)) : \E u \in Picks(t) : v = Tail(u)
<1> DEFINE n == Len(t)
           w == Tail(t)
<1>1. /\ n \in Nat \ {0} /\ DOMAIN t = 1 .. n /\ Head(t) = t[1]
      /\ IsProgram(t) /\ IsProgram(w) /\ Len(w) = n - 1
      /\ DOMAIN w = 1 .. n - 1
      /\ \A k \in 1 .. n - 1 : w[k] = t[k + 1]
  BY ProgramParts DEF Shaped
<1> HIDE DEF n, w
<1>2. \A i \in Choices(t) : /\ i - 1 \in Choices(w) /\ (i - 1) + 1 = i
                            /\ i - 1 \in 1 .. n - 1 /\ w[i - 1] = t[i]
  <2> SUFFICES ASSUME NEW i \in Choices(t)
               PROVE  /\ i - 1 \in Choices(w) /\ (i - 1) + 1 = i
                      /\ i - 1 \in 1 .. n - 1 /\ w[i - 1] = t[i]
    OBVIOUS
  <2>1. i \in 1 .. n /\ t[i].op = "choose"
    BY <1>1 DEF Choices
  <2>2. i # 1
    BY <1>1, <2>1
  <2>3. i - 1 \in 1 .. n - 1 /\ (i - 1) + 1 = i
    BY <1>1, <2>1, <2>2
  <2>4. w[i - 1] = t[i]
    BY <1>1, <2>3
  <2> QED
    BY <1>1, <2>1, <2>3, <2>4 DEF Choices
<1>3. \A i \in Choices(w) : i + 1 \in Choices(t) /\ i \in 1 .. n - 1
                            /\ w[i] = t[i + 1]
  <2> SUFFICES ASSUME NEW i \in Choices(w)
               PROVE  i + 1 \in Choices(t) /\ i \in 1 .. n - 1
                      /\ w[i] = t[i + 1]
    OBVIOUS
  <2>1. i \in 1 .. n - 1 /\ w[i].op = "choose"
    BY <1>1 DEF Choices
  <2>2. i + 1 \in 1 .. n /\ w[i] = t[i + 1]
    BY <1>1, <2>1
  <2> QED
    BY <1>1, <2>1, <2>2 DEF Choices
<1>4. Shaped(w)
  BY <1>1, <1>3 DEF Shaped
<1>5. Choices(t) = {} <=> Choices(w) = {}
  BY <1>2, <1>3
<1>6. ASSUME NEW i \in Choices(w), NEW P \in w[i].of
      PROVE  /\ Chosen(t, i + 1, P) # <<>>
             /\ Head(Chosen(t, i + 1, P)) = Head(t)
             /\ Tail(Chosen(t, i + 1, P)) = Chosen(w, i, P)
  <2>1. IsProgram(P) /\ i \in 1 .. n - 1
    BY <1>3, <1>4 DEF Shaped
  <2> QED
    BY <1>1, <2>1, ChosenTail DEF n, w
<1>7. ASSUME NEW u \in Picks(t)
      PROVE  u # <<>> /\ Head(u) = Head(t) /\ Tail(u) \in Picks(w)
  <2>1. CASE Choices(t) = {}
    BY <1>5, <2>1 DEF Picks, w
  <2>2. CASE Choices(t) # {}
    <3>1. PICK i \in Choices(t) : u \in {Chosen(t, i, P) : P \in t[i].of}
      BY <2>2 DEF Picks
    <3>2. PICK P \in t[i].of : u = Chosen(t, i, P)
      BY <3>1
    <3>3. PICK j : j = i - 1
      OBVIOUS
    <3>4. j \in Choices(w) /\ j + 1 = i /\ w[j] = t[i]
      BY <1>2, <3>3
    <3>5. /\ Chosen(t, j + 1, P) # <<>>
          /\ Head(Chosen(t, j + 1, P)) = Head(t)
          /\ Tail(Chosen(t, j + 1, P)) = Chosen(w, j, P)
      BY <1>6, <3>4
    <3>6. Chosen(w, j, P) \in Picks(w)
      BY <3>4 DEF Picks
    <3> QED
      BY <3>2, <3>4, <3>5, <3>6
  <2> QED
    BY <2>1, <2>2
<1>8. ASSUME NEW v \in Picks(w)
      PROVE  \E u \in Picks(t) : v = Tail(u)
  <2>1. CASE Choices(w) = {}
    BY <1>5, <2>1 DEF Picks, w
  <2>2. CASE Choices(w) # {}
    <3>1. PICK i \in Choices(w) : v \in {Chosen(w, i, P) : P \in w[i].of}
      BY <2>2 DEF Picks
    <3>2. PICK P \in w[i].of : v = Chosen(w, i, P)
      BY <3>1
    <3>3. i + 1 \in Choices(t) /\ P \in t[i + 1].of
      BY <1>3, <3>2
    <3>4. Chosen(t, i + 1, P) \in Picks(t)
      BY <3>3 DEF Picks
    <3> QED
      BY <1>6, <3>2, <3>4
  <2> QED
    BY <2>1, <2>2
<1> QED
  BY <1>4, <1>7, <1>8 DEF w

(* What follows a step that is no choice: the runs without their first     *)
(* step.                                                                   *)
LEMMA HonestTail ==
  ASSUME NEW t, Honest(t), t # <<>>, Head(t).op # "choose"
  PROVE  /\ \A r \in Runs(t) : r # <<>> /\ Head(r) = Head(t)
         /\ \E r \in Runs(t) : TRUE
         /\ \A v \in Runs(Tail(t)) : \E r \in Runs(t) : v = Tail(r)
         /\ Shaped(Tail(t)) /\ Picks(Tail(t)) # {}
         /\ \A u \in Picks(Tail(t)) : Shaped(u) /\ Picks(u) # {}
<1>1. /\ Shaped(t) /\ Picks(t) # {}
      /\ \A u \in Picks(t) : Shaped(u) /\ Picks(u) # {}
  BY DEF Honest
<1>2. /\ Shaped(Tail(t))
      /\ \A u \in Picks(t) :
           /\ u # <<>> /\ Head(u) = Head(t)
           /\ Tail(u) \in Picks(Tail(t))
      /\ \A v \in Picks(Tail(t)) : \E u \in Picks(t) : v = Tail(u)
  BY <1>1, PicksTail
<1>3. ASSUME NEW u \in Picks(t)
      PROVE  /\ Shaped(Tail(u))
             /\ \A r \in Picks(u) : /\ r # <<>> /\ Head(r) = Head(t)
                                    /\ Tail(r) \in Picks(Tail(u))
             /\ \A v \in Picks(Tail(u)) : \E r \in Picks(u) : v = Tail(r)
  <2>1. Shaped(u) /\ u # <<>> /\ Head(u) = Head(t)
    BY <1>1, <1>2
  <2>2. /\ Shaped(Tail(u))
        /\ \A r \in Picks(u) :
             /\ r # <<>> /\ Head(r) = Head(u)
             /\ Tail(r) \in Picks(Tail(u))
        /\ \A v \in Picks(Tail(u)) : \E r \in Picks(u) : v = Tail(r)
    BY <2>1, PicksTail
  <2> QED
    BY <2>1, <2>2
<1>4. ASSUME NEW r \in Runs(t)
      PROVE  r # <<>> /\ Head(r) = Head(t)
  <2>1. PICK u \in Picks(t) : r \in Picks(u)
    BY DEF Runs
  <2> QED
    BY <1>3, <2>1
<1>5. \E r \in Runs(t) : TRUE
  <2>1. PICK u \in Picks(t) : TRUE
    BY <1>1
  <2>2. PICK r \in Picks(u) : TRUE
    BY <1>1
  <2>3. r \in Runs(t)
    BY DEF Runs
  <2> QED
    BY <2>3
<1>6. ASSUME NEW v \in Runs(Tail(t))
      PROVE  \E r \in Runs(t) : v = Tail(r)
  <2>1. PICK w \in Picks(Tail(t)) : v \in Picks(w)
    BY DEF Runs
  <2>2. PICK u \in Picks(t) : w = Tail(u)
    BY <1>2
  <2>3. PICK r \in Picks(u) : v = Tail(r)
    BY <1>3, <2>1, <2>2
  <2>4. r \in Runs(t)
    BY DEF Runs
  <2> QED
    BY <2>3, <2>4
<1>7. Picks(Tail(t)) # {}
  <2>1. PICK u \in Picks(t) : TRUE
    BY <1>1
  <2> QED
    BY <1>2
<1>8. ASSUME NEW w \in Picks(Tail(t))
      PROVE  Shaped(w) /\ Picks(w) # {}
  <2>1. PICK u \in Picks(t) : w = Tail(u)
    BY <1>2
  <2>2. PICK r \in Picks(u) : TRUE
    BY <1>1
  <2> QED
    BY <1>3, <2>1
<1> QED
  BY <1>2, <1>4, <1>5, <1>6, <1>7, <1>8

(* What may be chosen is a program.                                        *)
LEMMA PickProgram ==
  ASSUME NEW w, Shaped(w), NEW u \in Picks(w)
  PROVE  IsProgram(u)
<1>1. CASE Choices(w) = {}
  BY <1>1 DEF Picks, Shaped
<1>2. CASE Choices(w) # {}
  <2>1. PICK i \in Choices(w) : u \in {Chosen(w, i, Q) : Q \in w[i].of}
    BY <1>2 DEF Picks
  <2>2. PICK Q \in w[i].of : u = Chosen(w, i, Q)
    BY <2>1
  <2>3. IsProgram(w) /\ IsProgram(Q)
    BY DEF Shaped
  <2>4. i \in 1 .. Len(w)
    BY <2>3, ProgramEmpty DEF Choices
  <2> QED
    BY <2>2, <2>3, <2>4, ChosenProgram
<1> QED
  BY <1>1, <1>2

(* One of the programs of a choice is taken: the runs are among those of   *)
(* the whole.                                                              *)
LEMMA HonestChoice ==
  ASSUME NEW t, Honest(t), t # <<>>, Head(t).op = "choose",
         NEW P \in Head(t).of
  PROVE  Honest(P \o Tail(t)) /\ Runs(P \o Tail(t)) \subseteq Runs(t)
<1> DEFINE w == P \o Tail(t)
<1>1. IsProgram(t) /\ \A i \in Choices(t) : \A Q \in t[i].of : IsProgram(Q)
  BY DEF Honest, Shaped
<1>2. 1 \in Choices(t) /\ Head(t) = t[1]
  <2>1. Len(t) \in Nat \ {0} /\ DOMAIN t = 1 .. Len(t) /\ Head(t) = t[1]
    BY <1>1, ProgramParts
  <2> QED
    BY <2>1 DEF Choices
<1>3. w = Chosen(t, 1, P)
  <2>1. IsProgram(P)
    BY <1>1, <1>2
  <2> QED
    BY <1>1, <2>1, ChosenFirst
<1> HIDE DEF w
<1>4. w \in Picks(t)
  BY <1>2, <1>3 DEF Picks
<1>5. Shaped(w) /\ Picks(w) # {} /\ \A u \in Picks(w) : u \in Runs(t)
  BY <1>4 DEF Honest, Runs
<1>6. \A u \in Picks(w) : Choices(u) = {} /\ Picks(u) = {u}
  BY <1>5 DEF Honest, Picks
<1>7. ASSUME NEW r \in Runs(w)
      PROVE  r \in Runs(t)
  <2>1. PICK u \in Picks(w) : r \in Picks(u)
    BY DEF Runs
  <2>2. r = u
    BY <1>6, <2>1
  <2> QED
    BY <1>5, <2>2
<1>8. \A u \in Picks(w) : Shaped(u) /\ Picks(u) # {}
  <2> SUFFICES ASSUME NEW u \in Picks(w)
               PROVE  Shaped(u) /\ Picks(u) # {}
    OBVIOUS
  <2>1. Picks(u) = {u} /\ Choices(u) = {}
    BY <1>6
  <2>2. IsProgram(u)
    BY <1>5, PickProgram
  <2> QED
    BY <2>1, <2>2 DEF Shaped
<1>9. Honest(w)
  BY <1>5, <1>7, <1>8 DEF Honest
<1> QED
  BY <1>7, <1>9 DEF w

-----------------------------------------------------------------------------
(* The rules, from the first step of a program to the next.                *)

\* A run: a program without choices.
IsRun(r) == IsProgram(r) /\ Choices(r) = {}

LEMMA RunsAreRuns ==
  ASSUME NEW t, Honest(t), NEW r \in Runs(t)
  PROVE  IsRun(r) /\ Tidy(r)
<1>1. PICK u \in Picks(t) : r \in Picks(u)
  BY DEF Runs
<1>2. IsProgram(r)
  BY <1>1, PickProgram DEF Honest
<1> QED
  BY <1>2 DEF Honest, IsRun

(* The positions of the steps after the first.                             *)
LEMMA RunParts ==
  ASSUME NEW t, IsRun(t), t # <<>>
  PROVE  /\ Len(t) \in Nat \ {0} /\ DOMAIN t = 1 .. Len(t) /\ t[1] = Head(t)
         /\ IsRun(Tail(t)) /\ DOMAIN Tail(t) = 1 .. Len(t) - 1
         /\ \A k \in 1 .. Len(t) - 1 : Tail(t)[k] = t[k + 1]
         /\ Head(t).op # "choose"
<1>1. /\ Len(t) \in Nat \ {0} /\ DOMAIN t = 1 .. Len(t)
      /\ Head(t) = t[1] /\ IsProgram(Tail(t))
      /\ DOMAIN Tail(t) = 1 .. Len(t) - 1
      /\ \A i \in 1 .. Len(t) - 1 : Tail(t)[i] = t[i + 1]
  BY ProgramParts DEF IsRun
<1>2. \A i \in 1 .. Len(t) : t[i].op # "choose"
  BY <1>1 DEF IsRun, Choices
<1>3. \A i \in 1 .. Len(t) - 1 : Tail(t)[i].op # "choose"
  <2> SUFFICES ASSUME NEW i \in 1 .. Len(t) - 1
               PROVE  Tail(t)[i].op # "choose"
    OBVIOUS
  <2>1. i + 1 \in 1 .. Len(t) /\ Tail(t)[i] = t[i + 1]
    BY <1>1
  <2> QED
    BY <1>2, <2>1
<1>4. Choices(Tail(t)) = {}
  BY <1>1, <1>3 DEF Choices
<1>5. 1 \in 1 .. Len(t)
  BY <1>1
<1> QED
  BY <1>1, <1>2, <1>4, <1>5 DEF IsRun

(* What holds of the steps between two of t holds of them in its tail.     *)
LEMMA Between ==
  ASSUME NEW t, IsRun(t), t # <<>>, NEW n \in Nat, NEW j \in 1 .. Len(t), j > n + 1,
         NEW K, \A i \in n + 2 .. j - 1 : t[i] \in K
  PROVE  /\ j - 1 \in DOMAIN Tail(t) /\ j - 1 > n /\ Tail(t)[j - 1] = t[j]
         /\ \A i \in n + 1 .. (j - 1) - 1 : Tail(t)[i] \in K
<1>1. /\ Len(t) \in Nat \ {0} /\ DOMAIN Tail(t) = 1 .. Len(t) - 1
      /\ \A k \in 1 .. Len(t) - 1 : Tail(t)[k] = t[k + 1]
  BY RunParts
<1>2. j - 1 \in 1 .. Len(t) - 1 /\ j - 1 > n /\ (j - 1) + 1 = j
  BY <1>1
<1>3. Tail(t)[j - 1] = t[j]
  BY <1>1, <1>2
<1>4. ASSUME NEW i \in n + 1 .. (j - 1) - 1
      PROVE  Tail(t)[i] \in K
  <2>1. i + 1 \in n + 2 .. j - 1 /\ i \in 1 .. Len(t) - 1
    BY <1>1
  <2> QED
    BY <1>1, <2>1
<1> QED
  BY <1>1, <1>2, <1>3, <1>4

(* The steps that Settled and Tidy allow on the way.                       *)
LEMMA TidyTail ==
  ASSUME NEW t, IsRun(t), t # <<>>, Tidy(t)
  PROVE  Tidy(Tail(t))
<1>1. /\ Len(t) \in Nat \ {0} /\ DOMAIN t = 1 .. Len(t)
      /\ DOMAIN Tail(t) = 1 .. Len(t) - 1
      /\ \A k \in 1 .. Len(t) - 1 : Tail(t)[k] = t[k + 1]
  BY RunParts
<1> SUFFICES ASSUME NEW n \in DOMAIN Tail(t), Asks(Tail(t)[n]), Tail(t)[n].try
             PROVE  \E j \in DOMAIN Tail(t) :
        /\ j > n
        /\ \/ Settles(Tail(t)[j])
           \/ Tail(t)[n].op # "call"
              /\ \A s \in ErrnoToRsmiStatus : Deals(Tail(t)[j], s)
        /\ \A i \in n + 1 .. j - 1 : Keeps(Tail(t)[i]) \/ Tail(t)[i].op = "excuse"
  BY DEF Tidy
<1>2. n + 1 \in DOMAIN t /\ Tail(t)[n] = t[n + 1] /\ n \in Nat
  BY <1>1
<1>3. PICK j \in DOMAIN t :
        /\ j > n + 1
        /\ \/ Settles(t[j])
           \/ t[n + 1].op # "call" /\ \A s \in ErrnoToRsmiStatus : Deals(t[j], s)
        /\ \A i \in (n + 1) + 1 .. j - 1 : Keeps(t[i]) \/ t[i].op = "excuse"
  BY <1>2 DEF Tidy
<1> DEFINE K == {t[i] : i \in {k \in DOMAIN t : Keeps(t[k]) \/ t[k].op = "excuse"}}
<1>4. \A x \in K : Keeps(x) \/ x.op = "excuse"
  OBVIOUS
<1>5. ASSUME NEW i \in n + 2 .. j - 1
      PROVE  t[i] \in K
  <2>1. i \in DOMAIN t /\ i \in (n + 1) + 1 .. j - 1
    BY <1>1, <1>2
  <2> QED
    BY <1>3, <2>1
<1> HIDE DEF K
<1>6. /\ j - 1 \in DOMAIN Tail(t) /\ j - 1 > n /\ Tail(t)[j - 1] = t[j]
      /\ \A i \in n + 1 .. (j - 1) - 1 : Tail(t)[i] \in K
  BY <1>1, <1>2, <1>3, <1>5, Between
<1>7. PICK m : m = j - 1
  OBVIOUS
<1>8. /\ m \in DOMAIN Tail(t) /\ m > n /\ Tail(t)[m] = t[j]
      /\ \A i \in n + 1 .. m - 1 : Tail(t)[i] \in K
  BY <1>6, <1>7
<1>9. \A i \in n + 1 .. m - 1 : Keeps(Tail(t)[i]) \/ Tail(t)[i].op = "excuse"
  BY <1>4, <1>8
<1> QED
  BY <1>2, <1>3, <1>8, <1>9

(* A failure that is dealt with: not by the first step, then later.        *)
LEMMA SettledTail ==
  ASSUME NEW t, IsRun(t), NEW s, Settled(t, s)
  PROVE  /\ t # <<>>
         /\ \/ Deals(Head(t), s)
            \/ /\ Keeps(Head(t)) \/ Head(t).op = "excuse"
               /\ Settled(Tail(t), s)
<1>1. PICK j \in DOMAIN t : /\ Deals(t[j], s)
                            /\ \A i \in 1 .. j - 1 : Keeps(t[i]) \/ t[i].op = "excuse"
  BY DEF Settled
<1>2. t # <<>>
  BY <1>1
<1>3. /\ Len(t) \in Nat \ {0} /\ DOMAIN t = 1 .. Len(t) /\ t[1] = Head(t)
      /\ DOMAIN Tail(t) = 1 .. Len(t) - 1
      /\ \A k \in 1 .. Len(t) - 1 : Tail(t)[k] = t[k + 1]
  BY <1>2, RunParts
<1>4. CASE j = 1
  BY <1>1, <1>2, <1>3, <1>4
<1>5. CASE j # 1
  <2>1. j \in 1 .. Len(t) /\ j > 0 + 1 /\ 1 \in 1 .. j - 1
    BY <1>3, <1>5
  <2> DEFINE K == {t[i] : i \in {k \in DOMAIN t : Keeps(t[k]) \/ t[k].op = "excuse"}}
  <2>2. \A x \in K : Keeps(x) \/ x.op = "excuse"
    OBVIOUS
  <2>3. ASSUME NEW i \in 0 + 2 .. j - 1
        PROVE  t[i] \in K
    <3>1. i \in DOMAIN t /\ i \in 1 .. j - 1
      BY <1>3
    <3> QED
      BY <1>1, <3>1
  <2> HIDE DEF K
  <2>4. PICK n \in Nat : n = 0
    OBVIOUS
  <2>5. /\ j - 1 \in DOMAIN Tail(t) /\ j - 1 > n /\ Tail(t)[j - 1] = t[j]
        /\ \A i \in n + 1 .. (j - 1) - 1 : Tail(t)[i] \in K
    <3>1. j > n + 1 /\ \A i \in n + 2 .. j - 1 : t[i] \in K
      BY <2>1, <2>3, <2>4
    <3> QED
      BY <1>2, <2>1, <3>1, Between
  <2>6. PICK m : m = j - 1
    OBVIOUS
  <2>7. \A i \in 1 .. m - 1 : Keeps(Tail(t)[i]) \/ Tail(t)[i].op = "excuse"
    BY <2>2, <2>4, <2>5, <2>6
  <2>8. Settled(Tail(t), s)
    BY <1>1, <2>5, <2>6, <2>7 DEF Settled
  <2> QED
    BY <1>1, <1>2, <1>3, <2>1, <2>8
<1> QED
  BY <1>4, <1>5

(* The failure of a step that is no return is dealt with after it.         *)
LEMMA SettledAfter ==
  ASSUME NEW t, IsRun(t), t # <<>>, Tidy(t), Asks(Head(t)), Head(t).try, NEW s,
         Head(t).op = "call" \/ s \in ErrnoToRsmiStatus
  PROVE  Settled(Tail(t), s)
<1>1. /\ Len(t) \in Nat \ {0} /\ DOMAIN t = 1 .. Len(t) /\ t[1] = Head(t)
      /\ DOMAIN Tail(t) = 1 .. Len(t) - 1
      /\ \A k \in 1 .. Len(t) - 1 : Tail(t)[k] = t[k + 1]
  BY RunParts
<1>2. 1 \in DOMAIN t
  BY <1>1
<1>3. PICK j \in DOMAIN t :
        /\ j > 1
        /\ \/ Settles(t[j])
           \/ t[1].op # "call" /\ \A e \in ErrnoToRsmiStatus : Deals(t[j], e)
        /\ \A i \in 1 + 1 .. j - 1 : Keeps(t[i]) \/ t[i].op = "excuse"
  BY <1>1, <1>2 DEF Tidy
<1>4. Deals(t[j], s)
  BY <1>1, <1>3 DEF Deals
<1> DEFINE K == {t[i] : i \in {k \in DOMAIN t : Keeps(t[k]) \/ t[k].op = "excuse"}}
<1>5. \A x \in K : Keeps(x) \/ x.op = "excuse"
  OBVIOUS
<1>6. ASSUME NEW i \in 0 + 2 .. j - 1
      PROVE  t[i] \in K
  <2>1. i \in DOMAIN t /\ i \in 1 + 1 .. j - 1
    BY <1>1, <1>3
  <2> QED
    BY <1>3, <2>1
<1> HIDE DEF K
<1>7. PICK n \in Nat : n = 0
  OBVIOUS
<1>8. /\ j - 1 \in DOMAIN Tail(t) /\ j - 1 > n /\ Tail(t)[j - 1] = t[j]
      /\ \A i \in n + 1 .. (j - 1) - 1 : Tail(t)[i] \in K
  <2>1. j \in 1 .. Len(t) /\ j > n + 1 /\ \A i \in n + 2 .. j - 1 : t[i] \in K
    BY <1>1, <1>3, <1>6, <1>7
  <2> QED
    BY <2>1, Between
<1>9. PICK m : m = j - 1
  OBVIOUS
<1>10. \A i \in 1 .. m - 1 : Keeps(Tail(t)[i]) \/ Tail(t)[i].op = "excuse"
  BY <1>5, <1>7, <1>8, <1>9
<1> QED
  BY <1>4, <1>8, <1>9, <1>10 DEF Settled

(* The result after a failure, without the first step.                     *)
LEMMA LaterTail ==
  ASSUME NEW t, IsRun(t), t # <<>>, NEW n \in Nat, Later(t, n + 1)
  PROVE  Later(Tail(t), n)
<1>1. /\ Len(t) \in Nat \ {0} /\ DOMAIN t = 1 .. Len(t) /\ t[1] = Head(t)
      /\ DOMAIN Tail(t) = 1 .. Len(t) - 1
      /\ \A k \in 1 .. Len(t) - 1 : Tail(t)[k] = t[k + 1]
  BY RunParts
<1>2. PICK j \in DOMAIN t :
        /\ j > n + 1
        /\ \/ /\ t[j].op = "else" \/ Fails(t[j])
              /\ \A i \in (n + 1) + 1 .. j - 1 : Keeps(t[i])
           \/ /\ Stores(t[j])
              /\ \A i \in (n + 1) + 1 .. j - 1 :
                   ~Succeeds(t[i]) \/ \A k \in (n + 1) + 1 .. i : Keeps(t[k])
  BY DEF Later
<1>3. PICK m : m = j - 1
  OBVIOUS
<1>4. m \in DOMAIN Tail(t) /\ m > n /\ Tail(t)[m] = t[j] /\ m + 1 = j
  BY <1>1, <1>2, <1>3
<1>5. \A i \in n + 1 .. m - 1 : /\ i + 1 \in (n + 1) + 1 .. j - 1
                                /\ Tail(t)[i] = t[i + 1]
  BY <1>1, <1>2, <1>3
<1>6. CASE /\ t[j].op = "else" \/ Fails(t[j])
           /\ \A i \in (n + 1) + 1 .. j - 1 : Keeps(t[i])
  <2>1. \A i \in n + 1 .. m - 1 : Keeps(Tail(t)[i])
    BY <1>5, <1>6
  <2> QED
    BY <1>4, <1>6, <2>1 DEF Later
<1>7. CASE /\ Stores(t[j])
           /\ \A i \in (n + 1) + 1 .. j - 1 :
                ~Succeeds(t[i]) \/ \A k \in (n + 1) + 1 .. i : Keeps(t[k])
  <2>1. ASSUME NEW i \in n + 1 .. m - 1
        PROVE  ~Succeeds(Tail(t)[i]) \/ \A k \in n + 1 .. i : Keeps(Tail(t)[k])
    <3>1. CASE ~Succeeds(t[i + 1])
      BY <1>5, <3>1
    <3>2. CASE \A k \in (n + 1) + 1 .. i + 1 : Keeps(t[k])
      <4> SUFFICES ASSUME NEW k \in n + 1 .. i
                   PROVE  Keeps(Tail(t)[k])
        OBVIOUS
      <4>1. k \in n + 1 .. m - 1 /\ k + 1 \in (n + 1) + 1 .. i + 1
        BY <1>1, <1>3
      <4> QED
        BY <1>5, <3>2, <4>1
    <3> QED
      BY <1>5, <1>7, <3>1, <3>2
  <2> QED
    BY <1>4, <1>7, <2>1 DEF Later
<1> QED
  BY <1>2, <1>6, <1>7

LEMMA LaterFirst ==
  ASSUME NEW t, IsRun(t), Later(t, 0)
  PROVE  /\ t # <<>>
         /\ \/ Head(t).op = "else" \/ Fails(Head(t)) \/ Stores(Head(t))
            \/ Keeps(Head(t)) /\ Later(Tail(t), 0)
            \/ /\ ~Keeps(Head(t)) /\ ~Succeeds(Head(t))
               /\ Later(Tail(t), 0) /\ Delivers(Tail(t))
<1>2. PICK j \in DOMAIN t :
        /\ j > 0
        /\ \/ /\ t[j].op = "else" \/ Fails(t[j])
              /\ \A i \in 0 + 1 .. j - 1 : Keeps(t[i])
           \/ /\ Stores(t[j])
              /\ \A i \in 0 + 1 .. j - 1 :
                   ~Succeeds(t[i]) \/ \A k \in 0 + 1 .. i : Keeps(t[k])
  BY DEF Later
<1>3. t # <<>>
  BY <1>2
<1>1. /\ Len(t) \in Nat \ {0} /\ DOMAIN t = 1 .. Len(t) /\ t[1] = Head(t)
      /\ DOMAIN Tail(t) = 1 .. Len(t) - 1
      /\ \A k \in 1 .. Len(t) - 1 : Tail(t)[k] = t[k + 1]
  BY <1>3, RunParts
<1>4. CASE j = 1
  BY <1>1, <1>2, <1>3, <1>4
<1>5. CASE j # 1
  <2>0. j \in Nat /\ j > 1 /\ 1 \in 0 + 1 .. j - 1 /\ 1 \in DOMAIN t
    BY <1>1, <1>2, <1>5
  <2>1. Later(Tail(t), 0)
    <3>1. CASE /\ t[j].op = "else" \/ Fails(t[j])
               /\ \A i \in 0 + 1 .. j - 1 : Keeps(t[i])
      <4>1. \A i \in 1 + 1 .. j - 1 : Keeps(t[i])
        BY <2>0, <3>1
      <4>2. Later(t, 1)
        BY <2>0, <3>1, <4>1 DEF Later
      <4>3. PICK n \in Nat : n = 0
        OBVIOUS
      <4>4. Later(t, n + 1)
        BY <4>2, <4>3
      <4>5. Later(Tail(t), n)
        BY <1>3, <4>4, LaterTail
      <4> QED
        BY <4>3, <4>5
    <3>2. CASE /\ Stores(t[j])
               /\ \A i \in 0 + 1 .. j - 1 :
                    ~Succeeds(t[i]) \/ \A k \in 0 + 1 .. i : Keeps(t[k])
      <4>1. ASSUME NEW i \in 1 + 1 .. j - 1
            PROVE  ~Succeeds(t[i]) \/ \A k \in 1 + 1 .. i : Keeps(t[k])
        <5>1. i \in 0 + 1 .. j - 1 /\ \A k \in 1 + 1 .. i : k \in 0 + 1 .. i
          BY <2>0
        <5> QED
          BY <3>2, <5>1
      <4>2. Later(t, 1)
        BY <2>0, <3>2, <4>1 DEF Later
      <4>3. PICK n \in Nat : n = 0
        OBVIOUS
      <4>4. Later(t, n + 1)
        BY <4>2, <4>3
      <4>5. Later(Tail(t), n)
        BY <1>3, <4>4, LaterTail
      <4> QED
        BY <4>3, <4>5
    <3> QED
      BY <1>2, <3>1, <3>2
  <2>2. CASE Keeps(Head(t))
    BY <1>3, <2>1, <2>2
  <2>3. CASE ~Keeps(Head(t))
    <3>1. /\ Stores(t[j])
          /\ \A i \in 0 + 1 .. j - 1 :
               ~Succeeds(t[i]) \/ \A k \in 0 + 1 .. i : Keeps(t[k])
      BY <1>1, <1>2, <2>0, <2>3
    <3>2. \A i \in 1 .. j - 1 : ~Succeeds(t[i])
      <4> SUFFICES ASSUME NEW i \in 1 .. j - 1
                   PROVE  ~Succeeds(t[i])
        OBVIOUS
      <4>1. i \in 0 + 1 .. j - 1 /\ 1 \in 0 + 1 .. i
        BY <2>0
      <4> QED
        BY <1>1, <2>3, <3>1, <4>1
    <3>3. PICK m : m = j - 1
      OBVIOUS
    <3>4. m \in DOMAIN Tail(t) /\ Tail(t)[m] = t[j]
      BY <1>1, <2>0, <3>3
    <3>5. \A i \in 1 .. m - 1 : i + 1 \in 1 .. j - 1 /\ Tail(t)[i] = t[i + 1]
      BY <1>1, <2>0, <3>3
    <3>6. Delivers(Tail(t))
      BY <3>1, <3>2, <3>4, <3>5 DEF Delivers
    <3>7. 1 \in 1 .. j - 1
      BY <2>0
    <3> QED
      BY <1>1, <1>3, <2>1, <2>3, <3>2, <3>6, <3>7
  <2> QED
    BY <2>2, <2>3
<1> QED
  BY <1>4, <1>5

(* The result, without the first step.                                     *)
LEMMA DeliversFirst ==
  ASSUME NEW t, IsRun(t), Delivers(t)
  PROVE  /\ t # <<>>
         /\ \/ Stores(Head(t)) \/ Fails(Head(t))
            \/ Head(t).op = "stored" /\ Later(Tail(t), 0)
            \/ Hands(Head(t)) /\ Head(t).try /\ Later(Tail(t), 0)
            \/ ~Succeeds(Head(t)) /\ Delivers(Tail(t))
<1>1. PICK j \in DOMAIN t :
        /\ \A i \in 1 .. j - 1 : ~Succeeds(t[i])
        /\ \/ Stores(t[j])
           \/ Fails(t[j])
           \/ t[j].op = "stored" /\ Later(t, j)
           \/ Hands(t[j]) /\ t[j].try /\ Later(t, j)
  BY DEF Delivers
<1>2. t # <<>>
  BY <1>1
<1>3. /\ Len(t) \in Nat \ {0} /\ DOMAIN t = 1 .. Len(t) /\ t[1] = Head(t)
      /\ DOMAIN Tail(t) = 1 .. Len(t) - 1
      /\ \A k \in 1 .. Len(t) - 1 : Tail(t)[k] = t[k + 1]
  BY <1>2, RunParts
<1>4. PICK m : m = j - 1
  OBVIOUS
<1>5. m \in Nat /\ j = m + 1
  BY <1>3, <1>4
<1>6. Later(t, j) => Later(Tail(t), m)
  <2> SUFFICES ASSUME Later(t, j)
               PROVE  Later(Tail(t), m)
    OBVIOUS
  <2>1. Later(t, m + 1)
    BY <1>5
  <2> QED
    BY <1>2, <1>5, <2>1, LaterTail
<1>7. CASE j = 1
  <2>1. m = 0
    BY <1>4, <1>7
  <2> QED
    BY <1>1, <1>2, <1>3, <1>6, <1>7, <2>1
<1>8. CASE j # 1
  <2>1. m \in DOMAIN Tail(t) /\ Tail(t)[m] = t[j] /\ 1 \in 1 .. j - 1
    BY <1>3, <1>5, <1>8
  <2>2. \A i \in 1 .. m - 1 : i + 1 \in 1 .. j - 1 /\ Tail(t)[i] = t[i + 1]
    BY <1>3, <1>5
  <2>3. \A i \in 1 .. m - 1 : ~Succeeds(Tail(t)[i])
    BY <1>1, <2>2
  <2>4. Delivers(Tail(t))
    BY <1>1, <1>6, <2>1, <2>3 DEF Delivers
  <2> QED
    BY <1>1, <1>2, <1>3, <2>1, <2>4
<1> QED
  BY <1>7, <1>8

(* A return of a failure, in place of the rest.                            *)
LEMMA HonestReturn ==
  ASSUME NEW s
  PROVE  /\ Honest(Return(s)) /\ Return(s) # <<>>
         /\ \A r \in Runs(Return(s)) :
              s # "SUCCESS" => Delivers(r) /\ \A e : Settled(r, e)
<1> DEFINE st == [op |-> "return", ret |-> s]
           t == <<st>>
<1>1. Return(s) = t
  BY DEF Return
<1>2. /\ st.op = "return" /\ ~Asks(st)
      /\ s # "SUCCESS" => Fails(st) /\ \A e : Deals(st, e)
  BY DEF Asks, Fails, Deals, Settles
<1> HIDE DEF st
<1>3. Len(t) = 1 /\ DOMAIN t = {1} /\ t[1] = st /\ IsProgram(t)
  <2>1. Len(t) = 1 /\ DOMAIN t = 1 .. 1 /\ t[1] = st /\ IsProgram(t)
    BY DEF IsProgram
  <2> QED
    BY <2>1
<1>4. t # <<>>
  OBVIOUS
<1> HIDE DEF t
<1>5. Choices(t) = {}
  BY <1>2, <1>3 DEF Choices
<1>6. Shaped(t) /\ Picks(t) = {t}
  BY <1>3, <1>5 DEF Shaped, Picks
<1>7. Runs(t) = {t}
  BY <1>6 DEF Runs
<1>8. Tidy(t)
  BY <1>2, <1>3 DEF Tidy
<1>9. Honest(t)
  BY <1>2, <1>3, <1>5, <1>6, <1>7, <1>8 DEF Honest
<1>10. ASSUME s # "SUCCESS"
       PROVE  Delivers(t) /\ \A e : Settled(t, e)
  <2>1. \A i \in 1 .. 1 - 1 : FALSE
    OBVIOUS
  <2> QED
    BY <1>2, <1>3, <1>10, <2>1 DEF Delivers, Settled
<1> QED
  BY <1>1, <1>4, <1>7, <1>9, <1>10

(* The end of a program owes nothing and leaves nothing to be done.        *)
LEMMA RunsOfNothing ==
  /\ <<>> \in Runs(<<>>) /\ ~Delivers(<<>>) /\ ~Later(<<>>, 0)
  /\ \A s : ~Settled(<<>>, s)
<1>1. DOMAIN <<>> = {}
  OBVIOUS
<1>2. Choices(<<>>) = {}
  BY <1>1 DEF Choices
<1>3. Picks(<<>>) = {<<>>}
  BY <1>2 DEF Picks
<1> QED
  BY <1>1, <1>3 DEF Runs, Delivers, Later, Settled

-----------------------------------------------------------------------------
(* A success is true.                                                      *)

\* A frame as far as its result goes, and one that has not stored what its
\* function promises.
HasFields(f) ==
  {"fn", "todo", "held", "null", "stored", "pass", "try"} \subseteq DOMAIN f
Owes(f) == Promises(f.fn) /\ ~f.null /\ ~f.stored

\* The innermost frame, after the status st; fl: an access failed.
Upright(f, st, fl) ==
  /\ HasFields(f) /\ Honest(f.todo)
  /\ fl => st # "SUCCESS"
  /\ st # "SUCCESS" => \A r \in Runs(f.todo) : Settled(r, st)
  /\ Owes(f) => \A r \in Runs(f.todo) :
                  Delivers(r) \/ (st # "SUCCESS" /\ Later(r, 0))

\* A frame g that called f.
Waits(f, g) ==
  /\ HasFields(g) /\ Honest(g.todo)
  /\ f.try => \A r \in Runs(g.todo) : \A s : Settled(r, s)
  /\ Owes(g) => \A r \in Runs(g.todo) :
       \/ Delivers(r)
       \/ f.pass /\ Promises(f.fn) /\ ~f.null /\ (f.try => Later(r, 0))

(* The program goes on after a step that is no choice.                     *)
LEMMA HonestNext ==
  ASSUME NEW t, Honest(t), t # <<>>, Head(t).op # "choose"
  PROVE  /\ Honest(Tail(t))
         /\ \A v \in Runs(Tail(t)) :
              \E r \in Runs(t) : r # <<>> /\ Head(r) = Head(t) /\ v = Tail(r)
         /\ \E r \in Runs(t) : r # <<>> /\ Head(r) = Head(t)
         /\ Head(t).op = "call" => Head(t).fn \in DOMAIN Program \ Swallows
<1>1. /\ \A r \in Runs(t) : r # <<>> /\ Head(r) = Head(t)
      /\ \E r \in Runs(t) : TRUE
      /\ \A v \in Runs(Tail(t)) : \E r \in Runs(t) : v = Tail(r)
      /\ Shaped(Tail(t)) /\ Picks(Tail(t)) # {}
      /\ \A u \in Picks(Tail(t)) : Shaped(u) /\ Picks(u) # {}
  BY HonestTail
<1>2. ASSUME NEW r \in Runs(t)
      PROVE  /\ IsRun(r) /\ Tidy(r)
             /\ \A i \in DOMAIN r : r[i].op = "call" =>
                  r[i].fn \in DOMAIN Program \ Swallows
  BY RunsAreRuns DEF Honest
<1>3. ASSUME NEW v \in Runs(Tail(t))
      PROVE  /\ Choices(v) = {} /\ Tidy(v)
             /\ \A i \in DOMAIN v : v[i].op = "call" =>
                  v[i].fn \in DOMAIN Program \ Swallows
  <2>1. PICK r \in Runs(t) : v = Tail(r)
    BY <1>1
  <2>2. IsRun(r) /\ Tidy(r) /\ r # <<>>
    BY <1>1, <1>2
  <2>3. /\ Len(r) \in Nat \ {0} /\ DOMAIN r = 1 .. Len(r)
        /\ IsRun(v) /\ DOMAIN v = 1 .. Len(r) - 1
        /\ \A k \in 1 .. Len(r) - 1 : v[k] = r[k + 1]
    BY <2>1, <2>2, RunParts
  <2>4. \A i \in DOMAIN v : i + 1 \in DOMAIN r /\ v[i] = r[i + 1]
    BY <2>3
  <2>5. Tidy(v)
    BY <2>1, <2>2, TidyTail
  <2> QED
    BY <1>2, <2>3, <2>4, <2>5 DEF IsRun
<1>4. Honest(Tail(t))
  BY <1>1, <1>3 DEF Honest
<1>5. ASSUME Head(t).op = "call"
      PROVE  Head(t).fn \in DOMAIN Program \ Swallows
  <2>1. PICK r \in Runs(t) : TRUE
    BY <1>1
  <2>2. r # <<>> /\ Head(r) = Head(t) /\ IsRun(r)
    BY <1>1, <1>2
  <2>3. Len(r) \in Nat \ {0} /\ DOMAIN r = 1 .. Len(r) /\ r[1] = Head(r)
    BY <2>2, RunParts
  <2>4. 1 \in DOMAIN r
    BY <2>3
  <2> QED
    BY <1>2, <1>5, <2>2, <2>3, <2>4
<1> QED
  BY <1>1, <1>4, <1>5

(* A new status is asked for only when nothing has failed.                 *)
LEMMA AsksWhenFine ==
  ASSUME NEW f, NEW st, NEW fl, Upright(f, st, fl),
         f.todo # <<>>, Asks(Head(f.todo))
  PROVE  st = "SUCCESS" /\ ~fl
<1>1. PICK t : t = f.todo
  OBVIOUS
<1>2. Honest(t) /\ t # <<>> /\ Asks(Head(t)) /\ Head(t).op # "choose"
  BY <1>1 DEF Upright, Asks
<1>3. PICK r \in Runs(t) : r # <<>> /\ Head(r) = Head(t)
  BY <1>2, HonestNext
<1>4. IsRun(r)
  BY <1>2, RunsAreRuns
<1>5. ~Deals(Head(t), st) /\ ~Keeps(Head(t)) /\ Head(t).op # "excuse"
  BY <1>2 DEF Asks, Deals, Settles, Fails, Keeps
<1>6. ~Settled(r, st)
  BY <1>3, <1>4, <1>5, SettledTail
<1> QED
  BY <1>1, <1>6 DEF Upright

(* The frame goes on with the same status,                                 *)
LEMMA UprightOn ==
  ASSUME NEW f, NEW st, NEW fl, Upright(f, st, fl), f.todo # <<>>,
         Head(f.todo).op # "choose",
         NEW g, HasFields(g), g.todo = Tail(f.todo),
         st # "SUCCESS" => ~Deals(Head(f.todo), st),
         Owes(g) => /\ Owes(f) /\ ~Stores(Head(f.todo)) /\ ~Hands(Head(f.todo))
                    /\ ~Fails(Head(f.todo))
                    /\ Head(f.todo).op = "stored" => st # "SUCCESS"
  PROVE  Upright(g, st, fl)
<1>1. PICK t, h : t = f.todo /\ h = Head(t)
  OBVIOUS
<1>2. Honest(t) /\ t # <<>> /\ h.op # "choose" /\ g.todo = Tail(t)
  BY <1>1 DEF Upright
<1>3. /\ Honest(Tail(t))
      /\ \A v \in Runs(Tail(t)) :
           \E r \in Runs(t) : r # <<>> /\ Head(r) = Head(t) /\ v = Tail(r)
  BY <1>1, <1>2, HonestNext
<1>4. ASSUME NEW v \in Runs(g.todo)
      PROVE  /\ st # "SUCCESS" => Settled(v, st)
             /\ Owes(g) => Delivers(v) \/ (st # "SUCCESS" /\ Later(v, 0))
  <2>1. PICK r \in Runs(t) : r # <<>> /\ Head(r) = h /\ v = Tail(r)
    BY <1>1, <1>2, <1>3
  <2>2. IsRun(r)
    BY <1>2, RunsAreRuns
  <2>3. st # "SUCCESS" => Settled(r, st) /\ ~Deals(h, st)
    BY <1>1 DEF Upright
  <2>4. st # "SUCCESS" => Settled(v, st)
    BY <2>1, <2>2, <2>3, SettledTail
  <2>5. ASSUME Owes(g)
        PROVE  Delivers(v) \/ (st # "SUCCESS" /\ Later(v, 0))
    <3>1. /\ Delivers(r) \/ (st # "SUCCESS" /\ Later(r, 0))
          /\ ~Stores(h) /\ ~Hands(h) /\ ~Fails(h)
          /\ h.op = "stored" => st # "SUCCESS"
      BY <1>1, <2>5 DEF Upright
    <3>2. CASE Delivers(r)
      BY <2>1, <2>2, <3>1, <3>2, DeliversFirst
    <3>3. CASE st # "SUCCESS" /\ Later(r, 0)
      <4>1. h.op # "else"
        BY <2>3, <3>3 DEF Deals, Settles
      <4> QED
        BY <2>1, <2>2, <3>1, <3>3, <4>1, LaterFirst
    <3> QED
      BY <3>1, <3>2, <3>3
  <2> QED
    BY <2>4, <2>5
<1> QED
  BY <1>2, <1>3, <1>4 DEF Upright

(* with a failure that is answered,                                        *)
LEMMA UprightAnew ==
  ASSUME NEW f, NEW st, NEW fl, Upright(f, st, fl), f.todo # <<>>,
         Head(f.todo).op \in {"fallback", "forget", "excuse"},
         NEW g, HasFields(g), g.todo = Tail(f.todo), Owes(g) => Owes(f)
  PROVE  Upright(g, "SUCCESS", FALSE)
<1>1. PICK t, h : t = f.todo /\ h = Head(t)
  OBVIOUS
<1>2. /\ Honest(t) /\ t # <<>> /\ g.todo = Tail(t)
      /\ h.op \in {"fallback", "forget", "excuse"} /\ h.op # "choose"
  BY <1>1 DEF Upright
<1>3. /\ Honest(Tail(t))
      /\ \A v \in Runs(Tail(t)) :
           \E r \in Runs(t) : r # <<>> /\ Head(r) = Head(t) /\ v = Tail(r)
  BY <1>1, <1>2, HonestNext
<1>4. ASSUME NEW v \in Runs(g.todo), Owes(g)
      PROVE  Delivers(v)
  <2>1. PICK r \in Runs(t) : r # <<>> /\ Head(r) = h /\ v = Tail(r)
    BY <1>1, <1>2, <1>3, <1>4
  <2>2. IsRun(r)
    BY <1>2, RunsAreRuns
  <2>3. Delivers(r) \/ Later(r, 0)
    BY <1>1, <1>4 DEF Upright
  <2>4. /\ ~Stores(h) /\ ~Hands(h) /\ ~Fails(h) /\ ~Keeps(h)
        /\ h.op # "else" /\ h.op # "stored"
    BY <1>2 DEF Stores, Hands, Fails, Keeps
  <2> QED
    BY <2>1, <2>2, <2>3, <2>4, DeliversFirst, LaterFirst
<1> QED
  BY <1>2, <1>3, <1>4 DEF Upright

(* with a failure that it will look at,                                    *)
LEMMA UprightFailed ==
  ASSUME NEW f, NEW st, NEW fl, Upright(f, st, fl), f.todo # <<>>,
         Head(f.todo).op \in {"read", "write"}, Head(f.todo).try,
         NEW g, HasFields(g), g.todo = Tail(f.todo), Owes(g) => Owes(f),
         NEW s \in ErrnoToRsmiStatus
  PROVE  Upright(g, s, TRUE)
<1>1. PICK t, h : t = f.todo /\ h = Head(t)
  OBVIOUS
<1>2. /\ Honest(t) /\ t # <<>> /\ g.todo = Tail(t) /\ h.try
      /\ h.op \in {"read", "write"} /\ h.op # "choose" /\ Asks(h)
  BY <1>1 DEF Upright, Asks
<1>3. /\ Honest(Tail(t))
      /\ \A v \in Runs(Tail(t)) :
           \E r \in Runs(t) : r # <<>> /\ Head(r) = Head(t) /\ v = Tail(r)
  BY <1>1, <1>2, HonestNext
<1>4. st = "SUCCESS"
  BY <1>1, <1>2, AsksWhenFine
<1>5. s # "SUCCESS"
  BY DEF ErrnoToRsmiStatus
<1>6. ASSUME NEW v \in Runs(g.todo)
      PROVE  Settled(v, s) /\ (Owes(g) => Delivers(v))
  <2>1. PICK r \in Runs(t) : r # <<>> /\ Head(r) = h /\ v = Tail(r)
    BY <1>1, <1>2, <1>3, <1>6
  <2>2. IsRun(r) /\ Tidy(r)
    BY <1>2, RunsAreRuns
  <2>3. Settled(v, s)
    BY <1>2, <2>1, <2>2, SettledAfter
  <2>4. Owes(g) => Delivers(r)
    BY <1>1, <1>4 DEF Upright
  <2>5. ~Stores(h) /\ ~Hands(h) /\ ~Fails(h) /\ h.op # "stored"
    BY <1>2 DEF Stores, Hands, Fails
  <2> QED
    BY <2>1, <2>2, <2>3, <2>4, <2>5, DeliversFirst
<1> QED
  BY <1>2, <1>3, <1>5, <1>6 DEF Upright

(* or with one of the programs of a choice.                                *)
LEMMA UprightChoice ==
  ASSUME NEW f, NEW st, NEW fl, Upright(f, st, fl), f.todo # <<>>,
         Head(f.todo).op = "choose", NEW P \in Head(f.todo).of,
         NEW g, HasFields(g), g.todo = P \o Tail(f.todo), Owes(g) => Owes(f)
  PROVE  Upright(g, st, fl)
<1>1. PICK t : t = f.todo
  OBVIOUS
<1>2. Honest(t) /\ t # <<>> /\ Head(t).op = "choose" /\ P \in Head(t).of
  BY <1>1 DEF Upright
<1>3. Honest(P \o Tail(t)) /\ Runs(P \o Tail(t)) \subseteq Runs(t)
  BY <1>2, HonestChoice
<1>4. Honest(g.todo) /\ \A r \in Runs(g.todo) : r \in Runs(t)
  BY <1>1, <1>3
<1> QED
  BY <1>1, <1>4 DEF Upright

(* It calls another function, which starts.                                *)
LEMMA UprightCall ==
  ASSUME NEW f, NEW st, NEW fl, Upright(f, st, fl), f.todo # <<>>,
         Head(f.todo).op = "call",
         NEW g, HasFields(g), g.todo = Tail(f.todo), Owes(g) => Owes(f),
         NEW e, HasFields(e), e.fn = Head(f.todo).fn, e.todo = Program[e.fn],
         e.pass = Head(f.todo).pass, e.try = Head(f.todo).try,
         e.null => f.null
  PROVE  Upright(e, st, fl) /\ Waits(e, g)
<1>1. PICK t, h : t = f.todo /\ h = Head(t)
  OBVIOUS
<1>2. /\ Honest(t) /\ t # <<>> /\ g.todo = Tail(t)
      /\ h.op = "call" /\ h.op # "choose" /\ Asks(h)
      /\ e.fn = h.fn /\ e.pass = h.pass /\ e.try = h.try
  BY <1>1 DEF Upright, Asks
<1>3. /\ Honest(Tail(t))
      /\ \A v \in Runs(Tail(t)) :
           \E r \in Runs(t) : r # <<>> /\ Head(r) = Head(t) /\ v = Tail(r)
      /\ h.fn \in DOMAIN Program \ Swallows
  BY <1>1, <1>2, HonestNext
<1>4. st = "SUCCESS" /\ ~fl
  BY <1>1, <1>2, AsksWhenFine
<1>5. Upright(e, st, fl)
  <2>1. Honest(Program[e.fn])
        /\ (Promises(e.fn) => \A r \in Runs(Program[e.fn]) : Delivers(r))
    BY <1>2, <1>3, ResultAssumption
  <2> QED
    BY <1>4, <2>1 DEF Upright, Owes
<1>6. ASSUME NEW v \in Runs(g.todo)
      PROVE  /\ e.try => \A s : Settled(v, s)
             /\ Owes(g) =>
                  \/ Delivers(v)
                  \/ e.pass /\ Promises(e.fn) /\ ~e.null /\ (e.try => Later(v, 0))
  <2>1. PICK r \in Runs(t) : r # <<>> /\ Head(r) = h /\ v = Tail(r)
    BY <1>1, <1>2, <1>3, <1>6
  <2>2. IsRun(r) /\ Tidy(r)
    BY <1>2, RunsAreRuns
  <2>3. ASSUME e.try, NEW s
        PROVE  Settled(v, s)
    BY <1>2, <2>1, <2>2, <2>3, SettledAfter
  <2>4. ASSUME Owes(g)
        PROVE  \/ Delivers(v)
               \/ e.pass /\ Promises(e.fn) /\ ~e.null /\ (e.try => Later(v, 0))
    <3>1. Delivers(r) /\ ~e.null
      BY <1>1, <1>4, <2>4 DEF Upright, Owes
    <3>2. ~Fails(h) /\ h.op # "stored" /\ h.op \notin {"store", "given"}
      BY <1>2 DEF Fails
    <3>3. Hands(h) => e.pass /\ Promises(e.fn)
      BY <1>2 DEF Hands
    <3>4. \/ Hands(h) /\ ~h.try
          \/ Hands(h) /\ h.try /\ Later(v, 0)
          \/ Delivers(v)
      BY <2>1, <2>2, <3>1, <3>2, DeliversFirst DEF Stores
    <3> QED
      BY <1>2, <3>1, <3>3, <3>4
  <2> QED
    BY <2>3, <2>4
<1>7. Waits(e, g)
  BY <1>2, <1>3, <1>6 DEF Waits
<1> QED
  BY <1>5, <1>7

(* What a function may return: a success only when nothing has failed and  *)
(* the result is there.                                                    *)
Truthful(f, s, fails) ==
  /\ fails => s # "SUCCESS"
  /\ s = "SUCCESS" => ~Owes(f)

LEMMA UprightReturns ==
  ASSUME NEW f, NEW st, NEW fl, Upright(f, st, fl), NEW s,
         \/ f.todo = <<>>
         \/ s # "SUCCESS"
         \/ /\ f.todo # <<>> /\ Succeeds(Head(f.todo))
            /\ Head(f.todo).op = "when" => st \in Head(f.todo).of
  PROVE  Truthful(f, s, fl)
<1>1. CASE s # "SUCCESS"
  BY <1>1 DEF Truthful
<1>2. CASE f.todo = <<>>
  <2>1. <<>> \in Runs(f.todo) /\ ~Delivers(<<>>) /\ ~Later(<<>>, 0)
        /\ ~Settled(<<>>, st)
    BY <1>2, RunsOfNothing
  <2> QED
    BY <2>1 DEF Upright, Truthful
<1>3. CASE /\ f.todo # <<>> /\ Succeeds(Head(f.todo))
           /\ Head(f.todo).op = "when" => st \in Head(f.todo).of
  <2>1. PICK t, h : t = f.todo /\ h = Head(t)
    OBVIOUS
  <2>2. /\ Honest(t) /\ t # <<>> /\ Succeeds(h)
        /\ h.op \in {"may", "null", "when", "return"} /\ h.op # "choose"
        /\ h.op = "when" => st \in h.of
    BY <1>3, <2>1 DEF Upright, Succeeds
  <2>3. PICK r \in Runs(t) : r # <<>> /\ Head(r) = h
    BY <2>1, <2>2, HonestNext
  <2>4. IsRun(r)
    BY <2>2, RunsAreRuns
  <2>5. ~Stores(h) /\ ~Fails(h) /\ ~Hands(h) /\ h.op # "stored"
    BY <2>2 DEF Stores, Hands, Fails, Succeeds
  <2>6. ASSUME st # "SUCCESS"
        PROVE  FALSE
    <3>1. ~Deals(h, st)
      BY <2>2 DEF Deals, Settles, Fails, Succeeds
    <3>2. ~Keeps(h) /\ h.op # "excuse"
      BY <2>2, <2>6 DEF Keeps, Succeeds
    <3>3. ~Settled(r, st)
      BY <2>3, <2>4, <3>1, <3>2, SettledTail
    <3> QED
      BY <2>1, <2>6, <3>3 DEF Upright
  <2>7. ~Delivers(r)
    BY <2>2, <2>3, <2>4, <2>5, DeliversFirst
  <2> QED
    BY <2>1, <2>6, <2>7 DEF Upright, Truthful
<1> QED
  BY <1>1, <1>2, <1>3

(* Its caller goes on.                                                     *)
LEMMA UprightResumed ==
  ASSUME NEW f, NEW g, Waits(f, g), NEW s, NEW fails, Truthful(f, s, fails)
  PROVE  Upright(GoesOn(g, f, s), s, fails)
<1> DEFINE d == GoesOn(g, f, s)
<1>1. HasFields(g) /\ Honest(g.todo)
  BY DEF Waits
<1>2. /\ HasFields(d) /\ d.fn = g.fn /\ d.null = g.null
      /\ d.stored = (g.stored \/ (f.pass /\ f.stored))
      /\ d.todo = IF s = "SUCCESS" \/ f.try THEN g.todo ELSE Return(s)
  BY <1>1 DEF HasFields, GoesOn
<1> HIDE DEF d
<1>3. Owes(d) => Owes(g) /\ ~(f.pass /\ f.stored)
  BY <1>2 DEF Owes
<1>4. CASE s = "SUCCESS"
  <2>1. d.todo = g.todo /\ ~fails /\ ~Owes(f)
    BY <1>2, <1>4 DEF Truthful
  <2>2. ASSUME Owes(d), NEW r \in Runs(g.todo)
        PROVE  Delivers(r)
    BY <1>3, <2>1, <2>2 DEF Waits, Owes
  <2> QED
    BY <1>1, <1>2, <1>4, <2>1, <2>2 DEF Upright, d
<1>5. CASE s # "SUCCESS" /\ f.try
  <2>1. d.todo = g.todo
    BY <1>2, <1>5
  <2>2. \A r \in Runs(g.todo) : Settled(r, s)
    BY <1>5 DEF Waits
  <2>3. Owes(d) => \A r \in Runs(g.todo) : Delivers(r) \/ Later(r, 0)
    BY <1>3, <1>5 DEF Waits
  <2> QED
    BY <1>1, <1>2, <1>5, <2>1, <2>2, <2>3 DEF Upright, d
<1>6. CASE s # "SUCCESS" /\ ~f.try
  <2>1. d.todo = Return(s)
    BY <1>2, <1>6
  <2>2. /\ Honest(Return(s))
        /\ \A r \in Runs(Return(s)) : Delivers(r) /\ \A e : Settled(r, e)
    BY <1>6, HonestReturn
  <2> QED
    BY <1>2, <1>6, <2>1, <2>2 DEF Upright, d
<1> QED
  BY <1>4, <1>5, <1>6

\* Every frame but the innermost waits for the one it called.
Chain(s) == \A i \in 1 .. Len(s) - 1 : Waits(s[i], s[i + 1])
TrueStack(s, st, fl) ==
  IF s = <<>> THEN st = "SUCCESS" /\ ~fl
  ELSE Outermost(s) \in Swallows \/ (Upright(Head(s), st, fl) /\ Chain(s))
TrueResult(r) ==
  /\ r.st = "SUCCESS" /\ Promises(r.fn) /\ ~r.null => r.stored
  /\ r.st = "SUCCESS" /\ r.failed => r.fn \in Swallows
TruthInv ==
  /\ status = [p \in Procs |-> status[p]]
  /\ failed = [p \in Procs |-> failed[p]]
  /\ result = [p \in Procs |-> result[p]]
  /\ \A p \in Procs : TrueResult(result[p])
  /\ \A p \in Procs \ dead : TrueStack(stack[p], status[p], failed[p])

(* A frame on a stack.                                                     *)
LEMMA ChainPush ==
  ASSUME NEW u, IsStack(u), NEW f, IsFrame(f)
  PROVE  /\ Chain(<<f>> \o u) <=> Chain(u) /\ (u # <<>> => Waits(f, Head(u)))
         /\ <<f>> \o u # <<>> /\ Head(<<f>> \o u) = f
<1> DEFINE s == <<f>> \o u
           n == Len(u)
<1>1. /\ IsStack(s) /\ s # <<>> /\ Len(s) = n + 1 /\ s[1] = f
      /\ \A i \in 1 .. n : s[i + 1] = u[i]
  BY Pushed
<1>2. n \in Nat /\ (u # <<>> => n # 0 /\ Head(u) = u[1]) /\ (u = <<>> => n = 0)
  <2>1. n \in Nat
    BY StackFrames
  <2>2. u # <<>> => n # 0 /\ Head(u) = u[1]
    BY Popped
  <2>3. u = <<>> => n = 0
    OBVIOUS
  <2> QED
    BY <2>1, <2>2, <2>3
<1>3. Head(s) = f
  BY <1>1, Popped
<1> HIDE DEF s, n
<1>4. ASSUME Chain(s)
      PROVE  Chain(u) /\ (u # <<>> => Waits(f, Head(u)))
  <2>1. \A i \in 1 .. n : Waits(s[i], s[i + 1])
    BY <1>1, <1>2, <1>4 DEF Chain
  <2>2. ASSUME NEW i \in 1 .. n - 1
        PROVE  Waits(u[i], u[i + 1])
    <3>1. i \in 1 .. n /\ i + 1 \in 1 .. n
      BY <1>2
    <3>2. s[i + 1] = u[i] /\ s[(i + 1) + 1] = u[i + 1]
      BY <1>1, <3>1
    <3> QED
      BY <2>1, <3>1, <3>2
  <2>3. ASSUME u # <<>>
        PROVE  Waits(f, Head(u))
    <3>1. 1 \in 1 .. n
      BY <1>2, <2>3
    <3> QED
      BY <1>1, <1>2, <2>1, <2>3, <3>1
  <2> QED
    BY <2>2, <2>3 DEF Chain, n
<1>5. ASSUME Chain(u), u # <<>> => Waits(f, Head(u))
      PROVE  Chain(s)
  <2> SUFFICES ASSUME NEW i \in 1 .. n
               PROVE  Waits(s[i], s[i + 1])
    BY <1>1, <1>2 DEF Chain
  <2>1. CASE i = 1
    BY <1>1, <1>2, <1>5, <2>1
  <2>2. CASE i # 1
    <3>1. PICK k \in 1 .. n - 1 : i = k + 1
      <4>1. i - 1 \in 1 .. n - 1 /\ i = (i - 1) + 1
        BY <1>2, <2>2
      <4> QED
        BY <4>1
    <3>2. k \in 1 .. n /\ k + 1 \in 1 .. n
      BY <1>2
    <3>3. s[k + 1] = u[k] /\ s[(k + 1) + 1] = u[k + 1]
      BY <1>1, <3>2
    <3> QED
      BY <1>5, <3>1, <3>3 DEF Chain, n
  <2> QED
    BY <2>1, <2>2
<1> QED
  BY <1>1, <1>3, <1>4, <1>5 DEF s

(* The innermost frame f of a stack makes place for g.                     *)
Replaces(f, g) == g.fn = f.fn /\ g.null = f.null /\ g.pass = f.pass /\ g.try = f.try
LEMMA ChainReplaced ==
  ASSUME NEW u, IsStack(u), NEW f, IsFrame(f), NEW g, IsFrame(g),
         Replaces(f, g), Chain(<<f>> \o u)
  PROVE  Chain(<<g>> \o u)
<1>1. Chain(u) /\ (u # <<>> => Waits(f, Head(u)))
  BY ChainPush
<1>2. Waits(f, Head(u)) => Waits(g, Head(u))
  BY DEF Waits, Replaces
<1> QED
  BY <1>1, <1>2, ChainPush

LEMMA OutermostKept ==
  ASSUME NEW u, IsStack(u), NEW f, IsFrame(f), NEW g, IsFrame(g), g.fn = f.fn
  PROVE  Outermost(<<g>> \o u) = Outermost(<<f>> \o u)
<1>1. u = <<>> => Outermost(<<f>> \o u) = f.fn /\ Outermost(<<g>> \o u) = g.fn
  BY SafePush
<1>2. u # <<>> => /\ Outermost(<<f>> \o u) = Outermost(u)
                  /\ Outermost(<<g>> \o u) = Outermost(u)
  BY SafePush
<1> QED
  BY <1>1, <1>2

LEMMA TopStep ==
  ASSUME NEW r, NEW f, NEW u, NEW g, NEW s, IsStack(u), IsFrame(f), IsFrame(g),
         r = <<f>> \o u, s = <<g>> \o u, g.fn = f.fn,
         NEW st, NEW fl, NEW st2, NEW fl2, TrueStack(r, st, fl),
         Upright(f, st, fl) => Upright(g, st2, fl2) /\ Replaces(f, g)
  PROVE  TrueStack(s, st2, fl2)
<1>1. r # <<>> /\ s # <<>> /\ Head(r) = f /\ Head(s) = g
  BY ChainPush
<1>2. Outermost(s) = Outermost(r)
  BY OutermostKept
<1>3. Replaces(f, g) /\ Chain(r) => Chain(s)
  BY ChainReplaced
<1> QED
  BY <1>1, <1>2, <1>3 DEF TrueStack

(* One process makes a step.                                               *)
LEMMA TruthStep ==
  ASSUME StackInv, TruthInv, NEW p \in Procs, NEW s, NEW st, NEW fl, NEW rs,
         stack' = [stack EXCEPT ![p] = s], status' = [status EXCEPT ![p] = st],
         failed' = [failed EXCEPT ![p] = fl],
         result' = [result EXCEPT ![p] = rs],
         dead \subseteq dead', TrueResult(rs), p \notin dead' => TrueStack(s, st, fl)
  PROVE  TruthInv'
<1>1. /\ stack'[p] = s /\ status'[p] = st /\ failed'[p] = fl /\ result'[p] = rs
  BY DEF StackInv, TruthInv
<1>2. \A q \in Procs \ {p} : /\ stack'[q] = stack[q] /\ status'[q] = status[q]
                             /\ failed'[q] = failed[q] /\ result'[q] = result[q]
  BY DEF StackInv, TruthInv
<1>3. /\ status' = [q \in Procs |-> status'[q]]
      /\ failed' = [q \in Procs |-> failed'[q]]
      /\ result' = [q \in Procs |-> result'[q]]
  BY DEF TruthInv
<1>4. \A q \in Procs : TrueResult(result'[q])
  BY <1>1, <1>2 DEF TruthInv
<1>5. \A q \in Procs \ dead' : TrueStack(stack'[q], status'[q], failed'[q])
  <2> SUFFICES ASSUME NEW q \in Procs \ dead'
               PROVE  TrueStack(stack'[q], status'[q], failed'[q])
    OBVIOUS
  <2>1. CASE q = p
    BY <1>1, <2>1
  <2>2. CASE q # p
    <3>1. q \in Procs \ {p} /\ q \in Procs \ dead
      BY <2>2
    <3>2. TrueStack(stack[q], status[q], failed[q])
      BY <3>1 DEF TruthInv
    <3> QED
      BY <1>2, <3>1, <3>2
  <2> QED
    BY <2>1, <2>2
<1>6. TruthInv' <=>
        /\ status' = [q \in Procs |-> status'[q]]
        /\ failed' = [q \in Procs |-> failed'[q]]
        /\ result' = [q \in Procs |-> result'[q]]
        /\ \A q \in Procs : TrueResult(result'[q])
        /\ \A q \in Procs \ dead' : TrueStack(stack'[q], status'[q], failed'[q])
  BY DEF TruthInv, TrueResult, TrueStack, Outermost, Upright, Waits, Chain, Owes
<1> QED
  BY <1>3, <1>4, <1>5, <1>6

\* The innermost frame of p makes place for g, with todo left.
Onto(p, g, todo) ==
  /\ IsFrame(g) /\ g.fn = Top(p).fn /\ g.todo = todo
  /\ HasFields(Top(p)) => HasFields(g) /\ Replaces(Top(p), g)
  /\ stack' = [stack EXCEPT ![p] = <<g>> \o Tail(stack[p])]
SameStored(f, g) == HasFields(f) => g.stored = f.stored

LEMMA GotoOnto ==
  ASSUME StackInv, NEW p \in Procs, stack[p] # <<>>, NEW todo, Goto(p, todo)
  PROVE  \E g : Onto(p, g, todo) /\ SameStored(Top(p), g)
<1> DEFINE g == [stack[p][1] EXCEPT !.todo = todo]
<1>1. IsStack(stack[p]) /\ IsFrame(Top(p)) /\ stack[p][1] = Top(p)
  BY Popped DEF StackInv, Top
<1>2. /\ IsFrame(g) /\ g.fn = Top(p).fn /\ g.todo = todo
      /\ HasFields(Top(p)) => HasFields(g) /\ Replaces(Top(p), g)
      /\ SameStored(Top(p), g)
  BY <1>1 DEF IsFrame, HasFields, Replaces, SameStored
<1>3. stack' = [stack EXCEPT ![p] = [stack[p] EXCEPT ![1] = g]]
  BY DEF Goto, StackInv
<1> HIDE DEF g
<1>4. [stack[p] EXCEPT ![1] = g] = <<g>> \o Tail(stack[p])
  BY <1>1, <1>2, TopChanged
<1>5. Onto(p, g, todo)
  BY <1>2, <1>3, <1>4 DEF Onto
<1> QED
  BY <1>2, <1>5

LEMMA AdvanceOnto ==
  ASSUME StackInv, NEW p \in Procs, stack[p] # <<>>, Advance(p)
  PROVE  \E g : Onto(p, g, Tail(Top(p).todo)) /\ SameStored(Top(p), g)
<1>1. PICK todo : todo = Tail(Top(p).todo)
  OBVIOUS
<1>2. Goto(p, todo)
  BY <1>1 DEF Advance, Goto
<1>3. \E g : Onto(p, g, todo) /\ SameStored(Top(p), g)
  BY <1>2, GotoOnto
<1> QED
  BY <1>1, <1>3

(* A step that changes two fields of the innermost frame.                  *)
LEMMA AcquireOnto ==
  ASSUME StackInv, MutexInv, NEW p \in Procs, stack[p] # <<>>, Acquire(p)
  PROVE  \E g : Onto(p, g, Tail(Top(p).todo)) /\ SameStored(Top(p), g)
<1>1. CASE mutex.state = "unusable"
  BY <1>1, AdvanceOnto DEF Acquire
<1>2. CASE mutex.state # "unusable"
  <2> DEFINE g0 == [stack[p][1] EXCEPT !.todo = Tail(@)]
             g == [g0 EXCEPT !.held = @ + 1]
  <2>1. IsStack(stack[p]) /\ IsFrame(Top(p)) /\ stack[p][1] = Top(p)
        /\ Len(stack[p]) \in Nat \ {0} /\ DOMAIN stack[p] = 1 .. Len(stack[p])
    BY Popped, StackFrames DEF StackInv, Top
  <2>2. /\ IsFrame(g0) /\ g0.fn = Top(p).fn /\ g0.todo = Tail(Top(p).todo)
        /\ HasFields(Top(p)) => HasFields(g0) /\ Replaces(Top(p), g0)
        /\ SameStored(Top(p), g0)
    BY <2>1 DEF IsFrame, HasFields, Replaces, SameStored
  <2> HIDE DEF g0
  <2>3. /\ IsFrame(g) /\ g.fn = Top(p).fn /\ g.todo = Tail(Top(p).todo)
        /\ HasFields(g0) => HasFields(g) /\ Replaces(g0, g) /\ g.stored = g0.stored
    BY <2>2 DEF IsFrame, HasFields, Replaces
  <2>4. stack' = [stack EXCEPT ![p] = <<g>> \o Tail(stack[p])]
    <3>0. stack' = [stack EXCEPT ![p][1].todo = Tail(@), ![p][1].held = @ + 1]
      BY <1>2 DEF Acquire
    <3> DEFINE u == [stack[p] EXCEPT ![1] = g0]
               S2 == [stack EXCEPT ![p] = u]
    <3>1. stack' = [S2 EXCEPT ![p][1].held = @ + 1]
      BY <3>0 DEF g0
    <3>2. S2[p] = u /\ u[1] = g0
      BY <2>1 DEF StackInv
    <3>3. stack' = [S2 EXCEPT ![p] = [u EXCEPT ![1] = g]]
      BY <3>1, <3>2
    <3> HIDE DEF g, g0
    <3>4. /\ [u EXCEPT ![1] = g] = [stack[p] EXCEPT ![1] = g]
          /\ [S2 EXCEPT ![p] = [u EXCEPT ![1] = g]]
               = [stack EXCEPT ![p] = [u EXCEPT ![1] = g]]
      OBVIOUS
    <3>5. [stack[p] EXCEPT ![1] = g] = <<g>> \o Tail(stack[p])
      BY <2>1, <2>3, TopChanged
    <3> QED
      BY <3>3, <3>4, <3>5
  <2> HIDE DEF g
  <2>5. HasFields(Top(p)) => /\ HasFields(g) /\ Replaces(Top(p), g)
                             /\ g.stored = Top(p).stored
    BY <2>2, <2>3 DEF Replaces, SameStored
  <2>6. Onto(p, g, Tail(Top(p).todo)) /\ SameStored(Top(p), g)
    BY <2>3, <2>4, <2>5 DEF Onto, SameStored
  <2> QED
    BY <2>6
<1> QED
  BY <1>1, <1>2

LEMMA StoreOnto ==
  ASSUME StackInv, NEW p \in Procs, stack[p] # <<>>, NEW c,
         stack' = [stack EXCEPT ![p][1].todo = Tail(@), ![p][1].stored = @ \/ c]
  PROVE  \E g : /\ Onto(p, g, Tail(Top(p).todo))
                /\ HasFields(Top(p)) => (g.stored <=> Top(p).stored \/ c)
<1> DEFINE g0 == [stack[p][1] EXCEPT !.todo = Tail(@)]
           g == [g0 EXCEPT !.stored = @ \/ c]
<1>1. IsStack(stack[p]) /\ IsFrame(Top(p)) /\ stack[p][1] = Top(p)
      /\ 1 \in DOMAIN stack[p]
  <2>1. PICK s : s = stack[p]
    OBVIOUS
  <2>2. IsStack(s) /\ s # <<>>
    BY <2>1 DEF StackInv
  <2>3. IsFrame(Head(s)) /\ s[1] = Head(s)
    BY ONLY <2>2, Popped
  <2>4. 1 \in DOMAIN s
    BY ONLY <2>2 DEF IsStack
  <2> QED
    BY <2>1, <2>2, <2>3, <2>4 DEF Top
<1>2. /\ IsFrame(g0) /\ g0.fn = Top(p).fn /\ g0.todo = Tail(Top(p).todo)
      /\ HasFields(Top(p)) => HasFields(g0) /\ Replaces(Top(p), g0)
      /\ SameStored(Top(p), g0)
  BY <1>1 DEF IsFrame, HasFields, Replaces, SameStored
<1> HIDE DEF g0
<1>3. /\ IsFrame(g) /\ g.fn = Top(p).fn /\ g.todo = Tail(Top(p).todo)
      /\ HasFields(g0) => HasFields(g) /\ Replaces(g0, g) /\ g.stored = (g0.stored \/ c)
  BY <1>2 DEF IsFrame, HasFields, Replaces
<1>4. stack' = [stack EXCEPT ![p] = <<g>> \o Tail(stack[p])]
  <2> DEFINE u == [stack[p] EXCEPT ![1] = g0]
             S2 == [stack EXCEPT ![p] = u]
  <2>1. stack' = [S2 EXCEPT ![p][1].stored = @ \/ c]
    BY DEF g0
  <2>2. S2[p] = u /\ u[1] = g0
    BY <1>1 DEF StackInv
  <2>3. stack' = [S2 EXCEPT ![p] = [u EXCEPT ![1] = g]]
    BY <2>1, <2>2
  <2> HIDE DEF g, g0
  <2>4. /\ [u EXCEPT ![1] = g] = [stack[p] EXCEPT ![1] = g]
        /\ [S2 EXCEPT ![p] = [u EXCEPT ![1] = g]]
             = [stack EXCEPT ![p] = [u EXCEPT ![1] = g]]
    OBVIOUS
  <2>5. [stack[p] EXCEPT ![1] = g] = <<g>> \o Tail(stack[p])
    BY <1>1, <1>3, TopChanged
  <2> QED
    BY <2>3, <2>4, <2>5
<1> HIDE DEF g
<1>5. HasFields(Top(p)) => /\ HasFields(g) /\ Replaces(Top(p), g)
                           /\ (g.stored <=> Top(p).stored \/ c)
  BY <1>2, <1>3 DEF Replaces, SameStored
<1>6. Onto(p, g, Tail(Top(p).todo))
  BY <1>3, <1>4, <1>5 DEF Onto
<1> QED
  BY <1>5, <1>6

(* The innermost frame of a process changes, with the status.              *)
LEMMA TruthOnto ==
  ASSUME StackInv, TruthInv, NEW p \in Procs, Running(p), NEW g, NEW todo,
         Onto(p, g, todo), NEW st, NEW fl,
         status' = [status EXCEPT ![p] = st], failed' = [failed EXCEPT ![p] = fl],
         UNCHANGED <<result, dead>>,
         Upright(Top(p), status[p], failed[p]) => Upright(g, st, fl)
  PROVE  TruthInv'
<1>1. PICK r, f, u, s : /\ r = stack[p] /\ f = Top(p) /\ u = Tail(stack[p])
                        /\ s = <<g>> \o u
  OBVIOUS
<1>2. p \in Procs \ dead /\ stack[p] # <<>> /\ IsStack(stack[p])
  BY DEF Running, StackInv
<1>3. IsStack(u) /\ IsFrame(f) /\ r = <<f>> \o u
  BY <1>1, <1>2, Popped DEF Top
<1>4. TrueStack(r, status[p], failed[p])
  BY <1>1, <1>2 DEF TruthInv
<1>5. /\ IsFrame(g) /\ g.fn = f.fn
      /\ Upright(f, status[p], failed[p]) => Upright(g, st, fl) /\ Replaces(f, g)
  BY <1>1 DEF Onto, Upright
<1>6. TrueStack(s, st, fl)
  BY <1>1, <1>3, <1>4, <1>5, TopStep
<1>7. stack' = [stack EXCEPT ![p] = s]
  BY <1>1 DEF Onto
<1>8. result' = [result EXCEPT ![p] = result[p]] /\ TrueResult(result[p])
      /\ dead \subseteq dead'
  BY DEF TruthInv
<1> QED
  BY <1>6, <1>7, <1>8, TruthStep

(* The innermost frame goes on with the same status.                       *)
LEMMA TruthPasses ==
  ASSUME StackInv, TruthInv, NEW p \in Procs, Running(p), Top(p).todo # <<>>,
         NEW g, Onto(p, g, Tail(Top(p).todo)), SameStored(Top(p), g),
         UNCHANGED <<status, failed, result, dead>>,
         Step(p).op \in {"lock", "blocking", "dev", "root", "null", "may", "when",
                         "excuse", "else"},
         Step(p).op = "when" => status[p] \notin Step(p).of,
         Step(p).op = "else" => status[p] = "SUCCESS"
  PROVE  TruthInv'
<1>1. PICK f, h, st : f = Top(p) /\ h = Step(p) /\ st = status[p]
  OBVIOUS
<1>2. /\ f.todo # <<>> /\ h = Head(f.todo) /\ h.op # "choose"
      /\ h.op # "stored" /\ h.op # "fallback" /\ h.op # "forget"
      /\ h.op # "store" /\ h.op # "given" /\ h.op # "call" /\ h.op # "return"
      /\ h.op = "when" => st \notin h.of
      /\ h.op = "else" => st = "SUCCESS"
  BY <1>1 DEF Step
<1>3. ~Stores(h) /\ ~Hands(h) /\ ~Fails(h)
  BY <1>2 DEF Stores, Hands, Fails
<1>4. st # "SUCCESS" => ~Deals(h, st)
  BY <1>2 DEF Deals, Settles, Fails
<1>5. ASSUME Upright(f, st, failed[p])
      PROVE  Upright(g, st, failed[p])
  <2>1. HasFields(f)
    BY <1>5 DEF Upright
  <2>2. HasFields(g) /\ g.todo = Tail(f.todo) /\ (Owes(g) => Owes(f))
    BY <1>1, <2>1 DEF Onto, Replaces, SameStored, Owes
  <2> QED
    BY <1>2, <1>3, <1>4, <1>5, <2>2, UprightOn
<1>6. /\ status' = [status EXCEPT ![p] = status[p]]
      /\ failed' = [failed EXCEPT ![p] = failed[p]]
  BY DEF TruthInv
<1>7. PICK todo, fl : todo = Tail(Top(p).todo) /\ fl = failed[p]
  OBVIOUS
<1>8. /\ status' = [status EXCEPT ![p] = st]
      /\ failed' = [failed EXCEPT ![p] = fl]
      /\ Upright(Top(p), status[p], failed[p]) => Upright(g, st, fl)
      /\ Onto(p, g, todo)
      /\ UNCHANGED <<result, dead>>
  BY <1>1, <1>5, <1>6, <1>7
<1> QED
  BY <1>8, TruthOnto

(* A function returns.                                                     *)
LEMMA TruthReturns ==
  ASSUME StackInv, TruthInv, NEW p \in Procs, Running(p), NEW e, NEW fails,
         ReturnWith(p, e, fails),
         Upright(Top(p), status[p], failed[p]) => Truthful(Top(p), e, fails)
  PROVE  TruthInv'
<1>1. PICK r, f, u : r = stack[p] /\ f = Top(p) /\ u = Tail(stack[p])
  OBVIOUS
<1>2. p \in Procs \ dead /\ stack[p] # <<>> /\ IsStack(stack[p])
  BY DEF Running, StackInv
<1>3. IsStack(u) /\ IsFrame(f) /\ r = <<f>> \o u /\ r # <<>> /\ Head(r) = f
  BY <1>1, <1>2, Popped DEF Top
<1>4. TrueStack(r, status[p], failed[p])
  BY <1>1, <1>2 DEF TruthInv
<1>5. Outermost(r) \in Swallows \/ (Truthful(f, e, fails) /\ Chain(r))
  BY <1>1, <1>3, <1>4 DEF TrueStack
<1>6. dead \subseteq dead'
  BY DEF ReturnWith
<1>7. CASE u = <<>>
  <2> DEFINE rs0 == [fn |-> f.fn, st |-> e, null |-> f.null,
                     stored |-> f.stored, failed |-> fails]
  <2>1. /\ stack' = [stack EXCEPT ![p] = <<>>]
        /\ status' = [status EXCEPT ![p] = "SUCCESS"]
        /\ failed' = [failed EXCEPT ![p] = FALSE]
        /\ result' = [result EXCEPT ![p] = rs0]
    BY <1>1, <1>7 DEF ReturnWith
  <2>2. Outermost(r) = f.fn
    BY <1>3, <1>7, SafePush
  <2>3. TrueResult(rs0)
    <3>1. CASE f.fn \in Swallows
      BY <3>1 DEF TrueResult, Promises, NoResultOnSuccess
    <3>2. CASE Truthful(f, e, fails)
      BY <3>2 DEF TrueResult, Truthful, Owes
    <3> QED
      BY <1>5, <2>2, <3>1, <3>2
  <2>4. TrueStack(<<>>, "SUCCESS", FALSE)
    BY DEF TrueStack
  <2>5. PICK rs : rs = rs0
    OBVIOUS
  <2> HIDE DEF rs0
  <2>6. result' = [result EXCEPT ![p] = rs] /\ TrueResult(rs)
    BY <2>1, <2>3, <2>5
  <2> QED
    BY <1>6, <2>1, <2>4, <2>6, TruthStep
<1>8. CASE u # <<>>
  <2>1. PICK c, w : c = Head(u) /\ w = Tail(u)
    OBVIOUS
  <2>2. PICK g : g = GoesOn(c, f, e)
    OBVIOUS
  <2>3. PICK s : s = <<g>> \o w
    OBVIOUS
  <2>4. IsStack(w) /\ IsFrame(c) /\ u = <<c>> \o w
    BY <1>3, <1>8, <2>1, Popped
  <2>5. IsFrame(g) /\ g.fn = c.fn
        /\ (HasFields(c) => Replaces(c, g))
    BY <2>2, <2>4 DEF IsFrame, GoesOn, HasFields, Replaces
  <2>6. /\ stack' = [stack EXCEPT ![p] = s]
        /\ status' = [status EXCEPT ![p] = e]
        /\ failed' = [failed EXCEPT ![p] = fails]
        /\ result' = result
    BY <1>1, <1>8, <2>1, <2>2, <2>3 DEF ReturnWith
  <2>7. Outermost(s) = Outermost(r)
    <3>1. Outermost(s) = Outermost(u)
      BY <2>3, <2>4, <2>5, OutermostKept
    <3>2. Outermost(r) = Outermost(u)
      BY <1>3, <1>8, SafePush
    <3> QED
      BY <3>1, <3>2
  <2>8. ASSUME Truthful(f, e, fails), Chain(r)
        PROVE  Upright(g, e, fails) /\ Chain(s)
    <3>1. Chain(u) /\ Waits(f, c)
      BY <1>3, <1>8, <2>1, <2>8, ChainPush
    <3>2. HasFields(c)
      BY <3>1 DEF Waits
    <3>3. Chain(s)
      BY <2>3, <2>4, <2>5, <3>1, <3>2, ChainReplaced
    <3>4. Upright(g, e, fails)
      BY <2>2, <2>8, <3>1, UprightResumed
    <3> QED
      BY <3>3, <3>4
  <2>9. s # <<>> /\ Head(s) = g
    BY <2>3, <2>4, <2>5, ChainPush
  <2>10. TrueStack(s, e, fails)
    BY <1>5, <2>7, <2>8, <2>9 DEF TrueStack
  <2>11. result' = [result EXCEPT ![p] = result[p]] /\ TrueResult(result[p])
    BY <2>6 DEF TruthInv
  <2> QED
    BY <1>6, <2>6, <2>10, <2>11, TruthStep
<1> QED
  BY <1>7, <1>8

(* A function of the API is called.                                        *)
LEMMA TruthCallApi ==
  ASSUME StackInv, TruthInv, NEW p \in Procs, CallApi(p)
  PROVE  TruthInv'
<1>1. PICK fn \in Workload[p], null \in BOOLEAN, root \in BOOLEAN,
           bad \in BOOLEAN :
        stack' = [stack EXCEPT ![p] =
          <<[fn |-> fn, todo |-> Program[fn], held |-> 0, null |-> null,
             stored |-> FALSE, pass |-> FALSE, try |-> FALSE,
             root |-> root, bad |-> bad]>>]
  BY ONLY CallApi(p), ZenonT(30) DEF CallApi
<1> DEFINE f0 == [fn |-> fn, todo |-> Program[fn], held |-> 0, null |-> null,
                  stored |-> FALSE, pass |-> FALSE, try |-> FALSE,
                  root |-> root, bad |-> bad]
<1>2. IsFrame(f0) /\ HasFields(f0) /\ f0.fn = fn /\ f0.todo = Program[fn]
  BY DEF IsFrame, HasFields
<1>3. PICK f : f = f0
  OBVIOUS
<1>4. stack' = [stack EXCEPT ![p] = <<f>>]
  BY <1>1, <1>3
<1> HIDE DEF f0
<1>5. PICK s : s = <<f>>
  OBVIOUS
<1>6. s = <<f>> \o <<>>
  <2>1. <<f>> \in Seq({f})
    OBVIOUS
  <2> QED
    BY <1>5, <2>1, ConcatEmptySeq
<1>7. IsFrame(f) /\ HasFields(f) /\ f.fn = fn /\ f.todo = Program[fn]
  BY <1>2, <1>3
<1>8. s # <<>> /\ Head(s) = f /\ Outermost(s) = fn /\ Chain(s)
  <2>1. Chain(<<>>)
    BY DEF Chain
  <2> QED
    BY <1>6, <1>7, <2>1, EmptyStack, ChainPush, SafePush
<1>9. p \in Procs \ dead /\ stack[p] = <<>>
      /\ status' = status /\ failed' = failed /\ result' = result /\ dead' = dead
  BY DEF CallApi
<1>10. status[p] = "SUCCESS" /\ ~failed[p]
  BY <1>9 DEF TruthInv, TrueStack
<1>11. ASSUME fn \notin Swallows
       PROVE  Upright(f, status[p], failed[p])
  <2>1. fn \in DOMAIN Program \ Swallows
    BY <1>11, CallsAssumption DEF ApiFunctions
  <2>2. /\ Honest(Program[fn])
        /\ Promises(fn) => \A r \in Runs(Program[fn]) : Delivers(r)
    BY <2>1, ResultAssumption
  <2> QED
    BY <1>7, <1>10, <2>2 DEF Upright, Owes
<1>12. TrueStack(s, status[p], failed[p])
  BY <1>8, <1>11 DEF TrueStack
<1>13. /\ status' = [status EXCEPT ![p] = status[p]]
       /\ failed' = [failed EXCEPT ![p] = failed[p]]
       /\ result' = [result EXCEPT ![p] = result[p]]
       /\ TrueResult(result[p]) /\ dead \subseteq dead'
       /\ stack' = [stack EXCEPT ![p] = s]
  BY <1>4, <1>5, <1>9 DEF TruthInv
<1> QED
  BY <1>12, <1>13, TruthStep

(* A lock, an argument, a status that is looked at.                        *)
LEMMA TruthLocks ==
  ASSUME StackInv, MutexInv, TruthInv, NEW p \in Procs, LockDevice(p)
  PROVE  TruthInv'
<1>1. Running(p) /\ Top(p).todo # <<>> /\ Step(p).op \in {"lock", "blocking"}
      /\ stack[p] # <<>>
  BY DEF LockDevice, Ready, Running
<1>2. CASE Acquire(p)
  <2>1. PICK g : Onto(p, g, Tail(Top(p).todo)) /\ SameStored(Top(p), g)
    BY <1>1, <1>2, AcquireOnto
  <2>2. UNCHANGED <<status, failed, result, dead>>
    BY <1>2 DEF Acquire
  <2> QED
    BY <1>1, <2>1, <2>2, TruthPasses
<1>3. CASE ReturnWith(p, "BUSY", failed[p])
  <2>1. Truthful(Top(p), "BUSY", failed[p])
    BY DEF Truthful
  <2> QED
    BY <1>1, <1>3, <2>1, TruthReturns
<1> QED
  BY <1>2, <1>3 DEF LockDevice

LEMMA TruthPass ==
  ASSUME StackInv, TruthInv, NEW p \in Procs, Pass(p)
  PROVE  TruthInv'
<1>1. Running(p) /\ Top(p).todo # <<>> /\ stack[p] # <<>> /\ Advance(p)
      /\ UNCHANGED <<status, failed, result, dead>>
  BY DEF Pass, Ready, Running, Local
<1>2. /\ Step(p).op \in {"dev", "root", "null", "may", "when", "excuse", "else"}
      /\ Step(p).op = "when" => status[p] \notin Step(p).of
      /\ Step(p).op = "else" => status[p] = "SUCCESS"
  BY DEF Pass, Ready
<1>3. PICK g : Onto(p, g, Tail(Top(p).todo)) /\ SameStored(Top(p), g)
  BY <1>1, AdvanceOnto
<1> QED
  BY <1>1, <1>2, <1>3, TruthPasses

(* What a function may return is true.                                     *)
LEMMA TruthLeaves ==
  ASSUME StackInv, TruthInv, NEW p \in Procs, Running(p), NEW e,
         ReturnWith(p, e, failed[p]),
         \/ Top(p).todo = <<>>
         \/ e # "SUCCESS"
         \/ /\ Top(p).todo # <<>> /\ Succeeds(Step(p))
            /\ Step(p).op = "when" => status[p] \in Step(p).of
  PROVE  TruthInv'
<1>1. PICK f, st, fl : f = Top(p) /\ st = status[p] /\ fl = failed[p]
  OBVIOUS
<1>2. \/ f.todo = <<>>
      \/ e # "SUCCESS"
      \/ /\ f.todo # <<>> /\ Succeeds(Head(f.todo))
         /\ Head(f.todo).op = "when" => st \in Head(f.todo).of
  BY <1>1 DEF Step
<1>3. Upright(f, st, fl) => Truthful(f, e, fl)
  BY <1>2, UprightReturns
<1>4. ReturnWith(p, e, fl)
  BY <1>1
<1> QED
  BY <1>1, <1>3, <1>4, TruthReturns

LEMMA TruthRefuse ==
  ASSUME StackInv, TruthInv, NEW p \in Procs, Refuse(p)
  PROVE  TruthInv'
<1>1. Running(p) /\ Top(p).todo # <<>>
  BY DEF Refuse, Ready
<1>2. CASE ReturnWith(p, "INVALID_ARGS", failed[p])
  BY <1>1, <1>2, TruthLeaves
<1>3. CASE ReturnWith(p, "PERMISSION", failed[p])
  BY <1>1, <1>3, TruthLeaves
<1>4. CASE /\ Ready(p, "null") \/ Ready(p, "may")
           /\ \E e \in Step(p).of : ReturnWith(p, e, failed[p])
  <2>1. PICK e \in Step(p).of : ReturnWith(p, e, failed[p])
    BY <1>4
  <2>2. Step(p).op \in {"null", "may"}
    BY <1>4 DEF Ready
  <2>3. e # "SUCCESS" \/ Succeeds(Step(p))
    BY <2>1, <2>2 DEF Succeeds
  <2>4. Step(p).op # "when"
    BY <2>2
  <2> QED
    BY <1>1, <2>1, <2>3, <2>4, TruthLeaves
<1> QED
  BY <1>2, <1>3, <1>4 DEF Refuse

LEMMA TruthLeave ==
  ASSUME StackInv, TruthInv, NEW p \in Procs, Leave(p)
  PROVE  TruthInv'
<1>1. CASE /\ Ready(p, "when") /\ status[p] \in Step(p).of
           /\ ReturnWith(p, Step(p).ret, failed[p])
  <2>1. Running(p) /\ Top(p).todo # <<>> /\ Step(p).op = "when"
    BY <1>1 DEF Ready
  <2>2. PICK e : e = Step(p).ret
    OBVIOUS
  <2>3. ReturnWith(p, e, failed[p])
    BY <1>1, <2>2
  <2>4. e # "SUCCESS" \/ Succeeds(Step(p))
    BY <2>1, <2>2 DEF Succeeds
  <2> QED
    BY <1>1, <2>1, <2>3, <2>4, TruthLeaves
<1>2. CASE /\ Ready(p, "else") /\ status[p] # "SUCCESS"
           /\ ReturnWith(p, status[p], failed[p])
  <2>1. PICK e : e = status[p]
    OBVIOUS
  <2>2. Running(p) /\ ReturnWith(p, e, failed[p]) /\ e # "SUCCESS"
    BY <1>2, <2>1 DEF Ready
  <2> QED
    BY <2>2, TruthLeaves
<1>3. CASE Ready(p, "return") /\ ReturnWith(p, Step(p).ret, failed[p])
  <2>1. Running(p) /\ Top(p).todo # <<>> /\ Step(p).op = "return"
    BY <1>3 DEF Ready
  <2>2. PICK e : e = Step(p).ret
    OBVIOUS
  <2>3. ReturnWith(p, e, failed[p])
    BY <1>3, <2>2
  <2>4. e # "SUCCESS" \/ Succeeds(Step(p))
    BY <2>1, <2>2 DEF Succeeds
  <2>5. Step(p).op # "when"
    BY <2>1
  <2> QED
    BY <2>1, <2>3, <2>4, <2>5, TruthLeaves
<1>4. CASE /\ Running(p) /\ Top(p).todo = <<>>
           /\ ReturnWith(p, "SUCCESS", failed[p])
  BY <1>4, TruthLeaves
<1> QED
  BY <1>1, <1>2, <1>3, <1>4 DEF Leave

(* A file is read or written.                                              *)
LEMMA TruthAccess ==
  ASSUME StackInv, TruthInv, NEW p \in Procs, Access(p)
  PROVE  TruthInv'
<1>1. /\ Running(p) /\ Top(p).todo # <<>> /\ stack[p] # <<>>
      /\ Step(p).op \in {"read", "write"}
  BY DEF Access, Ready, Running
<1>2. PICK f, h, st, fl, todo :
        /\ f = Top(p) /\ h = Step(p) /\ st = status[p] /\ fl = failed[p]
        /\ todo = Tail(Top(p).todo)
  OBVIOUS
<1>3. /\ f.todo # <<>> /\ h = Head(f.todo) /\ h.op \in {"read", "write"}
      /\ h.op # "choose" /\ Asks(h) /\ todo = Tail(f.todo)
  BY <1>1, <1>2 DEF Step, Asks
<1>4. ASSUME Advance(p)
      PROVE  \E g : Onto(p, g, todo)
                    /\ (HasFields(f) => /\ HasFields(g) /\ g.todo = todo
                                        /\ Owes(g) => Owes(f))
  <2>1. PICK g : Onto(p, g, todo) /\ SameStored(f, g)
    BY <1>1, <1>2, <1>4, AdvanceOnto
  <2>2. HasFields(f) => HasFields(g) /\ g.todo = todo /\ (Owes(g) => Owes(f))
    BY <1>2, <2>1 DEF Onto, Replaces, SameStored, Owes
  <2> QED
    BY <2>1, <2>2
<1>5. CASE /\ Advance(p)
           /\ status' = [status EXCEPT ![p] = "SUCCESS"]
           /\ UNCHANGED <<failed, result, dead>>
  <2>1. PICK g : Onto(p, g, todo)
                 /\ (HasFields(f) => /\ HasFields(g) /\ g.todo = todo
                                     /\ Owes(g) => Owes(f))
    BY <1>4, <1>5
  <2>2. ~Stores(h) /\ ~Hands(h) /\ ~Fails(h) /\ h.op # "stored" /\ h.op # "choose"
    BY <1>3 DEF Stores, Hands, Fails
  <2>3. ASSUME Upright(f, st, fl)
        PROVE  Upright(g, "SUCCESS", fl)
    <3>1. st = "SUCCESS" /\ HasFields(f)
      BY <1>3, <2>3, AsksWhenFine DEF Upright
    <3>2. HasFields(g) /\ g.todo = Tail(f.todo) /\ (Owes(g) => Owes(f))
      BY <1>3, <2>1, <3>1
    <3>3. Upright(g, st, fl)
      BY <1>3, <2>2, <2>3, <3>1, <3>2, UprightOn
    <3> QED
      BY <3>1, <3>3
  <2>4. /\ status' = [status EXCEPT ![p] = "SUCCESS"]
        /\ failed' = [failed EXCEPT ![p] = fl]
        /\ UNCHANGED <<result, dead>>
    BY <1>2, <1>5 DEF TruthInv
  <2>5. Upright(Top(p), status[p], failed[p]) => Upright(g, "SUCCESS", fl)
    BY <1>2, <2>3
  <2> QED
    BY <1>1, <2>1, <2>4, <2>5, TruthOnto
<1>6. CASE \E s \in Statuses :
             /\ Step(p).try /\ Advance(p)
             /\ status' = [status EXCEPT ![p] = s]
             /\ failed' = [failed EXCEPT ![p] = TRUE]
             /\ UNCHANGED <<result, dead>>
  <2>1. PICK s \in Statuses :
          /\ Step(p).try /\ Advance(p)
          /\ status' = [status EXCEPT ![p] = s]
          /\ failed' = [failed EXCEPT ![p] = TRUE]
          /\ UNCHANGED <<result, dead>>
    BY <1>6
  <2>2. PICK g : Onto(p, g, todo)
                 /\ (HasFields(f) => /\ HasFields(g) /\ g.todo = todo
                                     /\ Owes(g) => Owes(f))
    BY <1>4, <2>1
  <2>3. s \in ErrnoToRsmiStatus /\ h.try
    BY <1>2, <2>1, CallsAssumption
  <2>4. ASSUME Upright(f, st, fl)
        PROVE  Upright(g, s, TRUE)
    <3>1. HasFields(f)
      BY <2>4 DEF Upright
    <3>2. HasFields(g) /\ g.todo = Tail(f.todo) /\ (Owes(g) => Owes(f))
      BY <1>3, <2>2, <3>1
    <3> QED
      BY <1>3, <2>3, <2>4, <3>2, UprightFailed
  <2>5. Upright(Top(p), status[p], failed[p]) => Upright(g, s, TRUE)
    BY <1>2, <2>4
  <2> QED
    BY <1>1, <2>1, <2>2, <2>5, TruthOnto
<1>7. CASE \E s \in Statuses : ReturnWith(p, s, TRUE)
  <2>1. PICK s \in Statuses : ReturnWith(p, s, TRUE)
    BY <1>7
  <2>2. s # "SUCCESS"
    BY CallsAssumption DEF ErrnoToRsmiStatus
  <2>3. Truthful(Top(p), s, TRUE)
    BY <2>2 DEF Truthful
  <2> QED
    BY <1>1, <2>1, <2>3, TruthReturns
<1> QED
  BY <1>5, <1>6, <1>7 DEF Access, Local

(* The result is stored, or not.                                           *)
LEMMA TruthStores ==
  ASSUME StackInv, TruthInv, NEW p \in Procs, StoreResult(p)
  PROVE  TruthInv'
<1>1. /\ Running(p) /\ Top(p).todo # <<>> /\ stack[p] # <<>>
      /\ Step(p).op \in {"store", "given", "stored"}
      /\ Step(p).op = "store" => ~Top(p).null
      /\ UNCHANGED <<status, failed, result, dead>>
  BY DEF StoreResult, Ready, Running, Local
<1>2. PICK f, h, st, fl, todo :
        /\ f = Top(p) /\ h = Step(p) /\ st = status[p] /\ fl = failed[p]
        /\ todo = Tail(Top(p).todo)
  OBVIOUS
<1>3. /\ f.todo # <<>> /\ h = Head(f.todo) /\ todo = Tail(f.todo)
      /\ h.op \in {"store", "given", "stored"} /\ h.op # "choose"
      /\ h.op # "call"
  BY <1>1, <1>2 DEF Step
<1> DEFINE c0 == ~Top(p).null /\ (Step(p).op = "stored" => status[p] = "SUCCESS")
<1>4. PICK c : c = c0
  OBVIOUS
<1>5. stack' = [stack EXCEPT ![p][1].todo = Tail(@), ![p][1].stored = @ \/ c]
  <2>1. stack' = [stack EXCEPT ![p][1].todo = Tail(@), ![p][1].stored = @ \/ c0]
    BY DEF StoreResult
  <2> HIDE DEF c0
  <2> QED
    BY <1>4, <2>1
<1>6. PICK g : /\ Onto(p, g, todo)
               /\ HasFields(f) => (g.stored <=> f.stored \/ c)
  BY <1>1, <1>2, <1>5, StoreOnto
<1>7. c <=> ~f.null /\ (h.op = "stored" => st = "SUCCESS")
  BY <1>2, <1>4
<1>8. ASSUME Upright(f, st, fl)
      PROVE  Upright(g, st, fl)
  <2>1. HasFields(f)
    BY <1>8 DEF Upright
  <2>2. HasFields(g) /\ Replaces(f, g) /\ g.todo = Tail(f.todo)
    BY <1>2, <1>3, <1>6, <2>1 DEF Onto
  <2>3. Owes(g) => Owes(f) /\ ~c /\ ~f.null
    BY <1>6, <2>1, <2>2 DEF Owes, Replaces
  <2>4. Owes(g) => h.op = "stored" /\ st # "SUCCESS"
    BY <1>7, <2>3
  <2>5. h.op = "stored" => ~Stores(h) /\ ~Hands(h) /\ ~Fails(h)
    BY DEF Stores, Hands, Fails
  <2>6. ~Deals(h, st)
    BY <1>3 DEF Deals, Settles, Fails
  <2> QED
    BY <1>3, <1>8, <2>2, <2>3, <2>4, <2>5, <2>6, UprightOn
<1>9. /\ status' = [status EXCEPT ![p] = st]
      /\ failed' = [failed EXCEPT ![p] = fl]
      /\ UNCHANGED <<result, dead>>
  BY <1>1, <1>2 DEF TruthInv
<1>10. Upright(Top(p), status[p], failed[p]) => Upright(g, st, fl)
  BY <1>2, <1>8
<1> QED
  BY <1>1, <1>6, <1>9, <1>10, TruthOnto

(* A failure is answered.                                                  *)
LEMMA TruthDecides ==
  ASSUME StackInv, TruthInv, NEW p \in Procs, Decide(p)
  PROVE  TruthInv'
<1>1. /\ Running(p) /\ Top(p).todo # <<>> /\ stack[p] # <<>> /\ Advance(p)
      /\ Step(p).op \in {"fallback", "forget", "excuse"}
      /\ status' = [status EXCEPT ![p] = "SUCCESS"]
      /\ failed' = [failed EXCEPT ![p] = FALSE]
      /\ UNCHANGED <<result, dead>>
  BY DEF Decide, Ready, Running, Local
<1>2. PICK f, st, fl, todo :
        /\ f = Top(p) /\ st = status[p] /\ fl = failed[p]
        /\ todo = Tail(Top(p).todo)
  OBVIOUS
<1>3. f.todo # <<>> /\ Head(f.todo).op \in {"fallback", "forget", "excuse"}
  BY <1>1, <1>2 DEF Step
<1>4. PICK g : Onto(p, g, todo) /\ SameStored(f, g)
  BY <1>1, <1>2, AdvanceOnto
<1>5. ASSUME Upright(f, st, fl)
      PROVE  Upright(g, "SUCCESS", FALSE)
  <2>1. HasFields(f)
    BY <1>5 DEF Upright
  <2>2. HasFields(g) /\ g.todo = Tail(f.todo) /\ (Owes(g) => Owes(f))
    BY <1>2, <1>4, <2>1 DEF Onto, Replaces, SameStored, Owes
  <2> QED
    BY <1>3, <1>5, <2>2, UprightAnew
<1>6. Upright(Top(p), status[p], failed[p]) => Upright(g, "SUCCESS", FALSE)
  BY <1>2, <1>5
<1> QED
  BY <1>1, <1>4, <1>6, TruthOnto

LEMMA TruthChooses ==
  ASSUME StackInv, TruthInv, NEW p \in Procs, Choose(p)
  PROVE  TruthInv'
<1>1. /\ Running(p) /\ Top(p).todo # <<>> /\ stack[p] # <<>>
      /\ Step(p).op = "choose"
      /\ UNCHANGED <<status, failed, result, dead>>
  BY DEF Choose, Ready, Running, Local
<1>2. PICK P \in Step(p).of : Goto(p, P \o Tail(Top(p).todo))
  BY DEF Choose
<1>3. PICK f, st, fl, todo :
        /\ f = Top(p) /\ st = status[p] /\ fl = failed[p]
        /\ todo = P \o Tail(Top(p).todo)
  OBVIOUS
<1>4. /\ f.todo # <<>> /\ Head(f.todo).op = "choose" /\ P \in Head(f.todo).of
      /\ todo = P \o Tail(f.todo)
  BY <1>1, <1>3 DEF Step
<1>5. Goto(p, todo)
  BY <1>2, <1>3 DEF Goto
<1>6. PICK g : Onto(p, g, todo) /\ SameStored(f, g)
  BY <1>1, <1>3, <1>5, GotoOnto
<1>7. ASSUME Upright(f, st, fl)
      PROVE  Upright(g, st, fl)
  <2>1. HasFields(f)
    BY <1>7 DEF Upright
  <2>2. HasFields(g) /\ g.todo = P \o Tail(f.todo) /\ (Owes(g) => Owes(f))
    BY <1>3, <1>4, <1>6, <2>1 DEF Onto, Replaces, SameStored, Owes
  <2> QED
    BY <1>4, <1>7, <2>2, UprightChoice
<1>8. /\ status' = [status EXCEPT ![p] = st]
      /\ failed' = [failed EXCEPT ![p] = fl]
      /\ UNCHANGED <<result, dead>>
  BY <1>1, <1>3 DEF TruthInv
<1>9. Upright(Top(p), status[p], failed[p]) => Upright(g, st, fl)
  BY <1>3, <1>7
<1> QED
  BY <1>1, <1>6, <1>8, <1>9, TruthOnto

(* Another function is called.                                             *)
LEMMA TruthCalls ==
  ASSUME StackInv, TruthInv, NEW p \in Procs, CallFunction(p)
  PROVE  TruthInv'
<1>1. /\ Running(p) /\ Top(p).todo # <<>> /\ stack[p] # <<>>
      /\ Step(p).op = "call"
      /\ UNCHANGED <<status, failed, result, dead>>
  BY DEF CallFunction, Ready, Running, Local
<1>2. PICK r, f, u, h, st, fl :
        /\ r = stack[p] /\ f = Top(p) /\ u = Tail(stack[p])
        /\ h = Step(p) /\ st = status[p] /\ fl = failed[p]
  OBVIOUS
<1>3. /\ IsStack(u) /\ IsFrame(f) /\ r = <<f>> \o u /\ r # <<>> /\ Head(r) = f
      /\ f.todo # <<>> /\ h = Head(f.todo) /\ h.op = "call"
      /\ p \in Procs \ dead
  BY <1>1, <1>2, Popped DEF Top, Step, StackInv, Running
<1> DEFINE e0 == [f EXCEPT !.fn = h.fn, !.todo = Program[h.fn], !.held = 0,
                           !.null = h.pass /\ @, !.stored = FALSE,
                           !.pass = h.pass, !.try = h.try]
           g0 == [f EXCEPT !.todo = Tail(@)]
<1>4. stack' = [stack EXCEPT ![p] = <<e0, g0>> \o u]
  BY <1>2 DEF CallFunction, StackInv
<1>5. PICK e, g : e = e0 /\ g = g0
  OBVIOUS
<1>6. /\ IsFrame(e)
      /\ HasFields(f) =>
           /\ HasFields(e) /\ e.fn = h.fn /\ e.todo = Program[h.fn]
           /\ e.pass = h.pass /\ e.try = h.try /\ (e.null <=> h.pass /\ f.null)
  BY <1>3, <1>5 DEF IsFrame, HasFields
<1>7. /\ IsFrame(g) /\ g.fn = f.fn
      /\ HasFields(f) =>
           /\ HasFields(g) /\ Replaces(f, g) /\ g.todo = Tail(f.todo)
           /\ g.stored = f.stored
  BY <1>3, <1>5 DEF IsFrame, HasFields, Replaces
<1>8. stack' = [stack EXCEPT ![p] = <<e, g>> \o u]
  BY <1>4, <1>5
<1> HIDE DEF e0, g0
<1>9. PICK t, s : t = <<g>> \o u /\ s = <<e>> \o t
  OBVIOUS
<1>10. stack' = [stack EXCEPT ![p] = s]
  BY <1>3, <1>6, <1>7, <1>8, <1>9, TwoPushed
<1>11. IsStack(t) /\ t # <<>> /\ Head(t) = g /\ s # <<>> /\ Head(s) = e
  <2>1. IsStack(t)
    BY <1>3, <1>7, <1>9, Pushed
  <2>2. t # <<>> /\ Head(t) = g
    BY <1>3, <1>7, <1>9, ChainPush
  <2> QED
    BY <1>6, <1>9, <2>1, <2>2, ChainPush
<1>12. Outermost(s) = Outermost(r)
  <2>1. Outermost(s) = Outermost(t)
    BY <1>6, <1>9, <1>11, SafePush
  <2>2. Outermost(t) = Outermost(r)
    BY <1>3, <1>7, <1>9, OutermostKept
  <2> QED
    BY <2>1, <2>2
<1>13. ASSUME Upright(f, st, fl), Chain(r)
       PROVE  Upright(e, st, fl) /\ Chain(s)
  <2>1. HasFields(f)
    BY <1>13 DEF Upright
  <2>2. HasFields(g) /\ g.todo = Tail(f.todo) /\ (Owes(g) => Owes(f))
    BY <1>7, <2>1 DEF Replaces, Owes
  <2>3. /\ HasFields(e) /\ e.fn = Head(f.todo).fn /\ e.todo = Program[e.fn]
        /\ e.pass = Head(f.todo).pass /\ e.try = Head(f.todo).try
        /\ e.null => f.null
    BY <1>3, <1>6, <2>1
  <2>4. Upright(e, st, fl) /\ Waits(e, g)
    BY <1>3, <1>13, <2>2, <2>3, UprightCall
  <2>5. Chain(t)
    BY <1>3, <1>7, <1>9, <1>13, <2>1, ChainReplaced
  <2>6. Chain(s)
    BY <1>6, <1>9, <1>11, <2>4, <2>5, ChainPush
  <2> QED
    BY <2>4, <2>6
<1>14. TrueStack(r, st, fl)
  BY <1>2, <1>3 DEF TruthInv
<1>15. TrueStack(s, st, fl)
  BY <1>3, <1>11, <1>12, <1>13, <1>14 DEF TrueStack
<1>16. /\ status' = [status EXCEPT ![p] = st]
       /\ failed' = [failed EXCEPT ![p] = fl]
       /\ result' = [result EXCEPT ![p] = result[p]]
       /\ TrueResult(result[p]) /\ dead \subseteq dead'
  BY <1>1, <1>2 DEF TruthInv
<1> QED
  BY <1>10, <1>15, <1>16, TruthStep

(* A process ends; a result is looked at.                                  *)
LEMMA TruthEnds ==
  ASSUME StackInv, TruthInv, NEW p \in Procs, TakeResult(p) \/ Die(p)
  PROVE  TruthInv'
<1>1. PICK st, fl : st = status[p] /\ fl = failed[p]
  OBVIOUS
<1>2. CASE TakeResult(p)
  <2>1. PICK s : s = stack[p]
    OBVIOUS
  <2>2. /\ p \in Procs \ dead
        /\ stack' = [stack EXCEPT ![p] = s] /\ dead \subseteq dead'
        /\ status' = [status EXCEPT ![p] = st]
        /\ failed' = [failed EXCEPT ![p] = fl]
        /\ result' = [result EXCEPT ![p] = NoResult]
    BY <1>1, <1>2, <2>1 DEF TakeResult, TruthInv, StackInv
  <2>3. TrueStack(s, st, fl)
    BY <1>1, <2>1, <2>2 DEF TruthInv
  <2>4. TrueResult(NoResult)
    BY DEF TrueResult, NoResult
  <2>5. PICK rs : rs = NoResult
    OBVIOUS
  <2> QED
    BY <2>2, <2>3, <2>4, <2>5, TruthStep
<1>3. CASE Die(p)
  <2>1. PICK s, rs : s = <<>> /\ rs = result[p]
    OBVIOUS
  <2>2. /\ stack' = [stack EXCEPT ![p] = s] /\ dead \subseteq dead'
        /\ p \in dead'
        /\ status' = [status EXCEPT ![p] = st]
        /\ failed' = [failed EXCEPT ![p] = fl]
        /\ result' = [result EXCEPT ![p] = rs] /\ TrueResult(rs)
    BY <1>1, <1>3, <2>1 DEF Die, TruthInv
  <2> QED
    BY <2>2, TruthStep
<1> QED
  BY <1>2, <1>3

LEMMA TruthInvariant == Spec => []TruthInv
<1>1. Init => TruthInv
  <2> SUFFICES ASSUME Init
               PROVE  TruthInv
    OBVIOUS
  <2>1. /\ status = [p \in Procs |-> "SUCCESS"]
        /\ failed = [p \in Procs |-> FALSE]
        /\ result = [p \in Procs |-> NoResult]
        /\ stack = [p \in Procs |-> <<>>]
    BY DEF Init
  <2>2. TrueResult(NoResult) /\ TrueStack(<<>>, "SUCCESS", FALSE)
    BY DEF TrueResult, NoResult, TrueStack
  <2> HIDE DEF Init
  <2> QED
    BY <2>1, <2>2 DEF TruthInv
<1>2. LockInv /\ TruthInv /\ [Next]_vars => TruthInv'
  <2>1. ASSUME LockInv, TruthInv, NEW p \in Procs,
               CallApi(p) \/ TakeResult(p) \/ Kill(p) \/ Work(p)
        PROVE  TruthInv'
    <3>1. StackInv /\ MutexInv
      BY <2>1 DEF LockInv
    <3>2. CASE CallApi(p)
      BY <2>1, <3>1, <3>2, TruthCallApi
    <3>3. CASE TakeResult(p) \/ Kill(p) \/ Crash_(p)
      <4>1. TakeResult(p) \/ Die(p)
        BY <3>3 DEF Kill, Crash_
      <4> QED
        BY <2>1, <3>1, <4>1, TruthEnds
    <3>4. CASE LockDevice(p)
      BY <2>1, <3>1, <3>4, TruthLocks
    <3>5. CASE Refuse(p)
      BY <2>1, <3>1, <3>5, TruthRefuse
    <3>6. CASE Pass(p)
      BY <2>1, <3>1, <3>6, TruthPass
    <3>7. CASE Access(p)
      BY <2>1, <3>1, <3>7, TruthAccess
    <3>8. CASE CallFunction(p)
      BY <2>1, <3>1, <3>8, TruthCalls
    <3>9. CASE StoreResult(p)
      BY <2>1, <3>1, <3>9, TruthStores
    <3>10. CASE Decide(p)
      BY <2>1, <3>1, <3>10, TruthDecides
    <3>11. CASE Choose(p)
      BY <2>1, <3>1, <3>11, TruthChooses
    <3>12. CASE Leave(p)
      BY <2>1, <3>1, <3>12, TruthLeave
    <3> QED
      BY <2>1, <3>2, <3>3, <3>4, <3>5, <3>6, <3>7, <3>8, <3>9, <3>10, <3>11,
         <3>12 DEF Work
  <2>2. ASSUME TruthInv, UNCHANGED vars
        PROVE  TruthInv'
    <3>1. UNCHANGED <<stack, status, failed, result, dead>>
      BY <2>2 DEF vars
    <3> QED
      BY <2>2, <3>1 DEF TruthInv
  <2> QED
    BY <2>1, <2>2 DEF Next
<1> QED
  BY <1>1, <1>2, LockInvariant, PTL DEF Spec

(* A function that returns success has stored a result, unless the pointer *)
(* was null and but for the exempt ones, and hides no access that failed,  *)
(* but for rsmi_dev_memory_usage_get: through every chain of calls, with   *)
(* every failure, for any number of processes that are killed at any step. *)
THEOREM SuccessesTrue == Spec => []SuccessIsTrue
<1>1. TruthInv => SuccessIsTrue
  BY DEF TruthInv, TrueResult, SuccessIsTrue, ResultOnSuccess, NoFailureSwallowed
<1> QED
  BY <1>1, TruthInvariant, PTL

=============================================================================
