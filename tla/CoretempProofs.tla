--------------------------- MODULE CoretempProofs ---------------------------
(***************************************************************************)
(* What a read of the coretemp component returns is fresh, its table is    *)
(* used only where it is there, and its descriptors are given back, for    *)
(* any number of event sets, files and sessions and whatever calls fail.   *)
(***************************************************************************)
EXTENDS Coretemp, FiniteSetTheorems, SequenceTheorems, TLAPS

Updating == {"update", "open"}
Fresh == {"sample", "unreadable"}

(* The lists of events a set may have.                                     *)
Distinct(l) == \A m, n \in DOMAIN l : l[m] = l[n] => m = n
Lists(s) == {l \in Seq(Events) : Distinct(l) /\ \A n \in DOMAIN l : l[n] \in Wants[s]}

Opened(l) == \A n \in DOMAIN l : l[n] \in fd

(* The list of a call that adds an event to the set.                       *)
Extends(s) ==
  /\ Len(want[s]) = Len(natives[s]) + 1
  /\ \A n \in DOMAIN natives[s] : want[s][n] = natives[s][n]

(* update_control_state has the events before i in active_idx, open; only  *)
(* the last one of a list that grows can be closed.                        *)
UpdateInv(s) == pc[s] \in Updating =>
  /\ want[s] \in Lists(s)
  /\ active_count[s] = Len(want[s]) /\ i[s] <= Len(want[s]) + 1
  /\ \A n \in DOMAIN want[s] : n < i[s] =>
       active_idx[s][n] = want[s][n] /\ want[s][n] \in fd
  /\ Opened(want[s]) \/ Extends(s)
  /\ pc[s] = "open" => Extends(s) /\ i[s] = Len(want[s])

(* Between updates active_idx begins with the events of the set, also      *)
(* after an update that failed.                                            *)
ActiveInv(s) == pc[s] \notin Updating =>
  /\ Len(natives[s]) <= active_count[s]
  /\ \A n \in DOMAIN natives[s] : active_idx[s][n] = natives[s][n]

(* The loop of a read has the events before i read.                        *)
ReadInv(s) == pc[s] \in {"read", "returned"} =>
  \A n \in DOMAIN natives[s] : n < i[s] \/ pc[s] = "returned" =>
    counts[s][natives[s][n]] \in Fresh

SetInv(s) == /\ natives[s] \in Lists(s) /\ Opened(natives[s])
             /\ UpdateInv(s) /\ ActiveInv(s) /\ ReadInv(s)
AllSets == \A s \in EventSets : SetInv(s)

(* Files are open and sets are used only in a session whose component is   *)
(* enabled and has its table.                                              *)
Usable == up /\ disabled = "PAPI_OK"
SessionInv ==
  /\ Usable => is_initialized
  /\ fd # {} => Usable /\ table
  /\ \A s \in EventSets :
       /\ pc[s] # "idle" => set[s] # "none"
       /\ set[s] # "none" => Usable /\ (table \/ num_events <= 0)
       /\ pc[s] \in Updating => table \/ want[s] = <<>>

(* A file of one event set has at most one descriptor.                     *)
DescriptorInv ==
  /\ \A e \in Private : descriptors[e] = IF e \in fd THEN 1 ELSE 0
  /\ \A s \in EventSets :
       pc[s] = "open" /\ want[s][i[s]] \in Private => want[s][i[s]] \notin fd

(* What the failure of an initialisation leaves to the sessions after it:  *)
(* a mark without a table, and then a list without a mark.                 *)
Lack == IF num_events > 0 THEN "PAPI_ENOMEM" ELSE "PAPI_ECMP"

MarkInv ==
  /\ table => is_initialized /\ list = 0
  /\ is_initialized /\ ~up /\ fault = "none" => disabled # "PAPI_OK"
  /\ is_initialized /\ ~table =>
       IF disabled = "PAPI_OK"
         THEN sessions > 1 /\ retvals[sessions - 1] = Lack
         ELSE disabled = Lack

ListInv ==
  list # 0 /\ ~is_initialized =>
    /\ sessions > 1
    /\ retvals[sessions - 1] = "PAPI_ECMP" /\ retvals[sessions] = "PAPI_OK"

HistoryInv ==
  /\ TableSafe /\ MarkInv /\ ListInv
  /\ sessions = 0 => ~up /\ ~is_initialized
  /\ sessions > 0 => retvals[sessions] = disabled

IInv == TypeOK /\ AllSets /\ SessionInv /\ DescriptorInv /\ HistoryInv

USE DEF papiVars, tableVars, fileVars, ctlVars, callVars

-----------------------------------------------------------------------------
LEMMA Sizes ==
  /\ CORETEMP_MAX_COUNTERS \in Nat /\ MaxSessions \in Nat
  /\ Len(Listing) \in Nat /\ 1 <= Len(Listing)
  /\ Len(Listing) <= CORETEMP_MAX_COUNTERS
<1>1. CORETEMP_MAX_COUNTERS \in Nat /\ MaxSessions \in Nat
  BY CoretempAssumption DEF CoretempAssumption
<1>2. Listing \in Seq([energy : BOOLEAN, cray : BOOLEAN]) /\ Listing # <<>>
      /\ Len(Listing) <= CORETEMP_MAX_COUNTERS
  BY CoretempAssumption DEF CoretempAssumption
<1>3. QED  BY <1>1, <1>2, LenProperties, EmptySeq

LEMMA Exceeds == \A m : m + Len(Listing) > Len(Listing) => m # 0
<1>1. Len(Listing) \in Nat
  BY Sizes
<1>2. \A k \in Nat : 0 + k = k
  OBVIOUS
<1>3. \A k \in Nat : ~(k > k)
  OBVIOUS
<1>4. QED  BY <1>1, <1>2, <1>3

LEMMA NumEvents == TypeOK => num_events \in Int
<1>1. TypeOK => num_events \in {0, -4, Len(Listing)}
  BY DEF TypeOK, PAPI_ECMP
<1>2. QED  BY <1>1, Sizes

LEMMA CountNumbers ==
  ASSUME TypeOK, NEW s \in EventSets
  PROVE  i[s] \in Nat /\ active_count[s] \in Nat
<1>1. i[s] \in 1 .. CORETEMP_MAX_COUNTERS + 1
      /\ active_count[s] \in 0 .. CORETEMP_MAX_COUNTERS
  BY DEF TypeOK
<1>2. QED  BY <1>1, Sizes

LEMMA WantsEvents == \A s \in EventSets : Wants[s] \subseteq Events
<1>1. Wants \in [EventSets -> SUBSET (0 .. Len(Listing) - 1)]
  BY CoretempAssumption DEF CoretempAssumption
<1>2. QED  BY <1>1 DEF Events

LEMMA EventNumbers == 0 \in Events /\ Events \subseteq Nat
BY Sizes DEF Events

(* A list without repetition fits in the arrays of a control state.        *)
LEMMA ShortLists ==
  ASSUME NEW s \in EventSets, NEW l \in Lists(s)
  PROVE  /\ l \in Seq(Events) /\ Len(l) \in Nat /\ DOMAIN l = 1 .. Len(l)
         /\ \A n \in DOMAIN l : l[n] \in Events
         /\ Len(l) <= CORETEMP_MAX_COUNTERS
<1>1. l \in Seq(Events) /\ Distinct(l)
  BY DEF Lists
<1>2. Len(l) \in Nat /\ DOMAIN l = 1 .. Len(l) /\ l \in [1 .. Len(l) -> Events]
  BY <1>1, LenProperties
<1>3. IsFiniteSet(Events) /\ Cardinality(Events) = Len(Listing)
  <2>1. 0 \in Int /\ Len(Listing) - 1 \in Int /\ ~(0 > Len(Listing) - 1)
        /\ (Len(Listing) - 1) - 0 + 1 = Len(Listing)
    BY Sizes
  <2>2. /\ IsFiniteSet(0 .. Len(Listing) - 1)
        /\ Cardinality(0 .. Len(Listing) - 1) =
             IF 0 > Len(Listing) - 1 THEN 0 ELSE (Len(Listing) - 1) - 0 + 1
    BY <2>1, FS_Interval
  <2>3. QED  BY <2>1, <2>2 DEF Events
<1>4. IsFiniteSet(1 .. Len(l)) /\ Cardinality(1 .. Len(l)) = Len(l)
  <2>1. /\ IsFiniteSet(1 .. Len(l))
        /\ Cardinality(1 .. Len(l)) = IF 1 > Len(l) THEN 0 ELSE Len(l) - 1 + 1
    BY <1>2, FS_Interval
  <2>2. (IF 1 > Len(l) THEN 0 ELSE Len(l) - 1 + 1) = Len(l)
    BY <1>2
  <2>3. QED  BY <2>1, <2>2
<1>5. ~(Len(Listing) < Len(l))
  <2> SUFFICES ASSUME Len(Listing) < Len(l)  PROVE FALSE
    OBVIOUS
  <2>1. \E x, y \in 1 .. Len(l) : x # y /\ l[x] = l[y]
    BY <1>2, <1>3, <1>4, FS_PigeonHole
  <2>2. QED  BY <1>1, <1>2, <2>1 DEF Distinct
<1>6. Len(l) <= CORETEMP_MAX_COUNTERS
  BY <1>2, <1>5, Sizes
<1>7. QED  BY <1>1, <1>2, <1>6

LEMMA GrownList ==
  ASSUME NEW s \in EventSets, NEW l \in Lists(s), NEW e \in Wants[s],
         ~Contains(l, e)
  PROVE  /\ Append(l, e) \in Lists(s) /\ Append(l, e) # <<>>
         /\ Len(Append(l, e)) = Len(l) + 1
         /\ \A n \in DOMAIN l : Append(l, e)[n] = l[n]
<1>1. l \in Seq(Events) /\ Len(l) \in Nat /\ DOMAIN l = 1 .. Len(l) /\ e \in Events
  BY ShortLists, WantsEvents
<1>2. /\ Append(l, e) \in Seq(Events) /\ Append(l, e) # <<>>
      /\ Len(Append(l, e)) = Len(l) + 1
      /\ \A n \in 1 .. Len(l) : Append(l, e)[n] = l[n]
      /\ Append(l, e)[Len(l) + 1] = e
  BY <1>1, AppendProperties
<1>3. DOMAIN Append(l, e) = 1 .. Len(l) + 1
  BY <1>1, <1>2, LenProperties
<1>4. \A n \in DOMAIN Append(l, e) : n \in DOMAIN l \/ n = Len(l) + 1
  BY <1>1, <1>3
<1>5. \A n \in DOMAIN l : l[n] \in Wants[s] /\ l[n] # e
  BY DEF Lists, Contains
<1>6. Distinct(l)
  BY DEF Lists
<1>7. Distinct(Append(l, e))
  BY <1>1, <1>2, <1>4, <1>5, <1>6 DEF Distinct
<1>8. \A n \in DOMAIN Append(l, e) : Append(l, e)[n] \in Wants[s]
  BY <1>1, <1>2, <1>4, <1>5
<1>9. QED  BY <1>1, <1>2, <1>7, <1>8 DEF Lists

LEMMA ShrunkList ==
  ASSUME NEW s \in EventSets, NEW l \in Lists(s), NEW k \in DOMAIN l
  PROVE  /\ Without(l, k) \in Lists(s)
         /\ Opened(l) => Opened(Without(l, k))
<1>1. l \in Seq(Events) /\ Len(l) \in Nat /\ DOMAIN l = 1 .. Len(l)
      /\ \A n \in DOMAIN l : l[n] \in Events
  BY ShortLists
<1>2. k \in 1 .. Len(l) /\ Len(l) - 1 \in Nat
  BY <1>1
<1>3. DOMAIN Without(l, k) = 1 .. Len(l) - 1
  BY DEF Without
<1> DEFINE At_(n) == IF n < k THEN n ELSE n + 1
<1>4. \A n \in 1 .. Len(l) - 1 : At_(n) \in DOMAIN l /\ Without(l, k)[n] = l[At_(n)]
  BY <1>1, <1>2 DEF Without
<1>5. \A m, n \in 1 .. Len(l) - 1 : At_(m) = At_(n) => m = n
  BY <1>2
<1>6. Without(l, k) \in Seq(Events)
  <2>1. Without(l, k) = [n \in 1 .. Len(l) - 1 |-> Without(l, k)[n]]
    BY DEF Without
  <2>2. \A n \in 1 .. Len(l) - 1 : Without(l, k)[n] \in Events
    BY <1>1, <1>4
  <2>3. Without(l, k) \in [1 .. Len(l) - 1 -> Events]
    BY <2>1, <2>2
  <2>4. QED  BY <1>2, <2>3
<1> HIDE DEF At_
<1>7. Distinct(Without(l, k))
  BY <1>3, <1>4, <1>5 DEF Distinct, Lists
<1>8. \A n \in DOMAIN Without(l, k) : Without(l, k)[n] \in Wants[s]
  BY <1>3, <1>4 DEF Lists
<1>9. Opened(l) => Opened(Without(l, k))
  BY <1>3, <1>4 DEF Opened
<1>10. QED  BY <1>6, <1>7, <1>8, <1>9 DEF Lists

-----------------------------------------------------------------------------
\* What an event set has of its own is unchanged.
Idle(r) ==
  /\ pc'[r] = pc[r] /\ want'[r] = want[r] /\ i'[r] = i[r]
  /\ natives'[r] = natives[r] /\ set'[r] = set[r] /\ counts'[r] = counts[r]
  /\ active_count'[r] = active_count[r] /\ active_idx'[r] = active_idx[r]

(* A call changes its own event set, opens files and closes none.          *)
LEMMA CallFrame ==
  ASSUME TypeOK, NEW s \in EventSets, Call(s)
  PROVE  /\ \A r \in EventSets \ {s} : Idle(r)
         /\ UNCHANGED <<papiVars, tableVars>>
         /\ fd \subseteq fd' /\ fault = "none"
<1> USE DEF At, Enabled, Goto, Returns
<1>1. UNCHANGED <<papiVars, tableVars>> /\ fd \subseteq fd' /\ fault = "none"
  BY DEF Call, InitControlState, AddEvent, RemoveEvent, Update, UpdateNext,
     UpdateOpen, UpdateFails, UpdateDone, Start, Read, Stop, Sample, ReadNext,
     ReadDone, Return
<1>2. SUFFICES ASSUME NEW r \in EventSets \ {s}  PROVE Idle(r)
  BY <1>1
<1> USE DEF Idle
<1>3. CASE InitControlState(s) \/ Start(s)
  BY <1>3 DEF TypeOK, InitControlState, Start
<1>4. CASE AddEvent(s) \/ RemoveEvent(s)
  BY ZenonT(30), <1>4 DEF TypeOK, AddEvent, RemoveEvent, Update
<1>5. CASE UpdateNext(s) \/ UpdateOpen(s)
  BY <1>5 DEF TypeOK, UpdateNext, UpdateOpen, TakeEvent
<1>6. CASE UpdateFails(s) \/ UpdateDone(s)
  BY <1>6 DEF TypeOK, UpdateFails, UpdateDone
<1>7. CASE Read(s) \/ Stop(s)
  BY <1>7 DEF TypeOK, Read, Stop, Sample
<1>8. CASE ReadNext(s)
  BY <1>8 DEF TypeOK, ReadNext
<1>9. CASE ReadDone(s) \/ Return(s)
  BY <1>9 DEF TypeOK, ReadDone, Return
<1>10. QED
  BY <1>3, <1>4, <1>5, <1>6, <1>7, <1>8, <1>9 DEF Call

(* A set that does nothing keeps its invariant while files are opened.     *)
LEMMA IdleSet ==
  ASSUME NEW r \in EventSets, SetInv(r), Idle(r), fd \subseteq fd'
  PROVE  SetInv(r)'
<1> USE DEF Idle, SetInv
<1>1. (natives[r] \in Lists(r) /\ Opened(natives[r]))'
  BY DEF Lists, Opened
<1>2. UpdateInv(r)'
  BY DEF UpdateInv, Lists, Opened, Extends
<1>3. ActiveInv(r)' /\ ReadInv(r)'
  BY DEF ActiveInv, ReadInv
<1>4. QED  BY <1>1, <1>2, <1>3

(* Adding or removing an event: a list that grows by a file that may be    *)
(* closed, or one whose files are all open.                                *)
LEMMA UpdateBegins ==
  ASSUME IInv, NEW s \in EventSets, AddEvent(s) \/ RemoveEvent(s)
  PROVE  \E l \in Lists(s) :
           /\ Update(s, l)
           /\ \/ Opened(l)
              \/ Len(l) = Len(natives[s]) + 1
                 /\ \A n \in DOMAIN natives[s] : l[n] = natives[s][n]
           /\ table \/ l = <<>>
<1>1. natives[s] \in Lists(s) /\ Opened(natives[s])
  BY DEF IInv, AllSets, SetInv
<1>2. CASE AddEvent(s)
  <2>1. PICK e \in Wants[s] : e < num_events /\ ~Contains(natives[s], e)
                              /\ Update(s, Append(natives[s], e))
    BY <1>2 DEF AddEvent
  <2>2. table
    <3>1. set[s] # "none"
      BY <2>1 DEF Update
    <3>2. ~(num_events <= 0)
      <4>1. e \in Nat /\ num_events \in Int
        BY WantsEvents, EventNumbers, NumEvents DEF IInv
      <4>2. QED  BY <2>1, <4>1
    <3>3. QED  BY <3>1, <3>2 DEF IInv, SessionInv
  <2>3. QED  BY <1>1, <2>1, <2>2, GrownList
<1>3. CASE RemoveEvent(s)
  <2>1. PICK k \in DOMAIN natives[s] : Update(s, Without(natives[s], k))
    BY <1>3 DEF RemoveEvent
  <2>2. table
    BY <1>1, <2>1 DEF Opened, IInv, SessionInv
  <2>3. QED  BY <1>1, <2>1, <2>2, ShrunkList
<1>4. QED  BY <1>2, <1>3

(* The event an update opens is one of its list.                           *)
LEMMA OpensListed ==
  ASSUME IInv, NEW s \in EventSets, pc[s] = "open"
  PROVE  /\ want[s] \in Lists(s) /\ i[s] = Len(want[s]) /\ Extends(s)
         /\ i[s] \in DOMAIN want[s] /\ i[s] \in 1 .. CORETEMP_MAX_COUNTERS
         /\ want[s][i[s]] \in Events /\ want[s][i[s]] \in Wants[s]
         /\ want[s] # <<>>
<1>1. want[s] \in Lists(s) /\ i[s] = Len(want[s]) /\ Extends(s)
  BY DEF IInv, AllSets, SetInv, UpdateInv, Updating
<1>2. i[s] \in 1 .. CORETEMP_MAX_COUNTERS + 1
  BY DEF IInv, TypeOK
<1>3. i[s] \in 1 .. CORETEMP_MAX_COUNTERS
  BY <1>1, <1>2, ShortLists, Sizes
<1>4. i[s] \in DOMAIN want[s]
  BY <1>1, <1>3, ShortLists
<1>5. want[s][i[s]] \in Wants[s]
  BY <1>1, <1>4 DEF Lists
<1>6. QED  BY <1>1, <1>3, <1>4, <1>5, WantsEvents

LEMMA TakesListed ==
  ASSUME IInv, NEW s \in EventSets, pc[s] = "update", i[s] <= Len(want[s])
  PROVE  /\ want[s] \in Lists(s)
         /\ i[s] \in DOMAIN want[s] /\ i[s] \in 1 .. CORETEMP_MAX_COUNTERS
         /\ want[s][i[s]] \in Events
<1>1. want[s] \in Lists(s)
  BY DEF IInv, AllSets, SetInv, UpdateInv, Updating
<1>2. i[s] \in 1 .. CORETEMP_MAX_COUNTERS + 1
  BY DEF IInv, TypeOK
<1>3. i[s] \in 1 .. CORETEMP_MAX_COUNTERS
  BY <1>1, <1>2, ShortLists, Sizes
<1>4. i[s] \in DOMAIN want[s]
  BY <1>1, <1>3, ShortLists
<1>5. QED  BY <1>1, <1>3, <1>4, ShortLists

-----------------------------------------------------------------------------
(* Types.                                                                  *)
LEMMA UpdateTypes ==
  ASSUME TypeOK, NEW s \in EventSets, NEW l \in Lists(s), Update(s, l)
  PROVE  TypeOK'
<1>1. l \in Seq(Events) /\ Len(l) \in 0 .. CORETEMP_MAX_COUNTERS
  BY ShortLists, Sizes
<1>2. 1 \in 1 .. CORETEMP_MAX_COUNTERS + 1
  BY Sizes
<1>3. active_count' \in [EventSets -> 0 .. CORETEMP_MAX_COUNTERS]
  BY <1>1 DEF TypeOK, Update, Active
<1>4. i' \in [EventSets -> 1 .. CORETEMP_MAX_COUNTERS + 1]
  BY <1>2 DEF TypeOK, Update
<1>5. want' \in [EventSets -> Seq(Events)]
  BY <1>1 DEF TypeOK, Update
<1>6. pc' \in [EventSets -> {"idle", "update", "open", "read", "returned"}]
  BY DEF TypeOK, Update, Goto
<1>7. UNCHANGED <<papiVars, tableVars, fileVars, set, natives, active_idx, counts,
                  fault>>
  BY DEF Update
<1>8. QED  BY <1>3, <1>4, <1>5, <1>6, <1>7 DEF TypeOK

LEMMA TakeTypes ==
  ASSUME TypeOK, NEW s \in EventSets, TakeEvent(s),
         i[s] \in 1 .. CORETEMP_MAX_COUNTERS, want[s][i[s]] \in Events
  PROVE  /\ active_idx' \in [EventSets -> [1 .. CORETEMP_MAX_COUNTERS -> Events]]
         /\ i' \in [EventSets -> 1 .. CORETEMP_MAX_COUNTERS + 1]
<1>1. i[s] + 1 \in 1 .. CORETEMP_MAX_COUNTERS + 1
  BY Sizes
<1>2. active_idx[s] \in [1 .. CORETEMP_MAX_COUNTERS -> Events]
  BY DEF TypeOK
<1>3. [active_idx[s] EXCEPT ![i[s]] = want[s][i[s]]]
        \in [1 .. CORETEMP_MAX_COUNTERS -> Events]
  BY <1>2
<1>4. QED  BY <1>1, <1>3 DEF TypeOK, TakeEvent

LEMMA ReturnsTypes ==
  ASSUME TypeOK, NEW s \in EventSets, Returns(s)
  PROVE  /\ pc' \in [EventSets -> {"idle", "update", "open", "read", "returned"}]
         /\ want' \in [EventSets -> Seq(Events)]
         /\ i' \in [EventSets -> 1 .. CORETEMP_MAX_COUNTERS + 1]
<1>1. 1 \in 1 .. CORETEMP_MAX_COUNTERS + 1
  BY Sizes
<1>2. <<>> \in Seq(Events)
  BY EmptySeq
<1>3. QED  BY <1>1, <1>2 DEF TypeOK, Returns

LEMMA ReadTypes ==
  ASSUME TypeOK, NEW s \in EventSets, ReadNext(s)
  PROVE  /\ active_count[s] \in Nat /\ i[s] \in 1 .. CORETEMP_MAX_COUNTERS
         /\ active_idx[s][i[s]] \in Events
<1>1. active_count[s] \in 0 .. CORETEMP_MAX_COUNTERS
      /\ i[s] \in 1 .. CORETEMP_MAX_COUNTERS + 1
      /\ active_idx[s] \in [1 .. CORETEMP_MAX_COUNTERS -> Events]
  BY DEF TypeOK
<1>2. i[s] <= active_count[s]
  BY DEF ReadNext
<1>3. active_count[s] \in Nat /\ i[s] \in 1 .. CORETEMP_MAX_COUNTERS
  BY <1>1, <1>2, Sizes
<1>4. QED  BY <1>1, <1>3

LEMMA CallTypes ==
  ASSUME IInv, NEW s \in EventSets, Call(s)
  PROVE  TypeOK'
<1>0. TypeOK
  BY DEF IInv
<1>1. CASE InitControlState(s)
  <2>1. [e \in Events |-> IF e >= num_events THEN "none"
                          ELSE IF e \in fd THEN "old" ELSE "closed"]
          \in [Events -> {"none", "sample", "old", "unreadable", "closed"}]
    OBVIOUS
  <2>2. counts' \in [EventSets -> [Events ->
                      {"none", "sample", "old", "unreadable", "closed"}]]
    BY <1>0, <1>1, <2>1 DEF TypeOK, InitControlState
  <2>3. set' \in [EventSets -> {"none", "stopped", "running"}]
        /\ fault' \in {"none", "closedir", "NULL table", "table overflow"}
    BY <1>0, <1>1 DEF TypeOK, InitControlState
  <2>4. QED  BY <1>0, <1>1, <2>2, <2>3 DEF TypeOK, InitControlState
<1>2. CASE AddEvent(s) \/ RemoveEvent(s)
  BY <1>0, <1>2, UpdateBegins, UpdateTypes
<1>3. CASE UpdateNext(s)
  <2>1. pc[s] = "update" /\ i[s] <= Len(want[s])
    BY <1>3 DEF UpdateNext, At
  <2>2. CASE TakeEvent(s) /\ UNCHANGED pc
    BY ZenonT(30), <1>0, <1>3, <2>1, <2>2, TakesListed, TakeTypes DEF TypeOK, UpdateNext
  <2>3. CASE Goto(s, "open") /\ UNCHANGED <<active_idx, i>>
    BY <1>0, <1>3, <2>3 DEF TypeOK, UpdateNext, Goto
  <2>4. QED  BY <1>3, <2>2, <2>3 DEF UpdateNext
<1>4. CASE UpdateOpen(s)
  <2>1. pc[s] = "open" /\ TakeEvent(s) /\ Goto(s, "update")
    BY <1>4 DEF UpdateOpen, At
  <2>2. want[s][i[s]] \in Events /\ i[s] \in 1 .. CORETEMP_MAX_COUNTERS
    BY <2>1, OpensListed
  <2>3. descriptors' \in [Events -> Int] /\ fd' \subseteq Events
    <3>1. descriptors[want[s][i[s]]] + 1 \in Int
      <4>1. descriptors \in [Events -> Int]
        BY <1>0 DEF TypeOK
      <4>2. descriptors[want[s][i[s]]] \in Int
        BY <2>2, <4>1
      <4>3. QED  BY <4>2
    <3>2. QED  BY <1>0, <1>4, <2>2, <3>1 DEF TypeOK, UpdateOpen
  <2>4. pc' \in [EventSets -> {"idle", "update", "open", "read", "returned"}]
    BY <1>0, <2>1 DEF TypeOK, Goto
  <2>5. QED  BY ZenonT(30), <1>0, <1>4, <2>1, <2>2, <2>3, <2>4, TakeTypes DEF TypeOK, UpdateOpen
<1>5. CASE UpdateFails(s) \/ Return(s)
  BY ZenonT(30), <1>0, <1>5, ReturnsTypes DEF TypeOK, UpdateFails, Return
<1>6. CASE UpdateDone(s)
  <2>1. natives' \in [EventSets -> Seq(Events)]
    BY <1>0, <1>6 DEF TypeOK, UpdateDone
  <2>2. QED  BY <1>0, <1>6, <2>1, ReturnsTypes DEF TypeOK, UpdateDone
<1>7. CASE Start(s)
  BY <1>0, <1>7 DEF TypeOK, Start
<1>8. CASE Read(s) \/ Stop(s)
  <2>1. PICK after \in {"running", "stopped"} : Sample(s, after)
    BY <1>8 DEF Read, Stop
  <2>2. Older(counts[s]) \in [Events -> {"none", "sample", "old", "unreadable", "closed"}]
    BY <1>0 DEF TypeOK, Older
  <2>3. 1 \in 1 .. CORETEMP_MAX_COUNTERS + 1
    BY Sizes
  <2>4. counts' \in [EventSets -> [Events ->
                      {"none", "sample", "old", "unreadable", "closed"}]]
    BY <1>0, <2>1, <2>2 DEF TypeOK, Sample
  <2>5. i' \in [EventSets -> 1 .. CORETEMP_MAX_COUNTERS + 1]
    BY <1>0, <2>1, <2>3 DEF TypeOK, Sample
  <2>6. set' \in [EventSets -> {"none", "stopped", "running"}]
        /\ pc' \in [EventSets -> {"idle", "update", "open", "read", "returned"}]
    BY <1>0, <2>1 DEF TypeOK, Sample, Goto
  <2>7. QED  BY <1>0, <2>1, <2>4, <2>5, <2>6 DEF TypeOK, Sample
<1>9. CASE ReadNext(s)
  <2>1. PICK v \in EventValues(active_idx[s][i[s]]) :
          counts' = [counts EXCEPT ![s][active_idx[s][i[s]]] = v]
    BY <1>9 DEF ReadNext
  <2>2. v \in {"none", "sample", "old", "unreadable", "closed"}
    BY <2>1 DEF EventValues
  <2>3. counts[s] \in [Events -> {"none", "sample", "old", "unreadable", "closed"}]
    BY <1>0 DEF TypeOK
  <2>4. [counts[s] EXCEPT ![active_idx[s][i[s]]] = v]
          \in [Events -> {"none", "sample", "old", "unreadable", "closed"}]
    BY <2>2, <2>3
  <2>5. counts' \in [EventSets -> [Events ->
                      {"none", "sample", "old", "unreadable", "closed"}]]
    BY <1>0, <2>1, <2>4 DEF TypeOK
  <2>6. i[s] + 1 \in 1 .. CORETEMP_MAX_COUNTERS + 1
    BY <1>0, <1>9, ReadTypes, Sizes
  <2>7. i' \in [EventSets -> 1 .. CORETEMP_MAX_COUNTERS + 1]
    BY <1>0, <1>9, <2>6 DEF TypeOK, ReadNext
  <2>8. QED  BY <1>0, <1>9, <2>5, <2>7 DEF TypeOK, ReadNext
<1>10. CASE ReadDone(s)
  BY <1>0, <1>10 DEF TypeOK, ReadDone, Goto
<1>11. QED
  BY <1>1, <1>2, <1>3, <1>4, <1>5, <1>6, <1>7, <1>8, <1>9, <1>10 DEF Call

-----------------------------------------------------------------------------
(* The event sets.                                                         *)
LEMMA UpdateSet ==
  ASSUME IInv, NEW s \in EventSets, NEW l \in Lists(s), Update(s, l),
         \/ Opened(l)
         \/ /\ Len(l) = Len(natives[s]) + 1
            /\ \A n \in DOMAIN natives[s] : l[n] = natives[s][n]
  PROVE  SetInv(s)'
<1>1. TypeOK /\ natives[s] \in Lists(s) /\ Opened(natives[s])
  BY DEF IInv, AllSets, SetInv
<1>2. /\ pc'[s] = "update" /\ want'[s] = l /\ i'[s] = 1
      /\ active_count'[s] = Len(l)
      /\ UNCHANGED <<natives, fd>>
  BY <1>1 DEF TypeOK, Update, Goto, Active
<1>3. (natives[s] \in Lists(s) /\ Opened(natives[s]))'
  BY <1>1, <1>2 DEF Lists, Opened
<1>4. ActiveInv(s)' /\ ReadInv(s)'
  BY <1>2 DEF ActiveInv, ReadInv, Updating
<1>5. Opened(l)' \/ Extends(s)'
  BY <1>2 DEF Opened, Extends
<1>6. Len(l) \in Nat /\ DOMAIN l = 1 .. Len(l)
  BY ShortLists
<1>7. 1 <= Len(l) + 1 /\ \A n \in DOMAIN l : ~(n < 1)
  <2>1. Len(l) \in Nat => 1 <= Len(l) + 1
    OBVIOUS
  <2>2. \A n \in 1 .. Len(l) : ~(n < 1)
    OBVIOUS
  <2>3. QED  BY <1>6, <2>1, <2>2
<1>8. UpdateInv(s)'
  BY <1>2, <1>5, <1>7 DEF UpdateInv, Lists
<1>9. QED  BY <1>3, <1>4, <1>8 DEF SetInv

(* One event of the list goes into active_idx.                             *)
LEMMA TakeSet ==
  ASSUME IInv, NEW s \in EventSets, pc[s] \in Updating, pc'[s] = "update",
         TakeEvent(s), i[s] \in DOMAIN want[s], want[s][i[s]] \in fd',
         i[s] \in 1 .. CORETEMP_MAX_COUNTERS,
         UNCHANGED <<natives, active_count, want>>, fd \subseteq fd'
  PROVE  SetInv(s)'
<1>1. TypeOK /\ natives[s] \in Lists(s) /\ Opened(natives[s]) /\ UpdateInv(s)
  BY DEF IInv, AllSets, SetInv
<1>2. (natives[s] \in Lists(s) /\ Opened(natives[s]))'
  BY <1>1 DEF Lists, Opened
<1>3. ActiveInv(s)' /\ ReadInv(s)'
  BY DEF ActiveInv, ReadInv, Updating
<1>4. want[s] \in Lists(s) /\ DOMAIN want[s] = 1 .. Len(want[s])
      /\ Len(want[s]) \in Nat
  BY <1>1, ShortLists DEF UpdateInv
<1>5. i'[s] = i[s] + 1 /\ i[s] \in Nat /\ i[s] + 1 <= Len(want[s]) + 1
  <2>1. i'[s] = i[s] + 1
    BY <1>1 DEF TypeOK, TakeEvent
  <2>2. QED  BY <1>4, <2>1
<1>6. active_idx[s] \in [1 .. CORETEMP_MAX_COUNTERS -> Events]
      /\ active_idx'[s] = [active_idx[s] EXCEPT ![i[s]] = want[s][i[s]]]
  BY <1>1 DEF TypeOK, TakeEvent
<1>7. \A n \in DOMAIN want[s] : n < i[s] + 1 =>
        active_idx'[s][n] = want[s][n] /\ want[s][n] \in fd'
  <2> SUFFICES ASSUME NEW n \in DOMAIN want[s], n < i[s] + 1
               PROVE  active_idx'[s][n] = want[s][n] /\ want[s][n] \in fd'
    OBVIOUS
  <2>1. n < i[s] \/ n = i[s]
    BY <1>4, <1>5
  <2>2. CASE n = i[s]
    BY <1>6, <2>2
  <2>3. CASE n < i[s]
    <3>1. active_idx[s][n] = want[s][n] /\ want[s][n] \in fd
      BY <1>1, <2>3 DEF UpdateInv
    <3>2. n # i[s]
      BY <1>5, <2>3
    <3>3. n \in 1 .. CORETEMP_MAX_COUNTERS
      BY <1>4, <2>3, Sizes
    <3>4. QED  BY <1>6, <3>1, <3>2, <3>3
  <2>4. QED  BY <2>1, <2>2, <2>3
<1>8. Opened(want[s])' \/ Extends(s)'
  BY <1>1 DEF UpdateInv, Opened, Extends
<1>9. UpdateInv(s)'
  BY <1>1, <1>4, <1>5, <1>7, <1>8 DEF UpdateInv, Lists
<1>10. QED  BY <1>2, <1>3, <1>9 DEF SetInv

LEMMA CallSet ==
  ASSUME IInv, NEW s \in EventSets, Call(s)
  PROVE  SetInv(s)'
<1>0. TypeOK /\ SetInv(s) /\ fd \subseteq fd'
  BY CallFrame DEF IInv, AllSets
<1>1. CASE InitControlState(s)
  <2>1. pc[s] = "idle" /\ UNCHANGED <<pc, want, i, natives, active_count, active_idx, fd>>
    BY <1>1 DEF InitControlState, At
  <2>2. QED
    BY <1>0, <2>1 DEF SetInv, Lists, Opened, UpdateInv, ActiveInv, ReadInv, Updating
<1>2. CASE AddEvent(s) \/ RemoveEvent(s)
  BY <1>2, UpdateBegins, UpdateSet
<1>3. CASE UpdateNext(s)
  <2>1. pc[s] = "update" /\ i[s] <= Len(want[s])
        /\ UNCHANGED <<natives, active_count, want, fd>>
    BY <1>3 DEF UpdateNext, At
  <2>2. CASE IsClosed(want[s][i[s]])
    <3>1. pc'[s] = "open" /\ UNCHANGED <<active_idx, i>>
      BY <1>0, <1>3, <2>2 DEF TypeOK, UpdateNext, Goto
    <3>2. want[s] \in Lists(s) /\ i[s] \in DOMAIN want[s]
      BY <2>1, TakesListed
    <3>3. Extends(s)
      BY <1>0, <2>1, <2>2, <3>2 DEF SetInv, UpdateInv, Opened, IsClosed, Updating
    <3>4. i[s] = Len(want[s])
      <4>1. DOMAIN want[s] = 1 .. Len(want[s]) /\ Len(want[s]) \in Nat
        BY <3>2, ShortLists
      <4>2. natives[s] \in Lists(s)
        BY <1>0 DEF SetInv
      <4>3. DOMAIN natives[s] = 1 .. Len(natives[s]) /\ Len(natives[s]) \in Nat
        BY <4>2, ShortLists
      <4>4. i[s] \notin DOMAIN natives[s]
        BY <1>0, <2>2, <3>3 DEF SetInv, Opened, Extends, IsClosed
      <4>5. QED  BY <3>2, <3>3, <4>1, <4>3, <4>4 DEF Extends
    <3>5. (natives[s] \in Lists(s) /\ Opened(natives[s]))'
      BY <1>0, <2>1 DEF SetInv, Lists, Opened
    <3>6. ActiveInv(s)' /\ ReadInv(s)'
      BY <3>1 DEF ActiveInv, ReadInv, Updating
    <3>7. Extends(s)'
      BY <2>1, <3>3 DEF Extends
    <3>8. UpdateInv(s)'
      BY <1>0, <2>1, <3>1, <3>4, <3>7 DEF SetInv, UpdateInv, Lists, Updating
    <3>9. QED  BY <3>5, <3>6, <3>8 DEF SetInv
  <2>3. CASE ~IsClosed(want[s][i[s]])
    <3>1. TakeEvent(s) /\ pc'[s] = "update"
      BY <1>3, <2>1, <2>3 DEF UpdateNext
    <3>2. want[s][i[s]] \in fd'
      BY <2>1, <2>3 DEF IsClosed
    <3>3. QED  BY <1>0, <2>1, <3>1, <3>2, TakesListed, TakeSet DEF Updating
  <2>4. QED  BY <2>2, <2>3
<1>4. CASE UpdateOpen(s)
  <2>1. pc[s] = "open" /\ TakeEvent(s) /\ pc'[s] = "update"
    BY <1>0, <1>4 DEF TypeOK, UpdateOpen, At, Goto
  <2>2. want[s][i[s]] \in fd' /\ UNCHANGED <<natives, active_count, want>>
    BY <1>4 DEF UpdateOpen
  <2>3. QED  BY <1>0, <2>1, <2>2, OpensListed, TakeSet DEF Updating
<1>5. CASE UpdateFails(s)
  <2>1. pc[s] = "open" /\ pc'[s] = "idle"
        /\ UNCHANGED <<natives, active_count, active_idx, fd>>
    BY <1>0, <1>5 DEF TypeOK, UpdateFails, At, Returns
  <2>2. want[s] \in Lists(s) /\ natives[s] \in Lists(s) /\ Extends(s)
        /\ i[s] = Len(want[s]) /\ active_count[s] = Len(want[s])
    BY <1>0, <2>1 DEF SetInv, UpdateInv, Updating
  <2>3. /\ DOMAIN want[s] = 1 .. Len(want[s]) /\ Len(want[s]) \in Nat
        /\ DOMAIN natives[s] = 1 .. Len(natives[s]) /\ Len(natives[s]) \in Nat
    BY <2>2, ShortLists
  <2>4. \A n \in DOMAIN natives[s] : n \in DOMAIN want[s] /\ n < i[s]
    BY <2>2, <2>3 DEF Extends
  <2>5. \A n \in DOMAIN natives[s] : active_idx[s][n] = natives[s][n]
    BY <1>0, <2>1, <2>2, <2>4 DEF SetInv, UpdateInv, Updating, Extends
  <2>6. Len(natives[s]) <= active_count[s]
    BY <2>2, <2>3 DEF Extends
  <2>7. (natives[s] \in Lists(s) /\ Opened(natives[s]))'
    BY <1>0, <2>1 DEF SetInv, Lists, Opened
  <2>8. QED  BY <2>1, <2>5, <2>6, <2>7
             DEF SetInv, UpdateInv, ActiveInv, ReadInv, Updating
<1>6. CASE UpdateDone(s)
  <2>1. pc[s] = "update" /\ pc'[s] = "idle" /\ natives'[s] = want[s]
        /\ i[s] > Len(want[s]) /\ UNCHANGED <<active_count, active_idx, fd>>
    BY <1>0, <1>6 DEF TypeOK, UpdateDone, At, Returns
  <2>2. want[s] \in Lists(s) /\ active_count[s] = Len(want[s])
    BY <1>0, <2>1 DEF SetInv, UpdateInv, Updating
  <2>3. DOMAIN want[s] = 1 .. Len(want[s]) /\ Len(want[s]) \in Nat
    BY <2>2, ShortLists
  <2>4. \A n \in DOMAIN want[s] : n < i[s]
    <3>1. i[s] \in Nat
      BY <1>0, CountNumbers
    <3>2. QED  BY <2>1, <2>3, <3>1
  <2>5. \A n \in DOMAIN want[s] : active_idx[s][n] = want[s][n] /\ want[s][n] \in fd
    BY <1>0, <2>1, <2>4 DEF SetInv, UpdateInv, Updating
  <2>6. (natives[s] \in Lists(s) /\ Opened(natives[s]))'
    BY <2>1, <2>2, <2>5 DEF Lists, Opened
  <2>7. ActiveInv(s)'
    BY <2>1, <2>2, <2>3, <2>5 DEF ActiveInv
  <2>8. QED  BY <2>1, <2>6, <2>7 DEF SetInv, UpdateInv, ReadInv, Updating
<1>7. CASE Start(s)
  <2>1. UNCHANGED <<pc, want, i, natives, active_count, active_idx, fd, counts>>
    BY <1>7 DEF Start
  <2>2. QED  BY <1>0, <2>1
    DEF SetInv, Lists, Opened, UpdateInv, Extends, ActiveInv, ReadInv, Updating
<1>8. CASE Read(s) \/ Stop(s)
  <2>1. pc[s] = "idle" /\ pc'[s] = "read" /\ i'[s] = 1
        /\ UNCHANGED <<natives, active_count, active_idx, fd>>
    BY <1>0, <1>8 DEF TypeOK, Read, Stop, Sample, At, Goto
  <2>2. (natives[s] \in Lists(s) /\ Opened(natives[s]))'
    BY <1>0, <2>1 DEF SetInv, Lists, Opened
  <2>3. ActiveInv(s)'
    BY <1>0, <2>1 DEF SetInv, ActiveInv, Updating
  <2>4. \A n \in DOMAIN natives[s] : ~(n < 1)
    <3>1. natives[s] \in Lists(s)
      BY <1>0 DEF SetInv
    <3>2. QED  BY <3>1, ShortLists
  <2>5. QED  BY <2>1, <2>2, <2>3, <2>4 DEF SetInv, UpdateInv, ReadInv, Updating
<1>9. CASE ReadNext(s)
  <2> DEFINE idx == active_idx[s][i[s]]
  <2>1. pc[s] = "read" /\ UNCHANGED <<pc, want, natives, active_count, active_idx, fd>>
    BY <1>9 DEF ReadNext, At
  <2>2. i'[s] = i[s] + 1 /\ idx \in Events /\ i[s] \in Nat
    <3>1. idx \in Events /\ i[s] \in Nat
      BY <1>0, <1>9, ReadTypes, Sizes
    <3>2. QED  BY <1>0, <1>9, <3>1 DEF TypeOK, ReadNext
  <2>3. PICK v \in EventValues(idx) : counts' = [counts EXCEPT ![s][idx] = v]
    BY <1>9 DEF ReadNext
  <2>4. counts'[s][idx] = v /\ \A e \in Events \ {idx} : counts'[s][e] = counts[s][e]
    BY <1>0, <2>2, <2>3 DEF TypeOK
  <2>5. (natives[s] \in Lists(s) /\ Opened(natives[s]))'
    BY <1>0, <2>1 DEF SetInv, Lists, Opened
  <2>6. ActiveInv(s)'
    BY <1>0, <2>1 DEF SetInv, ActiveInv
  <2>7. natives[s] \in Lists(s) /\ Opened(natives[s])
    BY <1>0 DEF SetInv
  <2>8. DOMAIN natives[s] = 1 .. Len(natives[s]) /\ Len(natives[s]) \in Nat
        /\ \A n \in DOMAIN natives[s] : natives[s][n] \in Events
    BY <2>7, ShortLists
  <2>9. \A n \in DOMAIN natives[s] : n < i[s] + 1 => counts'[s][natives[s][n]] \in Fresh
    <3> SUFFICES ASSUME NEW n \in DOMAIN natives[s], n < i[s] + 1
                 PROVE  counts'[s][natives[s][n]] \in Fresh
      OBVIOUS
    <3>1. CASE natives[s][n] = idx
      <4>1. idx \in fd
        BY <2>7, <3>1 DEF Opened
      <4>2. v \in Fresh
        BY <2>3, <4>1 DEF EventValues, Fresh
      <4>3. QED  BY <2>4, <3>1, <4>2
    <3>2. CASE natives[s][n] # idx
      <4>1. active_idx[s][n] = natives[s][n]
        BY <1>0, <2>1 DEF SetInv, ActiveInv, Updating
      <4>2. n # i[s]
        BY <3>2, <4>1
      <4>3. n < i[s]
        BY <2>2, <2>8, <4>2
      <4>4. counts[s][natives[s][n]] \in Fresh
        BY <1>0, <2>1, <4>3 DEF SetInv, ReadInv
      <4>5. QED  BY <2>4, <2>8, <3>2, <4>4
    <3>3. QED  BY <3>1, <3>2
  <2>10. ReadInv(s)'
    BY <2>1, <2>2, <2>9 DEF ReadInv
  <2>11. QED  BY <2>1, <2>5, <2>6, <2>10 DEF SetInv, UpdateInv, Updating
<1>10. CASE ReadDone(s)
  <2>1. pc[s] = "read" /\ pc'[s] = "returned" /\ i[s] > active_count[s]
        /\ UNCHANGED <<i, natives, active_count, active_idx, counts, fd>>
    BY <1>0, <1>10 DEF TypeOK, ReadDone, At, Goto
  <2>2. (natives[s] \in Lists(s) /\ Opened(natives[s]))'
    BY <1>0, <2>1 DEF SetInv, Lists, Opened
  <2>3. ActiveInv(s) /\ ActiveInv(s)'
    BY <1>0, <2>1 DEF SetInv, ActiveInv, Updating
  <2>4. \A n \in DOMAIN natives[s] : n < i[s]
    <3>1. natives[s] \in Lists(s)
      BY <1>0 DEF SetInv
    <3>2. DOMAIN natives[s] = 1 .. Len(natives[s]) /\ Len(natives[s]) \in Nat
      BY <3>1, ShortLists
    <3>3. i[s] \in Nat /\ active_count[s] \in Nat
      BY <1>0, CountNumbers
    <3>4. Len(natives[s]) <= active_count[s]
      BY <2>1, <2>3 DEF ActiveInv, Updating
    <3>5. QED  BY <2>1, <3>2, <3>3, <3>4
  <2>5. ReadInv(s)'
    BY <1>0, <2>1, <2>4 DEF SetInv, ReadInv
  <2>6. QED  BY <2>1, <2>2, <2>3, <2>5 DEF SetInv, UpdateInv, Updating
<1>11. CASE Return(s)
  <2>1. pc[s] = "returned" /\ pc'[s] = "idle"
        /\ UNCHANGED <<natives, active_count, active_idx, fd>>
    BY <1>0, <1>11 DEF TypeOK, Return, At, Returns
  <2>2. QED  BY <1>0, <2>1
    DEF SetInv, Lists, Opened, UpdateInv, ActiveInv, ReadInv, Updating
<1>12. QED
  BY <1>1, <1>2, <1>3, <1>4, <1>5, <1>6, <1>7, <1>8, <1>9, <1>10, <1>11 DEF Call

LEMMA CallSets ==
  ASSUME IInv, NEW s \in EventSets, Call(s)
  PROVE  AllSets'
<1> SUFFICES ASSUME NEW r \in EventSets  PROVE SetInv(r)'
  BY DEF AllSets
<1>1. CASE r = s
  BY <1>1, CallSet
<1>2. CASE r # s
  BY <1>2, CallFrame, IdleSet DEF IInv, AllSets
<1>3. QED  BY <1>1, <1>2

-----------------------------------------------------------------------------
(* The session, the descriptors and what is left behind, in a call.        *)
LEMMA CallSession ==
  ASSUME IInv, NEW s \in EventSets, Call(s)
  PROVE  SessionInv'
<1>0. /\ TypeOK /\ SessionInv /\ UNCHANGED <<papiVars, tableVars>>
      /\ \A r \in EventSets \ {s} : Idle(r)
  BY CallFrame DEF IInv
<1>1. (Usable => is_initialized)'
  BY <1>0 DEF SessionInv, Usable
<1>2. (fd # {} => Usable /\ table)'
  <2>1. CASE UpdateOpen(s)
    <3>1. pc[s] = "open" /\ want[s] # <<>>
      BY <2>1, OpensListed DEF UpdateOpen, At
    <3>2. QED  BY <1>0, <3>1 DEF SessionInv, Usable, Updating
  <2>2. CASE ~UpdateOpen(s)
    <3>1. fd' = fd
      BY <2>2 DEF Call, InitControlState, AddEvent, RemoveEvent, Update, UpdateNext,
         UpdateFails, UpdateDone, Start, Read, Stop, Sample, ReadNext, ReadDone, Return
    <3>2. QED  BY <1>0, <3>1 DEF SessionInv, Usable
  <2>3. QED  BY <2>1, <2>2
<1> DEFINE S(r) == /\ pc[r] # "idle" => set[r] # "none"
                   /\ set[r] # "none" => Usable /\ (table \/ num_events <= 0)
                   /\ pc[r] \in Updating => table \/ want[r] = <<>>
<1>3. \A r \in EventSets : S(r)
  BY <1>0 DEF SessionInv
<1>4. \A r \in EventSets \ {s} : S(r)'
  BY <1>0, <1>3 DEF Idle, Usable
<1>5. S(s)'
  <2>1. CASE InitControlState(s)
    <3>1. pc[s] = "idle" /\ UNCHANGED pc /\ Usable
          /\ (set' = set \/ ~(~table /\ num_events > 0))
      BY <2>1 DEF InitControlState, At, Enabled, Usable
    <3>2. ~(num_events > 0) => num_events <= 0
      BY <1>0, NumEvents
    <3>3. QED  BY <1>0, <1>3, <3>1, <3>2 DEF Usable, Updating
  <2>2. CASE AddEvent(s) \/ RemoveEvent(s)
    <3>1. PICK l \in Lists(s) : Update(s, l) /\ (table \/ l = <<>>)
      BY <2>2, UpdateBegins
    <3>2. set[s] = "stopped" /\ set' = set /\ want'[s] = l /\ pc'[s] = "update"
      BY <1>0, <3>1 DEF TypeOK, Update, Goto
    <3>3. QED  BY <1>0, <1>3, <3>1, <3>2 DEF Usable
  <2>3. CASE UpdateNext(s) \/ UpdateOpen(s)
    <3>1. pc[s] \in Updating /\ UNCHANGED <<set, want>>
      BY <2>3 DEF UpdateNext, UpdateOpen, At, Updating
    <3>2. QED  BY <1>0, <1>3, <3>1 DEF Usable, Updating
  <2>4. CASE UpdateFails(s) \/ UpdateDone(s) \/ Return(s)
    <3>1. pc'[s] = "idle" /\ set' = set
      BY <1>0, <2>4 DEF TypeOK, UpdateFails, UpdateDone, Return, Returns
    <3>2. QED  BY <1>0, <1>3, <3>1 DEF Usable, Updating
  <2>5. CASE Start(s)
    <3>1. pc[s] = "idle" /\ pc' = pc /\ set[s] # "none"
      BY <2>5 DEF Start, At
    <3>2. QED  BY <1>0, <1>3, <3>1 DEF Usable, Updating
  <2>6. CASE Read(s) \/ Stop(s)
    <3>1. PICK after \in {"running", "stopped"} : Sample(s, after)
      BY <2>6 DEF Read, Stop
    <3>2. set[s] # "none" /\ set'[s] # "none" /\ pc'[s] = "read"
      BY <1>0, <3>1 DEF TypeOK, Sample, Goto
    <3>3. QED  BY <1>0, <1>3, <3>2 DEF Usable, Updating
  <2>7. CASE ReadNext(s) \/ ReadDone(s)
    <3>1. pc[s] = "read" /\ pc'[s] \in {"read", "returned"} /\ set' = set
      BY <1>0, <2>7 DEF TypeOK, ReadNext, ReadDone, At, Goto
    <3>2. QED  BY <1>0, <1>3, <3>1 DEF Usable, Updating
  <2>8. QED
    BY <2>1, <2>2, <2>3, <2>4, <2>5, <2>6, <2>7 DEF Call
<1>6. QED  BY <1>1, <1>2, <1>4, <1>5 DEF SessionInv

LEMMA CallDescriptors ==
  ASSUME IInv, NEW s \in EventSets, Call(s)
  PROVE  DescriptorInv'
<1>0. /\ TypeOK /\ DescriptorInv
      /\ \A r \in EventSets \ {s} : Idle(r)
  BY CallFrame DEF IInv
<1>1. CASE UpdateOpen(s)
  <2> DEFINE e == want[s][i[s]]
  <2>1. pc[s] = "open" /\ pc'[s] = "update"
    BY <1>0, <1>1 DEF TypeOK, UpdateOpen, At, Goto
  <2>2. e \in Events /\ e \in Wants[s]
    BY <2>1, OpensListed
  <2>3. /\ fd' = fd \cup {e}
        /\ descriptors' = [descriptors EXCEPT ![e] = @ + 1]
        /\ descriptors \in [Events -> Int]
    BY <1>0, <1>1 DEF TypeOK, UpdateOpen
  <2>4. e \in Private => descriptors'[e] = 1
    <3>1. e \in Private => descriptors[e] = 0
      BY <1>0, <2>1 DEF DescriptorInv
    <3>2. descriptors'[e] = descriptors[e] + 1
      BY <2>2, <2>3
    <3>3. QED  BY <3>1, <3>2
  <2>5. \A f \in Private : descriptors'[f] = IF f \in fd' THEN 1 ELSE 0
    <3> SUFFICES ASSUME NEW f \in Private
                 PROVE  descriptors'[f] = IF f \in fd' THEN 1 ELSE 0
      OBVIOUS
    <3>1. CASE f = e
      BY <2>3, <2>4, <3>1
    <3>2. CASE f # e
      <4>1. descriptors'[f] = descriptors[f]
        BY <2>3, <3>2 DEF Private
      <4>2. QED  BY <1>0, <2>3, <3>2, <4>1 DEF DescriptorInv
    <3>3. QED  BY <3>1, <3>2
  <2>6. ASSUME NEW r \in EventSets, pc'[r] = "open", want'[r][i'[r]] \in Private
        PROVE  want'[r][i'[r]] \notin fd'
    <3>1. r \in EventSets \ {s}
      BY <2>1, <2>6
    <3>2. pc[r] = "open" /\ want'[r][i'[r]] = want[r][i[r]]
      BY <1>0, <2>6, <3>1 DEF Idle
    <3>3. want[r][i[r]] \in Wants[r]
      BY <3>2, OpensListed
    <3>4. want[r][i[r]] # e
      BY <2>2, <2>6, <3>1, <3>2, <3>3 DEF Private
    <3>5. QED  BY <1>0, <2>3, <2>6, <3>2, <3>4 DEF DescriptorInv
  <2>7. QED  BY <2>5, <2>6 DEF DescriptorInv, Private
<1>2. CASE ~UpdateOpen(s)
  <2>1. UNCHANGED fileVars
    BY <1>2 DEF Call, InitControlState, AddEvent, RemoveEvent, Update, UpdateNext,
       UpdateFails, UpdateDone, Start, Read, Stop, Sample, ReadNext, ReadDone, Return
  <2>2. pc'[s] = "open" => want'[s][i'[s]] \notin fd
    <3>1. CASE UpdateNext(s)
      <4>1. CASE IsClosed(want[s][i[s]])
        BY <3>1, <4>1 DEF UpdateNext, IsClosed
      <4>2. CASE ~IsClosed(want[s][i[s]])
        BY <3>1, <4>2 DEF UpdateNext, At
      <4>3. QED  BY <4>1, <4>2
    <3>2. CASE ~UpdateNext(s)
      <4>1. CASE AddEvent(s) \/ RemoveEvent(s) \/ Read(s) \/ Stop(s)
        BY <1>0, <4>1 DEF TypeOK, AddEvent, RemoveEvent, Update, Read, Stop, Sample,
           Goto
      <4>2. CASE InitControlState(s) \/ Start(s) \/ ReadNext(s)
        BY <4>2 DEF InitControlState, Start, ReadNext, At
      <4>3. CASE UpdateFails(s) \/ UpdateDone(s) \/ ReadDone(s) \/ Return(s)
        BY <1>0, <4>3 DEF TypeOK, UpdateFails, UpdateDone, ReadDone, Return, Returns,
           Goto
      <4>4. QED  BY <1>2, <3>2, <4>1, <4>2, <4>3 DEF Call
    <3>3. QED  BY <3>1, <3>2
  <2>3. \A r \in EventSets \ {s} :
          pc'[r] = "open" /\ want'[r][i'[r]] \in Private => want'[r][i'[r]] \notin fd
    BY <1>0 DEF DescriptorInv, Idle
  <2>4. QED  BY <1>0, <2>1, <2>2, <2>3 DEF DescriptorInv, Private
<1>3. QED  BY <1>1, <1>2

LEMMA CallHistory ==
  ASSUME IInv, NEW s \in EventSets, Call(s)
  PROVE  HistoryInv'
<1>1. /\ HistoryInv /\ SessionInv /\ UNCHANGED <<papiVars, tableVars>>
      /\ fault = "none"
  BY CallFrame DEF IInv
<1>2. fault' = "none" \/ (fault' = "NULL table" /\ ~table /\ num_events > 0 /\ Usable)
  BY <1>1 DEF Call, InitControlState, AddEvent, RemoveEvent, Update, UpdateNext,
     UpdateOpen, UpdateFails, UpdateDone, Start, Read, Stop, Sample, ReadNext,
     ReadDone, Return, Enabled, Usable
<1>3. fault' = "NULL table" =>
        sessions > 1 /\ retvals[sessions - 1] = "PAPI_ENOMEM"
  BY <1>1, <1>2 DEF HistoryInv, MarkInv, SessionInv, Usable, Lack
<1>4. TableSafe'
  BY <1>1, <1>2, <1>3 DEF TableSafe
<1>5. MarkInv' /\ ListInv'
  BY <1>1, <1>2 DEF HistoryInv, MarkInv, ListInv, Lack
<1>6. QED  BY <1>1, <1>4, <1>5 DEF HistoryInv

LEMMA CallStep ==
  ASSUME IInv, NEW s \in EventSets, Call(s)
  PROVE  IInv'
BY CallTypes, CallSets, CallSession, CallDescriptors, CallHistory DEF IInv

-----------------------------------------------------------------------------
(* PAPI_library_init: no event set has anything yet, no file is open.      *)
LEMMA InitFrame ==
  ASSUME InitComponentStep
  PROVE  /\ UNCHANGED <<fileVars, set, natives, ctlVars, callVars>>
         /\ ~up /\ up' = TRUE /\ fault = "none"
         /\ \/ is_initialized /\ disabled' = "PAPI_OK" /\ UNCHANGED <<tableVars, fault>>
            \/ /\ ~is_initialized /\ is_initialized' = TRUE
               /\ \/ /\ UNCHANGED table /\ fault' \in {"none", "closedir"}
                     /\ \/ disabled' = "PAPI_ECMP" /\ num_events' \in {0, PAPI_ECMP}
                        \/ disabled' = "PAPI_ENOMEM" /\ num_events' = Len(Listing)
                  \/ /\ disabled' \in {"PAPI_OK", "PAPI_ESYS"}
                     /\ table' = TRUE /\ list' = 0
                     /\ num_events' = Len(Listing)
                     /\ fault' = IF list + Len(Listing) > num_events'
                                 THEN "table overflow" ELSE fault
<1> USE DEF LibraryInit, InitFirst
<1>1. CASE InitAgain
  BY <1>1 DEF InitAgain
<1>2. CASE InitListFails
  <2>1. ~is_initialized /\ LibraryInit("PAPI_ECMP") /\ is_initialized' = TRUE
        /\ num_events' \in {0, PAPI_ECMP}
        /\ UNCHANGED <<table, fileVars, set, natives, ctlVars, callVars>>
    BY <1>2 DEF InitListFails
  <2>2. fault' \in {"closedir", fault}
    BY <1>2 DEF InitListFails
  <2>3. QED  BY <2>1, <2>2
<1>3. CASE InitTableFails
  BY <1>3 DEF InitTableFails
<1>4. CASE InitComponent \/ InitEnergyFails
  BY <1>4 DEF InitComponent, InitEnergyFails, InitTable
<1>5. QED  BY <1>1, <1>2, <1>3, <1>4 DEF InitComponentStep

LEMMA InitSession ==
  ASSUME InitComponentStep
  PROVE  /\ sessions < MaxSessions /\ sessions' = sessions + 1
         /\ disabled' \in Retvals
         /\ retvals' = [retvals EXCEPT ![sessions'] = disabled']
<1> USE DEF LibraryInit, InitFirst, Retvals
<1>1. CASE InitAgain \/ InitListFails \/ InitTableFails
  BY <1>1 DEF InitAgain, InitListFails, InitTableFails
<1>2. CASE InitComponent \/ InitEnergyFails
  BY <1>2 DEF InitComponent, InitEnergyFails, InitTable
<1>3. QED  BY <1>1, <1>2 DEF InitComponentStep

LEMMA InitMarks ==
  ASSUME InitComponentStep
  PROVE  is_initialized'
<1>1. CASE is_initialized /\ UNCHANGED <<tableVars, fault>>
  BY <1>1
<1>2. CASE is_initialized' = TRUE
  BY <1>2
<1>3. QED  BY InitFrame, <1>1, <1>2

LEMMA InitTypes ==
  ASSUME TypeOK, InitComponentStep
  PROVE  TypeOK'
<1>1. /\ UNCHANGED <<fileVars, set, natives, ctlVars, callVars>>
      /\ up' = TRUE /\ is_initialized' \in BOOLEAN /\ table' \in BOOLEAN
      /\ fault' \in {"none", "closedir", "NULL table", "table overflow"}
  BY InitFrame DEF TypeOK
<1>2. sessions' \in 0 .. MaxSessions
  <2>1. sessions \in 0 .. MaxSessions
    BY DEF TypeOK
  <2>2. QED  BY <2>1, InitSession, Sizes
<1>3. num_events' \in {0, PAPI_ECMP, Len(Listing)}
  BY DEF TypeOK, InitComponentStep, InitAgain, InitListFails, InitTableFails,
     InitComponent, InitEnergyFails, InitTable
<1>4. list' \in Nat
  <2>0. list \in Nat
    BY DEF TypeOK
  <2>1. CASE InitAgain
    BY <2>0, <2>1 DEF InitAgain
  <2>2. CASE InitListFails
    <3>1. list' = list \/ \E n \in 1 .. Len(Listing) : list' = list + n - 1
      BY <2>2 DEF InitListFails
    <3>2. QED  BY <2>0, <3>1, Sizes
  <2>3. CASE InitTableFails
    BY <2>0, <2>3, Sizes DEF InitTableFails
  <2>4. CASE InitComponent \/ InitEnergyFails
    <3>1. list' = 0
      BY <2>4 DEF InitComponent, InitEnergyFails, InitTable
    <3>2. QED  BY <3>1
  <2>5. QED  BY <2>1, <2>2, <2>3, <2>4 DEF InitComponentStep
<1>5. /\ disabled' \in Retvals
      /\ retvals' \in [1 .. MaxSessions -> Retvals \cup {"none"}]
  BY InitSession DEF TypeOK
<1>6. QED  BY <1>1, <1>2, <1>3, <1>4, <1>5 DEF TypeOK

LEMMA InitHistory ==
  ASSUME IInv, InitComponentStep
  PROVE  HistoryInv'
<1>1. /\ sessions \in Nat /\ MaxSessions \in Nat /\ list \in Nat
      /\ retvals \in [1 .. MaxSessions -> Retvals \cup {"none"}]
      /\ HistoryInv /\ ~up /\ fault = "none"
  <2>1. sessions \in 0 .. MaxSessions /\ list \in Nat
        /\ retvals \in [1 .. MaxSessions -> Retvals \cup {"none"}]
    BY DEF IInv, TypeOK
  <2>2. HistoryInv /\ ~up /\ fault = "none"
    BY InitFrame DEF IInv
  <2>3. QED  BY <2>1, <2>2, Sizes
<1>2. /\ sessions' = sessions + 1 /\ sessions' \in 1 .. MaxSessions
      /\ sessions' - 1 = sessions /\ sessions' - 2 = sessions - 1
      /\ (sessions > 0 => sessions' > 1) /\ (sessions > 1 => sessions' > 2)
      /\ (sessions # 0 => sessions > 0) /\ sessions' # 0
      /\ (sessions > 1 => sessions > 0)
  BY <1>1, InitSession
<1>3. /\ retvals'[sessions'] = disabled'
      /\ \A n \in 1 .. MaxSessions : n # sessions' => retvals'[n] = retvals[n]
  BY <1>1, <1>2, InitSession
<1>4. /\ sessions > 0 => retvals'[sessions' - 1] = retvals[sessions]
      /\ sessions > 1 => retvals'[sessions' - 2] = retvals[sessions - 1]
  <2>1. /\ sessions > 0 => sessions \in 1 .. MaxSessions /\ sessions # sessions'
        /\ sessions > 1 => sessions - 1 \in 1 .. MaxSessions /\ sessions - 1 # sessions'
    BY <1>1, <1>2
  <2>2. QED  BY <1>2, <1>3, <2>1
<1>5. up' = TRUE /\ is_initialized'
  BY InitFrame, InitMarks
<1>6. CASE is_initialized /\ disabled' = "PAPI_OK" /\ UNCHANGED <<tableVars, fault>>
  <2>1. sessions > 0 /\ disabled # "PAPI_OK" /\ retvals[sessions] = disabled
    BY <1>1, <1>2, <1>6 DEF HistoryInv, MarkInv
  <2>2. MarkInv'
    BY <1>1, <1>2, <1>4, <1>5, <1>6, <2>1 DEF HistoryInv, MarkInv, Lack
  <2>3. TableSafe'
    BY <1>1, <1>6 DEF TableSafe
  <2>4. QED  BY <1>2, <1>3, <1>5, <2>2, <2>3 DEF HistoryInv, ListInv
<1>7. CASE /\ ~is_initialized /\ UNCHANGED table /\ fault' \in {"none", "closedir"}
           /\ \/ disabled' = "PAPI_ECMP" /\ num_events' \in {0, PAPI_ECMP}
              \/ disabled' = "PAPI_ENOMEM" /\ num_events' = Len(Listing)
  <2>1. ~table
    BY <1>1, <1>7 DEF HistoryInv, MarkInv
  <2>2. disabled' = Lack' /\ disabled' # "PAPI_OK"
    <3>1. ~(0 > 0) /\ ~(PAPI_ECMP > 0) /\ Len(Listing) > 0
      BY Sizes DEF PAPI_ECMP
    <3>2. QED  BY <1>7, <3>1 DEF Lack
  <2>3. MarkInv'
    BY <1>5, <1>7, <2>1, <2>2 DEF MarkInv
  <2>4. TableSafe'
    BY <1>7 DEF TableSafe
  <2>5. QED  BY <1>2, <1>3, <1>5, <2>3, <2>4 DEF HistoryInv, ListInv
<1>8. CASE /\ ~is_initialized /\ table' = TRUE /\ list' = 0
           /\ num_events' = Len(Listing)
           /\ fault' = IF list + Len(Listing) > num_events'
                       THEN "table overflow" ELSE fault
  <2>1. MarkInv'
    BY <1>5, <1>8 DEF MarkInv
  <2>2. fault' = "table overflow" =>
          /\ sessions > 1
          /\ retvals[sessions - 1] = "PAPI_ECMP" /\ retvals[sessions] = "PAPI_OK"
    <3>1. fault' = "table overflow" => list # 0
      BY <1>1, <1>8, Exceeds
    <3>2. QED  BY <1>1, <1>8, <3>1 DEF HistoryInv, ListInv
  <2>3. fault' # "NULL table"
    BY <1>1, <1>8
  <2>4. TableSafe'
    BY <1>2, <1>4, <2>2, <2>3 DEF TableSafe
  <2>5. QED  BY <1>2, <1>3, <1>5, <2>1, <2>4 DEF HistoryInv, ListInv
<1>9. QED  BY InitFrame, <1>6, <1>7, <1>8

LEMMA InitStep ==
  ASSUME IInv, InitComponentStep
  PROVE  IInv'
<1>1. TypeOK /\ AllSets /\ SessionInv /\ DescriptorInv
  BY DEF IInv
<1>2. UNCHANGED <<fileVars, set, natives, ctlVars, callVars>> /\ ~up
  BY InitFrame
<1>3. AllSets'
  BY <1>1, <1>2, IdleSet DEF AllSets, Idle
<1>4. fd = {} /\ \A s \in EventSets : set[s] = "none" /\ pc[s] = "idle"
  BY <1>1, <1>2 DEF SessionInv, Usable
<1>5. SessionInv'
  <2>1. is_initialized'
    BY InitMarks
  <2>2. QED  BY <1>2, <1>4, <2>1 DEF SessionInv, Updating
<1>6. DescriptorInv'
  BY <1>1, <1>2 DEF DescriptorInv, Private
<1>7. QED  BY <1>1, <1>3, <1>5, <1>6, InitTypes, InitHistory DEF IInv

-----------------------------------------------------------------------------
(* PAPI_shutdown.                                                          *)
LEMMA ShutdownStep ==
  ASSUME IInv, Shutdown
  PROVE  IInv'
<1>1. TypeOK /\ AllSets /\ SessionInv /\ DescriptorInv /\ HistoryInv
  BY DEF IInv
<1> DEFINE Closes == Usable /\ ~(~table /\ num_events > 0)
           Trips == Usable /\ ~table /\ num_events > 0
<1>2. /\ up' = FALSE /\ up /\ fault = "none"
      /\ UNCHANGED <<sessions, disabled, retvals, callVars, num_events, list>>
      /\ set' = [s \in EventSets |-> "none"]
      /\ natives' = [s \in EventSets |-> <<>>]
      /\ active_count' = [s \in EventSets |-> 0]
      /\ active_idx' = [s \in EventSets |-> Unused]
      /\ counts' = [s \in EventSets |-> [e \in Events |-> "none"]]
      /\ \A s \in EventSets : pc[s] = "idle"
  BY DEF Shutdown
<1>3. \/ /\ Closes /\ fd' = {} /\ fault' = fault
         /\ is_initialized' = FALSE /\ table' = FALSE
         /\ descriptors' = [e \in Events |-> IF e \in fd
                              THEN descriptors[e] - 1 ELSE descriptors[e]]
      \/ Trips /\ fault' = "NULL table" /\ UNCHANGED <<tableVars, fileVars>>
      \/ ~Usable /\ UNCHANGED <<tableVars, fileVars, fault>>
  BY <1>1, <1>2 DEF Shutdown, ToClose, Unmarked, SessionInv, Usable
<1>4. fd' = {}
  BY <1>1, <1>3 DEF SessionInv
<1>5. TypeOK'
  <2>1. active_count' \in [EventSets -> 0 .. CORETEMP_MAX_COUNTERS]
    <3>1. 0 \in 0 .. CORETEMP_MAX_COUNTERS
      BY Sizes
    <3>2. QED  BY <1>2, <3>1
  <2>2. active_idx' \in [EventSets -> [1 .. CORETEMP_MAX_COUNTERS -> Events]]
    BY <1>2, EventNumbers DEF Unused
  <2>3. natives' \in [EventSets -> Seq(Events)]
    BY <1>2
  <2>4. descriptors' \in [Events -> Int]
    <3>0. descriptors \in [Events -> Int]
      BY <1>1 DEF TypeOK
    <3>1. \A e \in Events : descriptors[e] \in Int /\ descriptors[e] - 1 \in Int
      BY <3>0
    <3>2. CASE descriptors' = descriptors
      BY <1>1, <3>2 DEF TypeOK
    <3>3. CASE descriptors' = [e \in Events |-> IF e \in fd
                                THEN descriptors[e] - 1 ELSE descriptors[e]]
      BY <3>1, <3>3
    <3>4. QED  BY <1>3, <3>2, <3>3
  <2>5. /\ set' \in [EventSets -> {"none", "stopped", "running"}]
        /\ counts' \in [EventSets -> [Events ->
                         {"none", "sample", "old", "unreadable", "closed"}]]
    BY <1>2
  <2>6. is_initialized' \in BOOLEAN /\ table' \in BOOLEAN
        /\ fault' \in {"none", "closedir", "NULL table", "table overflow"}
    BY <1>1, <1>3 DEF TypeOK
  <2>7. QED
    BY <1>1, <1>2, <1>4, <2>1, <2>2, <2>3, <2>4, <2>5, <2>6 DEF TypeOK
<1>6. AllSets'
  <2> SUFFICES ASSUME NEW s \in EventSets  PROVE SetInv(s)'
    BY DEF AllSets
  <2>1. pc'[s] = "idle" /\ natives'[s] = <<>> /\ active_count'[s] = 0
    BY <1>2
  <2>2. <<>> \in Seq(Events) /\ Len(<<>>) = 0 /\ \A n \in DOMAIN <<>> : FALSE
    BY EmptySeq
  <2>3. natives'[s] \in Lists(s) /\ Opened(natives[s])'
    BY <2>1, <2>2 DEF Lists, Distinct, Opened
  <2>4. UpdateInv(s)' /\ ActiveInv(s)' /\ ReadInv(s)'
    BY <2>1, <2>2 DEF UpdateInv, ActiveInv, ReadInv, Updating
  <2>5. QED  BY <2>3, <2>4 DEF SetInv, Lists
<1>7. SessionInv'
  BY <1>2, <1>4 DEF SessionInv, Usable, Updating
<1>8. DescriptorInv'
  <2> SUFFICES ASSUME NEW e \in Private  PROVE descriptors'[e] = 0
    BY <1>2, <1>4 DEF DescriptorInv, Private
  <2>1. e \in Events /\ descriptors[e] = IF e \in fd THEN 1 ELSE 0
    BY <1>1 DEF DescriptorInv, Private
  <2>2. CASE fd = {} /\ descriptors' = descriptors
    BY <2>1, <2>2
  <2>3. CASE descriptors' = [f \in Events |-> IF f \in fd
                              THEN descriptors[f] - 1 ELSE descriptors[f]]
    BY <2>1, <2>3
  <2>4. QED  BY <1>1, <1>3, <1>4, <2>2, <2>3
<1>9. HistoryInv'
  <2>1. /\ sessions \in Nat /\ sessions # 0
        /\ retvals[sessions] = disabled
    <3>1. sessions \in Nat /\ sessions # 0
      BY <1>1, <1>2, Sizes DEF TypeOK, HistoryInv
    <3>2. sessions > 0
      BY <3>1
    <3>3. QED  BY <1>1, <3>1, <3>2 DEF HistoryInv
  <2>2. Trips => sessions > 1 /\ retvals[sessions - 1] = "PAPI_ENOMEM"
    BY <1>1 DEF HistoryInv, MarkInv, SessionInv, Usable, Lack
  <2>3. TableSafe'
    BY <1>2, <1>3, <2>2 DEF TableSafe
  <2>4. MarkInv'
    <3>1. MarkInv /\ UNCHANGED <<sessions, disabled, retvals, num_events, list>>
          /\ up /\ ~up'
      BY <1>1, <1>2 DEF HistoryInv
    <3>2. CASE Closes /\ is_initialized' = FALSE /\ table' = FALSE
      BY <3>2 DEF MarkInv
    <3>3. CASE Trips /\ fault' = "NULL table" /\ UNCHANGED tableVars
      BY <3>1, <3>3 DEF MarkInv, Lack
    <3>4. CASE ~Usable /\ UNCHANGED tableVars
      BY <3>1, <3>4 DEF MarkInv, Usable, Lack
    <3>5. QED  BY <1>3, <3>2, <3>3, <3>4
  <2>5. ListInv'
    <3>1. CASE Closes
      <4>1. table => list = 0
        BY <1>1 DEF HistoryInv, MarkInv
      <4>2. ~table => sessions > 1 /\ retvals[sessions - 1] = "PAPI_ECMP"
        BY <1>1, <3>1 DEF HistoryInv, MarkInv, SessionInv, Usable, Lack
      <4>3. retvals[sessions] = "PAPI_OK"
        BY <2>1, <3>1 DEF Usable
      <4>4. QED  BY <1>2, <4>1, <4>2, <4>3 DEF ListInv
    <3>2. CASE ~Closes
      BY <1>1, <1>2, <1>3, <3>2 DEF HistoryInv, ListInv
    <3>3. QED  BY <3>1, <3>2
  <2>6. QED  BY <1>2, <2>1, <2>3, <2>4, <2>5 DEF HistoryInv
<1>10. QED  BY <1>5, <1>6, <1>7, <1>8, <1>9 DEF IInv

-----------------------------------------------------------------------------
LEMMA InitInv == Init => IInv
<1> SUFFICES ASSUME Init  PROVE IInv
  OBVIOUS
<1>1. TypeOK
  <2>1. 0 \in 0 .. CORETEMP_MAX_COUNTERS /\ 0 \in 0 .. MaxSessions
        /\ 1 \in 1 .. CORETEMP_MAX_COUNTERS + 1
    BY Sizes
  <2>2. /\ active_count \in [EventSets -> 0 .. CORETEMP_MAX_COUNTERS]
        /\ i \in [EventSets -> 1 .. CORETEMP_MAX_COUNTERS + 1]
    BY <2>1 DEF Init
  <2>3. active_idx \in [EventSets -> [1 .. CORETEMP_MAX_COUNTERS -> Events]]
    BY EventNumbers DEF Init, Unused
  <2>4. natives \in [EventSets -> Seq(Events)] /\ want \in [EventSets -> Seq(Events)]
    BY DEF Init
  <2>5. sessions \in 0 .. MaxSessions /\ num_events \in {0, PAPI_ECMP, Len(Listing)}
        /\ list \in Nat /\ descriptors \in [Events -> Int] /\ fd \subseteq Events
    BY <2>1 DEF Init
  <2>6. /\ set \in [EventSets -> {"none", "stopped", "running"}]
        /\ pc \in [EventSets -> {"idle", "update", "open", "read", "returned"}]
        /\ counts \in [EventSets -> [Events ->
                         {"none", "sample", "old", "unreadable", "closed"}]]
    BY DEF Init
  <2>7. /\ up \in BOOLEAN /\ is_initialized \in BOOLEAN /\ table \in BOOLEAN
        /\ disabled \in Retvals
        /\ retvals \in [1 .. MaxSessions -> Retvals \cup {"none"}]
        /\ fault \in {"none", "closedir", "NULL table", "table overflow"}
    BY DEF Init, Retvals
  <2>8. QED  BY <2>2, <2>3, <2>4, <2>5, <2>6, <2>7 DEF TypeOK
<1>2. AllSets
  <2> SUFFICES ASSUME NEW s \in EventSets  PROVE SetInv(s)
    BY DEF AllSets
  <2>1. pc[s] = "idle" /\ natives[s] = <<>> /\ active_count[s] = 0
    BY DEF Init
  <2>2. <<>> \in Seq(Events) /\ Len(<<>>) = 0 /\ \A n \in DOMAIN <<>> : FALSE
    BY EmptySeq
  <2>3. natives[s] \in Lists(s) /\ Opened(natives[s])
    BY <2>1, <2>2 DEF Lists, Distinct, Opened
  <2>4. UpdateInv(s) /\ ActiveInv(s) /\ ReadInv(s)
    BY <2>1, <2>2 DEF UpdateInv, ActiveInv, ReadInv, Updating
  <2>5. QED  BY <2>3, <2>4 DEF SetInv
<1>3. SessionInv
  BY DEF Init, SessionInv, Usable, Updating
<1>4. DescriptorInv
  BY DEF Init, DescriptorInv, Private
<1>5. HistoryInv
  BY DEF Init, HistoryInv, TableSafe, MarkInv, ListInv
<1>6. QED  BY <1>1, <1>2, <1>3, <1>4, <1>5 DEF IInv

LEMMA StutterStep ==
  ASSUME IInv, UNCHANGED vars
  PROVE  IInv'
<1> USE DEF IInv, vars
<1>1. TypeOK'
  BY DEF TypeOK
<1>2. AllSets'
  BY IdleSet DEF AllSets, Idle
<1>3. SessionInv' /\ DescriptorInv' /\ HistoryInv'
  BY DEF SessionInv, DescriptorInv, HistoryInv, TableSafe, MarkInv, ListInv, Lack,
     Usable, Updating, Private
<1>4. QED  BY <1>1, <1>2, <1>3

(* IInv is inductive.                                                      *)
THEOREM Invariance == Spec => []IInv
<1>1. Init => IInv
  BY InitInv
<1>2. IInv /\ [Next]_vars => IInv'
  BY InitStep, ShutdownStep, CallStep, StutterStep DEF Next
<1>3. QED  BY <1>1, <1>2, PTL DEF Spec

(* Every variable keeps its type; active_count, which bounds the loops of  *)
(* read and stop, never exceeds the CORETEMP_MAX_COUNTERS entries of       *)
(* active_idx.                                                             *)
THEOREM TypeCorrect == Spec => []TypeOK
<1>1. IInv => TypeOK
  BY DEF IInv
<1>2. QED  BY <1>1, Invariance, PTL

(* A read gives back, for every event of the set, a value this call has    *)
(* read from its file.                                                     *)
THEOREM FreshReads == Spec => []ReadsReturnSamples
<1>1. IInv => ReadsReturnSamples
  BY DEF IInv, AllSets, SetInv, ReadInv, Fresh, ReadsReturnSamples
<1>2. QED  BY <1>1, Invariance, PTL

(* In any number of sessions, a table that is not there is used only right *)
(* after an initialisation that could not allocate it, and a table is      *)
(* filled beyond its end only two sessions after one that gave up while it *)
(* built the list; as long as initialisations succeed neither happens.     *)
THEOREM SafeTable == Spec => []TableSafe
<1>1. IInv => TableSafe
  BY DEF IInv, HistoryInv
<1>2. QED  BY <1>1, Invariance, PTL

(* PAPI_shutdown closes every file that only one event set can open.       *)
THEOREM DescriptorsGivenBack == Spec => []DescriptorsReturned
<1>1. IInv => DescriptorsReturned
  BY DEF IInv, SessionInv, DescriptorInv, Usable, DescriptorsReturned
<1>2. QED  BY <1>1, Invariance, PTL

=============================================================================
