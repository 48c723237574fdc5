------------------------- MODULE ApapiSamplerProofs -------------------------
(***************************************************************************)
(* Proofs about ApapiSampler, for any number of threads, metrics and       *)
(* buffer cells: type correctness, exclusive entries and buffer bounds;    *)
(* with one collector also that buffers are read after the join, that the  *)
(* answers are samples, that the plugin implements MetricLog, and when no  *)
(* undefined behaviour is reached.                                         *)
(***************************************************************************)
EXTENDS ApapiSampler, FiniteSetTheorems, TLAPS

InCall == {"find", "alloc", "count"}          \* holds the mutex
HasEntry == {"count", "register", "spawn"}    \* works on an entry it owns

(* The mutex is held by exactly the one thread inside the critical section. *)
MutexInv ==
  /\ \A t \in Threads : apc[t] \in InCall <=> t \in mutex
  /\ \A t, u \in mutex : t = u

(* The listed entries are those with a thread, and no thread has two.      *)
ListInv ==
  /\ \A i \in Ids : i < event_list_size <=> cpu[i] # NoThread
  /\ \A i, j \in Ids : cpu[i] # NoThread /\ cpu[i] = cpu[j] => i = j
  /\ fault = "none" => event_list_size <= EventListCap

(* What the local id of add_counter stands for.                            *)
CallerInv ==
  /\ \A t \in Threads : apc[t] = "alloc" =>
       aid[t] = event_list_size /\ \A i \in Ids : cpu[i] # t
  /\ \A t \in Threads : apc[t] \in HasEntry =>
       /\ aid[t] < event_list_size
       /\ aid[t] \in Ids => cpu[aid[t]] = t
       /\ fault = "none" => aid[t] \in Ids
  /\ \A t, u \in Threads : t # u /\ apc[t] \in HasEntry /\ apc[u] \in HasEntry
       => aid[t] # aid[u]

(* A thread begins no more calls than there are accepted metrics.          *)
CallsInv ==
  /\ accepted <= global_num_cntrs
  /\ \A t \in Threads : added[t] <= accepted
  /\ \A t \in Threads : apc[t] # "idle" => added[t] >= 1

(* An entry counts exactly the calls its thread has got counted.           *)
CountInv ==
  /\ \A i \in Ids : cpu[i] # NoThread => added[cpu[i]] >= 1
  /\ \A i \in Ids : cpu[i] # NoThread /\ apc[cpu[i]] \in InCall
       => num_cntrs[i] = added[cpu[i]] - 1
  /\ \A i \in Ids : cpu[i] # NoThread /\ apc[cpu[i]] \notin InCall
       => num_cntrs[i] = added[cpu[i]]
  /\ \A t \in Threads : fault = "none" /\ (\A i \in Ids : cpu[i] # t)
       => IF apc[t] \in InCall THEN added[t] = 1 ELSE added[t] = 0

(* Sampling is set up for an entry that has all its counters; an event set *)
(* holds no more events than that, and PAPI_read is not given NULL.        *)
StartInv ==
  /\ \A t \in Threads : apc[t] \in {"register", "spawn"} /\ fault = "none"
       => num_cntrs[aid[t]] = global_num_cntrs
  /\ \A i \in Ids : spc[i] # "none" =>
       cpu[i] # NoThread /\ num_cntrs[i] = global_num_cntrs
  /\ \A i \in Ids : members[i] <= num_cntrs[i]
  /\ \A i \in Ids : spc[i] = "read" => timevalues[i] # NULL

IInv == /\ TypeOK /\ MutexInv /\ ListInv /\ CallerInv /\ CallsInv /\ CountInv
        /\ StartInv /\ NoOverrun

USE ApapiAssumption
USE DEF Alive, setupVars, entryVars, sampleVars, adderVars, collVars,
        UnchangedBySampler, UnchangedByCollector

-----------------------------------------------------------------------------
(* The cells written are cells.                                            *)
LEMMA CellTypes == /\ Zero \in Cell /\ Cleared \in [Cells -> Cell]
                   /\ \A k, c \in Int : <<k, c>> \in Cell
  BY DEF Zero, Cell, Cleared

(* Initially the list is empty and nobody is in add_counter.               *)
LEMMA InitIInv == Init => IInv
<1> SUFFICES ASSUME Init PROVE IInv
  OBVIOUS
<1>1. EntryTypeOK
  BY DEF Init, EntryTypeOK
<1>2. SamplerTypeOK
  <2>1. timevalues \in [Ids -> [Cells -> Cell] \cup {NULL}]
    BY DEF Init
  <2>2. QED
    BY <2>1 DEF Init, SamplerTypeOK, SamplerStates
<1>3. CallTypeOK /\ GlobalTypeOK
  BY DEF Init, CallTypeOK, GlobalTypeOK, AdderStates, CollectorStates, Faults
<1>4. /\ MutexInv /\ ListInv /\ CallerInv /\ CallsInv /\ CountInv /\ StartInv
      /\ NoOverrun
  BY DEF Init, MutexInv, ListInv, CallerInv, CallsInv, CountInv, StartInv,
         NoOverrun, InCall, HasEntry, Ids
<1>5. QED
  BY <1>1, <1>2, <1>3, <1>4 DEF IInv, TypeOK

(* Taking the mutex begins a call of add_counter. *)
LEMMA AddLockStep ==
  ASSUME IInv, NEW t \in Threads, AddLock(t)
  PROVE  IInv'
<1> USE DEF IInv, TypeOK, InCall, HasEntry, AddLock, MutexFree, Measuring
<1>1. EntryTypeOK'
  BY DEF EntryTypeOK, CallTypeOK
<1>2. SamplerTypeOK'
  BY DEF SamplerTypeOK, SamplerStates
<1>3. CallTypeOK'
  BY DEF EntryTypeOK, CallTypeOK, GlobalTypeOK, AdderStates, CallerInv, CountInv, CallsInv
<1>4. GlobalTypeOK'
  BY DEF GlobalTypeOK, Faults
<1> USE DEF EntryTypeOK, CallTypeOK, AdderStates
<1>5. MutexInv'
  BY DEF MutexInv, GlobalTypeOK
<1>6. ListInv'
  BY DEF ListInv, CallerInv, Ids
<1>7. CallerInv'
  BY DEF MutexInv, CallerInv, ListInv, Ids
<1>8. CallsInv'
  BY DEF CallsInv, GlobalTypeOK
<1>9. CountInv'
  <2>1. UNCHANGED <<cpu, num_cntrs, fault>> /\ apc[t] = "idle" /\ apc'[t] = "find"
        /\ added'[t] = added[t] + 1 /\ added[t] \in Nat
    OBVIOUS
  <2>2. \A u \in Threads : u # t => apc'[u] = apc[u] /\ added'[u] = added[u]
    OBVIOUS
  <2>3. QED
    BY <2>1, <2>2 DEF CountInv
<1>10. StartInv'
  <2>1. UNCHANGED <<cpu, num_cntrs, members, spc, timevalues, global_num_cntrs, aid>>
    OBVIOUS
  <2>2. \A u \in Threads : apc'[u] \in {"register", "spawn"} => apc'[u] = apc[u]
    BY DEF CallTypeOK
  <2>3. QED
    BY <2>1, <2>2 DEF StartInv
<1>11. NoOverrun'
  BY DEF CallsInv, CountInv, CallerInv, StartInv, NoOverrun, SamplerTypeOK, SamplerStates, GlobalTypeOK
<1>12. QED
  BY <1>1, <1>2, <1>3, <1>4, <1>5, <1>6, <1>7, <1>8, <1>9, <1>10, <1>11

(* Searching the list only sets the local id. *)
LEMMA AddFindStep ==
  ASSUME IInv, NEW t \in Threads, AddFind(t)
  PROVE  IInv'
<1> USE DEF IInv, TypeOK, InCall, HasEntry, AddFind, Listed
<1>1. EntryTypeOK'
  BY DEF EntryTypeOK, CallTypeOK
<1>2. SamplerTypeOK'
  BY DEF SamplerTypeOK, SamplerStates
<1>3. CallTypeOK'
  BY DEF EntryTypeOK, CallTypeOK, GlobalTypeOK, AdderStates, CallerInv, CountInv, CallsInv
<1>4. GlobalTypeOK'
  BY DEF GlobalTypeOK, Faults
<1> USE DEF EntryTypeOK, CallTypeOK, AdderStates
<1>5. MutexInv'
  BY DEF MutexInv, GlobalTypeOK
<1>6. ListInv'
  BY DEF ListInv, CallerInv, Ids
<1>7. CallerInv'
  <2>1. CASE \E i \in Listed(t) : aid' = [aid EXCEPT ![t] = i]
                               /\ apc' = [apc EXCEPT ![t] = "count"]
    <3>1. PICK i \in Listed(t) : /\ aid' = [aid EXCEPT ![t] = i]
                                 /\ apc' = [apc EXCEPT ![t] = "count"]
      BY <2>1
    <3>2. i \in Ids /\ i < event_list_size /\ cpu[i] = t
      BY DEF ListInv, Ids
    <3>3. \A u \in Threads : u # t /\ apc[u] \in HasEntry => aid[u] # i
      BY <3>2 DEF CallerInv
    <3>4. QED
      BY <3>1, <3>2, <3>3 DEF CallerInv
  <2>2. CASE Listed(t) = {} /\ aid' = [aid EXCEPT ![t] = event_list_size]
                           /\ apc' = [apc EXCEPT ![t] = "alloc"]
    <3>1. \A i \in Ids : cpu[i] # t
      <4>1. SUFFICES ASSUME NEW i \in Ids, cpu[i] = t PROVE FALSE
        OBVIOUS
      <4>2. cpu[i] # NoThread
        BY <4>1
      <4>3. i \in Listed(t)
        BY <4>1, <4>2 DEF ListInv, Ids
      <4>4. QED
        BY <2>2, <4>3
    <3>2. QED
      BY <2>2, <3>1 DEF CallerInv
  <2>3. QED
    BY <2>1, <2>2
<1>8. CallsInv'
  BY DEF CallsInv, GlobalTypeOK
<1>9. CountInv'
  BY DEF MutexInv, CallsInv, CallerInv, ListInv, CountInv
<1>10. StartInv'
  BY DEF CallsInv, CountInv, CallerInv, StartInv, SamplerTypeOK, SamplerStates, GlobalTypeOK
<1>11. NoOverrun'
  BY DEF CallsInv, CountInv, CallerInv, StartInv, NoOverrun, SamplerTypeOK, SamplerStates, GlobalTypeOK
<1>12. QED
  BY <1>1, <1>2, <1>3, <1>4, <1>5, <1>6, <1>7, <1>8, <1>9, <1>10, <1>11

(* A new entry is the next one, which nobody else can be working on. *)
LEMMA AddAllocStep ==
  ASSUME IInv, NEW t \in Threads, AddAlloc(t)
  PROVE  IInv'
<1> USE DEF IInv, TypeOK, InCall, HasEntry, AddAlloc
<1>1. EntryTypeOK'
  <2>1. event_list_size' \in Nat
    BY DEF EntryTypeOK
  <2>2. cpu' \in [Ids -> Threads \cup {NoThread}] /\ enabled' \in [Ids -> BOOLEAN]
    BY DEF EntryTypeOK
  <2>3. num_cntrs' \in [Ids -> Nat]
    BY DEF EntryTypeOK
  <2>4. eventset' \in [Ids -> {"null", "created", "added", "running", "stopped"}]
    BY DEF EntryTypeOK
  <2>5. members' \in [Ids -> Nat]
    BY DEF EntryTypeOK
  <2>6. QED
    BY <2>1, <2>2, <2>3, <2>4, <2>5 DEF EntryTypeOK
<1>2. SamplerTypeOK'
  BY DEF SamplerTypeOK, SamplerStates
<1>3. CallTypeOK'
  BY DEF EntryTypeOK, CallTypeOK, GlobalTypeOK, AdderStates, CallerInv, CountInv, CallsInv
<1>4. GlobalTypeOK'
  BY DEF GlobalTypeOK, Faults
<1> USE DEF EntryTypeOK, CallTypeOK, AdderStates
<1>5. MutexInv'
  BY DEF MutexInv, GlobalTypeOK
<1>6. ListInv'
  BY DEF ListInv, CallerInv, Ids
<1>7. CallerInv'
  BY DEF MutexInv, CallerInv, ListInv, Ids
<1>8. CallsInv'
  BY DEF CallsInv, GlobalTypeOK
<1>9. CountInv'
  BY DEF MutexInv, CallsInv, CallerInv, ListInv, CountInv
<1>10. StartInv'
  BY DEF CallsInv, CountInv, CallerInv, StartInv, SamplerTypeOK, SamplerStates, GlobalTypeOK
<1>11. NoOverrun'
  BY DEF CallsInv, CountInv, CallerInv, StartInv, NoOverrun, SamplerTypeOK, SamplerStates, GlobalTypeOK
<1>12. QED
  BY <1>1, <1>2, <1>3, <1>4, <1>5, <1>6, <1>7, <1>8, <1>9, <1>10, <1>11

(* Counting the call gives the entry one more column and leaves the mutex. *)
LEMMA AddCountStep ==
  ASSUME IInv, NEW t \in Threads, AddCount(t)
  PROVE  IInv'
<1> USE DEF IInv, TypeOK, InCall, HasEntry, AddCount, Return, AllAdded, CounterId
<1>1. EntryTypeOK'
  <2>1. num_cntrs[aid[t]] + 1 \in Nat
    BY DEF EntryTypeOK, CallTypeOK, CallerInv
  <2>2. num_cntrs' \in [Ids -> Nat]
    BY <2>1 DEF EntryTypeOK
  <2>3. QED
    BY <2>2 DEF EntryTypeOK
<1>2. SamplerTypeOK'
  BY DEF SamplerTypeOK, SamplerStates
<1>3. CallTypeOK'
  <2>1. aid[t] \in Ids /\ aid[t] \in Nat
    BY DEF CallerInv, CallTypeOK
  <2>2. CounterId(aid[t], num_cntrs[aid[t]]) \in Nat
    BY <2>1 DEF EntryTypeOK
  <2>3. issued' \subseteq Nat
    BY <2>2 DEF CallTypeOK
  <2>4. apc' \in [Threads -> AdderStates]
    BY DEF CallTypeOK, AdderStates
  <2>5. QED
    BY <2>3, <2>4 DEF CallTypeOK
<1>4. GlobalTypeOK'
  BY DEF GlobalTypeOK, Faults
<1> USE DEF EntryTypeOK, CallTypeOK, AdderStates
<1>5. MutexInv'
  BY DEF MutexInv, GlobalTypeOK
<1>6. ListInv'
  BY DEF ListInv, CallerInv, Ids
<1>7. CallerInv'
  <2>1. \A u \in Threads : u # t => apc'[u] = apc[u]
    BY DEF CallTypeOK
  <2>2. apc[t] \in HasEntry /\ apc'[t] # "alloc"
    BY DEF CallTypeOK
  <2>3. aid' = aid /\ cpu' = cpu /\ event_list_size' = event_list_size
          /\ fault' = fault
    OBVIOUS
  <2>4. QED
    BY <2>1, <2>2, <2>3 DEF CallerInv
<1>8. CallsInv'
  BY DEF CallsInv, GlobalTypeOK
<1>9. CountInv'
  BY DEF MutexInv, CallsInv, CallerInv, ListInv, CountInv
<1>10. StartInv'
  BY DEF CallsInv, CountInv, CallerInv, StartInv, SamplerTypeOK, SamplerStates, GlobalTypeOK
<1>11. NoOverrun'
  <2>1. spc[aid[t]] = "none"
    BY DEF CallsInv, CountInv, CallerInv, StartInv, SamplerTypeOK, SamplerStates,
           GlobalTypeOK
  <2>2. \A i \in Ids : i # aid[t] => num_cntrs'[i] = num_cntrs[i]
    BY DEF EntryTypeOK
  <2>3. spc' = spc /\ tv_pos' = tv_pos
    OBVIOUS
  <2>4. QED
    BY <2>1, <2>2, <2>3 DEF NoOverrun

<1>12. QED
  BY <1>1, <1>2, <1>3, <1>4, <1>5, <1>6, <1>7, <1>8, <1>9, <1>10, <1>11

(* Registering with PAPI changes the event set only. *)
LEMMA AddRegisterStep ==
  ASSUME IInv, NEW t \in Threads, AddRegister(t)
  PROVE  IInv'
<1> USE DEF IInv, TypeOK, InCall, HasEntry
<1>0. PICK state \in {"null", "created", "added", "running"},
           n \in 0 .. num_cntrs[aid[t]], to \in {"idle", "spawn"} :
        /\ apc[t] = "register" /\ fault = "none"
        /\ eventset' = [eventset EXCEPT ![aid[t]] = state]
        /\ members' = [members EXCEPT ![aid[t]] = n]
        /\ apc' = [apc EXCEPT ![t] = to]
        /\ issued' = issued
        /\ UNCHANGED <<setupVars, counter_enabled, mutex, event_list_size, cpu,
                       enabled, num_cntrs, sampleVars, spc, aid, added,
                       collVars, fault>>
  BY DEF AddRegister, Return
<1>01. num_cntrs[aid[t]] \in Nat
  BY <1>0 DEF EntryTypeOK, CallerInv
<1>1. EntryTypeOK'
  <2>1. n \in Nat
    BY <1>01
  <2>2. members' \in [Ids -> Nat]
    BY <1>0, <2>1 DEF EntryTypeOK
  <2>3. eventset' \in [Ids -> {"null", "created", "added", "running", "stopped"}]
    BY <1>0 DEF EntryTypeOK
  <2>4. QED
    BY <1>0, <2>2, <2>3 DEF EntryTypeOK
<1>2. SamplerTypeOK'
  BY <1>0 DEF SamplerTypeOK, SamplerStates
<1>3. CallTypeOK'
  <2>1. apc' \in [Threads -> AdderStates]
    BY <1>0 DEF CallTypeOK, AdderStates
  <2>2. QED
    BY <1>0, <2>1 DEF CallTypeOK
<1>4. GlobalTypeOK'
  BY <1>0 DEF GlobalTypeOK, Faults
<1> USE DEF EntryTypeOK, CallTypeOK, AdderStates
<1>5. MutexInv'
  BY <1>0 DEF MutexInv, GlobalTypeOK
<1>6. ListInv'
  BY <1>0 DEF ListInv, CallerInv, Ids
<1>7. CallerInv'
  <2>1. \A u \in Threads : u # t => apc'[u] = apc[u]
    BY <1>0 DEF CallTypeOK
  <2>2. apc[t] \in HasEntry /\ apc'[t] # "alloc"
    BY <1>0 DEF CallTypeOK
  <2>3. aid' = aid /\ cpu' = cpu /\ event_list_size' = event_list_size
          /\ fault' = fault
    BY <1>0
  <2>4. QED
    BY <2>1, <2>2, <2>3 DEF CallerInv
<1>8. CallsInv'
  BY <1>0 DEF CallsInv, GlobalTypeOK
<1>9. CountInv'
  BY <1>0 DEF MutexInv, CallsInv, CallerInv, ListInv, CountInv
<1>10. StartInv'
  <2>1. UNCHANGED <<cpu, num_cntrs, spc, timevalues, global_num_cntrs, aid, fault>>
    BY <1>0
  <2>2. \A u \in Threads : apc'[u] \in {"register", "spawn"} => apc[u] \in {"register", "spawn"}
    BY <1>0 DEF CallTypeOK
  <2>4. \A i \in Ids : members'[i] <= num_cntrs[i]
    BY <1>0, <1>01 DEF StartInv
  <2>5. QED
    BY <2>1, <2>2, <2>4 DEF StartInv
<1>11. NoOverrun'
  BY <1>0, <1>10 DEF StartInv, NoOverrun
<1>12. QED
  BY <1>1, <1>2, <1>3, <1>4, <1>5, <1>6, <1>7, <1>8, <1>9, <1>10, <1>11

(* A sampling thread starts only on an entry that has all its counters. *)
LEMMA AddSpawnStep ==
  ASSUME IInv, NEW t \in Threads, AddSpawn(t)
  PROVE  IInv'
<1> USE DEF IInv, TypeOK, InCall, HasEntry, AddSpawn, Return, LastCounter, CounterId
<1>1. EntryTypeOK'
  BY DEF EntryTypeOK, CallTypeOK
<1>2. SamplerTypeOK'
  BY DEF SamplerTypeOK, SamplerStates
<1>3. CallTypeOK'
  <2>1. aid[t] \in Ids /\ aid[t] \in Nat
    BY DEF CallerInv, CallTypeOK
  <2>2. num_cntrs[aid[t]] >= 1
    BY <2>1 DEF CallerInv, CallsInv, CountInv, CallTypeOK, EntryTypeOK
  <2>3. LastCounter(t) \in Nat
    BY <2>1, <2>2 DEF EntryTypeOK
  <2>4. issued' \subseteq Nat
    BY ZenonT(30), <2>3 DEF CallTypeOK
  <2>5. apc' \in [Threads -> AdderStates]
    BY DEF CallTypeOK, AdderStates
  <2>6. QED
    BY <2>4, <2>5 DEF CallTypeOK
<1>4. GlobalTypeOK'
  BY DEF GlobalTypeOK, Faults
<1> USE DEF EntryTypeOK, CallTypeOK, AdderStates
<1>5. MutexInv'
  BY DEF MutexInv, GlobalTypeOK
<1>6. ListInv'
  BY DEF ListInv, CallerInv, Ids
<1>7. CallerInv'
  <2>1. \A u \in Threads : u # t => apc'[u] = apc[u]
    BY DEF CallTypeOK
  <2>2. apc[t] \in HasEntry /\ apc'[t] # "alloc"
    BY DEF CallTypeOK
  <2>3. aid' = aid /\ cpu' = cpu /\ event_list_size' = event_list_size
          /\ fault' = fault
    OBVIOUS
  <2>4. QED
    BY <2>1, <2>2, <2>3 DEF CallerInv
<1>8. CallsInv'
  BY DEF CallsInv, GlobalTypeOK
<1>9. CountInv'
  BY DEF MutexInv, CallsInv, CallerInv, ListInv, CountInv
<1>10. StartInv'
  BY DEF CallsInv, CountInv, CallerInv, StartInv, SamplerTypeOK, SamplerStates, GlobalTypeOK
<1>11. NoOverrun'
  BY DEF CallsInv, CountInv, CallerInv, StartInv, NoOverrun, SamplerTypeOK, SamplerStates, GlobalTypeOK
<1>12. QED
  BY <1>1, <1>2, <1>3, <1>4, <1>5, <1>6, <1>7, <1>8, <1>9, <1>10, <1>11

-----------------------------------------------------------------------------
(* The set-up steps happen before any entry exists.                        *)
LEMMA SetupStep ==
  ASSUME IInv, SetClock \/ GetEventInfo
  PROVE  IInv'
<1> USE DEF IInv, TypeOK, SetClock, GetEventInfo, SettingUp
<1>1. TypeOK'
  <2>1. EntryTypeOK' /\ CallTypeOK'
    BY DEF EntryTypeOK, CallTypeOK
  <2>2. SamplerTypeOK'
    BY DEF SamplerTypeOK
  <2>3. GlobalTypeOK'
    <3>1. CASE SetClock
      BY <3>1 DEF GlobalTypeOK
    <3>2. CASE GetEventInfo
      <4>1. /\ global_num_cntrs' \in {global_num_cntrs, global_num_cntrs + 1}
            /\ accepted' \in {accepted, accepted + 1}
            /\ requested' = requested + 1
        BY <3>2 DEF GetEventInfo
      <4>2. fault' \in {fault, "EventCodes"}
        BY <3>2 DEF GetEventInfo
      <4>3. wtime' = wtime /\ counter_enabled' = counter_enabled /\ mutex' = mutex
        BY <3>2 DEF GetEventInfo
      <4>4. global_num_cntrs' \in Nat /\ accepted' \in Nat /\ requested' \in Nat
        BY <4>1 DEF GlobalTypeOK
      <4>5. fault' \in Faults
        BY <4>2 DEF GlobalTypeOK, Faults
      <4>6. QED
        BY <4>3, <4>4, <4>5 DEF GlobalTypeOK
    <3>3. QED
      BY <3>1, <3>2
  <2>4. QED
    BY <2>1, <2>2, <2>3
<1>2. MutexInv' /\ NoOverrun'
  BY DEF MutexInv, NoOverrun
<1>3. ListInv' /\ CallerInv'
  BY DEF ListInv, CallerInv
<1>4. CallsInv'
  BY DEF CallsInv, GlobalTypeOK
<1>5. CountInv'
  BY DEF CountInv
<1>6. \A i \in Ids : cpu[i] = NoThread
  BY DEF CountInv, EntryTypeOK
<1>7. \A t \in Threads : apc[t] = "idle"
  BY DEF CallsInv, CallTypeOK
<1>8. StartInv'
  BY <1>6, <1>7 DEF StartInv
<1>9. QED
  BY <1>1, <1>2, <1>3, <1>4, <1>5, <1>8

(* Enabling and disabling an entry touches nothing the invariant is about. *)
LEMMA EnableStep ==
  ASSUME IInv, NEW i \in Ids, EnableCounter(i) \/ DisableCounter(i)
  PROVE  IInv'
<1> USE DEF IInv, TypeOK, EnableCounter, DisableCounter
<1>1. TypeOK'
  BY DEF EntryTypeOK, SamplerTypeOK, CallTypeOK, GlobalTypeOK
<1>2. MutexInv' /\ ListInv' /\ CallerInv'
  BY DEF MutexInv, ListInv, CallerInv
<1>3. CallsInv' /\ CountInv' /\ StartInv' /\ NoOverrun'
  BY DEF CallsInv, CountInv, StartInv, NoOverrun
<1>4. QED
  BY <1>1, <1>2, <1>3

(* A sampling thread moves on in its own entry and writes cells.           *)
LEMMA SamplerMoves ==
  ASSUME IInv, NEW i \in Ids, Sampler(i)
  PROVE  /\ UNCHANGED UnchangedBySampler
         /\ spc[i] # "none" /\ fault = "none"
         /\ fault' \in {"none", "timevalues", "division by zero"}
         /\ \E to \in SamplerStates \ {"none"} : spc' = [spc EXCEPT ![i] = to]
<1>1. CASE SampleTime(i) /\ timevalues[i] = NULL
  <2>1. spc' = spc /\ spc[i] = "loop"
    BY <1>1 DEF SampleTime
  <2>2. spc' = [spc EXCEPT ![i] = "loop"]
    BY <2>1 DEF IInv, TypeOK, SamplerTypeOK
  <2>3. QED
    BY <1>1, <2>2 DEF SampleTime, SamplerStates
<1>2. CASE ~(SampleTime(i) /\ timevalues[i] = NULL)
  <2>1. \/ SampleStart(i) \/ SampleLeave(i) \/ SampleTime(i)
        \/ SampleRead(i) \/ SampleStop(i)
    BY DEF Sampler
  <2>2. CASE SampleStart(i) \/ SampleLeave(i)
    BY <2>2 DEF SampleStart, SampleLeave, SamplerStates
  <2>3. CASE SampleTime(i)
    BY <1>2, <2>3 DEF SampleTime, SamplerStates
  <2>4. CASE SampleRead(i)
    BY <2>4 DEF SampleRead, SamplerStates
  <2>5. CASE SampleStop(i)
    BY <2>5 DEF SampleStop, SamplerStates
  <2>6. QED
    BY <2>1, <2>2, <2>3, <2>4, <2>5
<1>3. QED
  BY <1>1, <1>2

(* What the steps of a sampling thread write into its entry.               *)
LEMMA SamplerWrites ==
  ASSUME IInv, NEW i \in Ids, Sampler(i)
  PROVE  /\ SamplerTypeOK'
         /\ spc'[i] = "read" => timevalues'[i] # NULL
<1> USE DEF IInv, TypeOK
<1>1. /\ num_cntrs[i] \in Nat /\ members[i] \in Nat /\ tv_pos[i] \in Nat
      /\ sample_count[i] \in Nat /\ taken[i] \in Nat
      /\ timevalues[i] \in [Cells -> Cell] \cup {NULL}
  BY DEF SamplerTypeOK, EntryTypeOK
<1>2. spc' \in [Ids -> SamplerStates]
  BY SamplerMoves DEF SamplerTypeOK
<1>3. CASE SampleStart(i)
  <2>1. PICK b \in [Cells -> Cell] \cup {NULL} :
          timevalues' = [timevalues EXCEPT ![i] = b]
    BY <1>3, CellTypes DEF SampleStart
  <2>2. timevalues' \in [Ids -> [Cells -> Cell] \cup {NULL}]
    BY <2>1 DEF SamplerTypeOK
  <2>3. QED
    BY <1>2, <1>3, <2>2 DEF SampleStart, SamplerTypeOK
<1>4. CASE SampleLeave(i)
  BY <1>2, <1>4 DEF SampleLeave, SamplerTypeOK
<1>5. CASE SampleTime(i)
  <2>1. CASE timevalues[i] = NULL
    BY <1>2, <1>5, <2>1 DEF SampleTime, SamplerTypeOK
  <2>2. CASE timevalues[i] # NULL
    <3> DEFINE b == [timevalues[i] EXCEPT ![tv_pos[i]] = <<sample_count[i], 0>>]
    <3>1. <<sample_count[i], 0>> \in Cell /\ timevalues[i] \in [Cells -> Cell]
      BY <1>1, <2>2, CellTypes
    <3>2. b \in [Cells -> Cell]
      BY <3>1
    <3>3. timevalues' = [timevalues EXCEPT ![i] = b] /\ sample_count' = sample_count
          /\ tv_pos' = [tv_pos EXCEPT ![i] = tv_pos[i] + 1] /\ taken' = taken
      BY <1>5, <2>2 DEF SampleTime
    <3>4. tv_pos[i] \in Cells
      BY <1>1, <1>5 DEF SampleTime, HasRoom, Cells
    <3>5. b # NULL
      <4>1. NULL # b
        <5>1. DOMAIN b = Cells
          BY <3>2
        <5>2. DOMAIN NULL = {}
          BY DEF NULL
        <5>3. QED
          BY <3>4, <5>1, <5>2
      <4>2. QED
        BY <4>1
    <3> HIDE DEF b
    <3>6. timevalues' \in [Ids -> [Cells -> Cell] \cup {NULL}]
      BY <3>2, <3>3 DEF SamplerTypeOK
    <3>7. tv_pos' \in [Ids -> Nat]
      BY <1>1, <3>3 DEF SamplerTypeOK
    <3>8. timevalues'[i] # NULL
      BY <3>3, <3>5 DEF SamplerTypeOK
    <3>9. QED
      BY <1>2, <3>3, <3>6, <3>7, <3>8 DEF SamplerTypeOK
  <2>3. QED
    BY <2>1, <2>2
<1>6. CASE SampleRead(i)
  <2>1. timevalues[i] \in [Cells -> Cell]
    BY <1>1, <1>6 DEF SampleRead, StartInv
  <2> DEFINE b == [p \in Cells |-> IF p \in tv_pos[i] .. tv_pos[i] + members[i] - 1
                                    THEN <<sample_count[i], p - tv_pos[i] + 1>>
                                    ELSE timevalues[i][p]]
  <2>2. ASSUME NEW p \in Cells
        PROVE  <<sample_count[i], p - tv_pos[i] + 1>> \in Cell
    BY <1>1, CellTypes DEF Cells
  <2>3. b \in [Cells -> Cell]
    BY <2>1, <2>2
  <2>4. \/ UNCHANGED sampleVars
        \/ /\ timevalues' = [timevalues EXCEPT ![i] = b]
           /\ tv_pos' = [tv_pos EXCEPT ![i] = tv_pos[i] + num_cntrs[i]]
           /\ sample_count' = [sample_count EXCEPT ![i] = sample_count[i] + 1]
           /\ taken' = [taken EXCEPT ![i] = taken[i] + 1]
    BY <1>6 DEF SampleRead
  <2>5. spc'[i] # "read"
    BY <1>6 DEF SampleRead, SamplerTypeOK
  <2> HIDE DEF b
  <2>6. tv_pos[i] + num_cntrs[i] \in Nat /\ sample_count[i] + 1 \in Nat
        /\ taken[i] + 1 \in Nat
    BY <1>1
  <2>7. timevalues' \in [Ids -> [Cells -> Cell] \cup {NULL}]
    BY <2>3, <2>4 DEF SamplerTypeOK
  <2>8. /\ tv_pos' \in [Ids -> Nat] /\ sample_count' \in [Ids -> Nat]
        /\ taken' \in [Ids -> Nat]
    BY <2>4, <2>6 DEF SamplerTypeOK
  <2>9. QED
    BY <1>2, <2>5, <2>7, <2>8 DEF SamplerTypeOK
<1>7. CASE SampleStop(i)
  <2>1. sample_count[i] + 1 \in Nat
    BY <1>1
  <2>2. sample_count' \in [Ids -> Nat]
    BY <1>7, <2>1 DEF SampleStop, SamplerTypeOK
  <2>3. QED
    BY <1>2, <1>7, <2>2 DEF SampleStop, SamplerTypeOK
<1>8. QED
  BY <1>3, <1>4, <1>5, <1>6, <1>7 DEF Sampler

(* A sampling thread writes inside its buffer only.                        *)
LEMMA SamplerStep ==
  ASSUME IInv, NEW i \in Ids, Sampler(i)
  PROVE  IInv'
<1> USE DEF IInv, TypeOK
<1>1. /\ UNCHANGED UnchangedBySampler
      /\ spc[i] # "none" /\ fault = "none"
      /\ fault' \in {"none", "timevalues", "division by zero"}
      /\ \E to \in SamplerStates \ {"none"} : spc' = [spc EXCEPT ![i] = to]
  BY SamplerMoves
<1>2. EntryTypeOK'
  BY <1>1 DEF Sampler, SampleStart, SampleLeave, SampleTime, SampleRead,
              SampleStop, EntryTypeOK, Stopped
<1>3. SamplerTypeOK' /\ (spc'[i] = "read" => timevalues'[i] # NULL)
  BY SamplerWrites
<1>4. CallTypeOK' /\ GlobalTypeOK'
  BY <1>1 DEF CallTypeOK, GlobalTypeOK, Faults
<1>5. MutexInv' /\ CallsInv'
  BY <1>1 DEF MutexInv, CallsInv
<1>6. ListInv' /\ CallerInv' /\ CountInv'
  BY <1>1 DEF ListInv, CallerInv, CountInv
<1>7. \A j \in Ids : j # i => UNCHANGED <<timevalues[j], tv_pos[j], spc[j]>>
  BY DEF Sampler, SampleStart, SampleLeave, SampleTime, SampleRead,
         SampleStop, SamplerTypeOK
<1>8. StartInv'
  <2>1. \A j \in Ids : spc'[j] # "none" => spc[j] # "none"
    BY <1>1, <1>7
  <2>2. \A j \in Ids : spc'[j] = "read" => timevalues'[j] # NULL
    BY <1>3, <1>7 DEF StartInv
  <2>3. QED
    BY <1>1, <2>1, <2>2 DEF StartInv
<1>9. NoOverrun'
  <2>1. num_cntrs' = num_cntrs /\ members' = members /\ members[i] <= num_cntrs[i]
    BY <1>1 DEF StartInv
  <2>2. spc'[i] = "read" => tv_pos'[i] + num_cntrs[i] <= NumBufElems
    <3>1. CASE SampleTime(i)
      <4>1. tv_pos[i] \in Nat /\ num_cntrs[i] \in Nat
            /\ tv_pos[i] + num_cntrs[i] + 1 <= NumBufElems
        BY <3>1 DEF SampleTime, HasRoom, SamplerTypeOK, EntryTypeOK
      <4>2. spc'[i] = "read" => tv_pos'[i] = tv_pos[i] + 1
        BY <3>1 DEF SampleTime, SamplerTypeOK
      <4>3. QED
        BY <4>1, <4>2
    <3>2. CASE SampleStart(i) \/ SampleLeave(i) \/ SampleRead(i) \/ SampleStop(i)
      BY <3>2 DEF SampleStart, SampleLeave, SampleRead, SampleStop,
                  SamplerTypeOK
    <3>3. QED
      BY <3>1, <3>2 DEF Sampler
  <2>3. QED
    BY <1>7, <2>1, <2>2 DEF NoOverrun
<1>10. QED
  BY <1>2, <1>3, <1>4, <1>5, <1>6, <1>8, <1>9

(* Collecting never starts a sampler or touches an entry.                  *)
LEMMA CollectorStep ==
  ASSUME IInv, NEW c \in Collectors, Collector(c)
  PROVE  IInv'
<1> USE DEF IInv, TypeOK
<1>1. /\ UNCHANGED UnchangedByCollector /\ fault = "none"
      /\ spc' = spc \/ \E i \in Ids : spc[i] = "done"
                                     /\ spc' = [spc EXCEPT ![i] = "joined"]
  <2>1. CASE CollectJoin(c)
    BY <2>1 DEF CollectJoin, CallTypeOK, EntryTypeOK, ListInv, Ids
  <2>2. QED
    BY <2>1 DEF Collector, CollectCheck, CollectClear, CollectJoined,
                CollectDemux
<1>2. EntryTypeOK' /\ SamplerTypeOK'
  BY <1>1 DEF EntryTypeOK, SamplerTypeOK, SamplerStates
<1>3. CallTypeOK' /\ GlobalTypeOK'
  <2>1. CASE CollectCheck(c)
    <3>1. cid' \in [Collectors -> Nat]
      BY <2>1 DEF CollectCheck, CallTypeOK
    <3>2. cpc' \in [Collectors -> CollectorStates]
      BY <2>1 DEF CollectCheck, CallTypeOK, CollectorStates
    <3>3. QED
      BY <1>1, <2>1, <3>1, <3>2 DEF CollectCheck, CallTypeOK, GlobalTypeOK
  <2>2. CASE CollectClear(c) \/ CollectJoin(c)
    <3>1. CallTypeOK'
      BY <1>1, <2>2 DEF CollectClear, CollectJoin, CallTypeOK, CollectorStates
    <3>2. CASE CollectClear(c)
      BY <1>1, <3>1, <3>2 DEF CollectClear, GlobalTypeOK
    <3>3. CASE CollectJoin(c)
      BY <1>1, <3>1, <3>3 DEF CollectJoin, GlobalTypeOK, Faults
    <3>4. QED
      BY <2>2, <3>2, <3>3
  <2>3. CASE CollectJoined(c) \/ CollectDemux(c)
    BY <1>1, <2>3 DEF CollectJoined, CollectDemux, CallTypeOK, GlobalTypeOK,
                      CollectorStates
  <2>4. QED
    BY <2>1, <2>2, <2>3 DEF Collector
<1>4. MutexInv' /\ CallsInv'
  BY <1>1 DEF MutexInv, CallsInv
<1>5. ListInv' /\ CallerInv' /\ CountInv'
  BY <1>1 DEF ListInv, CallerInv, CountInv
<1>6. StartInv' /\ NoOverrun'
  BY <1>1 DEF StartInv, NoOverrun, SamplerTypeOK
<1>7. QED
  BY <1>2, <1>3, <1>4, <1>5, <1>6

(* The invariant is inductive.                                             *)
LEMMA NextIInv == IInv /\ [Next]_vars => IInv'
<1> SUFFICES ASSUME IInv, [Next]_vars PROVE IInv'
  OBVIOUS
<1>1. CASE Next
  <2>2. CASE SetClock \/ GetEventInfo
    BY <2>2, SetupStep
  <2>3. CASE \E t \in Threads : AddCounter(t)
    BY <2>3, AddLockStep, AddFindStep, AddAllocStep, AddCountStep,
       AddRegisterStep, AddSpawnStep DEF AddCounter
  <2>4. CASE \E i \in Ids : EnableCounter(i) \/ DisableCounter(i)
    BY <2>4, EnableStep
  <2>5. CASE \E i \in Ids : Sampler(i)
    BY <2>5, SamplerStep
  <2>6. CASE \E c \in Collectors : Collector(c)
    BY <2>6, CollectorStep
  <2>7. QED
    BY <1>1, <2>2, <2>3, <2>4, <2>5, <2>6 DEF Next
<1>2. CASE UNCHANGED vars
  <2>1. TypeOK' /\ MutexInv' /\ CallsInv' /\ StartInv' /\ NoOverrun'
    BY <1>2 DEF vars, IInv, TypeOK, EntryTypeOK, SamplerTypeOK, CallTypeOK,
                GlobalTypeOK, MutexInv, CallsInv, StartInv, NoOverrun
  <2>2. ListInv' /\ CallerInv' /\ CountInv'
    BY <1>2 DEF vars, IInv, ListInv, CallerInv, CountInv
  <2>3. QED
    BY <2>1, <2>2 DEF IInv
<1>3. QED
  BY <1>1, <1>2

-----------------------------------------------------------------------------
(* The invariant holds in every reachable state of the plugin.             *)
THEOREM Invariance == Spec => []IInv
  BY InitIInv, NextIInv, PTL DEF Spec

(* Every variable of the plugin keeps its type: apapi.c's event_list,      *)
(* buffers and counters, for any number of threads and metrics.            *)
THEOREM TypeCorrect == Spec => []TypeOK
<1>1. IInv => TypeOK
  BY DEF IInv
<1>2. QED
  BY <1>1, Invariance, PTL

(* No sampling thread ever writes past its buffer (thread_report): the     *)
(* number of counters cannot change under it once it runs.                 *)
THEOREM NeverOverrun == Spec => []NoOverrun
<1>1. IInv => NoOverrun
  BY DEF IInv
<1>2. QED
  BY <1>1, Invariance, PTL

(* However the calls of add_counter interleave, every thread has an entry  *)
(* of its own and no two calls work on the same one.                       *)
THEOREM ExclusiveEntries == Spec => []OneEntryPerThread
<1>1. IInv => OneEntryPerThread
  <2> SUFFICES ASSUME IInv PROVE OneEntryPerThread
    OBVIOUS
  <2>1. \A i, j \in Ids : i < event_list_size /\ j < event_list_size /\ i # j
                             => cpu[i] # cpu[j]
    BY DEF IInv, ListInv
  <2>2. ASSUME NEW t \in Threads, NEW u \in Threads, t # u,
               apc[t] \notin {"idle", "find"}, apc[u] \notin {"idle", "find"}
        PROVE  aid[t] # aid[u]
    <3>1. apc[t] \in HasEntry \cup {"alloc"} /\ apc[u] \in HasEntry \cup {"alloc"}
      BY <2>2 DEF IInv, TypeOK, CallTypeOK, AdderStates, HasEntry
    <3>2. ~(apc[t] = "alloc" /\ apc[u] = "alloc")
      BY <2>2 DEF IInv, MutexInv, InCall
    <3>3. QED
      BY <2>2, <3>1, <3>2 DEF IInv, CallerInv, TypeOK, EntryTypeOK, CallTypeOK
  <2>3. QED
    BY <2>1, <2>2 DEF OneEntryPerThread
<1>2. QED
  BY <1>1, Invariance, PTL
-----------------------------------------------------------------------------
(* What is sampled and collected.                                          *)
Stride(i) == num_cntrs[i] + 1

(* A call works on an entry that is not sampled yet.                       *)
SpawnInv ==
  \A t \in Threads : apc[t] \in HasEntry /\ fault = "none"
    => spc[aid[t]] = "none"

(* Where failures return, an entry is sampled with its event set whole.    *)
WholeInv ==
  FailuresReturn =>
    /\ \A t \in Threads : apc[t] = "spawn" /\ fault = "none"
         => members[aid[t]] = num_cntrs[aid[t]]
    /\ \A i \in Ids : spc[i] # "none" => members[i] = num_cntrs[i]

(* What row k shows of column c: the timestamp is column 0.                *)
RowCellOf(i, k, c) == IF c <= members[i] THEN <<k, c>> ELSE Zero

(* The rows of a buffer are the samples taken; what follows is clear.      *)
RowsOK(i) ==
  /\ tv_pos[i] <= NumBufElems
  /\ \A k \in 0 .. taken[i] - 1 : \A c \in 0 .. num_cntrs[i] :
       /\ k * Stride(i) + c \in Cells
       /\ timevalues[i] # NULL
       /\ timevalues[i][k * Stride(i) + c] = RowCellOf(i, k, c)
  /\ timevalues[i] # NULL =>
       \A p \in Cells : p >= tv_pos[i] => timevalues[i][p] = Zero

(* An entry without a running sampler has no samples; the position of a    *)
(* sampler is a multiple of the row, but for the timestamp just written;   *)
(* the count of a sampler that has ended may be one too high if HaveDebug. *)
BufferOK(i) ==
  /\ spc[i] \in {"none", "start"} => taken[i] = 0
  /\ spc[i] \in {"loop", "stop"} => /\ tv_pos[i] = taken[i] * Stride(i)
                                    /\ sample_count[i] = taken[i]
  /\ spc[i] = "read" => /\ tv_pos[i] = taken[i] * Stride(i) + 1
                        /\ sample_count[i] = taken[i]
                        /\ timevalues[i][tv_pos[i] - 1] = <<taken[i], 0>>
  /\ spc[i] \notin {"none", "start"} => RowsOK(i)
  /\ spc[i] \in {"done", "joined"} /\ fault = "none" =>
       \/ sample_count[i] = taken[i]
       \/ /\ HaveDebug /\ taken[i] > 0
          /\ sample_count[i] = taken[i] + 1
          /\ tv_pos[i] = taken[i] * Stride(i)

BufferInv == \A i \in Ids : BufferOK(i)

(* What has been answered is about entries whose sampler was joined.       *)
AnsweredInv ==
  \A r \in results : EntryOf(r.id) \in Ids /\ spc[EntryOf(r.id)] = "joined"

(* A counter id names a column of a listed entry.                          *)
IssuedInv ==
  /\ fault = "none" => global_num_cntrs <= NUM_EVENTS
  /\ \A id \in issued : /\ EntryOf(id) \in Ids /\ EntryOf(id) < event_list_size
                        /\ ColumnOf(id) < num_cntrs[EntryOf(id)]

(* Nothing is added once collecting has begun; a collector that is through *)
(* with joining, or comes later, finds every listed sampler joined.        *)
CollectInv ==
  /\ ~counter_enabled \/ (\E c \in Collectors : cpc[c] # "idle")
       => \A t \in Threads : apc[t] = "idle"
  /\ counter_enabled => \A i \in Ids : spc[i] # "joined"
  /\ \A c \in Collectors :
       /\ cpc[c] # "idle" => cid[c] \in issued
       /\ cpc[c] = "clear" => counter_enabled
       /\ cpc[c] \in {"join", "demux"} => ~counter_enabled
       /\ cpc[c] = "join" /\ fault = "none" =>
            /\ ci[c] <= event_list_size
            /\ \A i \in Ids : i < ci[c] => spc[i] = "joined"
       /\ ~counter_enabled /\ cpc[c] # "join" =>
            \A i \in Ids : i < event_list_size => spc[i] = "joined"

JoinInv == SpawnInv /\ WholeInv /\ IssuedInv /\ CollectInv
LogInv  == BufferInv /\ AnsweredInv /\ RowsAreSamples /\ NothingLost

(* The buffer of a sampler, unless it has no cells at all.                 *)
HasBuffer(i) == timevalues[i] # NULL \/ Cells = {}

(* Without failures what is counted is accepted, an entry that has all its *)
(* counters is sampled, and the loop of get_all_values joins every thread  *)
(* once: none is missing, none is joined already. A sampler has a buffer.  *)
CleanInv ==
  /\ requested <= MaxMetrics /\ global_num_cntrs <= requested
  /\ accepted = global_num_cntrs
  /\ \A i \in Ids : cpu[i] # NoThread /\ apc[cpu[i]] \notin {"register", "spawn"}
                      /\ num_cntrs[i] = global_num_cntrs => spc[i] # "none"
  /\ \A c \in Collectors :
       /\ cpc[c] \in {"clear", "join"} =>
            \A i \in Ids : i < event_list_size => spc[i] # "none"
       /\ cpc[c] = "join" => \A i \in Ids : ci[c] <= i => spc[i] # "joined"
  /\ \A i \in Ids : spc[i] = "loop" => HasBuffer(i)
  /\ NoFault

-----------------------------------------------------------------------------
(* Products of natural numbers: the rows of a buffer follow one another.   *)
LEMMA Product == \A a, b \in Nat : a * b \in Nat
OBVIOUS

LEMMA RowBefore ==
  ASSUME NEW k \in Nat, NEW n \in Nat, NEW s \in Nat, k < n
  PROVE  k * s \in Nat /\ k * s + s <= n * s
<1>1. n - k - 1 \in Nat /\ k * s \in Nat /\ (n - k - 1) * s \in Nat
  BY Product
<1>2. n * s = k * s + s + (n - k - 1) * s
  BY <1>1
<1>3. QED
  BY <1>1, <1>2

LEMMA NextRow == \A n, s \in Nat : (n + 1) * s = n * s + s
OBVIOUS

(* A counter id gives back its entry and its column.                       *)
LEMMA CounterIds ==
  ASSUME NEW i \in Nat, NEW c \in Nat, c < 256
  PROVE  EntryOf(CounterId(i, c)) = i /\ ColumnOf(CounterId(i, c)) = c
BY DEF EntryOf, ColumnOf, CounterId

LEMMA EntryTypes ==
  ASSUME IInv, NEW i \in Ids
  PROVE  /\ num_cntrs[i] \in Nat /\ sample_count[i] \in Nat /\ tv_pos[i] \in Nat
         /\ members[i] \in Nat /\ taken[i] \in Nat /\ Stride(i) \in Nat
         /\ timevalues[i] \in [Cells -> Cell] \cup {NULL}
         /\ spc[i] \in SamplerStates
BY DEF IInv, TypeOK, EntryTypeOK, SamplerTypeOK, Stride

(* The buffer of an entry is not touched, or has not been used yet.        *)
Untouched(i) ==
  /\ spc'[i] = spc[i] \/ (spc[i] = "done" /\ spc'[i] = "joined")
  /\ timevalues'[i] = timevalues[i] /\ sample_count'[i] = sample_count[i]
  /\ tv_pos'[i] = tv_pos[i] /\ num_cntrs'[i] = num_cntrs[i]
  /\ members'[i] = members[i] /\ taken'[i] = taken[i]
  /\ fault' = "none" => fault = "none"
Unused(i) ==
  /\ spc[i] = "none" /\ spc'[i] \in {"none", "start"}
  /\ taken'[i] = taken[i]

LEMMA AdderRests ==
  ASSUME IInv, SpawnInv, NEW t \in Threads, AddCounter(t), NEW i \in Ids
  PROVE  Untouched(i) \/ Unused(i)
<1> USE DEF IInv, TypeOK, EntryTypeOK, SamplerTypeOK, Untouched, Unused
<1>1. CASE AddLock(t) \/ AddFind(t)
  BY <1>1 DEF AddLock, AddFind
<1>2. CASE AddAlloc(t)
  <2>1. aid[t] = event_list_size
    BY <1>2 DEF AddAlloc, CallerInv
  <2>2. i = aid[t] => cpu[i] = NoThread
    BY <2>1 DEF ListInv
  <2>3. i = aid[t] => spc[i] = "none" /\ spc'[i] = "none" /\ taken' = taken
    BY <1>2, <2>2 DEF AddAlloc, StartInv
  <2>4. i # aid[t] => Untouched(i)
    BY <1>2 DEF AddAlloc
  <2>5. QED
    BY <2>3, <2>4
<1>3. CASE AddCount(t)
  <2>1. i = aid[t] => spc[i] = "none"
    BY <1>3 DEF AddCount, CallsInv, CountInv, CallerInv, StartInv, SamplerStates,
                GlobalTypeOK, CallTypeOK, InCall, HasEntry
  <2>2. i # aid[t] => num_cntrs'[i] = num_cntrs[i]
    BY <1>3 DEF AddCount
  <2>3. QED
    BY <1>3, <2>1, <2>2 DEF AddCount
<1>4. CASE AddRegister(t)
  <2>1. /\ spc[aid[t]] = "none" /\ fault = "none"
        /\ UNCHANGED <<spc, sampleVars, num_cntrs, fault>>
    BY <1>4 DEF AddRegister, SpawnInv, HasEntry
  <2>2. i # aid[t] => members'[i] = members[i]
    BY <1>4 DEF AddRegister
  <2>3. QED
    BY <2>1, <2>2
<1>5. CASE AddSpawn(t)
  <2>1. UNCHANGED <<num_cntrs, members, sampleVars, fault>>
    BY <1>5 DEF AddSpawn, entryVars
  <2>2. spc' = spc \/ spc' = [spc EXCEPT ![aid[t]] = "start"]
    BY <1>5 DEF AddSpawn
  <2>3. spc[aid[t]] = "none"
    BY <1>5 DEF AddSpawn, SpawnInv, HasEntry
  <2>4. spc'[i] = spc[i] \/ (spc[i] = "none" /\ spc'[i] = "start")
    BY <2>2, <2>3
  <2>5. QED
    BY <2>1, <2>4 DEF sampleVars
<1>6. QED
  BY <1>1, <1>2, <1>3, <1>4, <1>5 DEF AddCounter

LEMMA Rests ==
  ASSUME IInv, SpawnInv, [Next]_vars, NEW i \in Ids
  PROVE  Untouched(i) \/ Unused(i) \/ Sampler(i)
<1> USE DEF IInv, TypeOK, EntryTypeOK, SamplerTypeOK, Untouched, Unused
<1>1. CASE UNCHANGED vars
  BY <1>1 DEF vars
<1>2. CASE SetClock \/ GetEventInfo
  BY <1>2 DEF SetClock, GetEventInfo
<1>3. CASE \E t \in Threads : AddCounter(t)
  BY <1>3, AdderRests
<1>4. CASE \E j \in Ids : EnableCounter(j) \/ DisableCounter(j)
  BY <1>4 DEF EnableCounter, DisableCounter
<1>5. ASSUME NEW j \in Ids, Sampler(j), j # i
      PROVE  Untouched(i)
  <2>1. num_cntrs' = num_cntrs /\ members' = members /\ spc'[i] = spc[i]
        /\ fault = "none"
    BY <1>5, SamplerMoves
  <2>2. UNCHANGED <<timevalues[i], sample_count[i], tv_pos[i], taken[i]>>
    BY <1>5 DEF Sampler, SampleStart, SampleLeave, SampleTime, SampleRead, SampleStop
  <2>3. QED
    BY <2>1, <2>2
<1>6. ASSUME NEW c \in Collectors, Collector(c)
      PROVE  Untouched(i)
  <2>1. UNCHANGED <<timevalues, sample_count, tv_pos, taken, num_cntrs, members>>
        /\ fault = "none"
    BY <1>6 DEF Collector, CollectCheck, CollectClear, CollectJoin, CollectJoined,
                CollectDemux
  <2>2. spc'[i] = spc[i] \/ (spc[i] = "done" /\ spc'[i] = "joined")
    <3>1. CASE CollectJoin(c)
      <4>1. spc' = spc \/ (spc[ci[c]] = "done" /\ spc' = [spc EXCEPT ![ci[c]] = "joined"])
        BY <3>1 DEF CollectJoin
      <4>2. QED
        BY <4>1
    <3>2. CASE CollectCheck(c) \/ CollectClear(c) \/ CollectJoined(c) \/ CollectDemux(c)
      BY <3>2 DEF CollectCheck, CollectClear, CollectJoined, CollectDemux
    <3>3. QED
      BY <1>6, <3>1, <3>2 DEF Collector
  <2>3. QED
    BY <2>1, <2>2
<1>7. QED
  BY <1>1, <1>2, <1>3, <1>4, <1>5, <1>6 DEF Next

-----------------------------------------------------------------------------
(* One iteration of thread_report adds one row behind the others.          *)

(* A cell of a complete row lies before the row in the making.             *)
LEMMA RowCell ==
  ASSUME IInv, NEW i \in Ids, NEW n \in Nat,
         NEW k \in 0 .. n - 1, NEW c \in 0 .. num_cntrs[i]
  PROVE  /\ k * Stride(i) + c \in Nat /\ n * Stride(i) \in Nat
         /\ k * Stride(i) + c < n * Stride(i)
<1>1. k \in Nat /\ Stride(i) \in Nat /\ num_cntrs[i] \in Nat /\ k < n
  BY EntryTypes
<1>2. k * Stride(i) \in Nat /\ k * Stride(i) + Stride(i) <= n * Stride(i)
      /\ n * Stride(i) \in Nat
  BY <1>1, RowBefore, Product
<1>3. c \in Nat /\ c < Stride(i)
  BY <1>1 DEF Stride
<1>4. QED
  BY <1>1, <1>2, <1>3

LEMMA SampleStartBuffer ==
  ASSUME IInv, NEW i \in Ids, BufferOK(i), SampleStart(i)
  PROVE  BufferOK(i)'
<1>1. /\ spc'[i] = "loop" /\ tv_pos'[i] = 0 /\ sample_count'[i] = 0
      /\ num_cntrs' = num_cntrs /\ taken'[i] = 0
  BY DEF SampleStart, IInv, TypeOK, SamplerTypeOK, BufferOK
<1>2. Stride(i)' \in Nat /\ 0 * Stride(i)' = 0
  BY <1>1, EntryTypes DEF Stride
<1>3. timevalues'[i] = Cleared \/ timevalues'[i] = NULL
  BY DEF SampleStart, IInv, TypeOK, SamplerTypeOK
<1>4. timevalues'[i] # NULL => \A p \in Cells : timevalues'[i][p] = Zero
  BY <1>3 DEF Cleared
<1>5. RowsOK(i)'
  BY <1>1, <1>4 DEF RowsOK
<1>6. QED
  BY <1>1, <1>2, <1>5 DEF BufferOK

LEMMA SampleLeaveBuffer ==
  ASSUME IInv, NEW i \in Ids, BufferOK(i), SampleLeave(i)
  PROVE  BufferOK(i)'
<1>1. UNCHANGED <<timevalues, sample_count, tv_pos, num_cntrs, members, taken>>
      /\ spc[i] = "loop" /\ (spc'[i] = "stop" \/ spc'[i] = "done")
  BY DEF SampleLeave, IInv, TypeOK, SamplerTypeOK
<1>2. RowsOK(i)'
  BY <1>1 DEF BufferOK, RowsOK, RowCellOf, Stride
<1>3. QED
  BY <1>1, <1>2 DEF BufferOK, Stride

LEMMA SampleStopBuffer ==
  ASSUME IInv, NEW i \in Ids, BufferOK(i), SampleStop(i)
  PROVE  BufferOK(i)'
<1>1. /\ UNCHANGED <<timevalues, tv_pos, num_cntrs, members, taken>>
      /\ spc[i] = "stop" /\ spc'[i] = "done"
      /\ \/ sample_count' = sample_count
         \/ /\ HaveDebug /\ sample_count'[i] = sample_count[i] + 1
            /\ fault' = "none" => sample_count[i] # 0
  BY DEF SampleStop, IInv, TypeOK, SamplerTypeOK
<1>2. sample_count[i] = taken[i] /\ tv_pos[i] = taken[i] * Stride(i)
      /\ taken[i] \in Nat
  BY <1>1, EntryTypes DEF BufferOK
<1>3. RowsOK(i)'
  BY <1>1 DEF BufferOK, RowsOK, RowCellOf, Stride
<1>4. QED
  BY <1>1, <1>2, <1>3 DEF BufferOK, Stride

LEMMA SampleTimeBuffer ==
  ASSUME IInv, NEW i \in Ids, BufferOK(i), SampleTime(i)
  PROVE  BufferOK(i)'
<1>1. CASE timevalues[i] = NULL
  <2>1. UNCHANGED <<timevalues, sample_count, tv_pos, num_cntrs, members, taken, spc>>
        /\ spc[i] = "loop"
    BY <1>1 DEF SampleTime
  <2>2. RowsOK(i)'
    BY <2>1 DEF BufferOK, RowsOK, RowCellOf, Stride
  <2>3. QED
    BY <2>1, <2>2 DEF BufferOK, Stride
<1>2. CASE timevalues[i] # NULL
  <2> DEFINE n == taken[i]
  <2>1. /\ spc[i] = "loop" /\ spc'[i] = "read"
        /\ tv_pos' = [tv_pos EXCEPT ![i] = tv_pos[i] + 1]
        /\ timevalues' = [timevalues EXCEPT ![i][tv_pos[i]] = <<sample_count[i], 0>>]
        /\ UNCHANGED <<sample_count, num_cntrs, members, taken>>
        /\ tv_pos[i] + num_cntrs[i] + 1 <= NumBufElems
    BY <1>2 DEF SampleTime, HasRoom, IInv, TypeOK, SamplerTypeOK
  <2>2. tv_pos[i] = n * Stride(i) /\ sample_count[i] = n /\ RowsOK(i)
    BY <2>1 DEF BufferOK
  <2>3. /\ num_cntrs[i] \in Nat /\ n \in Nat /\ tv_pos[i] \in Nat
        /\ timevalues[i] \in [Cells -> Cell]
    BY <1>2, EntryTypes
  <2>4. /\ tv_pos'[i] = tv_pos[i] + 1 /\ Stride(i)' = Stride(i)
        /\ timevalues'[i] = [timevalues[i] EXCEPT ![tv_pos[i]] = <<n, 0>>]
    BY <2>1, <2>2 DEF IInv, TypeOK, SamplerTypeOK, Stride
  <2>5. tv_pos[i] \in Cells
    BY <2>1, <2>3 DEF Cells
  <2>6. timevalues'[i][tv_pos'[i] - 1] = <<n, 0>>
    BY <2>3, <2>4, <2>5
  <2>7. tv_pos'[i] <= NumBufElems
    BY <2>1, <2>3, <2>4
  <2>8. timevalues'[i] # NULL
    BY <2>1, SamplerWrites DEF Sampler
  <2>9. ASSUME NEW k \in 0 .. n - 1, NEW c \in 0 .. num_cntrs[i]
        PROVE  /\ k * Stride(i) + c \in Cells
               /\ timevalues'[i][k * Stride(i) + c] = RowCellOf(i, k, c)
    <3>1. /\ k * Stride(i) + c \in Cells
          /\ timevalues[i][k * Stride(i) + c] = RowCellOf(i, k, c)
      BY <2>2 DEF RowsOK
    <3>2. k * Stride(i) + c # tv_pos[i]
      BY <2>2, <2>3, RowCell
    <3>3. QED
      BY <2>3, <2>4, <3>1, <3>2
  <2>10. ASSUME NEW p \in Cells, p >= tv_pos'[i]
         PROVE  timevalues'[i][p] = Zero
    <3>1. p \in Nat /\ p > tv_pos[i]
      BY <2>3, <2>4, <2>10 DEF Cells
    <3>2. timevalues[i][p] = Zero
      BY <1>2, <2>2, <2>3, <3>1 DEF RowsOK
    <3>3. QED
      BY <2>3, <2>4, <3>1, <3>2
  <2> HIDE DEF n
  <2>11. RowsOK(i)'
    <3>1. \A k, c : RowCellOf(i, k, c)' = RowCellOf(i, k, c)
      BY <2>1 DEF RowCellOf
    <3>2. taken'[i] = n /\ num_cntrs' = num_cntrs
      BY <2>1 DEF n
    <3>3. QED
      BY <2>4, <2>7, <2>8, <2>9, <2>10, <3>1, <3>2 DEF RowsOK
  <2>12. QED
    BY <2>1, <2>2, <2>4, <2>6, <2>11 DEF BufferOK, n
<1>3. QED
  BY <1>1, <1>2

LEMMA SampleReadBuffer ==
  ASSUME IInv, NEW i \in Ids, BufferOK(i), SampleRead(i)
  PROVE  BufferOK(i)'
<1> DEFINE n == taken[i]
<1>1. CASE UNCHANGED sampleVars
  <2>1. /\ UNCHANGED <<timevalues, sample_count, tv_pos, num_cntrs, members, taken>>
        /\ spc[i] = "read" /\ (spc'[i] = "done" \/ spc'[i] = "loop")
    BY <1>1 DEF SampleRead, IInv, TypeOK, SamplerTypeOK
  <2>2. spc'[i] = "done"
    <3>1. taken[i] + 1 # taken[i]
      BY EntryTypes
    <3>2. taken' # [taken EXCEPT ![i] = taken[i] + 1]
      BY <2>1, <3>1 DEF IInv, TypeOK, SamplerTypeOK
    <3>3. QED
      BY <3>2 DEF SampleRead, IInv, TypeOK, SamplerTypeOK
  <2>3. RowsOK(i)'
    BY <2>1 DEF BufferOK, RowsOK, RowCellOf, Stride
  <2>4. QED
    BY <2>1, <2>2, <2>3 DEF BufferOK, Stride
<1>2. CASE ~UNCHANGED sampleVars
  <2>1. /\ spc[i] = "read" /\ spc' = [spc EXCEPT ![i] = "loop"]
        /\ timevalues' = [timevalues EXCEPT ![i] =
             [p \in Cells |-> IF p \in tv_pos[i] .. tv_pos[i] + members[i] - 1
                                THEN <<sample_count[i], p - tv_pos[i] + 1>>
                                ELSE timevalues[i][p]]]
        /\ tv_pos' = [tv_pos EXCEPT ![i] = tv_pos[i] + num_cntrs[i]]
        /\ sample_count' = [sample_count EXCEPT ![i] = sample_count[i] + 1]
        /\ taken' = [taken EXCEPT ![i] = n + 1]
        /\ UNCHANGED <<num_cntrs, members>>
    BY <1>2 DEF SampleRead
  <2>3. /\ tv_pos[i] = n * Stride(i) + 1 /\ sample_count[i] = n /\ RowsOK(i)
        /\ timevalues[i][tv_pos[i] - 1] = <<n, 0>>
    BY <2>1 DEF BufferOK
  <2>2. /\ spc'[i] = "loop" /\ Stride(i)' = Stride(i)
        /\ timevalues'[i] =
             [p \in Cells |-> IF p \in tv_pos[i] .. tv_pos[i] + members[i] - 1
                                THEN <<n, p - tv_pos[i] + 1>>
                                ELSE timevalues[i][p]]
        /\ tv_pos'[i] = tv_pos[i] + num_cntrs[i]
        /\ sample_count'[i] = n + 1 /\ taken'[i] = n + 1
    BY <2>1, <2>3 DEF IInv, TypeOK, SamplerTypeOK, Stride
  <2>4. /\ num_cntrs[i] \in Nat /\ n \in Nat /\ tv_pos[i] \in Nat
        /\ members[i] \in Nat /\ members[i] <= num_cntrs[i]
        /\ Stride(i) \in Nat /\ n * Stride(i) \in Nat
    BY EntryTypes, Product DEF IInv, StartInv
  <2>5. tv_pos[i] + num_cntrs[i] <= NumBufElems /\ timevalues[i] # NULL
    BY <2>1 DEF IInv, NoOverrun, StartInv
  <2>6. tv_pos'[i] = (n + 1) * Stride(i)
    <3>1. (n + 1) * Stride(i) = n * Stride(i) + Stride(i)
      BY <2>4, NextRow
    <3>2. QED
      BY <2>2, <2>3, <2>4, <3>1 DEF Stride
  <2>7. ASSUME NEW k \in 0 .. n, NEW c \in 0 .. num_cntrs[i]
        PROVE  /\ k * Stride(i) + c \in Cells
               /\ timevalues'[i][k * Stride(i) + c] = RowCellOf(i, k, c)
    <3>1. CASE k < n
      <4>1. k \in 0 .. n - 1
        BY <2>4, <3>1
      <4>2. /\ k * Stride(i) + c \in Cells
            /\ timevalues[i][k * Stride(i) + c] = RowCellOf(i, k, c)
        BY <2>3, <4>1 DEF RowsOK
      <4>3. k * Stride(i) + c < n * Stride(i) /\ k * Stride(i) + c \in Nat
        BY <2>4, <4>1, RowCell
      <4>4. k * Stride(i) + c \notin tv_pos[i] .. tv_pos[i] + members[i] - 1
        BY <2>3, <2>4, <4>3
      <4>5. QED
        BY <2>2, <4>2, <4>4
    <3>2. CASE k = n
      <4> DEFINE p == n * Stride(i) + c
      <4>1. p \in Cells
        BY <2>3, <2>4, <2>5 DEF Cells
      <4>2. CASE c = 0
        <5>1. p = tv_pos[i] - 1 /\ p \notin tv_pos[i] .. tv_pos[i] + members[i] - 1
          BY <2>3, <2>4, <4>2
        <5>2. timevalues'[i][p] = timevalues[i][p]
          BY <2>2, <4>1, <5>1
        <5>3. RowCellOf(i, n, c) = <<n, 0>>
          BY <2>4, <4>2 DEF RowCellOf
        <5>4. QED
          BY <2>3, <3>2, <4>1, <5>1, <5>2, <5>3
      <4>3. CASE c # 0 /\ c <= members[i]
        <5>1. p \in tv_pos[i] .. tv_pos[i] + members[i] - 1 /\ p - tv_pos[i] + 1 = c
          BY <2>3, <2>4, <4>3
        <5>2. timevalues'[i][p] = <<n, p - tv_pos[i] + 1>>
          BY <2>2, <4>1, <5>1
        <5>3. RowCellOf(i, n, c) = <<n, c>>
          BY <4>3 DEF RowCellOf
        <5>4. QED
          BY <3>2, <4>1, <5>1, <5>2, <5>3
      <4>4. CASE c # 0 /\ ~(c <= members[i])
        <5>1. p \notin tv_pos[i] .. tv_pos[i] + members[i] - 1 /\ p >= tv_pos[i]
          BY <2>3, <2>4, <4>4
        <5>2. timevalues[i][p] = Zero
          BY <2>3, <2>5, <4>1, <5>1 DEF RowsOK
        <5>3. timevalues'[i][p] = timevalues[i][p]
          BY <2>2, <4>1, <5>1
        <5>4. RowCellOf(i, n, c) = Zero
          BY <4>4 DEF RowCellOf
        <5>5. QED
          BY <3>2, <4>1, <5>2, <5>3, <5>4
      <4>5. QED
        BY <4>2, <4>3, <4>4
    <3>3. k < n \/ k = n
      BY <2>4
    <3>4. QED
      BY <3>1, <3>2, <3>3
  <2>8. ASSUME NEW p \in Cells, p >= tv_pos'[i]
        PROVE  timevalues'[i][p] = Zero
    <3>1. p \in Nat /\ p >= tv_pos[i]
          /\ p \notin tv_pos[i] .. tv_pos[i] + members[i] - 1
      <4>1. p \in Nat /\ p >= tv_pos[i] + num_cntrs[i]
        BY <2>2, <2>8 DEF Cells
      <4>2. QED
        BY <2>4, <4>1
    <3>2. timevalues[i][p] = Zero
      BY <2>3, <2>5, <3>1 DEF RowsOK
    <3>3. QED
      BY <2>2, <3>1, <3>2
  <2>9. timevalues'[i] # NULL
    <3>1. DOMAIN timevalues'[i] = Cells
      BY <2>2
    <3>2. tv_pos[i] - 1 \in Cells
      BY <2>3, <2>4, <2>5 DEF Cells
    <3>3. DOMAIN NULL = {}
      BY DEF NULL
    <3>4. QED
      BY <3>1, <3>2, <3>3
  <2>10. RowsOK(i)'
    <3>1. taken'[i] - 1 = n /\ num_cntrs' = num_cntrs
      BY <2>1, <2>2, <2>4
    <3>2. \A k, c : RowCellOf(i, k, c)' = RowCellOf(i, k, c)
      BY <2>1 DEF RowCellOf
    <3>3. tv_pos'[i] <= NumBufElems
      BY <2>2, <2>5
    <3> HIDE DEF n
    <3>4. QED
      BY <2>2, <2>7, <2>8, <2>9, <3>1, <3>2, <3>3 DEF RowsOK
  <2>11. QED
    BY <2>2, <2>6, <2>10 DEF BufferOK
<1>3. QED
  BY <1>1, <1>2

LEMMA BufferStep ==
  ASSUME IInv, SpawnInv, BufferInv, [Next]_vars
  PROVE  BufferInv'
<1> SUFFICES ASSUME NEW i \in Ids  PROVE BufferOK(i)'
  BY DEF BufferInv
<1>1. BufferOK(i)
  BY DEF BufferInv
<1>2. CASE Untouched(i)
  <2>1. RowsOK(i) => RowsOK(i)'
    BY <1>2 DEF Untouched, RowsOK, RowCellOf, Stride
  <2>2. QED
    BY <1>1, <1>2, <2>1 DEF Untouched, BufferOK, Stride
<1>3. CASE Unused(i)
  BY <1>1, <1>3 DEF Unused, BufferOK
<1>4. CASE Sampler(i)
  BY <1>1, <1>4, SampleStartBuffer, SampleLeaveBuffer, SampleStopBuffer,
     SampleTimeBuffer, SampleReadBuffer DEF Sampler
<1>5. QED
  BY <1>2, <1>3, <1>4, Rests

-----------------------------------------------------------------------------
(* add_counter never returns to an entry that is sampled.                  *)
LEMMA SpawnStep ==
  ASSUME IInv, SpawnInv, [Next]_vars
  PROVE  SpawnInv'
<1> SUFFICES ASSUME NEW t \in Threads, (apc[t] \in HasEntry /\ fault = "none")'
             PROVE  spc'[aid'[t]] = "none"
  BY DEF SpawnInv
<1> USE DEF IInv, TypeOK, CallTypeOK, EntryTypeOK, SamplerTypeOK, HasEntry
<1>1. CASE UNCHANGED vars
  BY <1>1 DEF vars, SpawnInv
<1>2. CASE SetClock \/ GetEventInfo
  BY <1>2 DEF SetClock, GetEventInfo, SpawnInv
<1>3. ASSUME NEW u \in Threads, AddCounter(u), u # t
      PROVE  spc'[aid'[t]] = "none"
  <2>1. UNCHANGED <<apc[t], aid[t]>> /\ fault = "none"
    BY <1>3 DEF AddCounter, AddLock, AddFind, AddAlloc, AddCount, AddRegister,
                AddSpawn, Return
  <2>2. spc[aid[t]] = "none" /\ aid[t] \in Ids
    BY <2>1 DEF SpawnInv, CallerInv
  <2>3. spc' = spc \/ spc' = [spc EXCEPT ![aid[u]] = "none"]
        \/ (apc[u] = "spawn" /\ spc' = [spc EXCEPT ![aid[u]] = "start"])
    BY <1>3 DEF AddCounter, AddLock, AddFind, AddAlloc, AddCount, AddRegister, AddSpawn
  <2>4. apc[u] = "spawn" => aid[u] # aid[t]
    BY <1>3, <2>1 DEF CallerInv
  <2>5. QED
    BY <2>1, <2>2, <2>3, <2>4
<1>4. CASE AddCounter(t)
  <2>1. CASE AddLock(t)
    BY <2>1 DEF AddLock
  <2>2. CASE AddFind(t)
    <3>1. PICK i \in Listed(t) : aid' = [aid EXCEPT ![t] = i]
      BY <2>2 DEF AddFind
    <3>2. i \in Ids /\ cpu[i] = t /\ cpu[i] # NoThread
      <4>1. i \in 0 .. event_list_size - 1 /\ cpu[i] = t /\ cpu[i] # NoThread
        BY <3>1 DEF Listed
      <4>2. event_list_size <= EventListCap
        BY <2>2 DEF AddFind, ListInv
      <4>3. QED
        BY <4>1, <4>2 DEF Ids
    <3>3. num_cntrs[i] = added[t] - 1 /\ added[t] <= global_num_cntrs
      BY <2>2, <3>2 DEF AddFind, CountInv, CallsInv, InCall, GlobalTypeOK
    <3>4. num_cntrs[i] # global_num_cntrs
      BY <3>3 DEF GlobalTypeOK
    <3>5. spc[i] = "none"
      BY <3>2, <3>4 DEF StartInv
    <3>6. QED
      BY <2>2, <3>1, <3>5 DEF AddFind
  <2>3. CASE AddAlloc(t)
    <3>1. aid[t] \in Ids
      BY <2>3 DEF AddAlloc, Faults
    <3>2. QED
      BY <2>3, <3>1 DEF AddAlloc
  <2>4. CASE AddCount(t) \/ AddRegister(t)
    BY <2>4 DEF AddCount, AddRegister, Return, SpawnInv
  <2>5. CASE AddSpawn(t)
    BY <2>5 DEF AddSpawn, Return
  <2>6. QED
    BY <1>4, <2>1, <2>2, <2>3, <2>4, <2>5 DEF AddCounter
<1>5. CASE \E i \in Ids : EnableCounter(i) \/ DisableCounter(i)
  BY <1>5 DEF EnableCounter, DisableCounter, SpawnInv
<1>6. ASSUME NEW i \in Ids, Sampler(i)
      PROVE  spc'[aid'[t]] = "none"
  <2>1. /\ UNCHANGED adderVars /\ fault = "none" /\ spc[i] # "none"
        /\ \A j \in Ids : j # i => spc'[j] = spc[j]
    BY <1>6 DEF Sampler, SampleStart, SampleLeave, SampleTime, SampleRead, SampleStop
  <2>2. spc[aid[t]] = "none" /\ aid[t] \in Ids
    BY <2>1 DEF SpawnInv, CallerInv
  <2>3. QED
    BY <2>1, <2>2
<1>7. ASSUME NEW c \in Collectors, Collector(c)
      PROVE  spc'[aid'[t]] = "none"
  <2>1. UNCHANGED adderVars /\ fault = "none"
    BY <1>7 DEF Collector, CollectCheck, CollectClear, CollectJoin, CollectJoined,
                CollectDemux
  <2>2. spc[aid[t]] = "none" /\ aid[t] \in Ids
    BY <2>1 DEF SpawnInv, CallerInv
  <2>3. spc' = spc \/ \E i \in Nat : spc[i] = "done" /\ spc' = [spc EXCEPT ![i] = "joined"]
    BY <1>7 DEF Collector, CollectCheck, CollectClear, CollectJoin, CollectJoined,
                CollectDemux
  <2>4. QED
    BY <2>1, <2>2, <2>3
<1>8. QED
  BY <1>1, <1>2, <1>3, <1>4, <1>5, <1>6, <1>7 DEF Next

(* Where failures return, only a whole event set gets a sampler.           *)
LEMMA WholeStep ==
  ASSUME IInv, SpawnInv, WholeInv, [Next]_vars
  PROVE  WholeInv'
<1> SUFFICES ASSUME FailuresReturn
             PROVE  /\ \A t \in Threads : (apc[t] = "spawn" /\ fault = "none")'
                         => (members[aid[t]] = num_cntrs[aid[t]])'
                    /\ \A i \in Ids : spc'[i] # "none" => members'[i] = num_cntrs'[i]
  BY DEF WholeInv
<1> USE DEF IInv, TypeOK, CallTypeOK, EntryTypeOK, SamplerTypeOK
<1>1. ASSUME NEW i \in Ids, spc'[i] # "none"
      PROVE  members'[i] = num_cntrs'[i]
  <2>1. CASE Untouched(i)
    BY <1>1, <2>1 DEF Untouched, WholeInv
  <2>2. CASE Sampler(i)
    BY <2>2, SamplerMoves DEF WholeInv
  <2>3. CASE spc[i] = "none"
    <3>1. PICK t \in Threads : AddSpawn(t) /\ aid[t] = i
      <4>1. CASE \E t \in Threads : AddCounter(t)
        BY <1>1, <2>3, <4>1 DEF AddCounter, AddLock, AddFind, AddAlloc, AddCount,
           AddRegister, AddSpawn
      <4>2. CASE \E j \in Ids : Sampler(j)
        <5>1. PICK j \in Ids : Sampler(j)
          BY <4>2
        <5>2. j # i /\ spc'[i] = spc[i]
          BY <1>1, <2>3, <5>1, SamplerMoves
        <5>3. QED
          BY <1>1, <2>3, <5>2
      <4>3. CASE \E c \in Collectors : Collector(c)
        BY <1>1, <2>3, <4>3 DEF Collector, CollectCheck, CollectClear, CollectJoin,
           CollectJoined, CollectDemux
      <4>4. CASE spc' = spc
        BY <1>1, <2>3, <4>4
      <4>5. QED
        BY <4>1, <4>2, <4>3, <4>4 DEF vars, Next, SetClock, GetEventInfo,
           EnableCounter, DisableCounter
    <3>2. apc[t] = "spawn" /\ fault = "none" /\ UNCHANGED <<members, num_cntrs>>
      BY <3>1 DEF AddSpawn
    <3>3. QED
      BY <3>1, <3>2 DEF WholeInv
  <2>4. QED
    BY <2>1, <2>2, <2>3, Rests DEF Unused
<1>2. ASSUME NEW t \in Threads, (apc[t] = "spawn" /\ fault = "none")'
      PROVE  (members[aid[t]] = num_cntrs[aid[t]])'
  <2>1. CASE AddCounter(t)
    <3>1. AddRegister(t)
      BY <1>2, <2>1 DEF AddCounter, AddLock, AddFind, AddAlloc, AddCount, AddSpawn,
         Return
    <3>2. aid[t] \in Ids
      BY <3>1 DEF AddRegister, CallerInv, HasEntry
    <3>3. members' = [members EXCEPT ![aid[t]] = num_cntrs[aid[t]]]
          /\ UNCHANGED <<aid, num_cntrs>>
      BY <1>2, <3>1 DEF AddRegister, Return
    <3>4. QED
      BY <3>2, <3>3
  <2>2. CASE ~AddCounter(t)
    <3>1. /\ apc[t] = "spawn" /\ aid'[t] = aid[t] /\ fault = "none"
      <4>1. CASE \E u \in Threads : u # t /\ AddCounter(u)
        BY <1>2, <4>1 DEF AddCounter, AddLock, AddFind, AddAlloc, AddCount,
           AddRegister, AddSpawn, Return
      <4>2. CASE \A u \in Threads : ~AddCounter(u)
        BY <1>2, <4>2 DEF vars, Next, SetClock, GetEventInfo, SettingUp,
           EnableCounter, DisableCounter, Sampler, SampleStart, SampleLeave, SampleTime,
           SampleRead, SampleStop, Collector, CollectCheck, CollectClear, CollectJoin,
           CollectJoined, CollectDemux
      <4>3. QED
        BY <2>2, <4>1, <4>2
    <3>2. aid[t] \in Ids /\ members[aid[t]] = num_cntrs[aid[t]]
      BY <3>1 DEF WholeInv, CallerInv, HasEntry
    <3>3. UNCHANGED <<members[aid[t]], num_cntrs[aid[t]]>>
      <4>1. CASE \E u \in Threads : u # t /\ AddCounter(u)
        <5>1. PICK u \in Threads : u # t /\ AddCounter(u)
          BY <4>1
        <5>2. apc[u] \in HasEntry => aid[u] # aid[t]
          BY <3>1, <5>1 DEF CallerInv, HasEntry
        <5>3. CASE AddAlloc(u)
          <6>1. aid[u] = event_list_size /\ aid[t] < event_list_size
            BY <3>1, <5>3 DEF AddAlloc, CallerInv, HasEntry
          <6>2. aid[u] # aid[t]
            BY <6>1
          <6>3. QED
            BY <3>2, <5>3, <6>2 DEF AddAlloc
        <5>4. CASE ~AddAlloc(u)
          BY <3>2, <5>1, <5>2, <5>4 DEF AddCounter, AddLock, AddFind, AddCount,
             AddRegister, AddSpawn, HasEntry
        <5>5. QED
          BY <5>3, <5>4
      <4>2. CASE \A u \in Threads : ~AddCounter(u)
        BY <4>2 DEF vars, Next, SetClock, GetEventInfo,
           EnableCounter, DisableCounter, Sampler, SampleStart, SampleLeave, SampleTime,
           SampleRead, SampleStop, Collector, CollectCheck, CollectClear, CollectJoin,
           CollectJoined, CollectDemux
      <4>3. QED
        BY <2>2, <4>1, <4>2
    <3>4. QED
      BY <3>1, <3>2, <3>3
  <2>3. QED
    BY <2>1, <2>2
<1>3. QED
  BY <1>1, <1>2

-----------------------------------------------------------------------------
(* Counter ids.                                                            *)
LEMMA ListGrows ==
  ASSUME IInv, [Next]_vars
  PROVE  /\ event_list_size <= event_list_size'
         /\ \A i \in Ids : i < event_list_size => num_cntrs[i] <= num_cntrs'[i]
<1> USE DEF IInv, TypeOK, EntryTypeOK
<1>1. CASE UNCHANGED <<event_list_size, num_cntrs>>
  BY <1>1
<1>2. ASSUME NEW t \in Threads, AddAlloc(t)
      PROVE  /\ event_list_size <= event_list_size'
             /\ \A i \in Ids : i < event_list_size => num_cntrs[i] <= num_cntrs'[i]
  BY <1>2 DEF AddAlloc, CallerInv
<1>3. ASSUME NEW t \in Threads, AddCount(t)
      PROVE  /\ event_list_size <= event_list_size'
             /\ \A i \in Ids : i < event_list_size => num_cntrs[i] <= num_cntrs'[i]
  BY <1>3 DEF AddCount
<1>4. Next => \/ UNCHANGED <<event_list_size, num_cntrs>>
              \/ \E t \in Threads : AddAlloc(t) \/ AddCount(t)
  BY DEF Next, SetClock, GetEventInfo, AddCounter, AddLock, AddFind, AddRegister,
         AddSpawn, EnableCounter, DisableCounter, Sampler, SampleStart, SampleLeave,
         SampleTime, SampleRead, SampleStop, Collector, CollectCheck, CollectClear,
         CollectJoin, CollectJoined, CollectDemux
<1>5. QED
  BY <1>1, <1>2, <1>3, <1>4 DEF vars

(* What add_counter hands out.                                             *)
Names(id) == /\ EntryOf(id) \in Ids /\ EntryOf(id) < event_list_size
             /\ ColumnOf(id) < num_cntrs[EntryOf(id)]

LEMMA CallCounts ==
  ASSUME IInv, NEW t \in Threads, apc[t] \in HasEntry, fault = "none",
         global_num_cntrs <= NUM_EVENTS
  PROVE  /\ aid[t] \in Ids /\ aid[t] \in Nat /\ aid[t] < event_list_size
         /\ num_cntrs[aid[t]] \in Nat
         /\ apc[t] = "count" => num_cntrs[aid[t]] < 256
         /\ apc[t] # "count" => num_cntrs[aid[t]] - 1 \in 0 .. 255
<1>1. /\ aid[t] \in Ids /\ aid[t] \in Nat /\ aid[t] < event_list_size
      /\ cpu[aid[t]] = t /\ num_cntrs[aid[t]] \in Nat
  BY DEF IInv, CallerInv, TypeOK, CallTypeOK, EntryTypeOK
<1>2. /\ added[t] \in Nat /\ accepted \in Nat /\ global_num_cntrs \in Nat
      /\ 1 <= added[t] /\ added[t] <= accepted /\ accepted <= global_num_cntrs
  BY DEF IInv, CallsInv, HasEntry, TypeOK, CallTypeOK, GlobalTypeOK
<1>3. added[t] <= 256
  BY <1>2, ColumnAssumption DEF ColumnAssumption
<1>4. apc[t] = "count" => num_cntrs[aid[t]] = added[t] - 1
  BY <1>1 DEF IInv, CountInv, InCall
<1>5. apc[t] # "count" => num_cntrs[aid[t]] = added[t]
  BY <1>1 DEF IInv, CountInv, InCall, HasEntry
<1>6. QED
  BY <1>1, <1>2, <1>3, <1>4, <1>5

LEMMA IssuedStep ==
  ASSUME IInv, IssuedInv, [Next]_vars
  PROVE  IssuedInv'
<1>1. (fault = "none" => global_num_cntrs <= NUM_EVENTS)'
  <2>1. CASE GetEventInfo
    <3>1. global_num_cntrs \in Nat
      BY DEF IInv, TypeOK, GlobalTypeOK
    <3>2. \/ UNCHANGED <<global_num_cntrs, fault>>
          \/ /\ global_num_cntrs' = global_num_cntrs + 1
             /\ fault' = IF global_num_cntrs < NUM_EVENTS THEN fault ELSE "EventCodes"
      BY <2>1 DEF GetEventInfo
    <3>3. QED
      BY <3>1, <3>2 DEF IssuedInv
  <2>2. CASE ~GetEventInfo
    <3>1. global_num_cntrs' = global_num_cntrs
      BY <2>2 DEF vars, Next, SetClock, AddCounter, AddLock, AddFind, AddAlloc,
         AddCount, AddRegister, AddSpawn, EnableCounter, DisableCounter, Sampler,
         SampleStart, SampleLeave, SampleTime, SampleRead, SampleStop, Collector,
         CollectCheck, CollectClear, CollectJoin, CollectJoined, CollectDemux
    <3>2. fault' = "none" => fault = "none"
      BY <2>2 DEF vars, Next, SetClock, SettingUp, AddCounter, AddLock, AddFind,
         AddAlloc, AddCount, AddRegister, AddSpawn, EnableCounter, DisableCounter,
         Sampler, SampleStart, SampleLeave, SampleTime, SampleRead, SampleStop,
         Collector, CollectCheck, CollectClear, CollectJoin, CollectJoined,
         CollectDemux
    <3>3. QED
      BY <3>1, <3>2 DEF IssuedInv
  <2>3. QED
    BY <2>1, <2>2
<1>2. \A id \in issued : Names(id)'
  <2> SUFFICES ASSUME NEW id \in issued  PROVE Names(id)'
    OBVIOUS
  <2>1. Names(id)
    BY DEF IssuedInv, Names
  <2> DEFINE i == EntryOf(id)
  <2>2. i \in Ids /\ i < event_list_size /\ ColumnOf(id) < num_cntrs[i]
    BY <2>1 DEF Names
  <2>3. id \in Nat
    BY DEF IInv, TypeOK, CallTypeOK
  <2>4. ColumnOf(id) \in Nat
    BY <2>3 DEF ColumnOf
  <2>5. /\ num_cntrs[i] \in Nat /\ num_cntrs'[i] \in Nat
        /\ event_list_size \in Nat /\ event_list_size' \in Nat
    BY <2>2, NextIInv DEF IInv, TypeOK, EntryTypeOK
  <2>6. i < event_list_size' /\ ColumnOf(id) < num_cntrs'[i]
    <3>1. num_cntrs[i] <= num_cntrs'[i] /\ event_list_size <= event_list_size'
      BY <2>2, ListGrows
    <3>2. i \in Nat
      BY <2>2 DEF Ids
    <3> HIDE DEF i
    <3>3. QED
      BY <2>2, <2>4, <2>5, <3>1, <3>2
  <2>7. QED
    BY <2>2, <2>6 DEF Names
<1>3. \A id \in issued' \ issued : Names(id)'
  <2>1. ASSUME NEW t \in Threads, AddCount(t), NEW id \in issued' \ issued
        PROVE  Names(id)'
    <3> DEFINE i == aid[t]
               n == num_cntrs[i]
    <3>1. apc[t] = "count" /\ fault = "none"
      BY <2>1 DEF AddCount
    <3>2. i \in Ids /\ i \in Nat /\ i < event_list_size /\ n \in Nat /\ n < 256
      BY <3>1, CallCounts DEF IssuedInv, HasEntry
    <3>3. id = CounterId(i, n)
      BY <2>1 DEF AddCount, Return
    <3>4. num_cntrs'[i] = n + 1 /\ event_list_size' = event_list_size
      BY <2>1, <3>2 DEF AddCount, IInv, TypeOK, EntryTypeOK
    <3>5. EntryOf(id) = i /\ ColumnOf(id) = n
      BY <3>2, <3>3, CounterIds
    <3>6. n < n + 1
      BY <3>2
    <3>7. QED
      BY <3>2, <3>4, <3>5, <3>6 DEF Names
  <2>2. ASSUME NEW t \in Threads, AddSpawn(t), NEW id \in issued' \ issued
        PROVE  Names(id)'
    <3> DEFINE i == aid[t]
               n == num_cntrs[i]
    <3>1. apc[t] = "spawn" /\ fault = "none"
      BY <2>2 DEF AddSpawn
    <3>2. i \in Ids /\ i \in Nat /\ i < event_list_size /\ n \in Nat
          /\ n - 1 \in 0 .. 255
      BY <3>1, CallCounts DEF IssuedInv, HasEntry
    <3>3. id = CounterId(i, n - 1)
      BY <2>2 DEF AddSpawn, Return, LastCounter
    <3>4. num_cntrs' = num_cntrs /\ event_list_size' = event_list_size
      BY <2>2 DEF AddSpawn
    <3>5. EntryOf(id) = i /\ ColumnOf(id) = n - 1
      <4>1. n - 1 \in Nat /\ n - 1 < 256
        BY <3>2
      <4>2. QED
        BY <3>2, <3>3, <4>1, CounterIds
    <3>6. n - 1 < n
      BY <3>2
    <3>7. QED
      BY <3>2, <3>4, <3>5, <3>6 DEF Names
  <2>3. (\A t \in Threads : ~AddCount(t) /\ ~AddSpawn(t)) => issued' = issued
    BY DEF vars, Next, SetClock, GetEventInfo, AddCounter, AddLock, AddFind, AddAlloc,
       AddRegister, Return, EnableCounter, DisableCounter, Sampler,
       SampleStart, SampleLeave, SampleTime, SampleRead, SampleStop, Collector,
       CollectCheck, CollectClear, CollectJoin, CollectJoined, CollectDemux
  <2>4. QED
    BY <2>1, <2>2, <2>3
<1>4. QED
  BY <1>1, <1>2, <1>3 DEF IssuedInv, Names

-----------------------------------------------------------------------------
(* Collecting.                                                             *)
Quiet == \A t \in Threads : apc[t] = "idle"
Collecting == ~counter_enabled \/ \E c \in Collectors : cpc[c] # "idle"

LEMMA NoCollectorFrame ==
  ASSUME IInv, SpawnInv, Collecting => Quiet, [Next]_vars,
         \A c \in Collectors : ~Collector(c)
  PROVE  /\ UNCHANGED <<counter_enabled, cpc, ci, cid>>
         /\ issued \subseteq issued'
         /\ Collecting => UNCHANGED <<apc, event_list_size>>
         /\ \A i \in Ids : spc'[i] = "joined" <=> spc[i] = "joined"
         /\ fault' = "none" => fault = "none"
<1>1. UNCHANGED <<counter_enabled, cpc, ci, cid>> /\ issued \subseteq issued'
  BY DEF vars, Next, SetClock, GetEventInfo, AddCounter, AddLock, AddFind, AddAlloc,
     AddCount, AddRegister, AddSpawn, Return, EnableCounter, DisableCounter, Sampler,
     SampleStart, SampleLeave, SampleTime, SampleRead, SampleStop
<1>2. Collecting => \A t \in Threads : ~AddCounter(t)
  BY DEF Collecting, Quiet, AddCounter, AddLock, Measuring, AddFind, AddAlloc,
     AddCount, AddRegister, AddSpawn
<1>3. Collecting => UNCHANGED <<apc, event_list_size>>
  BY <1>2 DEF vars, Next, SetClock, GetEventInfo, EnableCounter, DisableCounter,
     Sampler, SampleStart, SampleLeave, SampleTime, SampleRead, SampleStop
<1>4. ASSUME NEW i \in Ids  PROVE spc'[i] = "joined" <=> spc[i] = "joined"
  <2>1. CASE \E t \in Threads : AddCounter(t)
    <3>1. PICK t \in Threads : AddCounter(t)
      BY <2>1
    <3>2. spc' = spc \/ AddAlloc(t) \/ AddSpawn(t)
      BY <3>1 DEF AddCounter, AddLock, AddFind, AddCount, AddRegister
    <3>3. CASE AddAlloc(t)
      <4>1. i = aid[t] => spc[i] = "none"
        BY <3>3 DEF AddAlloc, IInv, CallerInv, ListInv, StartInv, TypeOK, EntryTypeOK
      <4>2. QED
        BY <3>3, <4>1 DEF AddAlloc, IInv, TypeOK, SamplerTypeOK
    <3>4. CASE AddSpawn(t)
      BY <3>4 DEF AddSpawn, SpawnInv, HasEntry, IInv, TypeOK, SamplerTypeOK
    <3>5. QED
      BY <3>2, <3>3, <3>4
  <2>2. CASE \E j \in Ids : Sampler(j)
    BY ZenonT(30), <2>2 DEF Sampler, SampleStart, SampleLeave, SampleTime, SampleRead, SampleStop,
       IInv, TypeOK, SamplerTypeOK
  <2>3. CASE spc' = spc
    BY <2>3
  <2>4. QED
    BY <2>1, <2>2, <2>3 DEF vars, Next, SetClock, GetEventInfo, EnableCounter,
       DisableCounter
<1>5. fault' = "none" => fault = "none"
  BY DEF vars, Next, SetClock, GetEventInfo, SettingUp, AddCounter, AddLock, AddFind,
     AddAlloc, AddCount, AddRegister, AddSpawn, EnableCounter, DisableCounter, Sampler,
     SampleStart, SampleLeave, SampleTime, SampleRead, SampleStop
<1>6. QED
  BY <1>1, <1>3, <1>4, <1>5

SoleCollector == \A c, d \in Collectors : c = d

LEMMA CollectStep ==
  ASSUME SoleCollector, IInv, SpawnInv, CollectInv, [Next]_vars
  PROVE  CollectInv'
<1>1. CASE \A c \in Collectors : ~Collector(c)
  <2>1. Collecting => Quiet
    BY DEF CollectInv, Collecting, Quiet
  <2>2. /\ UNCHANGED <<counter_enabled, cpc, ci, cid>>
        /\ issued \subseteq issued'
        /\ Collecting => UNCHANGED <<apc, event_list_size>>
        /\ \A i \in Ids : spc'[i] = "joined" <=> spc[i] = "joined"
        /\ fault' = "none" => fault = "none"
    BY <1>1, <2>1, NoCollectorFrame
  <2>3. (Collecting => Quiet)'
    BY <2>1, <2>2 DEF Collecting, Quiet
  <2>4. (counter_enabled => \A i \in Ids : spc[i] # "joined")'
    BY <2>2 DEF CollectInv
  <2>5. ASSUME NEW c \in Collectors
        PROVE  (/\ cpc[c] # "idle" => cid[c] \in issued
                /\ cpc[c] = "clear" => counter_enabled
                /\ cpc[c] \in {"join", "demux"} => ~counter_enabled
                /\ cpc[c] = "join" /\ fault = "none" =>
                     /\ ci[c] <= event_list_size
                     /\ \A i \in Ids : i < ci[c] => spc[i] = "joined"
                /\ ~counter_enabled /\ cpc[c] # "join" =>
                     \A i \in Ids : i < event_list_size => spc[i] = "joined")'
    <3>1. cpc[c] = "join" \/ ~counter_enabled => event_list_size' = event_list_size
      BY <2>2 DEF Collecting
    <3>2. QED
      BY <2>2, <3>1 DEF CollectInv
  <2>6. QED
    BY <2>3, <2>4, <2>5 DEF CollectInv, Collecting, Quiet
<1>2. ASSUME NEW c \in Collectors, Collector(c)
      PROVE  CollectInv'
  <2> SUFFICES /\ (Collecting => Quiet)'
               /\ (counter_enabled => \A i \in Ids : spc[i] # "joined")'
               /\ (cpc[c] # "idle" => cid[c] \in issued)'
               /\ (cpc[c] = "clear" => counter_enabled)'
               /\ (cpc[c] \in {"join", "demux"} => ~counter_enabled)'
               /\ (cpc[c] = "join" /\ fault = "none" =>
                     /\ ci[c] <= event_list_size
                     /\ \A i \in Ids : i < ci[c] => spc[i] = "joined")'
               /\ (~counter_enabled /\ cpc[c] # "join" =>
                     \A i \in Ids : i < event_list_size => spc[i] = "joined")'
    BY DEF SoleCollector, CollectInv, Collecting, Quiet
  <2> USE DEF IInv, TypeOK, CallTypeOK
  <2>1. UNCHANGED <<apc, issued, event_list_size>> /\ event_list_size \in Nat
    BY <1>2 DEF Collector, CollectCheck, CollectClear, CollectJoin, CollectJoined,
       CollectDemux, EntryTypeOK
  <2>2. CASE CollectCheck(c)
    <3>1. /\ Quiet /\ UNCHANGED <<counter_enabled, spc, ci>>
          /\ cid'[c] \in issued
          /\ cpc'[c] = IF counter_enabled THEN "clear" ELSE "demux"
          /\ cpc[c] = "idle"
      BY <2>2 DEF CollectCheck, AddersQuiet, Quiet
    <3>2. QED
      BY <2>1, <3>1 DEF CollectInv, Quiet
  <2>3. CASE CollectClear(c)
    <3>1. /\ UNCHANGED <<spc, cid>> /\ cpc[c] = "clear" /\ cpc'[c] = "join"
          /\ counter_enabled' = FALSE /\ ci'[c] = 0
      BY <2>3 DEF CollectClear
    <3>2. 0 <= event_list_size /\ \A i \in Ids : ~(i < 0)
      BY <2>1 DEF Ids
    <3>3. QED
      BY <2>1, <3>1, <3>2 DEF CollectInv, Quiet
  <2>4. CASE CollectJoin(c)
    <3>1. /\ cpc[c] = "join" /\ cpc' = cpc /\ cid' = cid
          /\ counter_enabled' = counter_enabled
          /\ ci'[c] = ci[c] + 1 /\ ci[c] < event_list_size /\ ci[c] \in Nat
          /\ fault = "none"
      BY <2>4 DEF CollectJoin
    <3>2. fault' = "none" => spc[ci[c]] = "done" /\ spc' = [spc EXCEPT ![ci[c]] = "joined"]
      BY <2>4 DEF CollectJoin
    <3>3. fault' = "none" => /\ ci'[c] <= event_list_size'
                             /\ \A i \in Ids : i < ci'[c] => spc'[i] = "joined"
      <4> SUFFICES ASSUME fault' = "none"
                   PROVE  /\ ci'[c] <= event_list_size'
                          /\ \A i \in Ids : i < ci'[c] => spc'[i] = "joined"
        OBVIOUS
      <4>1. ci'[c] <= event_list_size'
        BY <2>1, <3>1
      <4>2. ASSUME NEW i \in Ids, i < ci'[c]  PROVE spc'[i] = "joined"
        <5>1. i < ci[c] \/ i = ci[c]
          BY <3>1, <4>2 DEF Ids
        <5>2. QED
          BY <3>1, <3>2, <5>1 DEF CollectInv, SamplerTypeOK
      <4>3. QED
        BY <4>1, <4>2
    <3>4. ~counter_enabled
      BY <3>1 DEF CollectInv
    <3>5. QED
      BY <2>1, <3>1, <3>3, <3>4 DEF CollectInv, Collecting, Quiet
  <2>5. CASE CollectJoined(c)
    <3>1. /\ cpc[c] = "join" /\ cpc'[c] = "demux" /\ UNCHANGED <<spc, cid, ci>>
          /\ counter_enabled' = counter_enabled /\ ci[c] = event_list_size
          /\ fault = "none"
      BY <2>5 DEF CollectJoined
    <3>2. QED
      BY <2>1, <3>1 DEF CollectInv, Collecting, Quiet
  <2>6. CASE CollectDemux(c)
    <3>1. /\ cpc[c] = "demux" /\ cpc'[c] = "idle" /\ UNCHANGED <<spc, cid, ci>>
          /\ counter_enabled' = counter_enabled
      BY <2>6 DEF CollectDemux
    <3>2. QED
      BY <2>1, <3>1 DEF CollectInv, Collecting, Quiet
  <2>7. QED
    BY <1>2, <2>2, <2>3, <2>4, <2>5, <2>6 DEF Collector
<1>3. QED
  BY <1>1, <1>2

-----------------------------------------------------------------------------
(* The answers.                                                            *)
LEMMA DemuxedEntry ==
  ASSUME IInv, IssuedInv, CollectInv, NEW c \in Collectors, cpc[c] = "demux"
  PROVE  /\ cid[c] \in issued /\ EntryOf(cid[c]) \in Ids
         /\ ColumnOf(cid[c]) \in 0 .. 255
         /\ ColumnOf(cid[c]) < num_cntrs[EntryOf(cid[c])]
         /\ spc[EntryOf(cid[c])] = "joined"
<1>1. cid[c] \in issued /\ ~counter_enabled
  BY DEF CollectInv
<1>2. EntryOf(cid[c]) \in Ids /\ EntryOf(cid[c]) < event_list_size
      /\ ColumnOf(cid[c]) < num_cntrs[EntryOf(cid[c])]
  BY <1>1 DEF IssuedInv
<1>3. spc[EntryOf(cid[c])] = "joined"
  BY <1>1, <1>2 DEF CollectInv
<1>4. cid[c] \in Nat
  BY <1>1 DEF IInv, TypeOK, CallTypeOK
<1>5. ColumnOf(cid[c]) \in 0 .. 255
  BY <1>4 DEF ColumnOf
<1>6. QED
  BY <1>1, <1>2, <1>3, <1>5

(* A row of a buffer is that row of its samples.                           *)
LEMMA TrueRows ==
  ASSUME IInv, NEW i \in Ids, RowsOK(i), NEW col \in Nat, col < num_cntrs[i],
         NEW k \in 1 .. taken[i]
  PROVE  <<CellAt(i, (k - 1) * (num_cntrs[i] + 1)),
           CellAt(i, (k - 1) * (num_cntrs[i] + 1) + 1 + col)>>
           = SampledRow(k, col, members[i])
<1>1. /\ taken[i] \in Nat /\ num_cntrs[i] \in Nat /\ Stride(i) = num_cntrs[i] + 1
      /\ Stride(i) \in Nat /\ members[i] \in Nat
  BY EntryTypes DEF Stride
<1>2. k - 1 \in 0 .. taken[i] - 1 /\ k - 1 \in Nat
  BY <1>1
<1>3. \A c \in 0 .. num_cntrs[i] :
        /\ (k - 1) * Stride(i) + c \in Cells
        /\ timevalues[i][(k - 1) * Stride(i) + c] = RowCellOf(i, k - 1, c)
  BY <1>2 DEF RowsOK
<1>4. 0 \in 0 .. num_cntrs[i] /\ 1 + col \in 0 .. num_cntrs[i]
  BY <1>1
<1>5. (k - 1) * Stride(i) \in Nat
  BY <1>1, <1>2, Product
<1>6. CellAt(i, (k - 1) * Stride(i)) = <<k - 1, 0>>
  <2>1. (k - 1) * Stride(i) + 0 = (k - 1) * Stride(i)
    BY <1>5
  <2>2. RowCellOf(i, k - 1, 0) = <<k - 1, 0>>
    BY <1>1 DEF RowCellOf
  <2>3. QED
    BY <1>3, <1>4, <2>1, <2>2 DEF CellAt
<1>7. CellAt(i, (k - 1) * Stride(i) + 1 + col)
        = IF col < members[i] THEN <<k - 1, col + 1>> ELSE Zero
  <2>1. (k - 1) * Stride(i) + 1 + col = (k - 1) * Stride(i) + (1 + col)
    BY <1>5
  <2>2. RowCellOf(i, k - 1, 1 + col)
          = IF col < members[i] THEN <<k - 1, col + 1>> ELSE Zero
    <3>1. 1 + col <= members[i] <=> col < members[i]
      BY <1>1
    <3>2. 1 + col = col + 1
      OBVIOUS
    <3>3. QED
      BY <3>1, <3>2 DEF RowCellOf
  <2>3. QED
    BY <1>3, <1>4, <2>1, <2>2 DEF CellAt
<1>8. QED
  BY <1>1, <1>6, <1>7 DEF SampledRow

(* The row that HAVE_DEBUG adds shows nothing.                             *)
LEMMA SpareRow ==
  ASSUME IInv, NEW i \in Ids, RowsOK(i), NEW col \in Nat, taken[i] > 0,
         tv_pos[i] = taken[i] * Stride(i)
  PROVE  <<CellAt(i, taken[i] * (num_cntrs[i] + 1)),
           CellAt(i, taken[i] * (num_cntrs[i] + 1) + 1 + col)>> \in SpareRows
<1>1. /\ taken[i] \in Nat /\ num_cntrs[i] \in Nat /\ Stride(i) = num_cntrs[i] + 1
      /\ Stride(i) \in Nat /\ tv_pos[i] \in Nat
  BY EntryTypes DEF Stride
<1>2. timevalues[i] # NULL
  <2>1. 0 \in 0 .. taken[i] - 1 /\ 0 \in 0 .. num_cntrs[i]
    BY <1>1
  <2>2. QED
    BY <2>1 DEF RowsOK
<1>3. ASSUME NEW p \in Nat, p >= tv_pos[i]
      PROVE  CellAt(i, p) \in {Zero, Garbage}
  BY <1>2, <1>3 DEF CellAt, RowsOK
<1>4. tv_pos[i] + 1 + col \in Nat /\ tv_pos[i] + 1 + col >= tv_pos[i]
  BY <1>1
<1>5. CellAt(i, tv_pos[i]) \in {Zero, Garbage}
      /\ CellAt(i, tv_pos[i] + 1 + col) \in {Zero, Garbage}
  BY <1>1, <1>3, <1>4
<1>6. QED
  BY <1>1, <1>5 DEF SpareRows

(* A column of a buffer is that column of all its samples.                 *)
LEMMA TrueColumns ==
  ASSUME IInv, WholeInv, NEW i \in Ids, BufferOK(i), spc[i] = "joined",
         fault = "none", NEW col \in Nat, col < num_cntrs[i]
  PROVE  TrueAnswer(i, col, Column(i, col))
<1>1. /\ sample_count[i] \in Nat /\ taken[i] \in Nat /\ num_cntrs[i] \in Nat
      /\ RowsOK(i)
  BY EntryTypes DEF BufferOK
<1>2. FailuresReturn => col < members[i]
  BY DEF WholeInv
<1>3. \/ taken[i] = sample_count[i]
      \/ /\ HaveDebug /\ taken[i] > 0 /\ taken[i] = sample_count[i] - 1
         /\ tv_pos[i] = taken[i] * Stride(i)
  BY <1>1 DEF BufferOK
<1>4. DOMAIN Column(i, col) = 1 .. sample_count[i]
  BY DEF Column
<1>5. ASSUME NEW k \in 1 .. sample_count[i]
      PROVE  IF k <= taken[i] THEN Column(i, col)[k] = SampledRow(k, col, members[i])
                              ELSE Column(i, col)[k] \in SpareRows
  <2>1. Column(i, col)[k] = <<CellAt(i, (k - 1) * (num_cntrs[i] + 1)),
                              CellAt(i, (k - 1) * (num_cntrs[i] + 1) + 1 + col)>>
    BY DEF Column
  <2>2. CASE k <= taken[i]
    <3>1. k \in 1 .. taken[i]
      BY <1>1, <2>2
    <3>2. QED
      BY <1>1, <2>1, <2>2, <3>1, TrueRows
  <2>3. CASE ~(k <= taken[i])
    <3>1. k - 1 = taken[i] /\ taken[i] > 0 /\ tv_pos[i] = taken[i] * Stride(i)
      BY <1>1, <1>3, <2>3
    <3>2. QED
      BY <1>1, <2>1, <2>3, <3>1, SpareRow
  <2>4. QED
    BY <2>2, <2>3
<1>6. QED
  BY <1>2, <1>3, <1>4, <1>5 DEF TrueAnswer

LEMMA ResultStep ==
  ASSUME IInv, JoinInv, BufferInv, AnsweredInv, RowsAreSamples, [Next]_vars
  PROVE  AnsweredInv' /\ RowsAreSamples'
<1>1. ASSUME NEW r \in results
      PROVE  /\ EntryOf(r.id) \in Ids /\ spc'[EntryOf(r.id)] = "joined"
             /\ TrueAnswer(EntryOf(r.id), ColumnOf(r.id), r.rows)'
  <2> DEFINE i == EntryOf(r.id)
  <2>1. i \in Ids /\ spc[i] = "joined"
    BY DEF AnsweredInv
  <2>2. ~Sampler(i) /\ ~Unused(i)
    BY <2>1 DEF Unused, Sampler, SampleStart, SampleLeave, SampleTime, SampleRead,
       SampleStop
  <2>3. Untouched(i)
    BY <2>1, <2>2, Rests DEF JoinInv
  <2>4. TrueAnswer(i, ColumnOf(r.id), r.rows)
    BY DEF RowsAreSamples
  <2>5. UNCHANGED <<taken[i], sample_count[i], members[i]>> /\ spc'[i] = "joined"
    BY <2>1, <2>3 DEF Untouched
  <2> HIDE DEF i
  <2>6. TrueAnswer(i, ColumnOf(r.id), r.rows)'
    BY <2>4, <2>5 DEF TrueAnswer
  <2>7. QED
    BY <2>1, <2>5, <2>6 DEF i
<1>2. ASSUME NEW c \in Collectors, CollectDemux(c), NEW r \in results' \ results
      PROVE  /\ EntryOf(r.id) \in Ids /\ spc'[EntryOf(r.id)] = "joined"
             /\ TrueAnswer(EntryOf(r.id), ColumnOf(r.id), r.rows)'
  <2> DEFINE i == EntryOf(cid[c])
             col == ColumnOf(cid[c])
  <2>1. r = [id |-> cid[c], rows |-> Column(i, col)]
    BY <1>2 DEF CollectDemux
  <2>2. /\ i \in Ids /\ spc[i] = "joined" /\ col \in Nat /\ col < num_cntrs[i]
        /\ fault = "none"
    BY <1>2, DemuxedEntry DEF CollectDemux, JoinInv
  <2>3. TrueAnswer(i, col, Column(i, col))
    BY <2>2, TrueColumns DEF BufferInv, JoinInv
  <2>4. UNCHANGED <<taken, sample_count, members, spc>>
    BY <1>2 DEF CollectDemux
  <2>5. r.id = cid[c] /\ r.rows = Column(i, col)
    BY <2>1
  <2>6. TrueAnswer(i, col, r.rows)
    BY <2>3, <2>5
  <2> HIDE DEF i, col
  <2>7. EntryOf(r.id) = i /\ ColumnOf(r.id) = col
    BY <2>5 DEF i, col
  <2>8. TrueAnswer(EntryOf(r.id), ColumnOf(r.id), r.rows)'
    BY <2>4, <2>6, <2>7 DEF TrueAnswer
  <2>9. QED
    BY <2>2, <2>4, <2>7, <2>8
<1>3. (\A c \in Collectors : ~CollectDemux(c)) => results' = results
  BY DEF vars, Next, SetClock, GetEventInfo, AddCounter, AddLock, AddFind, AddAlloc,
     AddCount, AddRegister, AddSpawn, EnableCounter, DisableCounter, Sampler,
     SampleStart, SampleLeave, SampleTime, SampleRead, SampleStop, Collector,
     CollectCheck, CollectClear, CollectJoin, CollectJoined
<1>4. ASSUME NEW r \in results'
      PROVE  /\ EntryOf(r.id) \in Ids /\ spc'[EntryOf(r.id)] = "joined"
             /\ TrueAnswer(EntryOf(r.id), ColumnOf(r.id), r.rows)'
  BY <1>1, <1>2, <1>3
<1>5. AnsweredInv'
  BY <1>4 DEF AnsweredInv
<1>6. RowsAreSamples'
  BY <1>4 DEF RowsAreSamples
<1>7. QED
  BY <1>5, <1>6

(* A sampling thread that ends has no room, no clock or a failed read.     *)
LEMMA EndStep ==
  ASSUME IInv, SpawnInv, BufferInv, NothingLost, [Next]_vars
  PROVE  NothingLost'
<1> SUFFICES ASSUME NEW i \in Ids, (counter_enabled /\ wtime /\ spc[i] \in {"stop", "done"})'
             PROVE  (\/ tv_pos[i] + num_cntrs[i] + 1 > NumBufElems
                     \/ tv_pos[i] # taken[i] * (num_cntrs[i] + 1))'
  BY DEF NothingLost
<1>1. counter_enabled
  BY DEF vars, Next, SetClock, GetEventInfo, AddCounter, AddLock, AddFind, AddAlloc,
     AddCount, AddRegister, AddSpawn, EnableCounter, DisableCounter, Sampler,
     SampleStart, SampleLeave, SampleTime, SampleRead, SampleStop, Collector,
     CollectCheck, CollectClear, CollectJoin, CollectJoined, CollectDemux
<1>2. CASE SetClock
  <2>1. cpu[i] = NoThread
    BY <1>2 DEF SetClock, SettingUp, IInv, CountInv, TypeOK, EntryTypeOK
  <2>2. spc'[i] = "none"
    BY <1>2, <2>1 DEF SetClock, IInv, StartInv
  <2>3. QED
    BY <2>2
<1>3. CASE ~SetClock
  <2>1. wtime
    BY <1>3 DEF vars, Next, GetEventInfo, AddCounter, AddLock, AddFind, AddAlloc,
       AddCount, AddRegister, AddSpawn, EnableCounter, DisableCounter, Sampler,
       SampleStart, SampleLeave, SampleTime, SampleRead, SampleStop, Collector,
       CollectCheck, CollectClear, CollectJoin, CollectJoined, CollectDemux
  <2>2. CASE Untouched(i)
    BY <1>1, <2>1, <2>2 DEF Untouched, NothingLost
  <2>3. CASE Unused(i)
    BY <2>3 DEF Unused
  <2>4. CASE Sampler(i)
    <3> USE DEF IInv, TypeOK, SamplerTypeOK
    <3>1. CASE SampleStart(i) \/ SampleTime(i)
      BY <3>1 DEF SampleStart, SampleTime
    <3>2. CASE SampleLeave(i)
      <4>1. UNCHANGED <<tv_pos, num_cntrs, taken>> /\ ~HasRoom(i)
        BY <1>1, <2>1, <3>2 DEF SampleLeave, LoopEnds
      <4>2. ~(tv_pos[i] + num_cntrs[i] + 1 <= NumBufElems)
        BY <4>1 DEF HasRoom
      <4>3. tv_pos[i] + num_cntrs[i] + 1 > NumBufElems
        BY <4>2, EntryTypes
      <4>4. QED
        BY <4>1, <4>3
    <3>3. CASE SampleRead(i)
      <4>1. spc[i] = "read" /\ UNCHANGED <<tv_pos, num_cntrs, taken>>
        BY <3>3 DEF SampleRead
      <4>2. tv_pos[i] = taken[i] * Stride(i) + 1
        BY <4>1 DEF BufferInv, BufferOK
      <4>3. taken[i] * Stride(i) \in Nat
        BY EntryTypes, Product
      <4>4. tv_pos[i] # taken[i] * Stride(i)
        BY <4>2, <4>3
      <4>5. QED
        BY <4>1, <4>4 DEF Stride
    <3>4. CASE SampleStop(i)
      BY <1>1, <2>1, <3>4 DEF SampleStop, NothingLost
    <3>5. QED
      BY <2>4, <3>1, <3>2, <3>3, <3>4 DEF Sampler
  <2>5. QED
    BY <2>2, <2>3, <2>4, Rests
<1>4. QED
  BY <1>2, <1>3

-----------------------------------------------------------------------------
(* The invariants of collecting and of the samples are inductive.          *)
LEMMA InitLogInv == Init => JoinInv /\ LogInv
<1> SUFFICES ASSUME Init  PROVE JoinInv /\ LogInv
  OBVIOUS
<1>1. SpawnInv /\ WholeInv /\ IssuedInv /\ CollectInv
  BY DEF Init, SpawnInv, WholeInv, HasEntry, IssuedInv, CollectInv
<1>2. BufferInv /\ AnsweredInv /\ RowsAreSamples /\ NothingLost
  BY DEF Init, BufferInv, BufferOK, AnsweredInv, RowsAreSamples, NothingLost
<1>3. QED
  BY <1>1, <1>2 DEF JoinInv, LogInv

LEMMA JoinInvariance ==
  ASSUME SoleCollector
  PROVE  Spec => []JoinInv
<1>1. IInv /\ JoinInv /\ [Next]_vars => JoinInv'
  BY SpawnStep, WholeStep, IssuedStep, CollectStep DEF JoinInv
<1>2. QED
  BY <1>1, InitLogInv, Invariance, PTL DEF Spec

LEMMA LogInvariance ==
  ASSUME SoleCollector
  PROVE  Spec => []LogInv
<1>1. IInv /\ JoinInv /\ LogInv /\ [Next]_vars => LogInv'
  BY BufferStep, ResultStep, EndStep DEF JoinInv, LogInv
<1>2. QED
  BY <1>1, InitLogInv, Invariance, JoinInvariance, PTL DEF Spec

(* With one collector, get_all_values reads a buffer only after the thread *)
(* that fills it was joined: whoever adds counters has finished, the loop  *)
(* over event_list reaches every entry, and no entry is added behind it.   *)
THEOREM ReadAfterJoin ==
  ASSUME SoleCollector
  PROVE  Spec => []SamplerGone
<1>1. IInv /\ JoinInv => SamplerGone
  BY DemuxedEntry DEF JoinInv, SamplerGone
<1>2. QED
  BY <1>1, Invariance, JoinInvariance, PTL

(* With one collector, and in each of the three plugins, get_all_values    *)
(* returns the samples of its entry: the buffer of a joined thread holds   *)
(* them one behind the other, what PAPI_read did not fill is clear,        *)
(* counter ids name columns that exist, and where add_counter returns on   *)
(* failures it hands out none that PAPI did not add.                       *)
THEOREM AnswersAreSamples ==
  ASSUME SoleCollector
  PROVE  Spec => []RowsAreSamples
<1>1. LogInv => RowsAreSamples
  BY DEF LogInv
<1>2. QED
  BY <1>1, LogInvariance, PTL

(* A sampling thread that ends during the measurement has a full buffer,   *)
(* no clock or a failed PAPI_read behind it.                               *)
THEOREM EndsForAReason ==
  ASSUME SoleCollector
  PROVE  Spec => []NothingLost
<1>1. LogInv => NothingLost
  BY DEF LogInv
<1>2. QED
  BY <1>1, LogInvariance, PTL

-----------------------------------------------------------------------------
(* The plugin implements the log.                                          *)
LEMMA InitLog == Init => Log!LogInit
BY DEF Init, Log!LogInit

AnswerOf(r) == [entry |-> EntryOf(r.id), column |-> ColumnOf(r.id), rows |-> r.rows]
Answers == {AnswerOf(r) : r \in results}

LEMMA OneMoreAnswer ==
  \A S, x : {AnswerOf(r) : r \in S \cup {x}} = {AnswerOf(r) : r \in S} \cup {AnswerOf(x)}
OBVIOUS

(* A column of a joined entry is one of the answers due for it.            *)
LEMMA ColumnIsDue ==
  ASSUME IInv, NEW i \in Ids, NEW col \in Nat, TrueAnswer(i, col, Column(i, col))
  PROVE  \/ Column(i, col) = Log!TrueColumn(taken[i], col, members[i])
         \/ /\ HaveDebug
            /\ \E spare \in SpareRows :
                 Column(i, col) = Log!SpareColumn(taken[i], col, members[i], spare)
<1> DEFINE rows == Column(i, col)
<1>1. taken[i] \in Nat /\ sample_count[i] \in Nat /\ members[i] \in Nat
  BY EntryTypes
<1>2. rows = [k \in 1 .. sample_count[i] |-> rows[k]]
  BY DEF Column
<1>3. \A k \in 1 .. sample_count[i] :
        IF k <= taken[i] THEN rows[k] = Log!TrueRow(k, col, members[i])
                         ELSE rows[k] \in SpareRows
  BY DEF TrueAnswer, SampledRow, Log!TrueRow
<1> HIDE DEF rows
<1>4. CASE taken[i] = sample_count[i]
  <2>1. \A k \in 1 .. sample_count[i] : rows[k] = Log!TrueRow(k, col, members[i])
    BY <1>1, <1>3, <1>4
  <2>2. rows = [k \in 1 .. taken[i] |-> Log!TrueRow(k, col, members[i])]
    BY <1>2, <1>4, <2>1
  <2>3. QED
    BY <2>2 DEF rows, Log!TrueColumn
<1>5. CASE HaveDebug /\ taken[i] = sample_count[i] - 1
  <2> DEFINE spare == rows[taken[i] + 1]
  <2>1. sample_count[i] = taken[i] + 1
    BY <1>1, <1>5
  <2>2. spare \in SpareRows
    <3>1. taken[i] + 1 \in 1 .. sample_count[i] /\ ~(taken[i] + 1 <= taken[i])
      BY <1>1, <2>1
    <3>2. QED
      BY <1>3, <3>1
  <2>3. ASSUME NEW k \in 1 .. taken[i] + 1
        PROVE  rows[k] = IF k <= taken[i] THEN Log!TrueRow(k, col, members[i]) ELSE spare
    <3>1. k \in 1 .. sample_count[i]
      BY <2>1
    <3>2. CASE k <= taken[i]
      BY <1>3, <3>1, <3>2
    <3>3. CASE ~(k <= taken[i])
      <4>1. k = taken[i] + 1
        BY <1>1, <3>3
      <4>2. QED
        BY <3>3, <4>1
    <3>4. QED
      BY <3>2, <3>3
  <2> HIDE DEF spare
  <2>4. rows = [k \in 1 .. taken[i] + 1 |->
                  IF k <= taken[i] THEN Log!TrueRow(k, col, members[i]) ELSE spare]
    BY <1>2, <2>1, <2>3
  <2>5. QED
    BY <1>5, <2>2, <2>4 DEF rows, Log!SpareColumn
<1>6. QED
  BY <1>4, <1>5 DEF TrueAnswer

(* Answering is the step of the log that answers the same question.        *)
LEMMA DemuxIsAnswer ==
  ASSUME IInv, JoinInv, LogInv, NEW c \in Collectors, CollectDemux(c)
  PROVE  [Log!LogNext]_(Log!logVars)
<1>1. /\ EntryOf(cid[c]) \in Ids /\ ColumnOf(cid[c]) \in 0 .. 255
      /\ spc[EntryOf(cid[c])] = "joined" /\ fault = "none"
      /\ ColumnOf(cid[c]) < num_cntrs[EntryOf(cid[c])]
  BY DemuxedEntry DEF JoinInv, CollectDemux
<1>2. PICK i \in Ids, col \in 0 .. 255 : i = EntryOf(cid[c]) /\ col = ColumnOf(cid[c])
  BY <1>1
<1>3. UNCHANGED <<taken, members, spc>>
  BY DEF CollectDemux
<1>4. CASE results' = results
  BY <1>3, <1>4 DEF Log!logVars
<1>5. CASE results' = results \cup {[id |-> cid[c], rows |-> Column(i, col)]}
  <2> DEFINE x == [id |-> cid[c], rows |-> Column(i, col)]
  <2>1. col \in Nat /\ spc[i] = "joined" /\ col < num_cntrs[i]
    BY <1>1, <1>2
  <2>2. TrueAnswer(i, col, Column(i, col))
    BY <1>1, <2>1, TrueColumns DEF LogInv, BufferInv, JoinInv
  <2>3. \/ Column(i, col) = Log!TrueColumn(taken[i], col, members[i])
        \/ /\ HaveDebug
           /\ \E spare \in SpareRows :
                Column(i, col) = Log!SpareColumn(taken[i], col, members[i], spare)
    BY <2>1, <2>2, ColumnIsDue
  <2>4. AnswerOf(x) = [entry |-> i, column |-> col, rows |-> Column(i, col)]
    BY <1>2 DEF AnswerOf
  <2>5. Answers' = {AnswerOf(r) : r \in results'}
    BY DEF Answers, AnswerOf
  <2>6. Answers' = Answers \cup {AnswerOf(x)}
    <3> HIDE DEF x
    <3>1. {AnswerOf(r) : r \in results \cup {x}} = Answers \cup {AnswerOf(x)}
      BY OneMoreAnswer DEF Answers
    <3>2. QED
      BY <1>5, <2>5, <3>1 DEF x
  <2>7. Log!AnswerWith(i, col, Column(i, col))
    BY <2>4, <2>6 DEF Log!AnswerWith, Answers, AnswerOf
  <2>8. \/ Log!AnswerWith(i, col, Log!TrueColumn(taken[i], col, members[i]))
        \/ /\ HaveDebug
           /\ \E spare \in SpareRows : Log!AnswerWith(i, col,
                Log!SpareColumn(taken[i], col, members[i], spare))
    <3>1. CASE Column(i, col) = Log!TrueColumn(taken[i], col, members[i])
      BY <2>7, <3>1 DEF Log!AnswerWith
    <3>2. ASSUME HaveDebug, NEW spare \in SpareRows,
                 Column(i, col) = Log!SpareColumn(taken[i], col, members[i], spare)
          PROVE  Log!AnswerWith(i, col, Log!SpareColumn(taken[i], col, members[i], spare))
      BY <2>7, <3>2 DEF Log!AnswerWith
    <3>3. QED
      BY <2>3, <3>1, <3>2
  <2>9. ~FailuresReturn \/ col < members[i]
    BY <2>2 DEF TrueAnswer
  <2>10. Log!Answer(i, col)
    <3>1. i \in {j \in Ids : spc[j] = "joined"}
      BY <2>1
    <3>2. UNCHANGED <<taken, members, {j \in Ids : spc[j] = "joined"}>>
      BY <1>3
    <3>3. QED
      BY <2>8, <2>9, <3>1, <3>2 DEF Log!Answer, SpareRows
  <2>11. QED
    BY <2>10 DEF Log!LogNext
<1>6. QED
  BY <1>2, <1>4, <1>5 DEF CollectDemux

(* Registering its events settles the width of the log of an entry.        *)
LEMMA AdderSettles ==
  ASSUME IInv, JoinInv, LogInv, NEW t \in Threads, AddCounter(t),
         results' = results,
         {i \in Ids : spc'[i] = "joined"} = {i \in Ids : spc[i] = "joined"}
  PROVE  [Log!LogNext]_(Log!logVars)
<1>1. taken' = taken
  BY DEF AddCounter, AddLock, AddFind, AddAlloc, AddCount, AddRegister, AddSpawn
<1>2. CASE members' = members
  BY <1>1, <1>2 DEF Log!logVars
<1>3. CASE members' # members
  <2>1. /\ AddAlloc(t) \/ AddRegister(t)
        /\ members \in [Ids -> Nat]
    BY <1>3 DEF AddCounter, AddLock, AddFind, AddCount, AddSpawn, IInv, TypeOK,
       EntryTypeOK
  <2>2. aid[t] \in Ids /\ members' = [members EXCEPT ![aid[t]] = members'[aid[t]]]
    BY <1>3, <2>1 DEF AddAlloc, AddRegister
  <2>3. spc[aid[t]] = "none"
    <3>1. CASE AddRegister(t)
      BY <3>1 DEF AddRegister, JoinInv, SpawnInv, HasEntry
    <3>2. CASE AddAlloc(t)
      <4>1. aid[t] = event_list_size
        BY <3>2 DEF AddAlloc, IInv, CallerInv
      <4>2. cpu[aid[t]] = NoThread
        BY <2>2, <4>1 DEF IInv, ListInv, TypeOK, EntryTypeOK
      <4>3. QED
        BY <2>2, <4>2 DEF IInv, StartInv
    <3>3. QED
      BY <2>1, <3>1, <3>2
  <2>4. taken[aid[t]] = 0
    BY <2>2, <2>3 DEF LogInv, BufferInv, BufferOK
  <2>5. Log!Settle(aid[t])
    BY <1>1, <2>2, <2>3, <2>4 DEF Log!Settle
  <2>6. QED
    BY <2>2, <2>5 DEF Log!LogNext
<1>4. QED
  BY <1>2, <1>3

LEMMA LogStep ==
  ASSUME IInv, JoinInv, LogInv, [Next]_vars
  PROVE  [Log!LogNext]_(Log!logVars)
<1> USE DEF IInv, TypeOK, SamplerTypeOK
<1>1. CASE \E c \in Collectors : CollectDemux(c)
  BY <1>1, DemuxIsAnswer
<1>2. CASE \E c \in Collectors : Collector(c) /\ ~CollectDemux(c)
  <2>1. PICK c \in Collectors : Collector(c) /\ ~CollectDemux(c)
    BY <1>2
  <2>2. UNCHANGED <<taken, members, results>>
    BY <2>1 DEF Collector, CollectCheck, CollectClear, CollectJoin, CollectJoined
  <2>3. CASE spc' = spc
    BY <2>2, <2>3 DEF Log!logVars
  <2>4. CASE spc' # spc
    <3> DEFINE n == ci[c]
    <3>1. /\ n < event_list_size /\ spc' = [spc EXCEPT ![n] = "joined"]
          /\ fault = "none"
      BY <2>1, <2>4 DEF Collector, CollectCheck, CollectClear, CollectJoin,
         CollectJoined
    <3>2. n \in Nat /\ event_list_size \in Nat /\ event_list_size <= EventListCap
      BY <3>1 DEF CallTypeOK, EntryTypeOK, ListInv
    <3>3. n \in Ids
      BY <3>1, <3>2 DEF Ids
    <3>4. PICK i \in Ids : spc' = [spc EXCEPT ![i] = "joined"]
      BY <3>1, <3>3
    <3>5. {j \in Ids : spc'[j] = "joined"} = {j \in Ids : spc[j] = "joined"} \cup {i}
      BY <3>4
    <3>6. Log!Close(i)
      BY <2>2, <3>5 DEF Log!Close
    <3>7. QED
      BY <3>6 DEF Log!LogNext
  <2>5. QED
    BY <2>3, <2>4
<1>3. CASE \A c \in Collectors : ~Collector(c)
  <2>1. results' = results
    BY <1>3 DEF vars, Next, SetClock, GetEventInfo, AddCounter, AddLock, AddFind,
       AddAlloc, AddCount, AddRegister, AddSpawn, EnableCounter, DisableCounter,
       Sampler, SampleStart, SampleLeave, SampleTime, SampleRead, SampleStop
  <2>2. {i \in Ids : spc'[i] = "joined"} = {i \in Ids : spc[i] = "joined"}
    <3>1. \A i \in Ids : spc'[i] = "joined" <=> spc[i] = "joined"
      BY <1>3, NoCollectorFrame DEF JoinInv, CollectInv, Collecting, Quiet
    <3>2. QED
      BY <3>1
  <2>3. CASE UNCHANGED <<taken, members>>
    BY <2>1, <2>2, <2>3 DEF Log!logVars
  <2>4. CASE \E t \in Threads : AddCounter(t)
    BY <2>1, <2>2, <2>4, AdderSettles
  <2>5. CASE \E i \in Ids : Sampler(i) /\ taken' # taken
    <3>1. PICK i \in Ids : Sampler(i) /\ taken' # taken
      BY <2>5
    <3>2. /\ taken' = [taken EXCEPT ![i] = taken[i] + 1]
          /\ spc[i] = "read" /\ members' = members
      BY <3>1 DEF Sampler, SampleStart, SampleLeave, SampleTime, SampleRead, SampleStop
    <3>3. Log!Record(i)
      BY <2>1, <2>2, <3>2 DEF Log!Record
    <3>4. QED
      BY <3>3 DEF Log!LogNext
  <2>6. CASE \E i \in Ids : Sampler(i) /\ taken' = taken
    <3>1. members' = members
      BY <2>6 DEF Sampler, SampleStart, SampleLeave, SampleTime, SampleRead, SampleStop
    <3>2. QED
      BY <2>3, <2>6, <3>1
  <2>7. QED
    BY <1>3, <2>3, <2>4, <2>5, <2>6 DEF vars, Next, SetClock, GetEventInfo,
       EnableCounter, DisableCounter
<1>4. QED
  BY <1>1, <1>2, <1>3

(* Each of the three plugins is a metric log: the width of a log is        *)
(* settled before its first sample, samples are recorded until the log of  *)
(* their entry is closed, and every answer is a column of the whole closed *)
(* log. Only a plugin that ignores failures answers blanks for a counter   *)
(* the log lacks, and only HAVE_DEBUG adds a row that was not sampled.     *)
THEOREM ImplementsLog ==
  ASSUME SoleCollector
  PROVE  Spec => LogSpec
<1>1. IInv /\ JoinInv /\ LogInv /\ [Next]_vars => [Log!LogNext]_(Log!logVars)
  BY LogStep
<1>2. QED
  BY <1>1, InitLog, Invariance, JoinInvariance, LogInvariance, PTL
     DEF Spec, LogSpec, Log!LogSpec

-----------------------------------------------------------------------------
(* The undefined behaviour the code leaves open.                           *)

(* Conditions under which none is reached: no call fails but PAPI_read,    *)
(* one collector, no more metrics than EventCodes has entries, no more     *)
(* threads than event_list has, and no debug output.                       *)
Clean ==
  /\ Failing \subseteq {"PAPI_read"} /\ ~HaveDebug /\ SoleCollector
  /\ MaxMetrics <= NUM_EVENTS
  /\ IsFiniteSet(Threads) /\ Cardinality(Threads) <= EventListCap

(* While a thread without an entry remains, event_list has room.           *)
LEMMA RoomForEntry ==
  ASSUME IInv, IsFiniteSet(Threads), Cardinality(Threads) <= EventListCap,
         fault = "none", NEW t \in Threads, \A i \in Ids : cpu[i] # t
  PROVE  event_list_size < EventListCap
<1> DEFINE S == 0 .. event_list_size - 1
           Others == Threads \ {t}
           f == [i \in S |-> cpu[i]]
<1>1. /\ event_list_size \in Nat /\ event_list_size <= EventListCap
      /\ EventListCap \in Nat
  BY DEF IInv, TypeOK, EntryTypeOK, ListInv
<1>2. \A i \in S : i \in Ids /\ cpu[i] # NoThread
  BY <1>1 DEF IInv, ListInv, Ids
<1>3. f \in [S -> Others]
  BY <1>2 DEF IInv, TypeOK, EntryTypeOK
<1>4. \A i, j \in S : f[i] = f[j] => i = j
  BY <1>2 DEF IInv, ListInv
<1>5. /\ IsFiniteSet(Others) /\ Cardinality(Others) = Cardinality(Threads) - 1
      /\ Cardinality(Threads) \in Nat
  BY FS_RemoveElement, FS_CardinalityType
<1>6. IsFiniteSet(S) /\ Cardinality(S) = event_list_size
  <2>1. 0 \in Int /\ event_list_size - 1 \in Int
    BY <1>1
  <2>2. /\ IsFiniteSet(S)
        /\ Cardinality(S) = IF 0 > event_list_size - 1 THEN 0
                            ELSE (event_list_size - 1) - 0 + 1
    BY <2>1, FS_Interval
  <2>3. (IF 0 > event_list_size - 1 THEN 0 ELSE (event_list_size - 1) - 0 + 1)
          = event_list_size
    BY <1>1
  <2>4. QED
    BY <2>2, <2>3
<1>7. ~(Cardinality(Others) < Cardinality(S))
  <2> HIDE DEF S, Others, f
  <2>1. SUFFICES ASSUME Cardinality(Others) < Cardinality(S)  PROVE FALSE
    OBVIOUS
  <2>2. \E i, j \in S : i # j /\ f[i] = f[j]
    BY <1>3, <1>5, <1>6, <2>1, FS_PigeonHole
  <2>3. QED
    BY <1>4, <2>2
<1> HIDE DEF S, Others, f
<1>8. QED
  BY <1>1, <1>5, <1>6, <1>7

(* What is counted is accepted.                                            *)
LEMMA CleanCounts ==
  ASSUME Clean, IInv, CleanInv, [Next]_vars
  PROVE  (/\ requested <= MaxMetrics /\ global_num_cntrs <= requested
          /\ accepted = global_num_cntrs)'
<1> USE DEF IInv, TypeOK, GlobalTypeOK, Clean, CleanInv
<1>1. CASE GetEventInfo
  <2>1. /\ requested' = requested + 1 /\ requested < MaxMetrics
        /\ \/ UNCHANGED <<global_num_cntrs, accepted>>
           \/ global_num_cntrs' = global_num_cntrs + 1 /\ accepted' = accepted + 1
    BY <1>1 DEF GetEventInfo
  <2>2. QED
    BY <2>1
<1>2. CASE ~GetEventInfo
  <2>1. UNCHANGED <<requested, global_num_cntrs, accepted>>
    BY <1>2 DEF vars, Next, SetClock, AddCounter, AddLock, AddFind, AddAlloc,
       AddCount, AddRegister, AddSpawn, EnableCounter, DisableCounter, Sampler,
       SampleStart, SampleLeave, SampleTime, SampleRead, SampleStop, Collector,
       CollectCheck, CollectClear, CollectJoin, CollectJoined, CollectDemux
  <2>2. QED
    BY <2>1
<1>3. QED
  BY <1>1, <1>2

(* A sampling thread that is there stays there.                            *)
LEMMA StaysSampled ==
  ASSUME IInv, SpawnInv, [Next]_vars, NEW i \in Ids, spc[i] # "none"
  PROVE  spc'[i] # "none"
<1> USE DEF IInv, TypeOK, SamplerTypeOK
<1>1. CASE Untouched(i)
  BY <1>1 DEF Untouched
<1>2. CASE Sampler(i)
  BY <1>2 DEF Sampler, SampleStart, SampleLeave, SampleTime, SampleRead, SampleStop
<1>3. CASE Unused(i)
  BY <1>3 DEF Unused
<1>4. QED
  BY <1>1, <1>2, <1>3, Rests

(* An entry that has all its counters is sampled.                          *)
LEMMA CleanSampled ==
  ASSUME Clean, IInv, SpawnInv, CleanInv, [Next]_vars
  PROVE  (\A i \in Ids : cpu[i] # NoThread /\ apc[cpu[i]] \notin {"register", "spawn"}
                           /\ num_cntrs[i] = global_num_cntrs => spc[i] # "none")'
<1> SUFFICES ASSUME NEW i \in Ids, cpu'[i] # NoThread,
                    apc'[cpu'[i]] \notin {"register", "spawn"},
                    num_cntrs'[i] = global_num_cntrs',
                    spc[i] = "none"
             PROVE  spc'[i] # "none"
  BY StaysSampled
<1> USE DEF IInv, TypeOK, EntryTypeOK, SamplerTypeOK, CallTypeOK, GlobalTypeOK
<1>1. ~(/\ UNCHANGED <<cpu[i], apc[cpu[i]], num_cntrs[i], global_num_cntrs>>)
  BY DEF CleanInv
<1>2. CASE GetEventInfo
  <2>1. cpu' = cpu /\ \A t \in Threads : added[t] = 0
    BY <1>2 DEF GetEventInfo, SettingUp
  <2>2. FALSE
    BY <2>1 DEF CountInv
  <2>3. QED
    BY <2>2
<1>3. ASSUME NEW t \in Threads, AddCounter(t)
      PROVE  spc'[i] # "none"
  <2>1. /\ global_num_cntrs' = global_num_cntrs
        /\ \A u \in Threads : u # t => apc'[u] = apc[u]
    BY <1>3 DEF AddCounter, AddLock, AddFind, AddAlloc, AddCount, AddRegister,
       AddSpawn, Return
  <2>2. CASE AddLock(t) \/ AddFind(t)
    <3>1. cpu' = cpu /\ num_cntrs' = num_cntrs
          /\ apc[t] \notin {"register", "spawn"}
      BY <2>2 DEF AddLock, AddFind
    <3>2. QED
      BY <1>1, <2>1, <3>1 DEF CleanInv
  <2>3. CASE AddAlloc(t)
    <3>1. apc[t] = "alloc" /\ \A j \in Ids : cpu[j] # t
      BY <2>3 DEF AddAlloc, CallerInv
    <3>2. CASE i = aid[t]
      <4>1. num_cntrs'[i] = 0
        BY <2>3, <3>2 DEF AddAlloc
      <4>2. added[t] >= 1 /\ added[t] <= accepted
        BY <3>1 DEF CallsInv
      <4>3. global_num_cntrs # 0
        BY <4>2 DEF CallsInv
      <4>4. QED
        BY <2>1, <4>1, <4>3
    <3>3. CASE i # aid[t]
      <4>1. cpu'[i] = cpu[i] /\ num_cntrs'[i] = num_cntrs[i]
        BY <2>3, <3>3 DEF AddAlloc
      <4>2. cpu[i] \in Threads /\ cpu[i] # t
        BY <3>1, <4>1
      <4>3. QED
        BY <1>1, <2>1, <4>1, <4>2
    <3>4. QED
      BY <3>2, <3>3
  <2>4. CASE AddCount(t)
    <3>1. cpu' = cpu /\ apc[t] = "count" /\ fault = "none"
      BY <2>4 DEF AddCount
    <3>2. aid[t] \in Ids /\ cpu[aid[t]] = t
      BY <3>1 DEF CallerInv, HasEntry
    <3>3. CASE i = aid[t]
      <4>1. num_cntrs'[i] = num_cntrs[i] + 1
        BY <2>4, <3>3 DEF AddCount
      <4>2. AllAdded(i)
        BY <2>1, <4>1 DEF AllAdded
      <4>3. apc'[t] = "register"
        BY <2>4, <3>3, <4>2 DEF AddCount
      <4>4. QED
        BY <3>1, <3>2, <3>3, <4>3
    <3>4. CASE i # aid[t]
      <4>1. num_cntrs'[i] = num_cntrs[i] /\ cpu[i] # t
        BY <2>4, <3>1, <3>2, <3>4 DEF AddCount, ListInv
      <4>2. QED
        BY <1>1, <2>1, <3>1, <4>1
    <3>5. QED
      BY <3>3, <3>4
  <2>5. CASE AddRegister(t)
    <3>1. cpu' = cpu /\ num_cntrs' = num_cntrs
      BY <2>5 DEF AddRegister
    <3>2. apc'[t] = "spawn"
      BY <2>5 DEF AddRegister, Clean
    <3>3. QED
      BY <1>1, <2>1, <3>1, <3>2
  <2>6. CASE AddSpawn(t)
    <3>1. cpu' = cpu /\ num_cntrs' = num_cntrs /\ apc[t] = "spawn" /\ fault = "none"
      BY <2>6 DEF AddSpawn
    <3>2. spc' = [spc EXCEPT ![aid[t]] = "start"]
      BY <2>6 DEF AddSpawn, Clean
    <3>3. aid[t] \in Ids /\ cpu[aid[t]] = t
      BY <3>1 DEF CallerInv, HasEntry
    <3>4. i = aid[t]
      BY <1>1, <2>1, <3>1, <3>3 DEF ListInv
    <3>5. QED
      BY <3>2, <3>4
  <2>7. QED
    BY <1>3, <2>2, <2>3, <2>4, <2>5, <2>6 DEF AddCounter
<1>4. CASE UNCHANGED <<cpu, apc, num_cntrs, global_num_cntrs>>
  BY <1>1, <1>4
<1>5. QED
  BY <1>2, <1>3, <1>4 DEF vars, Next, SetClock, EnableCounter, DisableCounter, Sampler,
     SampleStart, SampleLeave, SampleTime, SampleRead, SampleStop, Collector,
     CollectCheck, CollectClear, CollectJoin, CollectJoined, CollectDemux

(* The loop over event_list finds a thread to join in every entry.         *)
Joinable(c) ==
  /\ cpc[c] \in {"clear", "join"} =>
       \A i \in Ids : i < event_list_size => spc[i] # "none"
  /\ cpc[c] = "join" => \A i \in Ids : ci[c] <= i => spc[i] # "joined"

LEMMA CleanJoinable ==
  ASSUME Clean, IInv, JoinInv, CleanInv, [Next]_vars, NEW c \in Collectors
  PROVE  Joinable(c)'
<1> USE DEF IInv, TypeOK, EntryTypeOK, SamplerTypeOK, CallTypeOK, GlobalTypeOK
<1>1. Joinable(c) /\ SpawnInv /\ CollectInv
  BY DEF CleanInv, Joinable, JoinInv
<1>2. CASE \A d \in Collectors : ~Collector(d)
  <2>1. Collecting => Quiet
    BY <1>1 DEF CollectInv, Collecting, Quiet
  <2>2. /\ UNCHANGED <<cpc, ci>>
        /\ Collecting => event_list_size' = event_list_size
        /\ \A i \in Ids : spc'[i] = "joined" <=> spc[i] = "joined"
    BY <1>1, <1>2, <2>1, NoCollectorFrame
  <2>3. cpc[c] # "idle" => Collecting
    BY DEF Collecting
  <2>4. QED
    BY <1>1, <2>2, <2>3, StaysSampled DEF Joinable
<1>3. CASE Collector(c)
  <2>1. event_list_size' = event_list_size /\ fault = "none"
    BY <1>3 DEF Collector, CollectCheck, CollectClear, CollectJoin, CollectJoined,
       CollectDemux
  <2>2. CASE CollectCheck(c)
    <3>1. /\ spc' = spc /\ cpc'[c] \in {"clear", "demux"} /\ AddersQuiet
      BY <2>2 DEF CollectCheck
    <3>2. ASSUME NEW i \in Ids, i < event_list_size
          PROVE  spc[i] # "none"
      <4>1. cpu[i] # NoThread /\ cpu[i] \in Threads
        BY <3>2 DEF ListInv
      <4>2. apc[cpu[i]] = "idle" /\ added[cpu[i]] \in {0, accepted}
        BY <3>1, <4>1 DEF AddersQuiet
      <4>3. added[cpu[i]] >= 1 /\ num_cntrs[i] = added[cpu[i]]
        BY <4>1, <4>2 DEF CountInv, InCall
      <4>4. num_cntrs[i] = global_num_cntrs
        BY <4>2, <4>3 DEF CleanInv
      <4>5. QED
        BY <4>1, <4>2, <4>4 DEF CleanInv
    <3>3. QED
      BY <2>1, <3>1, <3>2 DEF Joinable
  <2>3. CASE CollectClear(c)
    <3>1. /\ spc' = spc /\ cpc[c] = "clear" /\ cpc'[c] = "join"
      BY <2>3 DEF CollectClear
    <3>2. \A i \in Ids : spc[i] # "joined"
      BY <1>1, <3>1 DEF CollectInv
    <3>3. QED
      BY <1>1, <2>1, <3>1, <3>2 DEF Joinable
  <2>4. CASE CollectJoin(c)
    <3>1. /\ cpc[c] = "join" /\ cpc' = cpc /\ ci'[c] = ci[c] + 1 /\ ci[c] \in Nat
          /\ spc' = spc \/ spc' = [spc EXCEPT ![ci[c]] = "joined"]
      BY <2>4 DEF CollectJoin
    <3>2. ASSUME NEW i \in Ids, ci'[c] <= i
          PROVE  spc'[i] # "joined"
      <4>1. i \in Int
        BY DEF Ids
      <4>2. ci[c] + 1 <= i /\ ci[c] \in Int
        BY <3>1, <3>2
      <4>3. ci[c] <= i /\ i # ci[c]
        <5> HIDE DEF Ids, IInv, TypeOK, EntryTypeOK, SamplerTypeOK, CallTypeOK, GlobalTypeOK
        <5>1. QED
          BY <4>1, <4>2
      <4>4. QED
        BY <1>1, <3>1, <4>3 DEF Joinable
    <3>3. QED
      BY <1>1, <2>1, <3>1, <3>2, StaysSampled DEF Joinable
  <2>5. CASE CollectJoined(c) \/ CollectDemux(c)
    <3>1. cpc'[c] \in {"demux", "idle"}
      BY <2>5 DEF CollectJoined, CollectDemux
    <3>2. QED
      BY <3>1 DEF Joinable
  <2>6. QED
    BY <1>3, <2>2, <2>3, <2>4, <2>5 DEF Collector
<1>4. QED
  BY <1>2, <1>3 DEF Clean, SoleCollector

(* calloc does not fail, and no buffer is given back.                      *)
LEMMA CleanBuffer ==
  ASSUME Clean, IInv, SpawnInv, CleanInv, [Next]_vars, NEW i \in Ids,
         spc'[i] = "loop"
  PROVE  HasBuffer(i)'
<1> USE DEF IInv, TypeOK, SamplerTypeOK, HasBuffer
<1>1. CASE Untouched(i)
  BY <1>1 DEF Untouched, CleanInv
<1>2. CASE Unused(i)
  BY <1>2 DEF Unused
<1>3. CASE SampleStart(i)
  <2>1. timevalues'[i] = Cleared
    BY <1>3 DEF SampleStart, Clean
  <2>2. DOMAIN Cleared = Cells /\ DOMAIN NULL = {}
    BY DEF Cleared, NULL
  <2>3. QED
    BY <2>1, <2>2
<1>4. CASE SampleRead(i)
  <2> DEFINE b == [p \in Cells |-> IF p \in tv_pos[i] .. tv_pos[i] + members[i] - 1
                                    THEN <<sample_count[i], p - tv_pos[i] + 1>>
                                    ELSE timevalues[i][p]]
  <2>1. timevalues' = [timevalues EXCEPT ![i] = b]
    BY <1>4 DEF SampleRead
  <2>2. DOMAIN b = Cells /\ DOMAIN NULL = {}
    BY DEF NULL
  <2> HIDE DEF b
  <2>3. timevalues'[i] = b
    BY <2>1
  <2>4. QED
    BY <2>2, <2>3
<1>5. CASE SampleLeave(i) \/ SampleTime(i) \/ SampleStop(i)
  <2>1. spc[i] = "loop" /\ timevalues'[i] = timevalues[i]
    BY <1>5 DEF SampleLeave, SampleTime, SampleStop
  <2>2. QED
    BY <2>1 DEF CleanInv
<1>6. QED
  BY <1>1, <1>2, <1>3, <1>4, <1>5, Rests DEF Sampler

(* No step reaches undefined behaviour.                                    *)
LEMMA CleanFault ==
  ASSUME Clean, IInv, JoinInv, CleanInv, [Next]_vars
  PROVE  NoFault'
<1> USE DEF IInv, TypeOK, GlobalTypeOK
<1>1. fault = "none"
  BY DEF CleanInv, NoFault
<1>2. CASE GetEventInfo
  <2>1. requested < MaxMetrics /\ global_num_cntrs < NUM_EVENTS
    BY <1>2 DEF GetEventInfo, CleanInv, Clean
  <2>2. QED
    BY <1>1, <1>2, <2>1 DEF GetEventInfo, NoFault
<1>3. ASSUME NEW t \in Threads, AddAlloc(t)
      PROVE  NoFault'
  <2>1. aid[t] = event_list_size /\ \A i \in Ids : cpu[i] # t
    BY <1>3 DEF AddAlloc, CallerInv
  <2>2. event_list_size < EventListCap
    BY <1>1, <2>1, RoomForEntry DEF Clean
  <2>3. event_list_size \in Nat
    BY DEF EntryTypeOK
  <2>4. aid[t] \in Ids
    BY <2>1, <2>2, <2>3 DEF Ids
  <2>5. QED
    BY <1>1, <1>3, <2>4 DEF AddAlloc, NoFault
<1>4. ASSUME NEW c \in Collectors, CollectJoin(c)
      PROVE  NoFault'
  <2>1. /\ cpc[c] = "join" /\ ci[c] < event_list_size /\ ci[c] \in Nat
        /\ spc[ci[c]] \in {"none", "done", "joined"}
    BY <1>4 DEF CollectJoin, CallTypeOK
  <2>2. event_list_size <= EventListCap /\ event_list_size \in Nat
    BY <1>1 DEF ListInv, EntryTypeOK
  <2>3. ci[c] \in Ids /\ ci[c] <= ci[c]
    BY <2>1, <2>2 DEF Ids
  <2>4. spc[ci[c]] # "none" /\ spc[ci[c]] # "joined"
    BY <2>1, <2>3 DEF CleanInv
  <2>5. QED
    BY <1>1, <1>4, <2>1, <2>4 DEF CollectJoin, NoFault
<1>5. CASE fault' = fault
  BY <1>1, <1>5 DEF NoFault
<1>6. ASSUME NEW i \in Ids, SampleStop(i)
      PROVE  fault' = fault
  BY <1>6 DEF SampleStop, Clean
<1>7. ASSUME NEW i \in Ids, SampleTime(i)
      PROVE  fault' = fault
  <2>1. spc[i] = "loop" /\ tv_pos[i] + num_cntrs[i] + 1 <= NumBufElems
    BY <1>7 DEF SampleTime, HasRoom
  <2>2. tv_pos[i] \in Nat /\ num_cntrs[i] \in Nat
    BY DEF SamplerTypeOK, EntryTypeOK
  <2>3. tv_pos[i] \in Cells
    BY <2>1, <2>2 DEF Cells
  <2>4. timevalues[i] # NULL
    BY <2>1, <2>3 DEF CleanInv, HasBuffer
  <2>5. QED
    BY <1>7, <2>4 DEF SampleTime
<1>8. QED
  BY <1>2, <1>3, <1>4, <1>5, <1>6, <1>7 DEF vars, Next, SetClock, AddCounter, AddLock,
     AddFind, AddCount, AddRegister, AddSpawn, EnableCounter, DisableCounter, Sampler,
     SampleStart, SampleLeave, SampleRead, Collector, CollectCheck, CollectClear,
     CollectJoined, CollectDemux

(* When only PAPI_read may fail, with one collector and within the sizes   *)
(* of EventCodes and event_list, no undefined behaviour is reached: the    *)
(* tables never overflow, and get_all_values joins every sampling thread   *)
(* exactly once.                                                           *)
THEOREM NeverFaults ==
  ASSUME Clean
  PROVE  Spec => []NoFault
<1>1. Init => CleanInv
  BY DEF Init, CleanInv, NoFault
<1>2. IInv /\ JoinInv /\ CleanInv /\ [Next]_vars => CleanInv'
  <2>1. SUFFICES ASSUME IInv, JoinInv, CleanInv, [Next]_vars  PROVE CleanInv'
    OBVIOUS
  <2>2. SpawnInv
    BY <2>1 DEF JoinInv
  <2>3. QED
    BY <2>1, <2>2, CleanCounts, CleanSampled, CleanJoinable, CleanBuffer, CleanFault
       DEF CleanInv, Joinable
<1>3. CleanInv => NoFault
  BY DEF CleanInv
<1>4. Spec => []JoinInv
  BY JoinInvariance DEF Clean
<1>5. QED
  BY <1>1, <1>2, <1>3, <1>4, Invariance, PTL DEF Spec

=============================================================================
