---------------------------- MODULE ApapiSampler ----------------------------
(***************************************************************************)
(* The asynchronous Score-P metric plugins (apapi.c of the arocm-smi,      *)
(* arocm2-smi and coretemp plugins).                                       *)
(*                                                                         *)
(* Application threads register their counters with add_counter; the last  *)
(* counter of a thread starts a sampling thread (thread_report) that fills *)
(* one buffer per entry of event_list with rows "timestamp, counter 0,     *)
(* counter 1, ...".  At the end of the measurement get_all_values stops    *)
(* and joins every sampling thread and cuts one column out of a buffer.    *)
(*                                                                         *)
(* A cell of a buffer is abstracted to the place it was sampled at: the    *)
(* pair <<k, 0>> is the timestamp of the k-th sample of its thread and     *)
(* <<k, c + 1>> what PAPI_read answered for counter c in that sample.      *)
(*                                                                         *)
(* The three plugins differ in two constants: arocm is HaveDebug and       *)
(* FailuresReturn, arocm2 HaveDebug alone, coretemp FailuresReturn alone.  *)
(***************************************************************************)
EXTENDS Integers, Sequences, FiniteSets

CONSTANTS
  Threads,        \* application threads (the tids seen by add_counter)
  Collectors,     \* callers of get_all_values
  MaxMetrics,     \* number of metrics the user asks for
  NumBufElems,    \* buf_size / sizeof(long long)
  NUM_EVENTS,     \* entries of EventCodes (32 in the source)
  EventListCap,   \* entries of event_list (512 in the source)
  HaveDebug,      \* HAVE_DEBUG is defined (apapi.c:43 of arocm and arocm2)
  FailuresReturn, \* add_counter returns -1 on failure (commented out in arocm2)
  Failing         \* the external calls that may fail in this environment

NoThread == "no thread" \* the cpu of an entry that was never allocated

ExternalCalls == {"malloc", "calloc", "register", "pthread_create", "PAPI_read"}

ASSUME ApapiAssumption ==
  /\ MaxMetrics \in Nat
  /\ NumBufElems \in Nat
  /\ NUM_EVENTS \in Nat
  /\ EventListCap \in Nat
  /\ HaveDebug \in BOOLEAN
  /\ FailuresReturn \in BOOLEAN
  /\ HaveDebug \/ FailuresReturn   \* there is no fourth plugin
  /\ Failing \subseteq ExternalCalls
  /\ NoThread \notin Threads

(* A column fits in the low byte of a counter id.                          *)
ASSUME ColumnAssumption == NUM_EVENTS <= 256

VARIABLES
  global_num_cntrs, \* metrics get_event_info has counted
  requested,        \* metrics it was asked for          (environment)
  accepted,         \* metrics it returned properties of (environment)
  wtime,            \* has set_pform_wtime_function been called?
  counter_enabled,
  mutex,            \* the holders of add_counter_mutex
  event_list_size,
  cpu, enabled, num_cntrs, eventset, timevalues, sample_count, \* event_list
  members,          \* events PAPI has in the event set of an entry (external)
  taken,            \* samples PAPI_read has answered (history)
  tv_pos, spc,      \* the sampling thread of an entry: local and control
  apc, aid, added,  \* add_counter: control, local id, calls begun
  issued,           \* counter ids handed to the measurement system
  cpc, ci, cid,     \* get_all_values: control, loop index i, argument id
  results,          \* everything get_all_values has returned
  fault             \* the undefined behaviour reached, "none" if none

setupVars  == <<global_num_cntrs, requested, accepted, wtime>>
entryVars  == <<cpu, enabled, num_cntrs, eventset, members>>
sampleVars == <<timevalues, sample_count, tv_pos, taken>>
adderVars  == <<apc, aid, added, issued>>
collVars   == <<cpc, ci, cid, results>>
vars == <<setupVars, counter_enabled, mutex, event_list_size, entryVars,
          sampleVars, spc, adderVars, collVars, fault>>

Ids      == 0 .. EventListCap - 1
Cells    == 0 .. NumBufElems - 1
Cell     == Int \X Int
Zero     == <<-1, 0>>   \* a cell calloc cleared and nobody wrote since
Garbage  == <<-2, 0>>   \* what lies past the end of the buffer
NULL     == <<>>        \* the buffer of an entry that has none
Cleared  == [p \in Cells |-> Zero]

CounterIdFromOne(id, c) == id * 256 + c - 1   \* mutant: columns from 1
CounterId(id, c) == id * 256 + c
EntryOf(counterId) == counterId \div 256
ColumnOf(counterId) == counterId % 256

Init ==
  /\ global_num_cntrs = 0 /\ requested = 0 /\ accepted = 0 /\ wtime = FALSE
  /\ counter_enabled = TRUE /\ mutex = {} /\ event_list_size = 0
  /\ cpu = [i \in Ids |-> NoThread]
  /\ enabled = [i \in Ids |-> FALSE]
  /\ num_cntrs = [i \in Ids |-> 0]
  /\ eventset = [i \in Ids |-> "null"]
  /\ members = [i \in Ids |-> 0]
  /\ timevalues = [i \in Ids |-> NULL]
  /\ sample_count = [i \in Ids |-> 0]
  /\ tv_pos = [i \in Ids |-> 0]
  /\ taken = [i \in Ids |-> 0]
  /\ spc = [i \in Ids |-> "none"]
  /\ apc = [t \in Threads |-> "idle"]
  /\ aid = [t \in Threads |-> 0]
  /\ added = [t \in Threads |-> 0]
  /\ issued = {}
  /\ cpc = [c \in Collectors |-> "idle"]
  /\ ci = [c \in Collectors |-> 0]
  /\ cid = [c \in Collectors |-> 0]
  /\ results = {}
  /\ fault = "none"

-----------------------------------------------------------------------------
(* Set-up: the measurement system hands over its clock and asks for the    *)
(* metrics before it adds any counter.                                     *)

(* Nothing happens after undefined behaviour.                              *)
Alive == fault = "none"

SettingUp == Alive /\ \A t \in Threads : added[t] = 0

SetClock ==
  /\ SettingUp
  /\ wtime' = TRUE
  /\ UNCHANGED <<global_num_cntrs, requested, accepted, counter_enabled, mutex,
                 event_list_size, entryVars, sampleVars, spc, adderVars,
                 collVars, fault>>

(* get_event_info: PAPI does not know the event, or it is counted and its  *)
(* properties are returned, or it is counted and malloc fails.  The code   *)
(* goes to EventCodes[global_num_cntrs] without a bound check.             *)
GetEventInfo ==
  /\ SettingUp /\ requested < MaxMetrics
  /\ requested' = requested + 1
  /\ \/ UNCHANGED <<global_num_cntrs, accepted, fault>>
     \/ /\ fault' = IF global_num_cntrs < NUM_EVENTS THEN fault ELSE "EventCodes"
        /\ global_num_cntrs' = global_num_cntrs + 1
        /\ \/ accepted' = accepted + 1
           \/ "malloc" \in Failing /\ UNCHANGED accepted
  /\ UNCHANGED <<wtime, counter_enabled, mutex, event_list_size, entryVars,
                 sampleVars, spc, adderVars, collVars>>

-----------------------------------------------------------------------------
(* add_counter.  A thread calls it once per accepted metric, and not after *)
(* the measurement system has begun to collect.                            *)

Measuring == counter_enabled /\ \A c \in Collectors : cpc[c] = "idle"

NoMutex == TRUE   \* mutant: the critical section is not exclusive
MutexFree == mutex = {}

AddLock(t) ==
  /\ Alive /\ apc[t] = "idle" /\ added[t] < accepted /\ Measuring
  /\ MutexFree
  /\ mutex' = mutex \cup {t}
  /\ added' = [added EXCEPT ![t] = @ + 1]
  /\ apc' = [apc EXCEPT ![t] = "find"]
  /\ UNCHANGED <<setupVars, counter_enabled, event_list_size, entryVars,
                 sampleVars, spc, aid, issued, collVars, fault>>

Listed(t) == {i \in 0 .. event_list_size - 1 : cpu[i] = t}

(* The thread has an entry (the first that matches), or takes the next one. *)
AddFind(t) ==
  /\ Alive /\ apc[t] = "find"
  /\ \/ \E i \in Listed(t) :
          /\ \A j \in Listed(t) : i <= j
          /\ aid' = [aid EXCEPT ![t] = i]
          /\ apc' = [apc EXCEPT ![t] = "count"]
     \/ /\ Listed(t) = {}
        /\ aid' = [aid EXCEPT ![t] = event_list_size]
        /\ apc' = [apc EXCEPT ![t] = "alloc"]
  /\ UNCHANGED <<setupVars, counter_enabled, mutex, event_list_size, entryVars,
                 sampleVars, spc, added, issued, collVars, fault>>

(* The entry is cleared, the list grows, its fields are set.  Nothing      *)
(* checks that event_list has room.                                        *)
AddAlloc(t) ==
  LET i == aid[t] IN
  /\ Alive /\ apc[t] = "alloc"
  /\ event_list_size' = event_list_size + 1
  /\ fault' = IF i \in Ids THEN fault ELSE "event_list"
  /\ cpu' = [cpu EXCEPT ![i] = t]
  /\ enabled' = [enabled EXCEPT ![i] = TRUE]
  /\ num_cntrs' = [num_cntrs EXCEPT ![i] = 0]
  /\ eventset' = [eventset EXCEPT ![i] = "null"]
  /\ members' = [members EXCEPT ![i] = 0]
  /\ timevalues' = [timevalues EXCEPT ![i] = NULL]
  /\ sample_count' = [sample_count EXCEPT ![i] = 0]
  /\ spc' = [spc EXCEPT ![i] = "none"]
  /\ apc' = [apc EXCEPT ![t] = "count"]
  /\ UNCHANGED <<setupVars, counter_enabled, mutex, tv_pos, taken, aid, added,
                 issued, collVars>>

Return(t, ids) ==
  /\ apc' = [apc EXCEPT ![t] = "idle"]
  /\ issued' = issued \cup ids

AllAddedBefore(i) == num_cntrs[i] = global_num_cntrs   \* mutant: off by one
AllAdded(i) == num_cntrs[i] + 1 = global_num_cntrs

(* The counter id is the next column of the entry.  The mutex is released; *)
(* all counters of the thread added: register them and start sampling.     *)
AddCount(t) ==
  LET i == aid[t] IN
  /\ Alive /\ apc[t] = "count"
  /\ num_cntrs' = [num_cntrs EXCEPT ![i] = @ + 1]
  /\ mutex' = mutex \ {t}
  /\ IF AllAdded(i)
       THEN apc' = [apc EXCEPT ![t] = "register"] /\ UNCHANGED issued
       ELSE Return(t, {CounterId(i, num_cntrs[i])})
  /\ UNCHANGED <<setupVars, counter_enabled, event_list_size, cpu, enabled,
                 eventset, members, sampleVars, spc, aid, added, collVars,
                 fault>>

(* PAPI_create_eventset, PAPI_add_events, PAPI_start.  The state the event *)
(* set is left in says which of them failed; PAPI_add_events stops at the  *)
(* first event it cannot add, so the set may hold the first few only.      *)
(* Where failures return, PAPI_start is not reached with such a set.       *)
AddRegister(t) ==
  LET i == aid[t] IN
  /\ Alive /\ apc[t] = "register"
  /\ \E state \in {"null", "created", "added", "running"},
        n \in 0 .. num_cntrs[i] :
       LET whole  == n = num_cntrs[i]
           failed == ~whole \/ state # "running"
       IN
       /\ state \in {"null", "created"} <=> n = 0
       /\ state = "running" /\ ~whole => ~FailuresReturn
       /\ failed => "register" \in Failing
       /\ eventset' = [eventset EXCEPT ![i] = state]
       /\ members' = [members EXCEPT ![i] = n]
       /\ IF failed /\ FailuresReturn
            THEN Return(t, {})
            ELSE apc' = [apc EXCEPT ![t] = "spawn"] /\ UNCHANGED issued
  /\ UNCHANGED <<setupVars, counter_enabled, mutex, event_list_size, cpu,
                 enabled, num_cntrs, sampleVars, spc, aid, added, collVars,
                 fault>>

LastCounter(t) == CounterId(aid[t], num_cntrs[aid[t]] - 1)

AddSpawn(t) ==
  /\ Alive /\ apc[t] = "spawn"
  /\ \/ /\ spc' = [spc EXCEPT ![aid[t]] = "start"]
        /\ Return(t, {LastCounter(t)})
     \/ /\ "pthread_create" \in Failing
        /\ Return(t, IF FailuresReturn THEN {} ELSE {LastCounter(t)})
        /\ UNCHANGED spc
  /\ UNCHANGED <<setupVars, counter_enabled, mutex, event_list_size, entryVars,
                 sampleVars, aid, added, collVars, fault>>

AddCounter(t) ==
  AddLock(t) \/ AddFind(t) \/ AddAlloc(t) \/ AddCount(t) \/ AddRegister(t)
             \/ AddSpawn(t)

EnableCounter(i) ==
  /\ Alive /\ i < event_list_size
  /\ enabled' = [enabled EXCEPT ![i] = TRUE]
  /\ UNCHANGED <<setupVars, counter_enabled, mutex, event_list_size, cpu,
                 num_cntrs, eventset, members, sampleVars, spc, adderVars,
                 collVars, fault>>

DisableCounter(i) ==
  /\ Alive /\ i < event_list_size
  /\ enabled' = [enabled EXCEPT ![i] = FALSE]
  /\ UNCHANGED <<setupVars, counter_enabled, mutex, event_list_size, cpu,
                 num_cntrs, eventset, members, sampleVars, spc, adderVars,
                 collVars, fault>>

-----------------------------------------------------------------------------
(* thread_report, the sampling thread of entry i.                          *)

UnchangedBySampler == <<setupVars, counter_enabled, mutex, event_list_size,
                        cpu, enabled, num_cntrs, members, adderVars, collVars>>

(* The result of calloc is not looked at.                                  *)
SampleStart(i) ==
  /\ Alive /\ spc[i] = "start"
  /\ \/ timevalues' = [timevalues EXCEPT ![i] = Cleared]
     \/ /\ "calloc" \in Failing
        /\ timevalues' = [timevalues EXCEPT ![i] = NULL]
  /\ tv_pos' = [tv_pos EXCEPT ![i] = 0]
  /\ sample_count' = [sample_count EXCEPT ![i] = 0]
  /\ spc' = [spc EXCEPT ![i] = "loop"]
  /\ UNCHANGED <<UnchangedBySampler, eventset, taken, fault>>

RoomWithoutTimestamp(i) == tv_pos[i] + num_cntrs[i] <= NumBufElems  \* mutant
RoomToSpare(i) == tv_pos[i] + num_cntrs[i] + 1 < NumBufElems        \* mutant
HasRoom(i) == tv_pos[i] + num_cntrs[i] + 1 <= NumBufElems

EndsIfEnabled(i) == ~counter_enabled /\ enabled[i]   \* mutant: tested inside
LoopEnds(i) == ~counter_enabled

(* The loop head.  A disabled entry only sleeps (no state changes); with   *)
(* no clock the thread returns; a full buffer ends the loop.               *)
SampleLeave(i) ==
  /\ Alive /\ spc[i] = "loop"
  /\ \/ /\ LoopEnds(i)
        /\ spc' = [spc EXCEPT ![i] = "stop"]
     \/ /\ counter_enabled /\ ~wtime
        /\ spc' = [spc EXCEPT ![i] = "done"]
     \/ /\ counter_enabled /\ wtime /\ enabled[i] /\ ~HasRoom(i)
        /\ spc' = [spc EXCEPT ![i] = "stop"]
  /\ UNCHANGED <<UnchangedBySampler, eventset, sampleVars, fault>>

(* The timestamp is written, through NULL if calloc failed.                *)
SampleTime(i) ==
  /\ Alive /\ spc[i] = "loop" /\ counter_enabled /\ wtime /\ enabled[i]
  /\ HasRoom(i)
  /\ \/ /\ timevalues[i] # NULL
        /\ timevalues' =
             [timevalues EXCEPT ![i][tv_pos[i]] = <<sample_count[i], 0>>]
        /\ tv_pos' = [tv_pos EXCEPT ![i] = @ + 1]
        /\ spc' = [spc EXCEPT ![i] = "read"]
        /\ UNCHANGED fault
     \/ /\ timevalues[i] = NULL
        /\ fault' = "timevalues"
        /\ UNCHANGED <<timevalues, tv_pos, spc>>
  /\ UNCHANGED <<UnchangedBySampler, eventset, sample_count, taken>>

(* PAPI_read fills one cell per event of the set, also if the set does not *)
(* run (PAPI answers the counts it stopped with), and the row is taken to  *)
(* be complete.  A failing one ends the thread without PAPI_stop; it must  *)
(* fail if the event set was never created.                                *)
SampleRead(i) ==
  /\ Alive /\ spc[i] = "read"
  /\ \/ /\ eventset[i] # "null"
        /\ timevalues' = [timevalues EXCEPT ![i] =
             [p \in Cells |-> IF p \in tv_pos[i] .. tv_pos[i] + members[i] - 1
                                THEN <<sample_count[i], p - tv_pos[i] + 1>>
                                ELSE @[p]]]
        /\ tv_pos' = [tv_pos EXCEPT ![i] = @ + num_cntrs[i]]
        /\ sample_count' = [sample_count EXCEPT ![i] = @ + 1]
        /\ taken' = [taken EXCEPT ![i] = @ + 1]
        /\ spc' = [spc EXCEPT ![i] = "loop"]
     \/ /\ eventset[i] # "running" \/ "PAPI_read" \in Failing
        /\ spc' = [spc EXCEPT ![i] = "done"]
        /\ UNCHANGED sampleVars
  /\ UNCHANGED <<UnchangedBySampler, eventset, fault>>

Stopped(state) == IF state = "running" THEN "stopped" ELSE state

(* PAPI_stop; with HAVE_DEBUG the thread then prints timesum divided by    *)
(* sample_count++, which counts a row nobody sampled.                      *)
SampleStop(i) ==
  /\ Alive /\ spc[i] = "stop"
  /\ eventset' = [eventset EXCEPT ![i] = Stopped(@)]
  /\ IF HaveDebug
       THEN /\ sample_count' = [sample_count EXCEPT ![i] = @ + 1]
            /\ fault' = IF sample_count[i] = 0 THEN "division by zero" ELSE fault
       ELSE UNCHANGED <<sample_count, fault>>
  /\ spc' = [spc EXCEPT ![i] = "done"]
  /\ UNCHANGED <<UnchangedBySampler, timevalues, tv_pos, taken>>

Sampler(i) == SampleStart(i) \/ SampleLeave(i) \/ SampleTime(i)
                \/ SampleRead(i) \/ SampleStop(i)

-----------------------------------------------------------------------------
(* get_all_values, called by collector c once every thread that adds       *)
(* counters has added all of them.                                         *)

AddersQuiet == \A t \in Threads : apc[t] = "idle" /\ added[t] \in {0, accepted}

UnchangedByCollector == <<setupVars, mutex, event_list_size, entryVars,
                          sampleVars, adderVars>>

CollectCheck(c) ==
  /\ Alive /\ cpc[c] = "idle" /\ AddersQuiet
  /\ \E id \in issued : cid' = [cid EXCEPT ![c] = id]
  /\ cpc' = [cpc EXCEPT ![c] = IF counter_enabled THEN "clear" ELSE "demux"]
  /\ UNCHANGED <<UnchangedByCollector, counter_enabled, spc, ci, results, fault>>

CollectWithoutJoin(c) ==   \* mutant: the samplers are told, not awaited
  /\ Alive /\ cpc[c] = "clear"
  /\ counter_enabled' = FALSE
  /\ cpc' = [cpc EXCEPT ![c] = "demux"]
  /\ UNCHANGED <<UnchangedByCollector, spc, ci, cid, results, fault>>

CollectClear(c) ==
  /\ Alive /\ cpc[c] = "clear"
  /\ counter_enabled' = FALSE
  /\ ci' = [ci EXCEPT ![c] = 0]
  /\ cpc' = [cpc EXCEPT ![c] = "join"]
  /\ UNCHANGED <<UnchangedByCollector, spc, cid, results, fault>>

(* pthread_join waits for the thread of the i-th entry; its handle is 0 if *)
(* no thread was created, and dead if it was joined before.                *)
CollectJoin(c) ==
  LET i == ci[c] IN
  /\ Alive /\ cpc[c] = "join" /\ i < event_list_size
  /\ spc[i] \in {"none", "done", "joined"}
  /\ IF spc[i] = "done"
       THEN spc' = [spc EXCEPT ![i] = "joined"] /\ UNCHANGED fault
       ELSE fault' = "pthread_join" /\ UNCHANGED spc
  /\ ci' = [ci EXCEPT ![c] = @ + 1]
  /\ UNCHANGED <<UnchangedByCollector, counter_enabled, cpc, cid, results>>

CollectJoined(c) ==
  /\ Alive /\ cpc[c] = "join" /\ ci[c] = event_list_size
  /\ cpc' = [cpc EXCEPT ![c] = "demux"]
  /\ UNCHANGED <<UnchangedByCollector, counter_enabled, spc, ci, cid, results,
                 fault>>

CellAt(i, p) == IF p \in Cells THEN timevalues[i][p] ELSE Garbage

ColumnShort(i, col) ==   \* mutant: the stride forgets the timestamp
  [k \in 1 .. sample_count[i] |-> <<CellAt(i, (k - 1) * num_cntrs[i]),
                                    CellAt(i, (k - 1) * num_cntrs[i] + 1 + col)>>]

(* One column of the buffer of entry i, as <<timestamp, value>> pairs.     *)
Column(i, col) ==
  LET stride == num_cntrs[i] + 1
  IN  [k \in 1 .. sample_count[i] |-> <<CellAt(i, (k - 1) * stride),
                                        CellAt(i, (k - 1) * stride + 1 + col)>>]

CollectDemux(c) ==
  /\ Alive /\ cpc[c] = "demux"
  /\ \/ results' = results \cup
          {[id |-> cid[c], rows |-> Column(EntryOf(cid[c]), ColumnOf(cid[c]))]}
     \/ "malloc" \in Failing /\ UNCHANGED results
  /\ cpc' = [cpc EXCEPT ![c] = "idle"]
  /\ UNCHANGED <<UnchangedByCollector, counter_enabled, spc, ci, cid, fault>>

Collector(c) == CollectCheck(c) \/ CollectClear(c) \/ CollectJoin(c)
                  \/ CollectJoined(c) \/ CollectDemux(c)

-----------------------------------------------------------------------------
Next ==
  \/ SetClock
  \/ GetEventInfo
  \/ \E t \in Threads : AddCounter(t)
  \/ \E i \in Ids : EnableCounter(i) \/ DisableCounter(i)
  \/ \E i \in Ids : Sampler(i)
  \/ \E c \in Collectors : Collector(c)

Spec == Init /\ [][Next]_vars

(* usleep, PAPI calls and critical sections are finite, so a thread that   *)
(* can take a step takes one.  Nobody is obliged to call get_all_values.   *)
Fairness ==
  /\ \A i \in Ids : WF_vars(Sampler(i))
  /\ \A c \in Collectors : WF_vars(cpc[c] # "idle" /\ Collector(c))

FairSpec == Spec /\ Fairness

-----------------------------------------------------------------------------
(* Properties.                                                             *)

SamplerStates == {"none", "start", "loop", "read", "stop", "done", "joined"}
AdderStates == {"idle", "find", "alloc", "count", "register", "spawn"}
CollectorStates == {"idle", "clear", "join", "demux"}
Faults == {"none", "EventCodes", "event_list", "pthread_join", "timevalues",
           "division by zero"}

EntryTypeOK ==
  /\ event_list_size \in Nat
  /\ cpu \in [Ids -> Threads \cup {NoThread}]
  /\ enabled \in [Ids -> BOOLEAN]
  /\ num_cntrs \in [Ids -> Nat]
  /\ eventset \in [Ids -> {"null", "created", "added", "running", "stopped"}]
  /\ members \in [Ids -> Nat]

SamplerTypeOK ==
  /\ timevalues \in [Ids -> [Cells -> Cell] \cup {NULL}]
  /\ sample_count \in [Ids -> Nat]
  /\ taken \in [Ids -> Nat]
  /\ tv_pos \in [Ids -> Nat]
  /\ spc \in [Ids -> SamplerStates]

CallTypeOK ==
  /\ apc \in [Threads -> AdderStates]
  /\ aid \in [Threads -> Nat]
  /\ added \in [Threads -> Nat]
  /\ issued \subseteq Nat
  /\ cpc \in [Collectors -> CollectorStates]
  /\ ci \in [Collectors -> Nat]
  /\ cid \in [Collectors -> Nat]

GlobalTypeOK ==
  /\ global_num_cntrs \in Nat /\ requested \in Nat /\ accepted \in Nat
  /\ wtime \in BOOLEAN /\ counter_enabled \in BOOLEAN
  /\ mutex \subseteq Threads
  /\ fault \in Faults

(* Every variable stays in its type, a buffer keeps its size, and the      *)
(* counter ids handed out are natural numbers.                             *)
TypeOK == EntryTypeOK /\ SamplerTypeOK /\ CallTypeOK /\ GlobalTypeOK

(* thread_report never writes past its buffer: the row whose timestamp is  *)
(* in place has room for the whole row, and the event set does not hold    *)
(* more events than the row has cells for what PAPI_read stores.           *)
NoOverrun ==
  \A i \in Ids : spc[i] = "read" => /\ tv_pos[i] + num_cntrs[i] <= NumBufElems
                                    /\ members[i] <= num_cntrs[i]

(* add_counter gives every thread an entry of its own: no two listed       *)
(* entries have the same tid, and no two calls in progress that are past   *)
(* the search work on the same entry.                                      *)
OneEntryPerThread ==
  /\ \A i, j \in Ids : i < event_list_size /\ j < event_list_size /\ i # j
                         => cpu[i] # cpu[j]
  /\ \A t, u \in Threads : t # u /\ apc[t] \notin {"idle", "find"}
                                 /\ apc[u] \notin {"idle", "find"}
                             => aid[t] # aid[u]

(* A row of counter c, of an event set that holds the first few counters.  *)
SampledRow(k, c, held) ==
  <<<<k - 1, 0>>, IF c < held THEN <<k - 1, c + 1>> ELSE Zero>>

SpareRows == {Zero, Garbage} \X {Zero, Garbage}

TrueAnswer(i, c, rows) ==
  /\ FailuresReturn => c < members[i]
  /\ taken[i] = sample_count[i] \/ (HaveDebug /\ taken[i] = sample_count[i] - 1)
  /\ DOMAIN rows = 1 .. sample_count[i]
  /\ \A k \in 1 .. sample_count[i] :
       IF k <= taken[i] THEN rows[k] = SampledRow(k, c, members[i])
                        ELSE rows[k] \in SpareRows

(* What get_all_values returns of counter c are the samples of its entry   *)
(* in their order, each with its own timestamp and the value PAPI_read     *)
(* gave for c, never that of another counter or sample; calloc's zero      *)
(* stands in for a counter PAPI did not add, which only a plugin that      *)
(* ignores failures answers for.  The one row that HAVE_DEBUG counts too   *)
(* much comes last and shows nothing that was sampled.                     *)
RowsAreSamples ==
  \A r \in results : TrueAnswer(EntryOf(r.id), ColumnOf(r.id), r.rows)

(* get_all_values reads an entry only when its sampling thread is gone.    *)
SamplerGone ==
  \A c \in Collectors : cpc[c] = "demux" => spc[EntryOf(cid[c])] = "joined"

(* A sampling thread that ends while the measurement goes on has either no *)
(* room for another sample, no clock, or a failed PAPI_read behind it.     *)
NothingLost ==
  \A i \in Ids :
    counter_enabled /\ wtime /\ spc[i] \in {"stop", "done"}
      => \/ tv_pos[i] + num_cntrs[i] + 1 > NumBufElems
         \/ tv_pos[i] # taken[i] * (num_cntrs[i] + 1)

(* None of the undefined behaviours the code leaves open is reached.       *)
NoFault == fault = "none"

(* get_all_values returns: every sampling thread sees counter_enabled = 0  *)
(* and ends, whatever its buffer, its entry and its counters are doing.    *)
CollectReturns == \A c \in Collectors : cpc[c] # "idle" ~> cpc[c] = "idle"

(* The plugin implements the abstract metric log.                          *)
Log == INSTANCE MetricLog WITH
  Entries <- Ids,
  Partial <- ~FailuresReturn,
  Spare   <- HaveDebug,
  Blank   <- Zero,
  Blanks  <- {Zero, Garbage},
  samples <- taken,
  width   <- members,
  closed  <- {i \in Ids : spc[i] = "joined"},
  answers <- {[entry |-> EntryOf(r.id), column |-> ColumnOf(r.id),
               rows |-> r.rows] : r \in results}

LogSpec == Log!LogSpec
=============================================================================
