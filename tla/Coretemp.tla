------------------------------ MODULE Coretemp ------------------------------
(***************************************************************************)
(* The PAPI coretemp component (linux-coretemp.c, built without READALL    *)
(* and with ENERGYZERO): a table of sysfs files, opened when an event set  *)
(* first uses them and closed by PAPI_shutdown.                            *)
(*                                                                         *)
(* Several threads change and read their event sets at once; the component *)
(* has no lock.  Its statics outlive PAPI_shutdown, so PAPI may be         *)
(* initialised again on top of what an earlier session left.               *)
(*                                                                         *)
(* A value is told from others by its age: "sample" was read by the call   *)
(* in progress, "old" by an earlier one; "unreadable" and "closed" are the *)
(* two reasons for INVALID_RESULT.                                         *)
(***************************************************************************)
EXTENDS Integers, Sequences

CONSTANTS
  EventSets,               \* each used by a thread of its own
  Listing,                 \* the files generateEventList finds, in its order
  Wants,                   \* the events an event set may get
  CORETEMP_MAX_COUNTERS,
  MaxSessions,             \* bound on the calls of PAPI_library_init
  Failing                  \* the calls that may fail

(* The component assumes, as its header says, that there are never more    *)
(* events than CORETEMP_MAX_COUNTERS.                                      *)
ASSUME CoretempAssumption ==
  /\ Listing \in Seq([energy : BOOLEAN, cray : BOOLEAN])
  /\ Listing # <<>> /\ Len(Listing) <= CORETEMP_MAX_COUNTERS
  /\ CORETEMP_MAX_COUNTERS \in Nat /\ MaxSessions \in Nat
  /\ Wants \in [EventSets -> SUBSET (0 .. Len(Listing) - 1)]
  /\ Failing \subseteq {"opendir", "insert", "calloc", "energy", "open", "pread"}

Events == 0 .. Len(Listing) - 1
PAPI_ECMP == -4

VARIABLES
  up, sessions, disabled,      \* PAPI: initialised, how often, cmp_info.disabled
  retvals,                     \* what each initialisation returned (history)
  is_initialized, num_events,
  list,                        \* length of the list that starts at root
  table,                       \* _coretemp_native_events is allocated
  fd,                          \* the events whose fd in the table is not -1
  descriptors,                 \* the descriptors the process has of each file
  set,                         \* PAPI: "none", "stopped", "running"
  natives,                     \* PAPI: the native events of a set
  active_count, active_idx, counts, \* CORETEMP_control_state_t
  pc, want, i,                 \* the call a thread is in
  fault

papiVars  == <<up, sessions, disabled, retvals>>
tableVars == <<is_initialized, num_events, list, table>>
fileVars  == <<fd, descriptors>>
ctlVars   == <<active_count, active_idx, counts>>
callVars  == <<pc, want, i>>
vars == <<papiVars, tableVars, fileVars, set, natives, ctlVars, callVars, fault>>

Retvals == {"PAPI_OK", "PAPI_ECMP", "PAPI_ENOMEM", "PAPI_ESYS"}

Unused == [n \in 1 .. CORETEMP_MAX_COUNTERS |-> 0]

Init ==
  /\ up = FALSE /\ sessions = 0 /\ disabled = "PAPI_OK"
  /\ retvals = [n \in 1 .. MaxSessions |-> "none"]
  /\ is_initialized = FALSE /\ num_events = 0 /\ list = 0 /\ table = FALSE
  /\ fd = {} /\ descriptors = [e \in Events |-> 0]
  /\ set = [s \in EventSets |-> "none"]
  /\ natives = [s \in EventSets |-> <<>>]
  /\ active_count = [s \in EventSets |-> 0]
  /\ active_idx = [s \in EventSets |-> Unused]
  /\ counts = [s \in EventSets |-> [e \in Events |-> "none"]]
  /\ pc = [s \in EventSets |-> "idle"]
  /\ want = [s \in EventSets |-> <<>>]
  /\ i = [s \in EventSets |-> 1]
  /\ fault = "none"

-----------------------------------------------------------------------------
(* _coretemp_init_component.                                               *)
LibraryInit(retval) ==
  /\ fault = "none" /\ ~up /\ sessions < MaxSessions
  /\ up' = TRUE /\ sessions' = sessions + 1
  /\ disabled' = retval
  /\ retvals' = [retvals EXCEPT ![sessions'] = retval]

(* A component that was not shut down reports success at once.             *)
InitAgain ==
  /\ is_initialized
  /\ LibraryInit("PAPI_OK")
  /\ UNCHANGED <<tableVars, fileVars, set, natives, ctlVars, callVars, fault>>

InitFirst(retval) ==
  /\ ~is_initialized
  /\ LibraryInit(retval)
  /\ is_initialized' = TRUE
  /\ UNCHANGED <<fileVars, set, natives, ctlVars, callVars>>

(* generateEventList gives up on its n-th event (no memory, or a path that *)
(* is too long).  What it has inserted stays in the list; out of memory    *)
(* among the files of pm_counters, it closes the hwmon directories twice.  *)
InitListFails ==
  /\ InitFirst("PAPI_ECMP") /\ num_events' \in {0, PAPI_ECMP}
  /\ \/ "opendir" \in Failing /\ num_events' = 0 /\ UNCHANGED <<list, fault>>
     \/ "insert" \in Failing /\ num_events' = PAPI_ECMP
          /\ \E n \in 1 .. Len(Listing) :
               /\ list' = list + n - 1
               /\ fault' \in IF Listing[n].cray THEN {"closedir", fault} ELSE {fault}
  /\ UNCHANGED table

InitTableFails ==
  /\ "calloc" \in Failing
  /\ InitFirst("PAPI_ENOMEM")
  /\ num_events' = Len(Listing) /\ list' = list + Len(Listing)
  /\ UNCHANGED <<table, fault>>

(* The whole list is moved to the table, which has num_events entries.     *)
InitTable(retval) ==
  /\ InitFirst(retval)
  /\ num_events' = Len(Listing)
  /\ table' = TRUE /\ list' = 0
  /\ fault' = IF list + Len(Listing) > num_events' THEN "table overflow" ELSE fault

InitComponent == InitTable("PAPI_OK")

(* The file of an energy event cannot be opened for its initial value.     *)
InitEnergyFails ==
  /\ "energy" \in Failing /\ \E n \in DOMAIN Listing : Listing[n].energy
  /\ InitTable("PAPI_ESYS")

InitComponentStep ==
  InitAgain \/ InitListFails \/ InitTableFails \/ InitComponent \/ InitEnergyFails

(* _coretemp_shutdown_component: PAPI shuts down only what is enabled.     *)
(* num_events keeps its value.  PAPI frees its event sets.                 *)
StaysMarked == is_initialized   \* mutant: the mark is not taken back
Unmarked == FALSE

NothingToClose(e) == FALSE      \* mutant: the descriptors stay open
ToClose(e) == e \in fd

Shutdown ==
  /\ fault = "none" /\ up /\ \A s \in EventSets : pc[s] = "idle"
  /\ up' = FALSE
  /\ set' = [s \in EventSets |-> "none"]
  /\ natives' = [s \in EventSets |-> <<>>]
  /\ active_count' = [s \in EventSets |-> 0]
  /\ active_idx' = [s \in EventSets |-> Unused]
  /\ counts' = [s \in EventSets |-> [e \in Events |-> "none"]]
  /\ IF disabled = "PAPI_OK" /\ is_initialized
     THEN IF ~table /\ num_events > 0
          THEN fault' = "NULL table" /\ UNCHANGED <<tableVars, fileVars>>
          ELSE /\ is_initialized' = Unmarked /\ table' = FALSE
               /\ fd' = {}
               /\ descriptors' = [e \in Events |-> IF ToClose(e)
                                    THEN descriptors[e] - 1 ELSE descriptors[e]]
               /\ UNCHANGED <<num_events, list, fault>>
     ELSE UNCHANGED <<tableVars, fileVars, fault>>
  /\ UNCHANGED <<sessions, disabled, retvals, callVars>>

-----------------------------------------------------------------------------
Enabled == fault = "none" /\ up /\ disabled = "PAPI_OK"
(* The call a thread is in returns; its local variables are gone.         *)
Returns(s) ==
  /\ pc' = [pc EXCEPT ![s] = "idle"]
  /\ want' = [want EXCEPT ![s] = <<>>]
  /\ i' = [i EXCEPT ![s] = 1]

At(s, where) == fault = "none" /\ pc[s] = where
Goto(s, where) == pc' = [pc EXCEPT ![s] = where]

(* _coretemp_init_control_state reads every event of the table into the    *)
(* control state, which PAPI has cleared.                                  *)
InitControlState(s) ==
  /\ Enabled /\ At(s, "idle") /\ set[s] = "none"
  /\ IF ~table /\ num_events > 0
     THEN fault' = "NULL table" /\ UNCHANGED <<set, counts>>
     ELSE /\ set' = [set EXCEPT ![s] = "stopped"]
          /\ counts' = [counts EXCEPT ![s] = [e \in Events |->
                          IF e >= num_events THEN "none"
                          ELSE IF e \in fd THEN "old" ELSE "closed"]]
          /\ UNCHANGED fault
  /\ UNCHANGED <<papiVars, tableVars, fileVars, natives, active_count, active_idx,
                 callVars>>
(* _coretemp_update_control_state with the new list of the event set.      *)
LastMissing(l) == IF l = <<>> THEN 0 ELSE Len(l) - 1 \* mutant: off by one
Active(l) == Len(l)

Update(s, l) ==
  /\ Enabled /\ At(s, "idle") /\ set[s] = "stopped"
  /\ want' = [want EXCEPT ![s] = l]
  /\ active_count' = [active_count EXCEPT ![s] = Active(l)]
  /\ i' = [i EXCEPT ![s] = 1]
  /\ Goto(s, "update")
  /\ UNCHANGED <<papiVars, tableVars, fileVars, set, natives, active_idx, counts,
                 fault>>

Contains(l, e) == \E n \in DOMAIN l : l[n] = e

(* PAPI adds an event whose code _coretemp_ntv_code_to_name knows.         *)
AddEvent(s) ==
  \E e \in Wants[s] : /\ e < num_events /\ ~Contains(natives[s], e)
                      /\ Update(s, Append(natives[s], e))

Without(l, n) == [k \in 1 .. Len(l) - 1 |-> IF k < n THEN l[k] ELSE l[k + 1]]

RemoveEvent(s) ==
  \E n \in DOMAIN natives[s] : Update(s, Without(natives[s], n))

(* One event of the loop: its file is open already ...                     *)
TakeEvent(s) ==
  /\ active_idx' = [active_idx EXCEPT ![s][i[s]] = want[s][i[s]]]
  /\ i' = [i EXCEPT ![s] = @ + 1]

IsClosed(e) == e \notin fd

UpdateNext(s) ==
  /\ At(s, "update") /\ i[s] <= Len(want[s])
  /\ IF IsClosed(want[s][i[s]])
     THEN Goto(s, "open") /\ UNCHANGED <<active_idx, i>>
     ELSE TakeEvent(s) /\ UNCHANGED pc
  /\ UNCHANGED <<papiVars, tableVars, fileVars, set, natives, active_count,
                 counts, want, fault>>

(* ... or it was not when the call looked: the descriptor of another       *)
(* thread that opened it since is overwritten.                             *)
UpdateOpen(s) ==
  LET e == want[s][i[s]] IN
  /\ At(s, "open")
  /\ fd' = fd \cup {e}
  /\ descriptors' = [descriptors EXCEPT ![e] = @ + 1]
  /\ TakeEvent(s)
  /\ Goto(s, "update")
  /\ UNCHANGED <<papiVars, tableVars, set, natives, active_count, counts, want,
                 fault>>

(* The call returns PAPI_ESYS and PAPI keeps the list it had; active_count *)
(* and active_idx stay as they are.                                        *)
UpdateFails(s) ==
  /\ At(s, "open") /\ "open" \in Failing
  /\ Returns(s)
  /\ UNCHANGED <<papiVars, tableVars, fileVars, set, natives, ctlVars, fault>>

UpdateDone(s) ==
  /\ At(s, "update") /\ i[s] > Len(want[s])
  /\ natives' = [natives EXCEPT ![s] = want[s]]
  /\ Returns(s)
  /\ UNCHANGED <<papiVars, tableVars, fileVars, set, ctlVars, fault>>

-----------------------------------------------------------------------------
(* PAPI starts only a set that has events; _coretemp_start does nothing.   *)
Start(s) ==
  /\ Enabled /\ At(s, "idle") /\ set[s] = "stopped" /\ natives[s] # <<>>
  /\ set' = [set EXCEPT ![s] = "running"]
  /\ UNCHANGED <<papiVars, tableVars, fileVars, natives, ctlVars, callVars, fault>>

(* _coretemp_read and _coretemp_stop run the same loop; the samples of     *)
(* earlier calls are old now.                                              *)
Older(c) == [e \in Events |-> IF c[e] = "sample" THEN "old" ELSE c[e]]

Sample(s, after) ==
  /\ Enabled /\ At(s, "idle") /\ set[s] = "running"
  /\ counts' = [counts EXCEPT ![s] = Older(counts[s])]
  /\ i' = [i EXCEPT ![s] = 1]
  /\ set' = [set EXCEPT ![s] = after]
  /\ Goto(s, "read")
  /\ UNCHANGED <<papiVars, tableVars, fileVars, natives, active_count, active_idx,
                 want, fault>>

Read(s) == Sample(s, "running")
Stop(s) == Sample(s, "stopped")

(* getEventValue(idx): pread from the descriptor in the table.             *)
EventValues(e) ==
  IF e \in fd
  THEN {"sample"} \cup (IF "pread" \in Failing THEN {"unreadable"} ELSE {})
  ELSE {"closed"}

ReadNext(s) ==
  LET idx == active_idx[s][i[s]] IN
  /\ At(s, "read") /\ i[s] <= active_count[s]
  /\ \E v \in EventValues(idx) : counts' = [counts EXCEPT ![s][idx] = v]
  /\ i' = [i EXCEPT ![s] = @ + 1]
  /\ UNCHANGED <<papiVars, tableVars, fileVars, set, natives, active_count,
                 active_idx, pc, want, fault>>

ReadDone(s) ==
  /\ At(s, "read") /\ i[s] > active_count[s]
  /\ Goto(s, "returned")
  /\ UNCHANGED <<papiVars, tableVars, fileVars, set, natives, ctlVars, want, i,
                 fault>>

(* PAPI hands the counts of its native events to the caller.               *)
Return(s) ==
  /\ At(s, "returned")
  /\ Returns(s)
  /\ UNCHANGED <<papiVars, tableVars, fileVars, set, natives, ctlVars, fault>>

Call(s) ==
  \/ InitControlState(s)
  \/ AddEvent(s) \/ RemoveEvent(s)
  \/ UpdateNext(s) \/ UpdateOpen(s) \/ UpdateFails(s) \/ UpdateDone(s)
  \/ Start(s) \/ Read(s) \/ Stop(s) \/ ReadNext(s) \/ ReadDone(s) \/ Return(s)

Next == InitComponentStep \/ Shutdown \/ \E s \in EventSets : Call(s)

Spec == Init /\ [][Next]_vars

-----------------------------------------------------------------------------
TypeOK ==
  /\ up \in BOOLEAN /\ sessions \in 0 .. MaxSessions
  /\ disabled \in Retvals
  /\ retvals \in [1 .. MaxSessions -> Retvals \cup {"none"}]
  /\ is_initialized \in BOOLEAN /\ table \in BOOLEAN
  /\ num_events \in {0, PAPI_ECMP, Len(Listing)} /\ list \in Nat
  /\ fd \subseteq Events /\ descriptors \in [Events -> Int]
  /\ set \in [EventSets -> {"none", "stopped", "running"}]
  /\ natives \in [EventSets -> Seq(Events)]
  /\ active_count \in [EventSets -> 0 .. CORETEMP_MAX_COUNTERS]
  /\ active_idx \in [EventSets -> [1 .. CORETEMP_MAX_COUNTERS -> Events]]
  /\ counts \in [EventSets -> [Events ->
                  {"none", "sample", "old", "unreadable", "closed"}]]
  /\ pc \in [EventSets -> {"idle", "update", "open", "read", "returned"}]
  /\ want \in [EventSets -> Seq(Events)]
  /\ i \in [EventSets -> 1 .. CORETEMP_MAX_COUNTERS + 1]
  /\ fault \in {"none", "closedir", "NULL table", "table overflow"}

(* PAPI_read and PAPI_stop return for every event of the set a value read  *)
(* by that very call, also after an event could not be added and while     *)
(* other threads open the same files.                                      *)
ReadsReturnSamples ==
  \A s \in EventSets : pc[s] = "returned" =>
    \A n \in DOMAIN natives[s] :
      counts[s][natives[s][n]] \in {"sample", "unreadable"}

(* A table that is not there is used only in a session whose predecessor   *)
(* could not allocate it: that one left the mark of an initialised         *)
(* component behind. The list outgrows the table it is copied to only if   *)
(* the session before last gave up while it built the list, and the one    *)
(* after it was told that all is well and took the mark back. As long as   *)
(* initialisations succeed, in however many sessions, neither happens.     *)
TableSafe ==
  /\ fault = "NULL table" =>
       sessions > 1 /\ retvals[sessions - 1] = "PAPI_ENOMEM"
  /\ fault = "table overflow" =>
       /\ sessions > 2
       /\ retvals[sessions - 2] = "PAPI_ECMP" /\ retvals[sessions - 1] = "PAPI_OK"

(* After PAPI_shutdown no file is open that a single event set has used.   *)
Private == {e \in Events : \A s, r \in EventSets :
                            e \in Wants[s] /\ e \in Wants[r] => s = r}

DescriptorsReturned == ~up => \A e \in Private : descriptors[e] = 0

=============================================================================
