--------------------------- MODULE RocmSmiContext ---------------------------
(***************************************************************************)
(* Event sets of the PAPI rocm_smi component: the vector functions of      *)
(* linux-rocm-smi.c on top of the contexts of rocs.c.                      *)
(*                                                                         *)
(* Starting an event set opens a context (under _rocm_smi_lock), which     *)
(* takes all devices of its events, and then starts the events without the *)
(* lock; stopping it stops the events and then closes the context.  The    *)
(* component keeps its state per thread, the context per event set.        *)
(*                                                                         *)
(* An XGMI event owns a counter of the driver; the calls that open, start, *)
(* stop or close it may fail, those of all other events cannot.  Every     *)
(* event has one value, shared by all event sets; a value is abstracted to *)
(* who put it there.                                                       *)
(***************************************************************************)
EXTENDS Naturals, Sequences

CONSTANTS
  Threads,
  EventSets,
  ThreadOf,    \* the thread that uses an event set
  Events,      \* the native events
  Counters,    \* the XGMI events
  Writable,    \* the events with ROCS_ACCESS_MODE__WRITE
  Devices,
  NoDevice,    \* the device of an event of the whole system (-1)
  DeviceOf,    \* the device of an event
  EventLists,  \* the lists of events an application puts in a set
  Failing      \* the calls that may fail in this environment

Calls == {"alloc", "open", "start", "stop", "close", "access"}

ASSUME RocmSmiContextAssumption ==
  /\ ThreadOf \in [EventSets -> Threads]
  /\ DeviceOf \in [Events -> Devices \cup {NoDevice}]
  /\ NoDevice \notin Devices
  /\ Counters \subseteq Events /\ Writable \subseteq Events
  /\ \A e \in Counters : DeviceOf[e] # NoDevice
  /\ EventLists \subseteq Seq(Events)
  /\ Failing \subseteq Calls

VARIABLES
  events_id,   \* rocmsmi_control_t: the events of a set
  rocs_ctx,    \* rocmsmi_control_t: NULL, or a pointer to live or freed memory
  papi,        \* what PAPI thinks of the set                 (environment)
  state,       \* rocmsmi_context_t: the state of a thread
  ctx_state, ctx_mask, counts, \* the struct rocs_ctx of a set: its state,
                               \* device_mask and counters
  device_mask, \* the devices in use
  counter,     \* the driver's counter of an XGMI event
  value,       \* the value of an event
  hardware,    \* what was last written to the device
  pc, idx,     \* the call in progress on a set and its loop index
  fault        \* the undefined behaviour reached, "none" if none

valueVars == <<counts, value, hardware>>
ctxVars   == <<ctx_state, ctx_mask>>
ownVars   == <<events_id, rocs_ctx, papi, state, ctxVars, device_mask>>
vars == <<ownVars, counter, valueVars, pc, idx, fault>>

Zero       == <<"zero">>
Sampled(s) == <<"sampled", s>> \* read from the device for set s
Wanted(s)  == <<"wanted", s>>  \* handed to PAPI_write for set s
Values     == {Zero} \cup {Sampled(s) : s \in EventSets}
                     \cup {Wanted(s) : s \in EventSets}

MaskOfAll(list) ==   \* mutant: -1 is not skipped
  {DeviceOf[list[i]] : i \in DOMAIN list}
Mask(list) == {DeviceOf[list[i]] : i \in DOMAIN list} \ {NoDevice}

(* The first k events of a set, and those of them that have a counter.     *)
First(s, k) == {events_id[s][i] : i \in 1 .. k}
All(s)      == First(s, Len(events_id[s]))
SetCounters(es, v) ==
  [e \in Events |-> IF e \in es \cap Counters THEN v ELSE counter[e]]

(* The places where a call on an event of the set may fail.                *)
FailingAt(s, call) ==
  {k \in DOMAIN events_id[s] : call \in Failing /\ events_id[s][k] \in Counters}

Init ==
  /\ events_id = [s \in EventSets |-> <<>>]
  /\ rocs_ctx = [s \in EventSets |-> "NULL"]
  /\ papi = [s \in EventSets |-> "stopped"]
  /\ state = [t \in Threads |-> {}]
  /\ ctx_state = [s \in EventSets |-> {}]
  /\ ctx_mask = [s \in EventSets |-> {}]
  /\ counts = [s \in EventSets |-> <<>>]
  /\ device_mask = {}
  /\ counter = [e \in Events |-> "none"]
  /\ value = [e \in Events |-> Zero]
  /\ hardware = [e \in Events |-> Zero]
  /\ pc = [s \in EventSets |-> "idle"]
  /\ idx = [s \in EventSets |-> 1]
  /\ fault = "none"

Peers(s) == {r \in EventSets : ThreadOf[r] = ThreadOf[s]}

(* A thread makes one call at a time; nothing happens after a fault.       *)
Called(s) == fault = "none" /\ \A r \in Peers(s) : pc[r] = "idle"
In(s, where) == fault = "none" /\ pc[s] = where

-----------------------------------------------------------------------------
(* _rocm_smi_update_control_state: PAPI calls it for a stopped set; it is  *)
(* refused while any set of the thread runs.                               *)
UpdateControlState(s) ==
  /\ Called(s) /\ papi[s] = "stopped"
  /\ "running" \notin state[ThreadOf[s]]
  /\ \/ \E list \in EventLists : events_id' = [events_id EXCEPT ![s] = list]
     \/ "alloc" \in Failing /\ events_id' = [events_id EXCEPT ![s] = <<>>]
  /\ UNCHANGED <<rocs_ctx, papi, state, ctxVars, device_mask, counter,
                 valueVars, pc, idx, fault>>

(* _rocm_smi_cleanup_eventset: refused while the set has a context.        *)
CleanupEventset(s) ==
  /\ Called(s) /\ papi[s] = "stopped" /\ rocs_ctx[s] = "NULL"
  /\ events_id' = [events_id EXCEPT ![s] = <<>>]
  /\ UNCHANGED <<rocs_ctx, papi, state, ctxVars, device_mask, counter,
                 valueVars, pc, idx, fault>>

(* PAPI_start: the set has events and no set of the thread is running.     *)
Startable(s) ==
  /\ Called(s) /\ events_id[s] # <<>>
  /\ \A r \in Peers(s) : papi[r] = "stopped"
  /\ "opened" \notin state[ThreadOf[s]]

ConflictIfAllTaken(s) ==   \* mutant: refused only if all its devices are taken
  Mask(events_id[s]) # {} /\ Mask(events_id[s]) \subseteq device_mask
Conflict(s) == Mask(events_id[s]) \cap device_mask # {}

(* The context of a set is freed or forgotten, with its counters array.    *)
Discard(s) ==
  /\ ctx_state' = [ctx_state EXCEPT ![s] = {}]
  /\ ctx_mask' = [ctx_mask EXCEPT ![s] = {}]
  /\ counts' = [counts EXCEPT ![s] = <<>>]

(* rocs_ctx_open finds a device in use: its error path frees the context   *)
(* the set still points to.                                                *)
OpenConflict(s) ==
  /\ Startable(s) /\ Conflict(s)
  /\ \/ rocs_ctx[s] = "NULL" /\ UNCHANGED <<rocs_ctx, ctxVars, counts, fault>>
     \/ /\ rocs_ctx[s] = "live"
        /\ rocs_ctx' = [rocs_ctx EXCEPT ![s] = "dangling"]
        /\ Discard(s) /\ UNCHANGED fault
     \/ /\ rocs_ctx[s] = "dangling" /\ fault' = "double free"
        /\ UNCHANGED <<rocs_ctx, ctxVars, counts>>
  /\ UNCHANGED <<events_id, papi, state, device_mask, counter, value, hardware,
                 pc, idx>>

(* rocs_ctx_open fails after the devices were acquired: at one of the two  *)
(* allocations or at an event.  The devices are not released; the counters *)
(* opened so far are closed, as far as that succeeds.                      *)
OpenFails(s) ==
  /\ Startable(s) /\ ~Conflict(s)
  /\ device_mask' = device_mask \cup Mask(events_id[s])
  /\ \/ /\ "alloc" \in Failing /\ UNCHANGED counter
        /\ \E p \in {"NULL", "dangling"} : rocs_ctx' = [rocs_ctx EXCEPT ![s] = p]
     \/ /\ rocs_ctx' = [rocs_ctx EXCEPT ![s] = "dangling"]
        /\ \E k \in FailingAt(s, "open") :
             \E kept \in SUBSET First(s, k - 1) :
               /\ kept = {} \/ "close" \in Failing
               /\ counter' = SetCounters(kept, "created")
  /\ Discard(s)
  /\ UNCHANGED <<events_id, papi, state, value, hardware, pc, idx, fault>>

(* rocs_ctx_open succeeds.                                                 *)
Open(s) ==
  /\ Startable(s) /\ ~Conflict(s)
  /\ device_mask' = device_mask \cup Mask(events_id[s])
  /\ counter' = SetCounters(All(s), "created")
  /\ rocs_ctx' = [rocs_ctx EXCEPT ![s] = "live"]
  /\ ctx_state' = [ctx_state EXCEPT ![s] = {"opened"}]
  /\ ctx_mask' = [ctx_mask EXCEPT ![s] = Mask(events_id[s])]
  /\ counts' = [counts EXCEPT ![s] = [i \in DOMAIN events_id[s] |-> Zero]]
  /\ state' = [state EXCEPT ![ThreadOf[s]] = {"opened"}]
  /\ pc' = [pc EXCEPT ![s] = "start"]
  /\ UNCHANGED <<events_id, papi, value, hardware, idx, fault>>

(* start_simple clears the value of an event.                              *)
ZeroValues(es) == [e \in Events |-> IF e \in es THEN Zero ELSE value[e]]

(* rocs_ctx_start, after the lock was released.                            *)
Start(s) ==
  /\ In(s, "start")
  /\ counter' = SetCounters(All(s), "started")
  /\ value' = ZeroValues(All(s) \ Counters)
  /\ ctx_state' = [ctx_state EXCEPT ![s] = @ \cup {"running"}]
  /\ state' = [state EXCEPT ![ThreadOf[s]] = @ \cup {"running"}]
  /\ papi' = [papi EXCEPT ![s] = "running"]
  /\ pc' = [pc EXCEPT ![s] = "idle"]
  /\ UNCHANGED <<events_id, rocs_ctx, ctx_mask, device_mask, counts, hardware,
                 idx, fault>>

(* rocs_ctx_start fails at an event.  Its error path stops that event      *)
(* again and again instead of the ones that were started.                  *)
StartFails(s) ==
  /\ In(s, "start")
  /\ \E k \in FailingAt(s, "start") :
       /\ counter' = SetCounters(First(s, k - 1), "started")
       /\ value' = ZeroValues(First(s, k - 1) \ Counters)
  /\ pc' = [pc EXCEPT ![s] = "abort"]
  /\ UNCHANGED <<ownVars, counts, hardware, idx, fault>>

(* _rocm_smi_stop: PAPI_stop of a running set.  A failure leaves it        *)
(* running with some of its counters stopped, and it may be tried again.   *)
Stoppable(s) ==
  Called(s) /\ papi[s] = "running" /\ "running" \in state[ThreadOf[s]]

StopNone(s, k) == counter   \* mutant: nothing is stopped
StopFirst(s, k) ==
  [e \in Events |-> IF e \in First(s, k) /\ counter[e] = "started"
                    THEN "created" ELSE counter[e]]

Stop(s) ==
  /\ Stoppable(s)
  /\ counter' = StopFirst(s, Len(events_id[s]))
  /\ ctx_state' = [ctx_state EXCEPT ![s] = @ \ {"running"}]
  /\ state' = [state EXCEPT ![ThreadOf[s]] = @ \ {"running"}]
  /\ pc' = [pc EXCEPT ![s] = "close"]
  /\ UNCHANGED <<events_id, rocs_ctx, ctx_mask, papi, device_mask, valueVars,
                 idx, fault>>

StopFails(s) ==
  /\ Stoppable(s)
  /\ \E k \in FailingAt(s, "stop") : counter' = StopFirst(s, k - 1)
  /\ UNCHANGED <<ownVars, valueVars, pc, idx, fault>>

(* rocs_ctx_close, at the end of _rocm_smi_stop or on the error path of    *)
(* _rocm_smi_start; only the former forgets the context.                   *)
Closing(s) == In(s, "close") \/ In(s, "abort")

KeepMask(s) == device_mask       \* mutant: the devices are not released
ClearMask(s) == {}               \* mutant: all devices are released
Released(s) == IF ctx_mask[s] \subseteq device_mask
               THEN device_mask \ ctx_mask[s] ELSE device_mask

PointerKept(s) == "dangling"   \* mutant: rocs_ctx = NULL is missing in stop
Pointer(s) == IF pc[s] = "close" THEN "NULL" ELSE "dangling"

Close(s) ==
  /\ Closing(s)
  /\ counter' = SetCounters(All(s), "none")
  /\ device_mask' = Released(s)
  /\ rocs_ctx' = [rocs_ctx EXCEPT ![s] = Pointer(s)]
  /\ Discard(s)
  /\ state' = [state EXCEPT ![ThreadOf[s]] = {}]
  /\ papi' = [papi EXCEPT ![s] = "stopped"]
  /\ pc' = [pc EXCEPT ![s] = "idle"]
  /\ UNCHANGED <<events_id, value, hardware, idx, fault>>

(* It fails at an event: nothing is released or freed.  PAPI still thinks  *)
(* that a set whose PAPI_stop failed is running.                           *)
CloseFails(s) ==
  /\ Closing(s)
  /\ \E k \in FailingAt(s, "close") :
       counter' = SetCounters(First(s, k - 1), "none")
  /\ \/ /\ pc[s] = "close"
        /\ rocs_ctx' = [rocs_ctx EXCEPT ![s] = "NULL"]
        /\ Discard(s)
     \/ pc[s] = "abort" /\ UNCHANGED <<rocs_ctx, ctxVars, counts>>
  /\ state' = [state EXCEPT ![ThreadOf[s]] = {}]
  /\ pc' = [pc EXCEPT ![s] = "idle"]
  /\ UNCHANGED <<events_id, papi, device_mask, value, hardware, idx, fault>>

-----------------------------------------------------------------------------
(* _rocm_smi_read, write and reset: only while the thread is running.      *)
(* Nothing locks the events.                                               *)
CallLoop(s, where) ==
  /\ Stoppable(s)
  /\ pc' = [pc EXCEPT ![s] = where]
  /\ UNCHANGED <<ownVars, counter, valueVars, idx, fault>>

Read(s)  == CallLoop(s, "read")
Write(s) == CallLoop(s, "write")

Current(s) == events_id[s][idx[s]]

(* The call returns; its loop index is gone.                               *)
Return(s) ==
  /\ pc' = [pc EXCEPT ![s] = "idle"]
  /\ idx' = [idx EXCEPT ![s] = 1]

(* After an event the loop takes the next one or returns.                  *)
LoopNext(s, where) ==
  IF idx[s] < Len(events_id[s])
  THEN /\ pc' = [pc EXCEPT ![s] = where]
       /\ idx' = [idx EXCEPT ![s] = @ + 1]
  ELSE Return(s)

(* An error of an access function ends the call.                           *)
AccessFails(s) ==
  /\ \/ In(s, "read") /\ "access" \in Failing
     \/ In(s, "put") /\ ("access" \in Failing \/ Current(s) \notin Writable)
  /\ Return(s)
  /\ UNCHANGED <<ownVars, counter, valueVars, fault>>

(* rocs_ctx_read: the access function stores the sample in the event, the  *)
(* loop then copies it.                                                    *)
ReadAccess(s) ==
  /\ In(s, "read")
  /\ value' = [value EXCEPT ![Current(s)] = Sampled(s)]
  /\ pc' = [pc EXCEPT ![s] = "copy"]
  /\ UNCHANGED <<ownVars, counter, counts, hardware, idx, fault>>

ReadCopy(s) ==
  /\ In(s, "copy")
  /\ counts' = [counts EXCEPT ![s][idx[s]] = value[Current(s)]]
  /\ LoopNext(s, "read")
  /\ UNCHANGED <<ownVars, counter, value, hardware, fault>>

(* rocs_ctx_write stores the value in the event also when the event cannot *)
(* be written; the access function then takes it from there.               *)
WriteValue(s) ==
  /\ In(s, "write")
  /\ value' = [value EXCEPT ![Current(s)] = Wanted(s)]
  /\ pc' = [pc EXCEPT ![s] = "put"]
  /\ UNCHANGED <<ownVars, counter, counts, hardware, idx, fault>>

WritePut(s) ==
  /\ In(s, "put") /\ Current(s) \in Writable
  /\ hardware' = [hardware EXCEPT ![Current(s)] = value[Current(s)]]
  /\ LoopNext(s, "write")
  /\ UNCHANGED <<ownVars, counter, counts, value, fault>>

(* rocs_ctx_reset clears the values of the events and the counters.        *)
Reset(s) ==
  /\ Stoppable(s)
  /\ value' = ZeroValues(All(s))
  /\ counts' = [counts EXCEPT ![s] = [i \in DOMAIN events_id[s] |-> Zero]]
  /\ UNCHANGED <<ownVars, counter, hardware, pc, idx, fault>>

StepOf(s) ==
  \/ UpdateControlState(s) \/ CleanupEventset(s)
  \/ OpenConflict(s) \/ OpenFails(s) \/ Open(s) \/ Start(s) \/ StartFails(s)
  \/ Stop(s) \/ StopFails(s) \/ Close(s) \/ CloseFails(s)
  \/ Read(s) \/ Write(s) \/ AccessFails(s) \/ ReadAccess(s) \/ ReadCopy(s)
  \/ WriteValue(s) \/ WritePut(s) \/ Reset(s)

Next == \E s \in EventSets : StepOf(s)

Spec == Init /\ [][Next]_vars

-----------------------------------------------------------------------------
OwnerTypeOK ==
  /\ events_id \in [EventSets -> EventLists \cup {<<>>}]
  /\ rocs_ctx \in [EventSets -> {"NULL", "live", "dangling"}]
  /\ papi \in [EventSets -> {"stopped", "running"}]
  /\ state \in [Threads -> SUBSET {"opened", "running"}]
  /\ ctx_state \in [EventSets -> SUBSET {"opened", "running"}]
  /\ ctx_mask \in [EventSets -> SUBSET Devices]
  /\ device_mask \in SUBSET Devices
  /\ pc \in [EventSets -> {"idle", "start", "abort", "close", "read", "copy",
                           "write", "put"}]
  /\ idx \in [EventSets -> Nat]
  /\ fault \in {"none", "double free"}

ValueTypeOK ==
  /\ counts \in [EventSets -> Seq(Values)]
  /\ counter \in [Events -> {"none", "created", "started"}]
  /\ value \in [Events -> Values]
  /\ hardware \in [Events -> Values]

(* Every variable has the values the code can give it; in particular no    *)
(* event without a device sets a bit of device_mask.                       *)
TypeOK == OwnerTypeOK /\ ValueTypeOK

(* The devices of two open contexts are disjoint and marked in device_mask *)
(* (acquire_devices and release_devices), whatever call failed before.     *)
DevicesExclusive ==
  \A s \in EventSets :
    /\ ctx_mask[s] \subseteq device_mask
    /\ \A r \in EventSets \ {s} : ctx_mask[s] \cap ctx_mask[r] = {}
(* Between the access function of an event and the use of its value no     *)
(* other set touches it, although no lock is held in rocs_ctx_read and     *)
(* rocs_ctx_write: true of the events of a device.                         *)
ValueUndisturbed ==
  \A s \in EventSets :
    /\ pc[s] = "copy" /\ DeviceOf[Current(s)] # NoDevice
         => value[Current(s)] = Sampled(s)
    /\ pc[s] = "put" /\ DeviceOf[Current(s)] # NoDevice
         => value[Current(s)] = Wanted(s)
(* A set that PAPI counts as running, with no call in progress, has its    *)
(* context and its thread can stop and read it; a stopped set can be       *)
(* cleaned up (_rocm_smi_cleanup_eventset) and started again.              *)
PapiAgrees ==
  \A s \in EventSets : Called(s) =>
    IF papi[s] = "running"
    THEN /\ rocs_ctx[s] = "live" /\ ctx_state[s] = {"opened", "running"}
         /\ state[ThreadOf[s]] = {"opened", "running"}
    ELSE rocs_ctx[s] = "NULL"

(* When no event set is in use, no device is marked and no counter of the  *)
(* driver is left.                                                         *)
NothingLeft ==
  (\A s \in EventSets : papi[s] = "stopped" /\ pc[s] = "idle") =>
    /\ device_mask = {}
    /\ \A e \in Events : counter[e] = "none"
(* A counter that was started is stopped before it is destroyed.           *)
StoppedBeforeDestroyed ==
  [][\A e \in Counters : counter[e] = "started" => counter'[e] # "none"]_vars

(* The contexts implement the ownership of devices.                        *)
Ownership == INSTANCE DeviceOwnership WITH
  Owners  <- EventSets,
  MayLose <- Failing \cap {"alloc", "open", "close"} # {},
  holds   <- [s \in EventSets |-> ctx_mask[s]],
  lost    <- device_mask \ UNION {ctx_mask[s] : s \in EventSets}

OwnershipSpec == Ownership!Spec

=============================================================================
