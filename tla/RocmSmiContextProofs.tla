------------------------ MODULE RocmSmiContextProofs ------------------------
(***************************************************************************)
(* Devices are exclusive, values are not disturbed and the contexts        *)
(* implement DeviceOwnership, for any number of threads, event sets,       *)
(* events and devices and whatever calls may fail; when only PAPI_stop and *)
(* the access functions may, PAPI and the component agree on every set,    *)
(* nothing is left behind and no running counter is destroyed.             *)
(***************************************************************************)
EXTENDS RocmSmiContext, SequenceTheorems, TLAPS

Loop == {"read", "copy", "write", "put"}   \* in PAPI_read or PAPI_write

(* The set has a context that a call works on or that is running.          *)
Using(s) == pc[s] # "idle" \/ "running" \in ctx_state[s]

(* The calls of a thread follow one another.                               *)
SerialInv == \A s, r \in EventSets :
  ThreadOf[r] = ThreadOf[s] /\ r # s /\ pc[s] # "idle" => pc[r] = "idle"

(* What PAPI thinks of the set that a call works on.                       *)
CallInv ==
  /\ \A s, r \in EventSets :
       ThreadOf[r] = ThreadOf[s] /\ pc[s] \in {"start", "abort"}
         => papi[r] = "stopped"
  /\ \A s \in EventSets : pc[s] \in Loop \cup {"close"} => papi[s] = "running"

(* A running context belongs to a set that PAPI counts as running, and it  *)
(* is the one that the state of the thread speaks of.                      *)
RunInv ==
  /\ \A s \in EventSets : "running" \in ctx_state[s] => papi[s] = "running"
  /\ \A s \in EventSets : papi[s] = "running" /\ "running" \in state[ThreadOf[s]]
       => "running" \in ctx_state[s]

(* A context in use holds the devices of the events of its set.            *)
MaskInv == \A s \in EventSets : Using(s) =>
  ctx_mask[s] = Mask(events_id[s]) /\ events_id[s] # <<>>

(* A context that nobody uses is left over from a close that failed.       *)
StaleInv == \A s \in EventSets : pc[s] = "idle" /\ papi[s] = "stopped" =>
  ctx_mask[s] = {} \/ "close" \in Failing

(* The loop index is in bounds.                                            *)
IdxInv == \A s \in EventSets :
  IF pc[s] \in Loop THEN idx[s] \in DOMAIN events_id[s] ELSE idx[s] = 1

(* The counters array of a context has a cell for every event.             *)
CountsInv == \A s \in EventSets :
  Using(s) => DOMAIN counts[s] = DOMAIN events_id[s]

IInv == /\ TypeOK /\ SerialInv /\ CallInv /\ RunInv /\ MaskInv /\ StaleInv /\ IdxInv
        /\ DevicesExclusive /\ ValueUndisturbed /\ CountsInv

USE DEF Loop, Called, In, Startable, Stoppable, Closing, Discard, Return,
        Pointer, Peers, ctxVars, ownVars, valueVars

(* Every list of events has its devices among Devices.                     *)
LEMMA Lists ==
  ASSUME OwnerTypeOK, NEW s \in EventSets
  PROVE  /\ events_id[s] \in Seq(Events)
         /\ Mask(events_id[s]) \subseteq Devices
         /\ events_id[s] # <<>> => 1 \in DOMAIN events_id[s]
<1>1. events_id[s] \in Seq(Events)
  <2>1. <<>> \in Seq(Events)
    OBVIOUS
  <2>2. QED  BY <2>1, RocmSmiContextAssumption DEF OwnerTypeOK
<1>2. QED  BY <1>1, RocmSmiContextAssumption DEF Mask

(* Only Released changes which devices are marked when a context closes.   *)
LEMMA ReleasedMask ==
  ASSUME OwnerTypeOK, DevicesExclusive, NEW s \in EventSets
  PROVE  Released(s) = device_mask \ ctx_mask[s]
BY DEF Released, DevicesExclusive

LEMMA LoopTypes ==
  ASSUME OwnerTypeOK, NEW s \in EventSets, NEW w \in Loop, LoopNext(s, w)
  PROVE  /\ pc' \in [EventSets -> {"idle", "start", "abort", "close", "read",
                                   "copy", "write", "put"}]
         /\ idx' \in [EventSets -> Nat]
<1> idx \in [EventSets -> Nat]
  BY DEF OwnerTypeOK
<1>1. idx[s] + 1 \in Nat
  OBVIOUS
<1>2. /\ \/ pc' = [pc EXCEPT ![s] = w]
         \/ pc' = [pc EXCEPT ![s] = "idle"]
      /\ \/ idx' = [idx EXCEPT ![s] = idx[s] + 1]
         \/ idx' = [idx EXCEPT ![s] = 1]
  BY DEF LoopNext
<1>3. idx' \in [EventSets -> Nat]
  BY <1>1, <1>2
<1>4. pc' \in [EventSets -> {"idle", "start", "abort", "close", "read",
                             "copy", "write", "put"}]
  BY <1>2 DEF OwnerTypeOK
<1>5. QED  BY <1>3, <1>4

(* One step of any set keeps the types.                                    *)
LEMMA OwnerTypes ==
  ASSUME IInv, [Next]_vars
  PROVE  OwnerTypeOK'
<1> USE DEF IInv, TypeOK, OwnerTypeOK
<1>0. CASE UNCHANGED vars
  BY <1>0 DEF vars
<1> SUFFICES ASSUME NEW s \in EventSets, StepOf(s)
             PROVE  OwnerTypeOK'
  BY <1>0 DEF Next
<1> Mask(events_id[s]) \in SUBSET Devices
  BY Lists
<1> state \in [Threads -> SUBSET {"opened", "running"}] /\ ThreadOf[s] \in Threads
  BY RocmSmiContextAssumption
<1>1. CASE UpdateControlState(s)
  <2>1. <<>> \in EventLists \cup {<<>>}
    OBVIOUS
  <2>2. PICK list \in EventLists \cup {<<>>} : events_id' = [events_id EXCEPT ![s] = list]
    BY <1>1, <2>1 DEF UpdateControlState
  <2>3. UNCHANGED <<rocs_ctx, papi, state, ctx_state, ctx_mask, device_mask, pc, idx, fault>>
    BY <1>1 DEF UpdateControlState
  <2>4. QED  BY <2>2, <2>3
<1>2. CASE CleanupEventset(s)
  BY <1>2 DEF CleanupEventset
<1>3. CASE OpenConflict(s)
  BY <1>3 DEF OpenConflict
<1>4. CASE OpenFails(s)
  <2>1. \E p \in {"NULL", "dangling"} : rocs_ctx' = [rocs_ctx EXCEPT ![s] = p]
    BY <1>4 DEF OpenFails
  <2>2. rocs_ctx' \in [EventSets -> {"NULL", "live", "dangling"}]
    BY <2>1
  <2>3. QED  BY <1>4, <2>2 DEF OpenFails
<1>5. CASE Open(s)
  BY <1>5 DEF Open
<1>6. CASE Start(s)
  BY <1>6 DEF Start
<1>7. CASE StartFails(s)
  BY <1>7 DEF StartFails
<1>8. CASE Stop(s)
  BY <1>8 DEF Stop
<1>9. CASE StopFails(s)
  BY <1>9 DEF StopFails
<1>10. CASE Close(s)
  BY <1>10, ReleasedMask DEF Close
<1>11. CASE CloseFails(s)
  BY <1>11 DEF CloseFails
<1>12. CASE Read(s) \/ Write(s)
  BY <1>12 DEF Read, Write, CallLoop
<1>13. CASE AccessFails(s)
  <2>1. /\ UNCHANGED <<ownVars, fault>>
        /\ pc' = [pc EXCEPT ![s] = "idle"] /\ idx' = [idx EXCEPT ![s] = 1]
    BY <1>13 DEF AccessFails
  <2>2. QED  BY <2>1
<1>14. CASE ReadAccess(s) \/ WriteValue(s)
  BY <1>14 DEF ReadAccess, WriteValue
<1>15. CASE ReadCopy(s)
  BY <1>15, LoopTypes DEF ReadCopy
<1>16. CASE WritePut(s)
  BY <1>16, LoopTypes DEF WritePut
<1>17. CASE Reset(s)
  BY <1>17 DEF Reset
<1> QED  BY <1>1, <1>2, <1>3, <1>4, <1>5, <1>6, <1>7, <1>8, <1>9, <1>10, <1>11,
            <1>12, <1>13, <1>14, <1>15, <1>16, <1>17 DEF StepOf

(* A step moves only the control of the set it works on, and only when no  *)
(* other call of the thread is in progress or the call is its own.         *)
LEMMA Moves ==
  ASSUME NEW s \in EventSets, StepOf(s)
  PROVE  \/ UNCHANGED pc
         \/ /\ \E v : pc' = [pc EXCEPT ![s] = v]
            /\ pc[s] # "idle" \/ \A r \in Peers(s) : pc[r] = "idle"
BY DEF StepOf, UpdateControlState, CleanupEventset, OpenConflict, OpenFails,
       Open, Start, StartFails, Stop, StopFails, Close, CloseFails, Read, Write,
       CallLoop, AccessFails, ReadAccess, WriteValue, ReadCopy, WritePut,
       LoopNext, Reset

LEMMA SerialStep ==
  ASSUME IInv, [Next]_vars
  PROVE  SerialInv'
<1> pc \in [EventSets -> {"idle", "start", "abort", "close", "read", "copy",
                          "write", "put"}] /\ SerialInv
  BY DEF IInv, TypeOK, OwnerTypeOK
<1>1. CASE UNCHANGED vars
  BY <1>1 DEF vars, SerialInv
<1>2. CASE Next
  <2>1. PICK s \in EventSets : StepOf(s)
    BY <1>2 DEF Next
  <2>2. CASE UNCHANGED pc
    BY <2>2 DEF SerialInv
  <2>3. CASE \E v : pc' = [pc EXCEPT ![s] = v]
    BY <2>1, <2>3, Moves DEF SerialInv
  <2>4. QED  BY <2>1, <2>2, <2>3, Moves
<1>3. QED  BY <1>1, <1>2

(* Calls of one thread stay sequential.                                    *)
LEMMA CallStep ==
  ASSUME IInv, [Next]_vars
  PROVE  CallInv'
<1> USE DEF CallInv
<1>0. CASE UNCHANGED vars
  BY <1>0 DEF vars, IInv
<1> SUFFICES ASSUME NEW s \in EventSets, StepOf(s)
             PROVE  CallInv'
  BY <1>0 DEF Next
<1> /\ CallInv /\ SerialInv
    /\ papi \in [EventSets -> {"stopped", "running"}]
    /\ pc \in [EventSets -> {"idle", "start", "abort", "close", "read", "copy",
                             "write", "put"}]
  BY DEF IInv, TypeOK, OwnerTypeOK
<1>1. CASE UpdateControlState(s)
  BY <1>1 DEF UpdateControlState
<1>2. CASE CleanupEventset(s)
  BY <1>2 DEF CleanupEventset
<1>3. CASE OpenConflict(s)
  BY <1>3 DEF OpenConflict
<1>4. CASE OpenFails(s)
  BY <1>4 DEF OpenFails
<1>5. CASE Open(s)
  BY <1>5 DEF Open
<1>6. CASE Start(s)
  <2>1. /\ pc' = [pc EXCEPT ![s] = "idle"] /\ pc[s] = "start"
        /\ papi' = [papi EXCEPT ![s] = "running"]
    BY <1>6 DEF Start
  <2>2. \A q \in EventSets : pc'[q] = "idle" \/ pc'[q] = pc[q]
    BY <2>1
  <2>3. \A q \in EventSets : ThreadOf[q] = ThreadOf[s] => pc'[q] = "idle"
    BY <2>1 DEF SerialInv
  <2>4. \A q \in EventSets : papi'[q] = papi[q] \/ q = s
    BY <2>1
  <2>5. ASSUME NEW q \in EventSets, NEW r \in EventSets,
               ThreadOf[r] = ThreadOf[q], pc'[q] \in {"start", "abort"}
        PROVE  papi'[r] = "stopped"
    BY <2>2, <2>3, <2>4, <2>5
  <2>6. ASSUME NEW q \in EventSets, pc'[q] \in Loop \cup {"close"}
        PROVE  papi'[q] = "running"
    BY <2>1, <2>6
  <2>7. QED  BY <2>5, <2>6
<1>7. CASE StartFails(s)
  BY <1>7 DEF StartFails
<1>8. CASE Stop(s)
  BY <1>8 DEF Stop
<1>9. CASE StopFails(s)
  BY <1>9 DEF StopFails
<1>10. CASE Close(s)
  BY <1>10 DEF Close
<1>11. CASE CloseFails(s)
  BY <1>11 DEF CloseFails
<1>12. CASE Read(s) \/ Write(s)
  BY <1>12 DEF Read, Write, CallLoop
<1>13. CASE AccessFails(s)
  BY <1>13 DEF AccessFails
<1>14. CASE ReadAccess(s) \/ WriteValue(s)
  BY <1>14 DEF ReadAccess, WriteValue
<1>15. CASE ReadCopy(s)
  BY <1>15 DEF ReadCopy, LoopNext
<1>16. CASE WritePut(s)
  BY <1>16 DEF WritePut, LoopNext
<1>17. CASE Reset(s)
  BY <1>17 DEF Reset
<1> QED  BY <1>1, <1>2, <1>3, <1>4, <1>5, <1>6, <1>7, <1>8, <1>9, <1>10, <1>11, <1>12, <1>13, <1>14, <1>15, <1>16, <1>17 DEF StepOf

(* Running contexts stay those that PAPI counts as running.                *)
LEMMA RunStep ==
  ASSUME IInv, [Next]_vars
  PROVE  RunInv'
<1> USE DEF RunInv
<1>0. CASE UNCHANGED vars
  BY <1>0 DEF vars, IInv
<1> SUFFICES ASSUME NEW s \in EventSets, StepOf(s)
             PROVE  RunInv'
  BY <1>0 DEF Next
<1> /\ CallInv /\ SerialInv /\ RunInv /\ ThreadOf \in [EventSets -> Threads]
    /\ papi \in [EventSets -> {"stopped", "running"}]
    /\ state \in [Threads -> SUBSET {"opened", "running"}]
    /\ ctx_state \in [EventSets -> SUBSET {"opened", "running"}]
  BY RocmSmiContextAssumption DEF IInv, TypeOK, OwnerTypeOK
<1> USE DEF CallInv
<1>1. CASE UpdateControlState(s)
  BY <1>1 DEF UpdateControlState
<1>2. CASE CleanupEventset(s)
  BY <1>2 DEF CleanupEventset
<1>3. CASE OpenConflict(s)
  <2>1. UNCHANGED <<papi, state>> /\ papi[s] = "stopped"
    BY <1>3 DEF OpenConflict
  <2>2. UNCHANGED ctx_state \/ ctx_state' = [ctx_state EXCEPT ![s] = {}]
    BY <1>3 DEF OpenConflict
  <2>3. QED  BY <2>1, <2>2
<1>4. CASE OpenFails(s)
  BY <1>4 DEF OpenFails
<1>5. CASE Open(s)
  BY <1>5 DEF Open
<1>6. CASE Start(s)
  BY <1>6 DEF Start
<1>7. CASE StartFails(s)
  BY <1>7 DEF StartFails
<1>8. CASE Stop(s)
  BY <1>8 DEF Stop
<1>9. CASE StopFails(s)
  BY <1>9 DEF StopFails
<1>10. CASE Close(s)
  BY <1>10 DEF Close
<1>11. CASE CloseFails(s)
  BY <1>11 DEF CloseFails
<1>12. CASE Read(s) \/ Write(s)
  BY <1>12 DEF Read, Write, CallLoop
<1>13. CASE AccessFails(s)
  BY <1>13 DEF AccessFails
<1>14. CASE ReadAccess(s) \/ WriteValue(s)
  BY <1>14 DEF ReadAccess, WriteValue
<1>15. CASE ReadCopy(s)
  BY <1>15 DEF ReadCopy, LoopNext
<1>16. CASE WritePut(s)
  BY <1>16 DEF WritePut, LoopNext
<1>17. CASE Reset(s)
  BY <1>17 DEF Reset
<1> QED  BY <1>1, <1>2, <1>3, <1>4, <1>5, <1>6, <1>7, <1>8, <1>9, <1>10, <1>11, <1>12, <1>13, <1>14, <1>15, <1>16, <1>17 DEF StepOf

(* A context in use keeps the devices of the events of its set.            *)
LEMMA MaskStep ==
  ASSUME IInv, [Next]_vars
  PROVE  MaskInv'
<1> USE DEF MaskInv, Using
<1>0. CASE UNCHANGED vars
  BY <1>0 DEF vars, IInv
<1> SUFFICES ASSUME NEW s \in EventSets, StepOf(s)
             PROVE  MaskInv'
  BY <1>0 DEF Next
<1> /\ MaskInv /\ RunInv
    /\ pc \in [EventSets -> {"idle", "start", "abort", "close", "read", "copy",
                             "write", "put"}]
    /\ papi \in [EventSets -> {"stopped", "running"}]
    /\ ctx_state \in [EventSets -> SUBSET {"opened", "running"}]
    /\ ctx_mask \in [EventSets -> SUBSET Devices]
    /\ events_id \in [EventSets -> EventLists \cup {<<>>}]
  BY DEF IInv, TypeOK, OwnerTypeOK
<1> USE DEF RunInv
<1>1. CASE UpdateControlState(s)
  BY <1>1 DEF UpdateControlState
<1>2. CASE CleanupEventset(s)
  BY <1>2 DEF CleanupEventset
<1>3. CASE OpenConflict(s)
  BY ZenonT(30), <1>3 DEF OpenConflict
<1>4. CASE OpenFails(s)
  BY <1>4 DEF OpenFails
<1>5. CASE Open(s)
  BY <1>5 DEF Open
<1>6. CASE Start(s)
  BY <1>6 DEF Start
<1>7. CASE StartFails(s)
  BY <1>7 DEF StartFails
<1>8. CASE Stop(s)
  BY <1>8 DEF Stop
<1>9. CASE StopFails(s)
  BY <1>9 DEF StopFails
<1>10. CASE Close(s)
  BY <1>10 DEF Close
<1>11. CASE CloseFails(s)
  BY <1>11 DEF CloseFails
<1>12. CASE Read(s) \/ Write(s)
  BY <1>12 DEF Read, Write, CallLoop
<1>13. CASE AccessFails(s)
  BY <1>13 DEF AccessFails
<1>14. CASE ReadAccess(s) \/ WriteValue(s)
  BY <1>14 DEF ReadAccess, WriteValue
<1>15. CASE ReadCopy(s)
  BY <1>15 DEF ReadCopy, LoopNext
<1>16. CASE WritePut(s)
  BY <1>16 DEF WritePut, LoopNext
<1>17. CASE Reset(s)
  BY <1>17 DEF Reset
<1> QED  BY <1>1, <1>2, <1>3, <1>4, <1>5, <1>6, <1>7, <1>8, <1>9, <1>10, <1>11,
            <1>12, <1>13, <1>14, <1>15, <1>16, <1>17 DEF StepOf

(* Only a close that fails leaves a context behind.                        *)
LEMMA StaleStep ==
  ASSUME IInv, [Next]_vars
  PROVE  StaleInv'
<1> USE DEF StaleInv
<1>0. CASE UNCHANGED vars
  BY <1>0 DEF vars, IInv
<1> SUFFICES ASSUME NEW s \in EventSets, StepOf(s)
             PROVE  StaleInv'
  BY <1>0 DEF Next
<1> /\ StaleInv /\ CallInv
    /\ pc \in [EventSets -> {"idle", "start", "abort", "close", "read", "copy",
                             "write", "put"}]
    /\ papi \in [EventSets -> {"stopped", "running"}]
    /\ ctx_state \in [EventSets -> SUBSET {"opened", "running"}]
    /\ ctx_mask \in [EventSets -> SUBSET Devices]
    /\ events_id \in [EventSets -> EventLists \cup {<<>>}]
  BY DEF IInv, TypeOK, OwnerTypeOK
<1> USE DEF CallInv, FailingAt
<1>1. CASE UpdateControlState(s)
  BY <1>1 DEF UpdateControlState
<1>2. CASE CleanupEventset(s)
  BY <1>2 DEF CleanupEventset
<1>3. CASE OpenConflict(s)
  <2>1. UNCHANGED <<papi, pc>>
    BY <1>3 DEF OpenConflict
  <2>2. UNCHANGED ctx_mask \/ ctx_mask' = [ctx_mask EXCEPT ![s] = {}]
    BY <1>3 DEF OpenConflict
  <2>3. QED  BY <2>1, <2>2
<1>4. CASE OpenFails(s)
  BY <1>4 DEF OpenFails
<1>5. CASE Open(s)
  BY <1>5 DEF Open
<1>6. CASE Start(s)
  BY <1>6 DEF Start
<1>7. CASE StartFails(s)
  BY <1>7 DEF StartFails
<1>8. CASE Stop(s)
  BY <1>8 DEF Stop
<1>9. CASE StopFails(s)
  BY <1>9 DEF StopFails
<1>10. CASE Close(s)
  BY <1>10 DEF Close
<1>11. CASE CloseFails(s)
  BY <1>11 DEF CloseFails
<1>12. CASE Read(s) \/ Write(s)
  BY <1>12 DEF Read, Write, CallLoop
<1>13. CASE AccessFails(s)
  BY <1>13 DEF AccessFails
<1>14. CASE ReadAccess(s) \/ WriteValue(s)
  BY <1>14 DEF ReadAccess, WriteValue
<1>15. CASE ReadCopy(s)
  BY <1>15 DEF ReadCopy, LoopNext
<1>16. CASE WritePut(s)
  BY <1>16 DEF WritePut, LoopNext
<1>17. CASE Reset(s)
  BY <1>17 DEF Reset
<1> QED  BY <1>1, <1>2, <1>3, <1>4, <1>5, <1>6, <1>7, <1>8, <1>9, <1>10, <1>11,
            <1>12, <1>13, <1>14, <1>15, <1>16, <1>17 DEF StepOf

(* Devices stay exclusive: only opening and closing touch them.            *)
LEMMA ExclusiveStep ==
  ASSUME IInv, [Next]_vars
  PROVE  DevicesExclusive'
<1> USE DEF DevicesExclusive
<1>0. CASE UNCHANGED vars
  BY <1>0 DEF vars, IInv
<1> SUFFICES ASSUME NEW s \in EventSets, StepOf(s)
             PROVE  DevicesExclusive'
  BY <1>0 DEF Next
<1> /\ DevicesExclusive
    /\ ctx_mask \in [EventSets -> SUBSET Devices]
  BY DEF IInv, TypeOK, OwnerTypeOK
<1>m. Released(s) = device_mask \ ctx_mask[s]
  BY ReleasedMask DEF IInv, TypeOK
<1> USE DEF Conflict
<1>1. CASE UpdateControlState(s)
  BY <1>1 DEF UpdateControlState
<1>2. CASE CleanupEventset(s)
  BY <1>2 DEF CleanupEventset
<1>3. CASE OpenConflict(s)
  BY <1>3 DEF OpenConflict
<1>4. CASE OpenFails(s)
  BY <1>4 DEF OpenFails
<1>5. CASE Open(s)
  BY <1>5 DEF Open
<1>6. CASE Start(s)
  BY <1>6 DEF Start
<1>7. CASE StartFails(s)
  BY <1>7 DEF StartFails
<1>8. CASE Stop(s)
  BY <1>8 DEF Stop
<1>9. CASE StopFails(s)
  BY <1>9 DEF StopFails
<1>10. CASE Close(s)
  BY <1>10, <1>m DEF Close
<1>11. CASE CloseFails(s)
  BY <1>11 DEF CloseFails
<1>12. CASE Read(s) \/ Write(s)
  BY <1>12 DEF Read, Write, CallLoop
<1>13. CASE AccessFails(s)
  BY <1>13 DEF AccessFails
<1>14. CASE ReadAccess(s) \/ WriteValue(s)
  BY <1>14 DEF ReadAccess, WriteValue
<1>15. CASE ReadCopy(s)
  BY <1>15 DEF ReadCopy, LoopNext
<1>16. CASE WritePut(s)
  BY <1>16 DEF WritePut, LoopNext
<1>17. CASE Reset(s)
  BY <1>17 DEF Reset
<1> QED  BY <1>1, <1>2, <1>3, <1>4, <1>5, <1>6, <1>7, <1>8, <1>9, <1>10, <1>11,
            <1>12, <1>13, <1>14, <1>15, <1>16, <1>17 DEF StepOf

(* The loop index stays in bounds.                                         *)
LEMMA IdxStep ==
  ASSUME IInv, [Next]_vars
  PROVE  IdxInv'
<1> USE DEF IdxInv
<1>0. CASE UNCHANGED vars
  BY <1>0 DEF vars, IInv
<1> SUFFICES ASSUME NEW s \in EventSets, StepOf(s)
             PROVE  IdxInv'
  BY <1>0 DEF Next
<1> /\ IdxInv /\ RunInv /\ MaskInv
    /\ pc \in [EventSets -> {"idle", "start", "abort", "close", "read", "copy",
                             "write", "put"}]
    /\ idx \in [EventSets -> Nat]
    /\ events_id \in [EventSets -> EventLists \cup {<<>>}]
  BY DEF IInv, TypeOK, OwnerTypeOK
<1>1. CASE UpdateControlState(s)
  BY <1>1 DEF UpdateControlState
<1>2. CASE CleanupEventset(s)
  BY <1>2 DEF CleanupEventset
<1>3. CASE OpenConflict(s)
  BY <1>3 DEF OpenConflict
<1>4. CASE OpenFails(s)
  BY <1>4 DEF OpenFails
<1>5. CASE Open(s)
  BY <1>5 DEF Open
<1>6. CASE Start(s)
  BY <1>6 DEF Start
<1>7. CASE StartFails(s)
  BY <1>7 DEF StartFails
<1>8. CASE Stop(s)
  BY <1>8 DEF Stop
<1>9. CASE StopFails(s)
  BY <1>9 DEF StopFails
<1>10. CASE Close(s)
  BY <1>10 DEF Close
<1>11. CASE CloseFails(s)
  BY <1>11 DEF CloseFails
<1>12. CASE Read(s) \/ Write(s)
  <2>1. Using(s)
    BY <1>12 DEF Read, Write, CallLoop, Using, RunInv
  <2>2. idx[s] \in DOMAIN events_id[s]
    BY <1>12, <2>1, Lists DEF MaskInv, IInv, TypeOK, Read, Write, CallLoop
  <2>3. QED  BY <1>12, <2>2 DEF Read, Write, CallLoop
<1>13. CASE AccessFails(s)
  BY <1>13 DEF AccessFails
<1>14. CASE ReadAccess(s) \/ WriteValue(s)
  BY <1>14 DEF ReadAccess, WriteValue
<1>15. CASE ReadCopy(s)
  <2>1. /\ UNCHANGED events_id /\ pc[s] \in Loop
        /\ \E w \in Loop : LoopNext(s, w)
    BY <1>15 DEF ReadCopy
  <2>2. events_id[s] \in Seq(Events) /\ idx[s] \in 1 .. Len(events_id[s])
    BY <2>1, Lists DEF IInv, TypeOK
  <2>3. CASE idx[s] < Len(events_id[s])
    <3>1. idx[s] + 1 \in 1 .. Len(events_id[s])
      BY <2>2, <2>3
    <3>2. idx[s] + 1 \in DOMAIN events_id[s]
      BY <2>2, <3>1
    <3>3. QED  BY <2>1, <2>3, <3>2 DEF LoopNext
  <2>4. CASE ~(idx[s] < Len(events_id[s]))
    BY <2>1, <2>4 DEF LoopNext
  <2>5. QED  BY <2>3, <2>4
<1>16. CASE WritePut(s)
  <2>1. /\ UNCHANGED events_id /\ pc[s] \in Loop
        /\ \E w \in Loop : LoopNext(s, w)
    BY <1>16 DEF WritePut
  <2>2. events_id[s] \in Seq(Events) /\ idx[s] \in 1 .. Len(events_id[s])
    BY <2>1, Lists DEF IInv, TypeOK
  <2>3. CASE idx[s] < Len(events_id[s])
    <3>1. idx[s] + 1 \in 1 .. Len(events_id[s])
      BY <2>2, <2>3
    <3>2. idx[s] + 1 \in DOMAIN events_id[s]
      BY <2>2, <3>1
    <3>3. QED  BY <2>1, <2>3, <3>2 DEF LoopNext
  <2>4. CASE ~(idx[s] < Len(events_id[s]))
    BY <2>1, <2>4 DEF LoopNext
  <2>5. QED  BY <2>3, <2>4
<1>17. CASE Reset(s)
  BY <1>17 DEF Reset
<1> QED  BY <1>1, <1>2, <1>3, <1>4, <1>5, <1>6, <1>7, <1>8, <1>9, <1>10, <1>11,
            <1>12, <1>13, <1>14, <1>15, <1>16, <1>17 DEF StepOf

(* An event that a loop is at belongs to the set, and so does its device.  *)
LEMMA CurrentEvent ==
  ASSUME IInv, NEW s \in EventSets, pc[s] \in Loop
  PROVE  /\ Current(s) \in Events
         /\ Current(s) \in All(s)
         /\ DeviceOf[Current(s)] # NoDevice => DeviceOf[Current(s)] \in ctx_mask[s]
<1>1. events_id[s] \in Seq(Events) /\ idx[s] \in DOMAIN events_id[s]
  BY Lists DEF IInv, TypeOK, IdxInv
<1>2. Current(s) \in Events
  BY <1>1 DEF Current
<1>3. Current(s) \in All(s)
  BY <1>1 DEF Current, All, First
<1>4. ctx_mask[s] = Mask(events_id[s])
  BY DEF IInv, MaskInv, Using
<1>5. QED  BY <1>1, <1>2, <1>3, <1>4 DEF Mask, Current

(* No other set in use has an event of a device that a loop is at.         *)
LEMMA Apart ==
  ASSUME IInv, NEW q \in EventSets, pc[q] \in Loop,
         DeviceOf[Current(q)] # NoDevice,
         NEW s \in EventSets, s # q, Using(s)
  PROVE  Current(q) \notin All(s)
<1>1. DeviceOf[Current(q)] \in ctx_mask[q]
  BY CurrentEvent
<1>2. events_id[s] \in Seq(Events)
  BY Lists DEF IInv, TypeOK
<1>3. ctx_mask[s] = Mask(events_id[s])
  BY DEF IInv, MaskInv
<1>4. ASSUME Current(q) \in All(s)
      PROVE  DeviceOf[Current(q)] \in ctx_mask[s]
  <2>1. PICK i \in 1 .. Len(events_id[s]) : Current(q) = events_id[s][i]
    BY <1>4 DEF All, First
  <2>2. QED  BY <1>2, <1>3, <2>1 DEF Mask
<1>5. QED  BY <1>1, <1>4 DEF IInv, DevicesExclusive

LEMMA FirstInAll ==
  ASSUME OwnerTypeOK, NEW s \in EventSets, NEW k \in DOMAIN events_id[s]
  PROVE  First(s, k - 1) \subseteq All(s)
<1>1. events_id[s] \in Seq(Events)
  BY Lists
<1>2. 1 .. (k - 1) \subseteq 1 .. Len(events_id[s])
  BY <1>1
<1>3. QED  BY <1>2 DEF First, All

(* Between access and use the value of an event of a device stays.          *)
LEMMA ValueStep ==
  ASSUME IInv, [Next]_vars
  PROVE  ValueUndisturbed'
<1> USE DEF ValueUndisturbed
<1>0. CASE UNCHANGED vars
  BY <1>0 DEF vars, IInv, Current
<1> SUFFICES ASSUME NEW s \in EventSets, StepOf(s)
             PROVE  ValueUndisturbed'
  BY <1>0 DEF Next
<1> /\ ValueUndisturbed /\ OwnerTypeOK
    /\ value \in [Events -> Values]
    /\ pc \in [EventSets -> {"idle", "start", "abort", "close", "read", "copy",
                             "write", "put"}]
  BY DEF IInv, TypeOK, OwnerTypeOK, ValueTypeOK
<1>1. CASE UpdateControlState(s)
  <2>1. /\ UNCHANGED value
        /\ \A q \in EventSets : pc'[q] \in {"copy", "put"} =>
             pc'[q] = pc[q] /\ Current(q)' = Current(q)
    <3>1. pc[s] = "idle" /\ UNCHANGED <<pc, value, idx>>
      BY <1>1 DEF UpdateControlState
    <3>2. \A q \in EventSets : q # s => events_id'[q] = events_id[q]
      BY <1>1 DEF UpdateControlState, OwnerTypeOK
    <3>3. QED  BY <3>1, <3>2 DEF Current
  <2>2. QED  BY <2>1
<1>2. CASE CleanupEventset(s)
  <2>1. /\ UNCHANGED value
        /\ \A q \in EventSets : pc'[q] \in {"copy", "put"} =>
             pc'[q] = pc[q] /\ Current(q)' = Current(q)
    BY <1>2 DEF CleanupEventset, Current
  <2>2. QED  BY <2>1
<1>3. CASE OpenConflict(s)
  <2>1. /\ UNCHANGED value
        /\ \A q \in EventSets : pc'[q] \in {"copy", "put"} =>
             pc'[q] = pc[q] /\ Current(q)' = Current(q)
    BY <1>3 DEF OpenConflict, Current
  <2>2. QED  BY <2>1
<1>4. CASE OpenFails(s)
  <2>1. /\ UNCHANGED value
        /\ \A q \in EventSets : pc'[q] \in {"copy", "put"} =>
             pc'[q] = pc[q] /\ Current(q)' = Current(q)
    BY <1>4 DEF OpenFails, Current
  <2>2. QED  BY <2>1
<1>5. CASE Open(s)
  <2>1. /\ UNCHANGED value
        /\ \A q \in EventSets : pc'[q] \in {"copy", "put"} =>
             pc'[q] = pc[q] /\ Current(q)' = Current(q)
    BY <1>5 DEF Open, Current
  <2>2. QED  BY <2>1
<1>6. CASE Start(s)
  <2>1. Using(s)
    BY <1>6 DEF Using, Start, RunInv, IInv
  <2>2. PICK es \in SUBSET All(s) : value' = ZeroValues(es)
    BY <1>6, <1>0 DEF Start
  <2>3. \A q \in EventSets : pc'[q] \in {"copy", "put"} =>
          q # s /\ pc'[q] = pc[q] /\ Current(q)' = Current(q)
    BY <1>6 DEF Start, Current
  <2>4. ASSUME NEW q \in EventSets, pc'[q] \in {"copy", "put"},
               DeviceOf[Current(q)] # NoDevice
        PROVE  value'[Current(q)] = value[Current(q)]
    BY <2>1, <2>2, <2>3, <2>4, Apart, CurrentEvent DEF ZeroValues
  <2>5. QED  BY <2>3, <2>4
<1>7. CASE StartFails(s)
  <2>1. Using(s)
    BY <1>7 DEF Using, StartFails, RunInv, IInv
  <2>2. PICK es \in SUBSET All(s) : value' = ZeroValues(es)
    <3>1. PICK k \in DOMAIN events_id[s] :
            value' = ZeroValues(First(s, k - 1) \ Counters)
      BY <1>7 DEF StartFails, FailingAt
    <3>2. First(s, k - 1) \ Counters \in SUBSET All(s)
      BY FirstInAll
    <3>3. QED  BY <3>1, <3>2
  <2>3. \A q \in EventSets : pc'[q] \in {"copy", "put"} =>
          q # s /\ pc'[q] = pc[q] /\ Current(q)' = Current(q)
    BY <1>7 DEF StartFails, Current
  <2>4. ASSUME NEW q \in EventSets, pc'[q] \in {"copy", "put"},
               DeviceOf[Current(q)] # NoDevice
        PROVE  value'[Current(q)] = value[Current(q)]
    BY <2>1, <2>2, <2>3, <2>4, Apart, CurrentEvent DEF ZeroValues
  <2>5. QED  BY <2>3, <2>4
<1>8. CASE Stop(s)
  <2>1. /\ UNCHANGED value
        /\ \A q \in EventSets : pc'[q] \in {"copy", "put"} =>
             pc'[q] = pc[q] /\ Current(q)' = Current(q)
    BY <1>8 DEF Stop, Current
  <2>2. QED  BY <2>1
<1>9. CASE StopFails(s)
  <2>1. /\ UNCHANGED value
        /\ \A q \in EventSets : pc'[q] \in {"copy", "put"} =>
             pc'[q] = pc[q] /\ Current(q)' = Current(q)
    BY <1>9 DEF StopFails, Current
  <2>2. QED  BY <2>1
<1>10. CASE Close(s)
  <2>1. /\ UNCHANGED value
        /\ \A q \in EventSets : pc'[q] \in {"copy", "put"} =>
             pc'[q] = pc[q] /\ Current(q)' = Current(q)
    BY <1>10 DEF Close, Current
  <2>2. QED  BY <2>1
<1>11. CASE CloseFails(s)
  <2>1. /\ UNCHANGED value
        /\ \A q \in EventSets : pc'[q] \in {"copy", "put"} =>
             pc'[q] = pc[q] /\ Current(q)' = Current(q)
    BY <1>11 DEF CloseFails, Current
  <2>2. QED  BY <2>1
<1>12. CASE Read(s) \/ Write(s)
  <2>1. /\ UNCHANGED value
        /\ \A q \in EventSets : pc'[q] \in {"copy", "put"} =>
             pc'[q] = pc[q] /\ Current(q)' = Current(q)
    BY <1>12 DEF Read, Write, CallLoop, Current
  <2>2. QED  BY <2>1
<1>13. CASE AccessFails(s)
  <2>1. /\ UNCHANGED value
        /\ \A q \in EventSets : pc'[q] \in {"copy", "put"} =>
             pc'[q] = pc[q] /\ Current(q)' = Current(q)
    BY <1>13 DEF AccessFails, Current
  <2>2. QED  BY <2>1
<1>14. CASE ReadAccess(s) \/ WriteValue(s)
  <2>1. PICK v \in {Sampled(s), Wanted(s)} :
          value' = [value EXCEPT ![Current(s)] = v]
    BY <1>14 DEF ReadAccess, WriteValue
  <2>2. /\ \A q \in EventSets : Current(q)' = Current(q)
        /\ \A q \in EventSets \ {s} : pc'[q] = pc[q]
        /\ pc[s] \in Loop
    BY <1>14 DEF ReadAccess, WriteValue, Current
  <2>3. Current(s) \in Events /\ Current(s) \in All(s)
    BY <2>2, CurrentEvent
  <2>4. /\ pc'[s] = "copy" => value'[Current(s)] = Sampled(s)
        /\ pc'[s] = "put" => value'[Current(s)] = Wanted(s)
    BY <1>14, <2>3 DEF ReadAccess, WriteValue
  <2>5. ASSUME NEW q \in EventSets \ {s}, pc[q] \in {"copy", "put"},
               DeviceOf[Current(q)] # NoDevice
        PROVE  value'[Current(q)] = value[Current(q)]
    BY <2>1, <2>2, <2>3, <2>5, Apart DEF Using
  <2>6. QED  BY <2>2, <2>4, <2>5
<1>15. CASE ReadCopy(s)
  <2>1. /\ UNCHANGED value
        /\ \A q \in EventSets : pc'[q] \in {"copy", "put"} =>
             pc'[q] = pc[q] /\ Current(q)' = Current(q)
    <3>1. /\ UNCHANGED <<value, events_id>>
          /\ \E w \in {"read", "write"} : LoopNext(s, w)
      BY <1>15 DEF ReadCopy
    <3>2. pc'[s] \notin {"copy", "put"}
      BY <3>1 DEF LoopNext
    <3>3. \A q \in EventSets : q # s => pc'[q] = pc[q] /\ idx'[q] = idx[q]
      BY <3>1 DEF LoopNext, OwnerTypeOK
    <3>4. QED  BY <3>1, <3>2, <3>3 DEF Current
  <2>2. QED  BY <2>1
<1>16. CASE WritePut(s)
  <2>1. /\ UNCHANGED value
        /\ \A q \in EventSets : pc'[q] \in {"copy", "put"} =>
             pc'[q] = pc[q] /\ Current(q)' = Current(q)
    <3>1. /\ UNCHANGED <<value, events_id>>
          /\ \E w \in {"read", "write"} : LoopNext(s, w)
      BY <1>16 DEF WritePut
    <3>2. pc'[s] \notin {"copy", "put"}
      BY <3>1 DEF LoopNext
    <3>3. \A q \in EventSets : q # s => pc'[q] = pc[q] /\ idx'[q] = idx[q]
      BY <3>1 DEF LoopNext, OwnerTypeOK
    <3>4. QED  BY <3>1, <3>2, <3>3 DEF Current
  <2>2. QED  BY <2>1
<1>17. CASE Reset(s)
  <2>1. Using(s)
    BY <1>17 DEF Using, Reset, RunInv, IInv
  <2>2. PICK es \in SUBSET All(s) : value' = ZeroValues(es)
    BY <1>17, <1>0 DEF Reset
  <2>3. \A q \in EventSets : pc'[q] \in {"copy", "put"} =>
          q # s /\ pc'[q] = pc[q] /\ Current(q)' = Current(q)
    BY <1>17 DEF Reset, Current
  <2>4. ASSUME NEW q \in EventSets, pc'[q] \in {"copy", "put"},
               DeviceOf[Current(q)] # NoDevice
        PROVE  value'[Current(q)] = value[Current(q)]
    BY <2>1, <2>2, <2>3, <2>4, Apart, CurrentEvent DEF ZeroValues
  <2>5. QED  BY <2>3, <2>4
<1> QED  BY <1>1, <1>2, <1>3, <1>4, <1>5, <1>6, <1>7, <1>8, <1>9, <1>10, <1>11,
            <1>12, <1>13, <1>14, <1>15, <1>16, <1>17 DEF StepOf

(* The constant values are of the right type.                              *)
LEMMA ValueConstants ==
  /\ Zero \in Values
  /\ \A s \in EventSets : Sampled(s) \in Values /\ Wanted(s) \in Values
BY DEF Values

(* Values stay values.                                                     *)
LEMMA ValueTypes ==
  ASSUME IInv, [Next]_vars
  PROVE  ValueTypeOK'
<1> USE DEF ValueTypeOK
<1>0. CASE UNCHANGED vars
  BY <1>0 DEF vars, IInv, TypeOK
<1> SUFFICES ASSUME NEW s \in EventSets, StepOf(s)
             PROVE  ValueTypeOK'
  BY <1>0 DEF Next
<1> ValueTypeOK /\ OwnerTypeOK
  BY DEF IInv, TypeOK
<1> <<>> \in Seq(Values)
  OBVIOUS
<1>1. CASE UpdateControlState(s)
  BY <1>1, ValueConstants DEF UpdateControlState, SetCounters, ZeroValues, StopFirst
<1>2. CASE CleanupEventset(s)
  BY <1>2, ValueConstants DEF CleanupEventset, SetCounters, ZeroValues, StopFirst
<1>3. CASE OpenConflict(s)
  BY <1>3, ValueConstants DEF OpenConflict, SetCounters, ZeroValues, StopFirst
<1>4. CASE OpenFails(s)
  <2>1. counter' \in [Events -> {"none", "created", "started"}]
    BY <1>4 DEF OpenFails, SetCounters
  <2>2. QED  BY <1>4, <2>1 DEF OpenFails
<1>5. CASE Open(s)
  <2>1. PICK list \in Seq(Events) :
          counts' = [counts EXCEPT ![s] = [i \in DOMAIN list |-> Zero]]
    BY <1>5, Lists DEF Open
  <2>2. [i \in DOMAIN list |-> Zero] \in Seq(Values)
    <3>1. Len(list) \in Nat /\ DOMAIN list = 1 .. Len(list)
      OBVIOUS
    <3>2. [i \in 1 .. Len(list) |-> Zero] \in Seq(Values)
      BY <3>1, ValueConstants, IsASeq
    <3>3. QED  BY <3>1, <3>2
  <2>3. counts' \in [EventSets -> Seq(Values)]
    BY <2>1, <2>2
  <2>4. QED  BY <1>5, <2>3, ValueConstants DEF Open, SetCounters, ZeroValues
<1>6. CASE Start(s)
  BY <1>6, ValueConstants DEF Start, SetCounters, ZeroValues, StopFirst
<1>7. CASE StartFails(s)
  BY <1>7, ValueConstants DEF StartFails, SetCounters, ZeroValues, StopFirst
<1>8. CASE Stop(s)
  BY <1>8, ValueConstants DEF Stop, SetCounters, ZeroValues, StopFirst
<1>9. CASE StopFails(s)
  BY <1>9, ValueConstants DEF StopFails, SetCounters, ZeroValues, StopFirst
<1>10. CASE Close(s)
  BY <1>10, ValueConstants DEF Close, SetCounters, ZeroValues, StopFirst
<1>11. CASE CloseFails(s)
  BY ZenonT(30), <1>11, ValueConstants DEF CloseFails, SetCounters, ZeroValues, StopFirst
<1>12. CASE Read(s) \/ Write(s)
  BY <1>12, ValueConstants DEF Read, Write, CallLoop, SetCounters, ZeroValues, StopFirst
<1>13. CASE AccessFails(s)
  BY <1>13, ValueConstants DEF AccessFails, SetCounters, ZeroValues, StopFirst
<1>14. CASE ReadAccess(s) \/ WriteValue(s)
  <2>1. Current(s) \in Events
    BY <1>14, CurrentEvent DEF ReadAccess, WriteValue
  <2>2. QED  BY <1>14, <2>1, ValueConstants DEF ReadAccess, WriteValue
<1>15. CASE ReadCopy(s)
  <2>1. Current(s) \in Events
    BY <1>15, CurrentEvent DEF ReadCopy
  <2>2. value[Current(s)] \in Values
    BY <2>1
  <2>3. [counts[s] EXCEPT ![idx[s]] = value[Current(s)]] \in Seq(Values)
    <3>1. counts[s] \in Seq(Values)
      OBVIOUS
    <3>2. idx[s] \in 1 .. Len(counts[s])
      BY <1>15, <3>1 DEF IInv, IdxInv, CountsInv, Using, ReadCopy
    <3>3. QED  BY <2>2, <3>1, <3>2, ExceptSeq
  <2>4. counts' = [counts EXCEPT ![s] =
                    [counts[s] EXCEPT ![idx[s]] = value[Current(s)]]]
    BY <1>15 DEF ReadCopy
  <2>5. counts' \in [EventSets -> Seq(Values)]
    BY <2>3, <2>4
  <2>6. QED  BY <1>15, <2>5 DEF ReadCopy
<1>16. CASE WritePut(s)
  <2>1. Current(s) \in Events
    BY <1>16, CurrentEvent DEF WritePut
  <2>2. value[Current(s)] \in Values
    BY <2>1
  <2>3. QED  BY <1>16, <2>2 DEF WritePut
<1>17. CASE Reset(s)
  <2>1. PICK list \in Seq(Events) :
          counts' = [counts EXCEPT ![s] = [i \in DOMAIN list |-> Zero]]
    BY <1>17, Lists DEF Reset
  <2>2. [i \in DOMAIN list |-> Zero] \in Seq(Values)
    <3>1. Len(list) \in Nat /\ DOMAIN list = 1 .. Len(list)
      OBVIOUS
    <3>2. [i \in 1 .. Len(list) |-> Zero] \in Seq(Values)
      BY <3>1, ValueConstants, IsASeq
    <3>3. QED  BY <3>1, <3>2
  <2>3. counts' \in [EventSets -> Seq(Values)]
    BY <2>1, <2>2
  <2>4. QED  BY <1>17, <2>3, ValueConstants DEF Reset, SetCounters, ZeroValues
<1> QED  BY <1>1, <1>2, <1>3, <1>4, <1>5, <1>6, <1>7, <1>8, <1>9, <1>10, <1>11,
            <1>12, <1>13, <1>14, <1>15, <1>16, <1>17 DEF StepOf

(* The counters array keeps a cell for every event.                        *)
LEMMA CountsStep ==
  ASSUME IInv, [Next]_vars
  PROVE  CountsInv'
<1> USE DEF CountsInv, Using
<1>0. CASE UNCHANGED vars
  BY <1>0 DEF vars, IInv
<1> SUFFICES ASSUME NEW s \in EventSets, StepOf(s)
             PROVE  CountsInv'
  BY <1>0 DEF Next
<1> /\ CountsInv /\ RunInv
    /\ pc \in [EventSets -> {"idle", "start", "abort", "close", "read", "copy",
                             "write", "put"}]
    /\ papi \in [EventSets -> {"stopped", "running"}]
    /\ ctx_state \in [EventSets -> SUBSET {"opened", "running"}]
    /\ events_id \in [EventSets -> EventLists \cup {<<>>}]
    /\ counts \in [EventSets -> Seq(Values)]
  BY DEF IInv, TypeOK, OwnerTypeOK, ValueTypeOK
<1> USE DEF RunInv
<1>1. CASE UpdateControlState(s)
  BY <1>1 DEF UpdateControlState
<1>2. CASE CleanupEventset(s)
  BY <1>2 DEF CleanupEventset
<1>3. CASE OpenConflict(s)
  BY <1>3 DEF OpenConflict
<1>4. CASE OpenFails(s)
  BY <1>4 DEF OpenFails
<1>5. CASE Open(s)
  BY <1>5 DEF Open
<1>6. CASE Start(s)
  BY <1>6 DEF Start
<1>7. CASE StartFails(s)
  BY <1>7 DEF StartFails
<1>8. CASE Stop(s)
  BY <1>8 DEF Stop
<1>9. CASE StopFails(s)
  BY <1>9 DEF StopFails
<1>10. CASE Close(s)
  BY <1>10 DEF Close
<1>11. CASE CloseFails(s)
  BY <1>11 DEF CloseFails
<1>12. CASE Read(s) \/ Write(s)
  BY <1>12 DEF Read, Write, CallLoop
<1>13. CASE AccessFails(s)
  BY <1>13 DEF AccessFails
<1>14. CASE ReadAccess(s) \/ WriteValue(s)
  BY <1>14 DEF ReadAccess, WriteValue
<1>15. CASE ReadCopy(s)
  BY <1>15 DEF ReadCopy, LoopNext
<1>16. CASE WritePut(s)
  BY <1>16 DEF WritePut, LoopNext
<1>17. CASE Reset(s)
  BY <1>17 DEF Reset
<1> QED  BY <1>1, <1>2, <1>3, <1>4, <1>5, <1>6, <1>7, <1>8, <1>9, <1>10, <1>11,
            <1>12, <1>13, <1>14, <1>15, <1>16, <1>17 DEF StepOf

-----------------------------------------------------------------------------

LEMMA Invariance == Spec => []IInv
<1>1. Init => IInv
  <2>1. ASSUME Init
        PROVE  OwnerTypeOK
    BY <2>1, RocmSmiContextAssumption DEF Init, OwnerTypeOK
  <2>2. ASSUME Init
        PROVE  ValueTypeOK
    BY <2>2, ValueConstants DEF Init, ValueTypeOK
  <2>3. ASSUME Init
        PROVE  SerialInv /\ CallInv /\ RunInv /\ MaskInv /\ StaleInv /\ IdxInv
    BY <2>3 DEF Init, SerialInv, CallInv, RunInv, MaskInv, StaleInv, IdxInv, Using
  <2>4. ASSUME Init
        PROVE  DevicesExclusive /\ ValueUndisturbed /\ CountsInv
    BY <2>4 DEF Init, DevicesExclusive, ValueUndisturbed, CountsInv, Using
  <2>5. QED  BY <2>1, <2>2, <2>3, <2>4 DEF IInv, TypeOK
<1>2. IInv /\ [Next]_vars => IInv'
  BY OwnerTypes, ValueTypes, SerialStep, CallStep, RunStep, MaskStep, StaleStep,
     IdxStep, ExclusiveStep, ValueStep, CountsStep DEF IInv, TypeOK
<1>3. QED  BY <1>1, <1>2, PTL DEF Spec

(* Type correctness, for all values of the constants.                      *)
THEOREM TypeCorrect == Spec => []TypeOK
<1>1. IInv => TypeOK
  BY DEF IInv
<1>2. QED  BY <1>1, Invariance, PTL

(* No two event sets ever have a context on one device (acquire_devices,   *)
(* release_devices), whatever calls failed before.                         *)
THEOREM ExclusiveDevices == Spec => []DevicesExclusive
<1>1. IInv => DevicesExclusive
  BY DEF IInv
<1>2. QED  BY <1>1, Invariance, PTL

(* rocs_ctx_read and rocs_ctx_write need no lock for events of a device:   *)
(* their values are touched by nobody else between access and use.         *)
THEOREM UndisturbedValues == Spec => []ValueUndisturbed
<1>1. IInv => ValueUndisturbed
  BY DEF IInv
<1>2. QED  BY <1>1, Invariance, PTL

-----------------------------------------------------------------------------
(* The refinement.  Everything in use is marked in device_mask.            *)
LEMMA MarkedInUse ==
  ASSUME IInv
  PROVE  Ownership!InUse = device_mask
BY DEF IInv, DevicesExclusive, Ownership!InUse

Held == UNION {ctx_mask[s] : s \in EventSets}

(* What is held after one set has exchanged its devices for others.        *)
LEMMA HeldAfter ==
  ASSUME IInv, NEW s \in EventSets, NEW ds,
         ctx_mask' = [ctx_mask EXCEPT ![s] = ds]
  PROVE  /\ Held' = (Held \ ctx_mask[s]) \cup ds
         /\ [q \in EventSets |-> ctx_mask[q]]' =
              [[q \in EventSets |-> ctx_mask[q]] EXCEPT ![s] = ds]
<1> /\ ctx_mask \in [EventSets -> SUBSET Devices]
    /\ \A q, r \in EventSets : q # r => ctx_mask[q] \cap ctx_mask[r] = {}
  BY DEF IInv, TypeOK, OwnerTypeOK, DevicesExclusive
<1>1. \A q \in EventSets : ctx_mask'[q] = IF q = s THEN ds ELSE ctx_mask[q]
  OBVIOUS
<1>2. Held' = (Held \ ctx_mask[s]) \cup ds
  BY <1>1 DEF Held
<1>3. QED  BY <1>1, <1>2

(* A set whose context is discarded loses its devices, if it has any.      *)
LEMMA DiscardLoses ==
  ASSUME IInv, NEW s \in EventSets, UNCHANGED device_mask,
         ctx_mask' = [ctx_mask EXCEPT ![s] = {}],
         ctx_mask[s] = {} \/ "close" \in Failing
  PROVE  [Ownership!Next]_<<[q \in EventSets |-> ctx_mask[q]], device_mask \ Held>>
<1>1. CASE ctx_mask[s] = {}
  <2>1. ctx_mask' = ctx_mask
    BY <1>1 DEF IInv, TypeOK, OwnerTypeOK
  <2>2. QED  BY <2>1 DEF Held
<1>2. CASE "close" \in Failing
  <2>1. (device_mask \ Held)' = (device_mask \ Held) \cup ctx_mask[s]
    <3>1. ctx_mask[s] \subseteq Held
      BY DEF Held
    <3>2. ctx_mask[s] \subseteq device_mask
      BY DEF IInv, DevicesExclusive
    <3>3. Held' = (Held \ ctx_mask[s]) \cup {}
      BY HeldAfter
    <3>4. QED  BY <3>1, <3>2, <3>3
  <2>2. Ownership!LoseHeld(s)
    BY <1>2, <2>1, HeldAfter DEF Ownership!LoseHeld, Held
  <2>3. QED  BY <2>2 DEF Ownership!Next
<1>3. QED  BY <1>1, <1>2

LEMMA HeldMarked ==
  ASSUME IInv
  PROVE  /\ Held \subseteq device_mask
         /\ \A s \in EventSets : ctx_mask[s] \subseteq Held
BY DEF IInv, DevicesExclusive, Held

(* An opening that fails after the devices were acquired.                  *)
LEMMA OpeningLoses ==
  ASSUME IInv, NEW s \in EventSets, NEW ds \in SUBSET Devices,
         ds \cap device_mask = {}, device_mask' = device_mask \cup ds,
         ctx_mask' = [ctx_mask EXCEPT ![s] = {}],
         Failing \cap {"alloc", "open", "close"} # {}
  PROVE  Ownership!Next
<1>1. (device_mask \ Held)' = ((device_mask \ Held) \cup ds) \cup ctx_mask[s]
  BY ZenonT(30), HeldAfter, HeldMarked
<1>2. [q \in EventSets |-> ctx_mask[q]]' =
        [[q \in EventSets |-> ctx_mask[q]] EXCEPT ![s] = {}]
  BY HeldAfter
<1>3. ds \cap Ownership!InUse = {}
  BY MarkedInUse
<1>4. Ownership!LoseFree(s, ds)
  BY <1>1, <1>2, <1>3 DEF Ownership!LoseFree, Held
<1>5. QED  BY <1>4 DEF Ownership!Next

(* An opening that succeeds; a context left over is forgotten.             *)
LEMMA OpeningAcquires ==
  ASSUME IInv, NEW s \in EventSets, NEW ds \in SUBSET Devices,
         ds \cap device_mask = {}, device_mask' = device_mask \cup ds,
         ctx_mask' = [ctx_mask EXCEPT ![s] = ds],
         ctx_mask[s] = {} \/ "close" \in Failing
  PROVE  Ownership!Next
<1>1. (device_mask \ Held)' = (device_mask \ Held) \cup ctx_mask[s]
  BY ZenonT(30), HeldAfter, HeldMarked
<1>2. [q \in EventSets |-> ctx_mask[q]]' =
        [[q \in EventSets |-> ctx_mask[q]] EXCEPT ![s] = ds]
  BY HeldAfter
<1>3. ds \cap Ownership!InUse = {}
  BY MarkedInUse
<1>4. Ownership!Acquire(s, ds)
  BY <1>1, <1>2, <1>3 DEF Ownership!Acquire, Held
<1>5. QED  BY <1>4 DEF Ownership!Next

(* Every step of an event set is a step or a stutter of its devices.       *)
LEMMA ContextStep ==
  ASSUME IInv, [Next]_vars
  PROVE  [Ownership!Next]_<<[q \in EventSets |-> ctx_mask[q]], device_mask \ Held>>
<1>0. CASE UNCHANGED vars
  BY <1>0 DEF vars, Held
<1> SUFFICES ASSUME NEW s \in EventSets, StepOf(s)
             PROVE  [Ownership!Next]_<<[q \in EventSets |-> ctx_mask[q]], device_mask \ Held>>
  BY <1>0 DEF Next
<1>1. CASE UpdateControlState(s)
  BY <1>1 DEF UpdateControlState, Held
<1>2. CASE CleanupEventset(s)
  BY <1>2 DEF CleanupEventset, Held
<1>3. CASE OpenConflict(s)
  <2>1. UNCHANGED device_mask /\ pc[s] = "idle" /\ papi[s] = "stopped"
    BY <1>3 DEF OpenConflict
  <2>2. UNCHANGED ctx_mask \/ ctx_mask' = [ctx_mask EXCEPT ![s] = {}]
    BY <1>3 DEF OpenConflict
  <2>3. ctx_mask[s] = {} \/ "close" \in Failing
    BY <2>1 DEF IInv, StaleInv
  <2>4. CASE UNCHANGED ctx_mask
    BY <2>1, <2>4 DEF Held
  <2>5. CASE ctx_mask' = [ctx_mask EXCEPT ![s] = {}]
    BY <2>1, <2>3, <2>5, DiscardLoses
  <2>6. QED  BY <2>2, <2>4, <2>5
<1>4. CASE OpenFails(s)
  <2>1. /\ Mask(events_id[s]) \in SUBSET Devices
        /\ Mask(events_id[s]) \cap device_mask = {}
        /\ device_mask' = device_mask \cup Mask(events_id[s])
        /\ ctx_mask' = [ctx_mask EXCEPT ![s] = {}]
    BY <1>4, Lists DEF OpenFails, Conflict, IInv, TypeOK
  <2>2. Failing \cap {"alloc", "open", "close"} # {}
    BY <1>4 DEF OpenFails, FailingAt
  <2>3. QED  BY <2>1, <2>2, OpeningLoses
<1>5. CASE Open(s)
  <2>1. /\ Mask(events_id[s]) \in SUBSET Devices
        /\ Mask(events_id[s]) \cap device_mask = {}
        /\ device_mask' = device_mask \cup Mask(events_id[s])
        /\ ctx_mask' = [ctx_mask EXCEPT ![s] = Mask(events_id[s])]
    BY <1>5, Lists DEF Open, Conflict, IInv, TypeOK
  <2>2. ctx_mask[s] = {} \/ "close" \in Failing
    BY <1>5 DEF IInv, StaleInv, Open
  <2>3. QED  BY <2>1, <2>2, OpeningAcquires
<1>6. CASE Start(s)
  BY <1>6 DEF Start, Held
<1>7. CASE StartFails(s)
  BY <1>7 DEF StartFails, Held
<1>8. CASE Stop(s)
  BY <1>8 DEF Stop, Held
<1>9. CASE StopFails(s)
  BY <1>9 DEF StopFails, Held
<1>10. CASE Close(s)
  <2>1. /\ device_mask' = device_mask \ ctx_mask[s]
        /\ ctx_mask' = [ctx_mask EXCEPT ![s] = {}]
    BY <1>10, ReleasedMask DEF Close, IInv, TypeOK
  <2>2. (device_mask \ Held)' = device_mask \ Held
    BY <2>1, HeldAfter, HeldMarked
  <2>3. Ownership!Release(s)
    BY <2>1, <2>2, HeldAfter DEF Ownership!Release, Held
  <2>4. QED  BY <2>3 DEF Ownership!Next
<1>11. CASE CloseFails(s)
  <2>1. UNCHANGED device_mask /\ "close" \in Failing
    BY <1>11 DEF CloseFails, FailingAt
  <2>2. UNCHANGED ctx_mask \/ ctx_mask' = [ctx_mask EXCEPT ![s] = {}]
    BY <1>11 DEF CloseFails
  <2>3. CASE UNCHANGED ctx_mask
    BY <2>1, <2>3 DEF Held
  <2>4. CASE ctx_mask' = [ctx_mask EXCEPT ![s] = {}]
    BY <2>1, <2>4, DiscardLoses
  <2>5. QED  BY <2>2, <2>3, <2>4
<1>12. CASE Read(s) \/ Write(s)
  BY <1>12 DEF Read, Write, CallLoop, Held
<1>13. CASE AccessFails(s)
  BY <1>13 DEF AccessFails, Held
<1>14. CASE ReadAccess(s) \/ WriteValue(s)
  BY <1>14 DEF ReadAccess, WriteValue, Held
<1>15. CASE ReadCopy(s)
  BY <1>15 DEF ReadCopy, LoopNext, Held
<1>16. CASE WritePut(s)
  BY <1>16 DEF WritePut, LoopNext, Held
<1>17. CASE Reset(s)
  BY <1>17 DEF Reset, Held
<1> QED  BY <1>1, <1>2, <1>3, <1>4, <1>5, <1>6, <1>7, <1>8, <1>9, <1>10, <1>11,
            <1>12, <1>13, <1>14, <1>15, <1>16, <1>17 DEF StepOf

(* The device_mask discipline of rocs.c implements DeviceOwnership: all    *)
(* devices of a context are taken and given back in one step, and devices  *)
(* are lost only if an allocation, an open or a close fails.               *)
THEOREM ImplementsOwnership == Spec => OwnershipSpec
<1>1. Init => Ownership!Init
  BY DEF Init, Ownership!Init
<1>2. IInv /\ [Next]_vars
        => [Ownership!Next]_<<[s \in EventSets |-> ctx_mask[s]],
             device_mask \ UNION {ctx_mask[s] : s \in EventSets}>>
  BY ContextStep DEF Held
<1>3. QED  BY <1>1, <1>2, Invariance, PTL DEF Spec, OwnershipSpec, Ownership!Spec

-----------------------------------------------------------------------------
(* What holds when only PAPI_stop and the access functions may fail.       *)
Tame == Failing \subseteq {"stop", "access"}

(* A set is active from PAPI_start until the end of PAPI_stop.             *)
Active(s) == papi[s] = "running" \/ pc[s] # "idle"

(* A thread has one active set.                                            *)
ActiveInv == \A s, r \in EventSets :
  ThreadOf[r] = ThreadOf[s] /\ r # s /\ Active(s) => ~Active(r)

(* A set has a context while it is active, in the state its call says.     *)
ContextInv == \A s \in EventSets :
  /\ pc[s] # "abort"
  /\ ~Active(s) => rocs_ctx[s] = "NULL" /\ ctx_mask[s] = {}
  /\ Active(s) =>
       /\ rocs_ctx[s] = "live"
       /\ ctx_state[s] = state[ThreadOf[s]]
       /\ state[ThreadOf[s]] = IF pc[s] \in {"start", "close"} THEN {"opened"}
                                                             ELSE {"opened", "running"}

(* Every marked device and every counter of the driver has its active set. *)
UsedInv ==
  /\ device_mask \subseteq UNION {ctx_mask[s] : s \in EventSets}
  /\ \A e \in Events : counter[e] # "none" =>
       e \in Counters /\ \E s \in EventSets : Active(s) /\ e \in All(s)

(* A context about to be closed has stopped its counters.                  *)
StoppedInv == \A s \in EventSets : pc[s] = "close" =>
  \A e \in All(s) \cap Counters : counter[e] # "started"

TameInv == ActiveInv /\ ContextInv /\ UsedInv /\ StoppedInv

(* The steps that are left, and how they move a set: a loop runs inside an *)
(* active set, and an inactive set may get other events.                   *)
Looping(s) ==
  /\ pc[s] \in Loop \cup {"idle"} /\ papi[s] = "running"
  /\ \E v \in Loop \cup {"idle"} : pc' = [pc EXCEPT ![s] = v]
  /\ UNCHANGED <<ownVars, counter>>
Refilling(s) ==
  /\ ~Active(s) /\ UNCHANGED <<pc, papi, rocs_ctx, state, ctxVars, device_mask, counter>>
  /\ \A r \in EventSets \ {s} : events_id'[r] = events_id[r]

LEMMA TameSteps ==
  ASSUME Tame, IInv, TameInv, NEW s \in EventSets, StepOf(s)
  PROVE  Looping(s) \/ Refilling(s) \/ Open(s) \/ Start(s) \/ Stop(s)
           \/ StopFails(s) \/ (Close(s) /\ pc[s] = "close")
<1> USE DEF Tame, FailingAt
<1> /\ pc \in [EventSets -> {"idle", "start", "abort", "close", "read", "copy",
                             "write", "put"}]
    /\ papi \in [EventSets -> {"stopped", "running"}]
    /\ CallInv
  BY DEF IInv, TypeOK, OwnerTypeOK
<1>1. CASE UpdateControlState(s) \/ CleanupEventset(s)
  <2>1. /\ papi[s] = "stopped" /\ pc[s] = "idle"
        /\ UNCHANGED <<pc, papi, rocs_ctx, state, ctxVars, device_mask, counter>>
    BY <1>1 DEF UpdateControlState, CleanupEventset
  <2>2. \E list : events_id' = [events_id EXCEPT ![s] = list]
    BY <1>1 DEF UpdateControlState, CleanupEventset
  <2>3. \A r \in EventSets \ {s} : events_id'[r] = events_id[r]
    BY <2>2 DEF IInv, TypeOK, OwnerTypeOK
  <2>4. Refilling(s)
    BY <2>1, <2>3 DEF Refilling, Active
  <2>5. QED  BY <2>4
<1>2. ~OpenFails(s) /\ ~StartFails(s) /\ ~CloseFails(s)
  BY DEF OpenFails, StartFails, CloseFails
<1>3. CASE OpenConflict(s)
  <2>1. papi[s] = "stopped" /\ pc[s] = "idle"
    BY <1>3 DEF OpenConflict
  <2>2. rocs_ctx[s] = "NULL"
    BY <2>1 DEF TameInv, ContextInv, Active
  <2>3. UNCHANGED <<pc, papi, events_id, rocs_ctx, state, ctxVars, device_mask, counter>>
    BY <1>3, <2>2 DEF OpenConflict
  <2>4. Refilling(s)
    BY <2>1, <2>3 DEF Refilling, Active
  <2>5. QED  BY <2>4
<1>4. CASE Close(s)
  BY <1>4 DEF Close, TameInv, ContextInv
<1>5. CASE Read(s) \/ Write(s) \/ Reset(s)
  <2>1. UNCHANGED <<ownVars, counter>> /\ papi[s] = "running" /\ pc[s] = "idle"
    BY <1>5 DEF Read, Write, CallLoop, Reset
  <2>2. \E v \in Loop \cup {"idle"} : pc' = [pc EXCEPT ![s] = v]
    <3>1. CASE Read(s) \/ Write(s)
      BY <3>1 DEF Read, Write, CallLoop
    <3>2. CASE Reset(s)
      <4>1. pc' = [pc EXCEPT ![s] = "idle"]
        BY <2>1, <3>2 DEF Reset
      <4>2. QED  BY <4>1
    <3>3. QED  BY <1>5, <3>1, <3>2
  <2>3. QED  BY <2>1, <2>2 DEF Looping
<1>6. CASE AccessFails(s) \/ ReadAccess(s) \/ ReadCopy(s) \/ WriteValue(s) \/ WritePut(s)
  <2>1. UNCHANGED <<ownVars, counter>> /\ pc[s] \in Loop
    BY <1>6 DEF AccessFails, ReadAccess, ReadCopy, WriteValue, WritePut
  <2>2. papi[s] = "running"
    BY <2>1 DEF CallInv
  <2>3. \E v \in Loop \cup {"idle"} : pc' = [pc EXCEPT ![s] = v]
    BY <1>6 DEF AccessFails, ReadAccess, ReadCopy, WriteValue, WritePut, LoopNext
  <2>4. QED  BY <2>1, <2>2, <2>3 DEF Looping
<1>7. QED
  BY <1>1, <1>2, <1>3, <1>4, <1>5, <1>6 DEF StepOf

(* A thread has one active set.                                            *)
LEMMA ActiveStep ==
  ASSUME Tame, IInv, TameInv, NEW s \in EventSets, StepOf(s)
  PROVE  ActiveInv'
<1> /\ pc \in [EventSets -> {"idle", "start", "abort", "close", "read", "copy",
                             "write", "put"}]
    /\ papi \in [EventSets -> {"stopped", "running"}]
    /\ ActiveInv
  BY DEF IInv, TypeOK, OwnerTypeOK, TameInv
<1>0. \/ Looping(s) \/ Refilling(s)
      \/ Open(s) \/ Start(s) \/ Stop(s) \/ StopFails(s) \/ Close(s)
  BY TameSteps
<1>1. \A r \in EventSets : r # s => papi'[r] = papi[r] /\ pc'[r] = pc[r]
  <2>1. CASE Looping(s) \/ Refilling(s)
    BY <2>1 DEF Looping, Refilling
  <2>2. CASE Open(s) \/ Start(s) \/ Stop(s) \/ StopFails(s) \/ Close(s)
    BY <2>2 DEF Open, Start, Stop, StopFails, Close
  <2>3. QED  BY <1>0, <2>1, <2>2
<1>2. (papi'[s] = "running" \/ pc'[s] # "idle")
        => Active(s) \/ \A r \in Peers(s) : ~Active(r)
  <2>1. CASE Looping(s) \/ Refilling(s)
    BY <2>1 DEF Looping, Refilling, Active
  <2>2. CASE Open(s)
    BY <2>2 DEF Open, Active
  <2>3. CASE Start(s) \/ Stop(s) \/ StopFails(s) \/ Close(s)
    BY <2>3 DEF Start, Stop, StopFails, Close, Active
  <2>4. QED  BY <1>0, <2>1, <2>2, <2>3
<1>3. \A r \in EventSets : r # s => (Active(r)' <=> Active(r))
  BY <1>1 DEF Active
<1>4. Active(s)' => Active(s) \/ \A r \in Peers(s) : ~Active(r)
  BY <1>2 DEF Active
<1>5. QED
  BY <1>3, <1>4 DEF ActiveInv

(* Contexts follow the calls on their sets.                                *)
LEMMA TameContext ==
  ASSUME Tame, IInv, TameInv, NEW s \in EventSets, StepOf(s)
  PROVE  ContextInv'
<1> /\ pc \in [EventSets -> {"idle", "start", "abort", "close", "read", "copy",
                             "write", "put"}]
    /\ papi \in [EventSets -> {"stopped", "running"}]
    /\ rocs_ctx \in [EventSets -> {"NULL", "live", "dangling"}]
    /\ state \in [Threads -> SUBSET {"opened", "running"}]
    /\ ctx_state \in [EventSets -> SUBSET {"opened", "running"}]
    /\ ctx_mask \in [EventSets -> SUBSET Devices]
    /\ ThreadOf \in [EventSets -> Threads]
  BY RocmSmiContextAssumption DEF IInv, TypeOK, OwnerTypeOK
<1> /\ ActiveInv /\ ContextInv /\ CallInv
  BY DEF TameInv, IInv
<1> DEFINE OK(r) ==
      /\ pc[r] # "abort"
      /\ ~Active(r) => rocs_ctx[r] = "NULL" /\ ctx_mask[r] = {}
      /\ Active(r) =>
           /\ rocs_ctx[r] = "live"
           /\ ctx_state[r] = state[ThreadOf[r]]
           /\ state[ThreadOf[r]] = IF pc[r] \in {"start", "close"} THEN {"opened"}
                                   ELSE {"opened", "running"}
<1>0. \A r \in EventSets : OK(r)
  BY DEF ContextInv
<1> SUFFICES ASSUME NEW r \in EventSets  PROVE OK(r)'
  BY DEF ContextInv
<1>1. CASE Looping(s)
  <2>1. UNCHANGED ownVars /\ pc[s] \in Loop \cup {"idle"} /\ papi[s] = "running"
    BY <1>1 DEF Looping
  <2>2. pc'[r] = pc[r] \/ (r = s /\ pc'[r] \in Loop \cup {"idle"})
    BY <1>1 DEF Looping
  <2>3. QED  BY <1>0, <2>1, <2>2 DEF Active
<1>2. CASE Refilling(s)
  BY <1>0, <1>2 DEF Refilling, Active
<1>3. CASE Open(s)
  <2>1. \A q \in Peers(s) : ~Active(q)
    BY <1>3 DEF Open, Active
  <2>2. CASE r = s
    BY <1>3, <2>2 DEF Open, Active
  <2>3. CASE r # s /\ ThreadOf[r] = ThreadOf[s]
    BY <1>0, <1>3, <2>1, <2>3 DEF Open, Active
  <2>4. CASE ThreadOf[r] # ThreadOf[s]
    BY <1>0, <1>3, <2>4 DEF Open, Active
  <2>5. QED  BY <2>2, <2>3, <2>4
<1>4. CASE Start(s) \/ Stop(s) \/ StopFails(s) \/ (Close(s) /\ pc[s] = "close")
  <2>1. Active(s)
    BY <1>4 DEF Start, Stop, StopFails, Close, Active
  <2>2. CASE r = s
    <3>1. CASE Start(s)
      BY <1>0, <2>1, <2>2, <3>1 DEF Start, Active
    <3>2. CASE Stop(s)
      BY <1>0, <2>1, <2>2, <3>2 DEF Stop, Active
    <3>3. CASE StopFails(s)
      BY <1>0, <2>1, <2>2, <3>3 DEF StopFails, Active
    <3>4. CASE Close(s) /\ pc[s] = "close"
      BY <1>0, <2>1, <2>2, <3>4 DEF Close, Active
    <3>5. QED  BY <1>4, <3>1, <3>2, <3>3, <3>4
  <2>3. CASE r # s
    <3>1. /\ pc'[r] = pc[r] /\ papi'[r] = papi[r] /\ rocs_ctx'[r] = rocs_ctx[r]
          /\ ctx_mask'[r] = ctx_mask[r] /\ ctx_state'[r] = ctx_state[r]
          /\ ThreadOf[r] # ThreadOf[s] => state'[ThreadOf[r]] = state[ThreadOf[r]]
      BY <1>4, <2>3 DEF Start, Stop, StopFails, Close
    <3>2. ThreadOf[r] = ThreadOf[s] => ~Active(r)
      BY <2>1, <2>3 DEF ActiveInv
    <3>3. QED  BY <1>0, <3>1, <3>2 DEF Active
  <2>4. QED  BY <2>2, <2>3
<1>5. QED  BY <1>1, <1>2, <1>3, <1>4, TameSteps

(* What a set in use has is its own.                                       *)
LEMMA Owned ==
  ASSUME IInv, NEW s \in EventSets, Using(s), NEW r \in EventSets, Using(r),
         r # s, NEW e \in Counters
  PROVE  ~(e \in All(s) /\ e \in All(r))
<1>1. events_id[s] \in Seq(Events) /\ events_id[r] \in Seq(Events)
  BY Lists DEF IInv, TypeOK
<1>2. DeviceOf[e] # NoDevice
  BY RocmSmiContextAssumption
<1>3. ctx_mask[s] = Mask(events_id[s]) /\ ctx_mask[r] = Mask(events_id[r])
  BY DEF IInv, MaskInv
<1>4. e \in All(s) => DeviceOf[e] \in ctx_mask[s]
  <2>1. SUFFICES ASSUME e \in All(s)  PROVE DeviceOf[e] \in Mask(events_id[s])
    BY <1>3
  <2>2. PICK i \in 1 .. Len(events_id[s]) : e = events_id[s][i]
    BY <2>1 DEF All, First
  <2>3. QED  BY <1>1, <1>2, <2>2 DEF Mask
<1>5. e \in All(r) => DeviceOf[e] \in ctx_mask[r]
  <2>1. SUFFICES ASSUME e \in All(r)  PROVE DeviceOf[e] \in Mask(events_id[r])
    BY <1>3
  <2>2. PICK i \in 1 .. Len(events_id[r]) : e = events_id[r][i]
    BY <2>1 DEF All, First
  <2>3. QED  BY <1>1, <1>2, <2>2 DEF Mask
<1>6. QED
  BY <1>4, <1>5 DEF IInv, DevicesExclusive

(* A set that is closed has stopped its counters, and no other starts them.*)
LEMMA TameStopped ==
  ASSUME Tame, IInv, TameInv, NEW s \in EventSets, StepOf(s)
  PROVE  StoppedInv'
<1> /\ pc \in [EventSets -> {"idle", "start", "abort", "close", "read", "copy",
                             "write", "put"}]
    /\ counter \in [Events -> {"none", "created", "started"}]
    /\ StoppedInv
    /\ Counters \subseteq Events
  BY RocmSmiContextAssumption DEF IInv, TypeOK, OwnerTypeOK, ValueTypeOK, TameInv
<1> SUFFICES ASSUME NEW r \in EventSets, pc'[r] = "close",
                    NEW e \in Counters, e \in All(r)'
             PROVE  counter'[e] # "started"
  BY DEF StoppedInv
<1>1. CASE Looping(s)
  <2>1. UNCHANGED <<events_id, counter>> /\ (pc'[r] = pc[r] \/ pc'[r] \in Loop \cup {"idle"})
    BY <1>1 DEF Looping
  <2>2. pc[r] = "close" /\ All(r)' = All(r)
    BY <2>1 DEF All, First
  <2>3. QED  BY <2>1, <2>2 DEF StoppedInv
<1>2. CASE Refilling(s)
  <2>1. r # s /\ pc[r] = "close" /\ counter' = counter /\ events_id'[r] = events_id[r]
    BY <1>2 DEF Refilling, Active
  <2>2. All(r)' = All(r)
    BY <2>1 DEF All, First
  <2>3. QED  BY <2>1, <2>2 DEF StoppedInv
<1>3. CASE Open(s) \/ Start(s) \/ StopFails(s) \/ Close(s)
  <2>1. r # s /\ pc[r] = "close" /\ events_id' = events_id
    BY <1>3 DEF Open, Start, StopFails, Close
  <2>2. All(r)' = All(r)
    BY <2>1 DEF All, First
  <2>3. counter[e] # "started"
    BY <2>1, <2>2 DEF StoppedInv
  <2>4. CASE Open(s) \/ Close(s)
    BY <2>3, <2>4 DEF Open, Close, SetCounters
  <2>5. CASE StopFails(s)
    BY <2>3, <2>5 DEF StopFails, StopFirst
  <2>6. CASE Start(s)
    <3>1. e \notin All(s)
      BY <2>1, <2>2, <2>6, Owned DEF Start, Using
    <3>2. QED  BY <2>3, <2>6, <3>1 DEF Start, SetCounters
  <2>7. QED  BY <1>3, <2>4, <2>5, <2>6
<1>4. CASE Stop(s)
  <2>1. counter' = StopFirst(s, Len(events_id[s])) /\ events_id' = events_id
        /\ All(r)' = All(r)
    BY <1>4 DEF Stop, All, First
  <2>2. CASE r = s
    BY <2>1, <2>2 DEF StopFirst, All
  <2>3. CASE r # s
    <3>1. pc[r] = "close"
      BY <1>4, <2>3 DEF Stop
    <3>2. counter[e] # "started"
      BY <2>1, <3>1 DEF StoppedInv
    <3>3. QED  BY <2>1, <3>2 DEF StopFirst
  <2>4. QED  BY <2>2, <2>3
<1>5. QED  BY <1>1, <1>2, <1>3, <1>4, TameSteps

(* No device and no counter is left without an active set.                 *)
LEMMA TameUsed ==
  ASSUME Tame, IInv, TameInv, NEW s \in EventSets, StepOf(s)
  PROVE  UsedInv'
<1> /\ pc \in [EventSets -> {"idle", "start", "abort", "close", "read", "copy",
                             "write", "put"}]
    /\ papi \in [EventSets -> {"stopped", "running"}]
    /\ ctx_mask \in [EventSets -> SUBSET Devices]
    /\ counter \in [Events -> {"none", "created", "started"}]
    /\ ActiveInv /\ ContextInv /\ UsedInv
  BY DEF IInv, TypeOK, OwnerTypeOK, ValueTypeOK, TameInv
<1>0. \A r \in EventSets : r # s => papi'[r] = papi[r] /\ pc'[r] = pc[r]
  <2>1. CASE Looping(s) \/ Refilling(s)
    BY <2>1 DEF Looping, Refilling
  <2>2. CASE Open(s) \/ Start(s) \/ Stop(s) \/ StopFails(s) \/ Close(s)
    BY <2>2 DEF Open, Start, Stop, StopFails, Close
  <2>3. QED  BY <2>1, <2>2, TameSteps
<1>1. \A r \in EventSets : r # s => (Active(r) <=> Active(r)')
  BY <1>0 DEF Active
<1>2. (device_mask \subseteq UNION {ctx_mask[r] : r \in EventSets})'
  <2>1. CASE UNCHANGED <<device_mask, ctx_mask>>
    BY <2>1 DEF UsedInv
  <2>2. CASE Open(s)
    <3>1. ctx_mask' = [ctx_mask EXCEPT ![s] = Mask(events_id[s])]
          /\ device_mask' = device_mask \cup Mask(events_id[s])
          /\ ~Active(s)
      BY <2>2 DEF Open, Active
    <3>2. Held' = (Held \ ctx_mask[s]) \cup Mask(events_id[s])
      BY <3>1, HeldAfter
    <3>3. ctx_mask[s] = {}
      BY <3>1 DEF ContextInv
    <3>4. QED  BY <3>1, <3>2, <3>3 DEF UsedInv, Held
  <2>3. CASE Close(s)
    <3>1. ctx_mask' = [ctx_mask EXCEPT ![s] = {}]
          /\ device_mask' = device_mask \ ctx_mask[s]
      BY <2>3, ReleasedMask DEF Close, IInv, TypeOK
    <3>2. Held' = (Held \ ctx_mask[s]) \cup {}
      BY <3>1, HeldAfter
    <3>3. QED  BY <3>1, <3>2 DEF UsedInv, Held
  <2>4. CASE Looping(s) \/ Refilling(s) \/ Start(s) \/ Stop(s) \/ StopFails(s)
    BY <2>1, <2>4 DEF Looping, Refilling, Start, Stop, StopFails
  <2>5. QED  BY <2>2, <2>3, <2>4, TameSteps
<1>c. \A e \in Events : counter'[e] # "none" => e \in Counters
  <2>1. \A e \in Events : counter[e] # "none" => e \in Counters
    BY DEF UsedInv
  <2>2. CASE UNCHANGED counter
    BY <2>1, <2>2
  <2>3. CASE Open(s) \/ Start(s) \/ Close(s)
    BY <2>1, <2>3 DEF Open, Start, Close, SetCounters
  <2>4. CASE Stop(s) \/ StopFails(s)
    BY <2>1, <2>4 DEF Stop, StopFails, StopFirst
  <2>5. CASE Looping(s) \/ Refilling(s)
    BY <2>2, <2>5 DEF Looping, Refilling
  <2>6. QED  BY <2>3, <2>4, <2>5, TameSteps
<1>3. ASSUME NEW e \in Events, counter'[e] # "none"
      PROVE  \E r \in EventSets : Active(r)' /\ e \in All(r)'
  <2>1. CASE Looping(s)
    <3>1. UNCHANGED <<events_id, papi, counter>> /\ papi[s] = "running"
      BY <2>1 DEF Looping
    <3>2. PICK r \in EventSets : Active(r) /\ e \in All(r)
      BY <1>3, <3>1 DEF UsedInv
    <3>3. Active(r)' /\ All(r)' = All(r)
      BY <1>1, <3>1, <3>2 DEF Active, All, First
    <3>4. QED  BY <3>2, <3>3
  <2>2. CASE Refilling(s)
    <3>1. counter' = counter
      BY <2>2 DEF Refilling
    <3>2. PICK r \in EventSets : Active(r) /\ e \in All(r)
      BY <1>3, <3>1 DEF UsedInv
    <3>3. r # s
      BY <2>2, <3>2 DEF Refilling
    <3>4. Active(r)' /\ All(r)' = All(r)
      BY <1>1, <2>2, <3>2, <3>3 DEF Refilling, All, First
    <3>5. QED  BY <3>2, <3>4
  <2>3. CASE Open(s) \/ Start(s) \/ Stop(s) \/ StopFails(s)
    <3>1. UNCHANGED events_id /\ (papi'[s] = "running" \/ pc'[s] # "idle")
      BY <2>3 DEF Open, Start, Stop, StopFails
    <3>2. Active(s)' /\ \A r \in EventSets : All(r)' = All(r)
      BY <3>1 DEF Active, All, First
    <3>3. e \in All(s) \/ counter[e] # "none"
      BY <1>3, <2>3 DEF Open, Start, Stop, StopFails, SetCounters, StopFirst
    <3>4. CASE e \in All(s)
      BY <3>2, <3>4
    <3>5. CASE counter[e] # "none"
      <4>1. PICK r \in EventSets : Active(r) /\ e \in All(r)
        BY <3>5 DEF UsedInv
      <4>2. Active(r)'
        BY <1>1, <3>2, <4>1
      <4>3. QED  BY <3>2, <4>1, <4>2
    <3>6. QED  BY <3>3, <3>4, <3>5
  <2>4. CASE Close(s)
    <3>1. UNCHANGED events_id /\ counter' = SetCounters(All(s), "none")
      BY <2>4 DEF Close
    <3>2. counter[e] # "none" /\ ~(e \in All(s) /\ e \in Counters)
      BY <1>3, <3>1 DEF SetCounters
    <3>3. e \in Counters
      BY <3>2 DEF UsedInv
    <3>4. PICK r \in EventSets : Active(r) /\ e \in All(r)
      BY <3>2 DEF UsedInv
    <3>5. r # s
      BY <3>2, <3>3, <3>4
    <3>6. Active(r)' /\ All(r)' = All(r)
      BY <1>1, <3>1, <3>4, <3>5 DEF All, First
    <3>7. QED  BY <3>4, <3>6
  <2>5. QED  BY <2>1, <2>2, <2>3, <2>4, TameSteps
<1>4. QED  BY <1>2, <1>c, <1>3 DEF UsedInv

LEMMA TameInvariance ==
  ASSUME Tame
  PROVE  Spec => []TameInv
<1>1. Init => TameInv
  <2>1. Init => ActiveInv /\ ContextInv /\ UsedInv /\ StoppedInv
    BY DEF Init, ActiveInv, ContextInv, UsedInv, StoppedInv, Active
  <2>2. QED  BY <2>1 DEF TameInv
<1>2. IInv /\ TameInv /\ [Next]_vars => TameInv'
  <2>1. CASE UNCHANGED vars
    BY <2>1 DEF vars, TameInv, ActiveInv, ContextInv, UsedInv, StoppedInv, Active,
                All, First
  <2>2. ASSUME IInv, TameInv, NEW s \in EventSets, StepOf(s)
        PROVE  TameInv'
    BY <2>2, ActiveStep, TameContext, TameUsed, TameStopped DEF TameInv
  <2>3. QED  BY <2>1, <2>2 DEF Next
<1>3. QED  BY <1>1, <1>2, Invariance, PTL DEF Spec

(* When only PAPI_stop and the access functions may fail, PAPI and the     *)
(* component agree on every set: a running one has its context and can be  *)
(* stopped, a stopped one can be cleaned up and started again.             *)
THEOREM AgreesWithPapi ==
  ASSUME Tame
  PROVE  Spec => []PapiAgrees
<1>1. IInv /\ TameInv => PapiAgrees
  <2>1. SUFFICES ASSUME IInv, TameInv, NEW s \in EventSets, Called(s)
        PROVE  IF papi[s] = "running"
               THEN /\ rocs_ctx[s] = "live" /\ ctx_state[s] = {"opened", "running"}
                    /\ state[ThreadOf[s]] = {"opened", "running"}
               ELSE rocs_ctx[s] = "NULL"
    BY DEF PapiAgrees
  <2>2. pc[s] = "idle"
    BY <2>1
  <2>3. QED  BY <2>1, <2>2 DEF TameInv, ContextInv, Active
<1>2. QED  BY <1>1, Invariance, TameInvariance, PTL

(* Under the same failures nothing is left behind: with no set in use no   *)
(* device is marked and no counter of the driver exists.                   *)
THEOREM LeavesNothing ==
  ASSUME Tame
  PROVE  Spec => []NothingLeft
<1>1. TameInv => NothingLeft
  BY DEF TameInv, UsedInv, ContextInv, NothingLeft, Active
<1>2. QED  BY <1>1, TameInvariance, PTL

(* Nor does a step destroy a counter that still counts, a PAPI_stop that   *)
(* failed half way and was tried again included.                           *)
THEOREM DestroysStopped ==
  ASSUME Tame
  PROVE  Spec => StoppedBeforeDestroyed
<1>1. ASSUME IInv, TameInv, [Next]_vars
      PROVE  [\A e \in Counters : counter[e] = "started" => counter'[e] # "none"]_vars
  <2>1. SUFFICES ASSUME NEW s \in EventSets, StepOf(s),
                        NEW e \in Counters, counter[e] = "started"
                 PROVE  counter'[e] # "none"
    BY <1>1 DEF Next
  <2>2. e \in Events
    BY RocmSmiContextAssumption
  <2>3. CASE UNCHANGED counter
    BY <2>1, <2>3
  <2>4. CASE Open(s) \/ Start(s)
    BY <2>1, <2>2, <2>4 DEF Open, Start, SetCounters
  <2>5. CASE Stop(s) \/ StopFails(s)
    BY <2>1, <2>2, <2>5 DEF Stop, StopFails, StopFirst
  <2>6. CASE Close(s) /\ pc[s] = "close"
    <3>1. e \notin All(s)
      BY <1>1, <2>1, <2>6 DEF TameInv, StoppedInv
    <3>2. QED  BY <2>1, <2>2, <2>6, <3>1 DEF Close, SetCounters
  <2>7. CASE Looping(s) \/ Refilling(s)
    BY <2>3, <2>7 DEF Looping, Refilling
  <2>8. QED  BY <1>1, <2>1, <2>4, <2>5, <2>6, <2>7, TameSteps
<1>2. QED
  BY <1>1, Invariance, TameInvariance, PTL DEF Spec, StoppedBeforeDestroyed

=============================================================================
