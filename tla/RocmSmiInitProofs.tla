-------------------------- MODULE RocmSmiInitProofs --------------------------
(***************************************************************************)
(* The delayed initialisation happens once and success is never answered   *)
(* too early, for any number of threads and sessions of PAPI and whatever  *)
(* stage of rocs_init fails.                                               *)
(***************************************************************************)
EXTENDS RocmSmiInit, TLAPS

Inside == {"init", "exit", "unlock"}   \* with COMPONENT_LOCK

On  == rsmi_refs = 1 /\ ntv_table = "filled" /\ device_tables = "allocated"
Off == rsmi_refs = 0 /\ ntv_table = "empty" /\ device_tables # "allocated"

(* COMPONENT_LOCK has one holder, the thread in its section.               *)
LockInv ==
  /\ \A t \in Threads : t \in lock <=> pc[t] \in Inside
  /\ \A s, t \in Threads : s \in lock /\ t \in lock => s = t

(* Between two sessions nobody is inside and nothing is left.              *)
DownInv == ~up => AllIdle /\ Off /\ ReadyAgain

(* What the holder of the lock has done so far.                            *)
StageInv == \A t \in Threads :
  /\ pc[t] = "init" => Off /\ ~initialized
  /\ pc[t] \in {"exit", "unlock"} => (errno[t] = "PAPI_OK" <=> On)
  /\ pc[t] = "unlock" => initialized

(* When nobody holds the lock, the component is enabled if rocs is up; an  *)
(* enabled component has rocs up at any time.                              *)
EnabledInv ==
  /\ On \/ Off
  /\ lock = {} /\ On => initialized /\ disabled = "PAPI_OK"
  /\ up /\ disabled = "PAPI_OK" => On

(* Only a finished rocs_init leaves the library open.                      *)
HandleInv ==
  ~initialized /\ (\A t \in Threads : pc[t] # "exit") => ~rsmi_dlp

(* In the first session no table was freed before rocs_init has failed.    *)
FirstInv ==
  /\ sessions = 0 => ~up
  /\ ~up /\ sessions = 0 => device_tables = "NULL"
  /\ up /\ sessions <= 1 /\ ~initialized /\ (\A t \in Threads : pc[t] # "exit")
       => device_tables = "NULL"

IInv == /\ TypeOK /\ LockInv /\ DownInv /\ StageInv /\ EnabledInv /\ UsableWhenOK
        /\ FirstInv /\ NoDoubleFree /\ HandleInv

Step(t) == Check(t) \/ CallStep(t)

USE DEF rocsVars, papiVars, callVars

LEMMA SessionBound == MaxSessions \in Nat
BY RocmSmiInitAssumption DEF RocmSmiInitAssumption

LEMMA TypeStep ==
  ASSUME TypeOK, NEW t \in Threads, Step(t)
  PROVE  TypeOK'
<1> USE DEF TypeOK, Codes, Errors, At, Goto, Return
<1>1. CASE Check(t)
  BY <1>1 DEF Check
<1>2. CASE ReadDisabled(t) \/ SetInitialized(t) \/ SetDisabled(t)
  BY ZenonT(30), <1>2 DEF ReadDisabled, SetInitialized, SetDisabled, Unlocked
<1>3. CASE InitPrivate(t)
  BY <1>3 DEF InitPrivate
<1>4. CASE RocsInit(t)
  BY <1>4 DEF RocsInit, Success
<1>5. CASE RocsInitFailsEarly(t)
  BY <1>5 DEF RocsInitFailsEarly
<1>6. CASE RocsInitFailsLate(t)
  BY <1>6 DEF RocsInitFailsLate, FreeDeviceTables, Reported
<1>7. QED
  BY <1>1, <1>2, <1>3, <1>4, <1>5, <1>6 DEF Step, CallStep

(* A call moves its own thread only, and only while PAPI is up.            *)
LEMMA OthersStay ==
  ASSUME TypeOK, DownInv, NEW t \in Threads, Step(t)
  PROVE  /\ up /\ up' /\ sessions' = sessions
         /\ \A s \in Threads \ {t} :
              pc'[s] = pc[s] /\ errno'[s] = errno[s] /\ result'[s] = result[s]
<1>1. UNCHANGED <<up, sessions>>
  BY DEF Step, CallStep, Check, ReadDisabled, InitPrivate, RocsInit,
         RocsInitFailsEarly, RocsInitFailsLate, SetInitialized, SetDisabled
<1>2. up
  BY DEF DownInv, AllIdle, At, Step, CallStep, Check, ReadDisabled, InitPrivate,
         RocsInit, RocsInitFailsEarly, RocsInitFailsLate, SetInitialized, SetDisabled
<1>3. \A s \in Threads \ {t} : pc'[s] = pc[s]
  BY DEF TypeOK, Goto, Return, Step, CallStep, Check, ReadDisabled, InitPrivate,
         RocsInit, RocsInitFailsEarly, RocsInitFailsLate, SetInitialized, SetDisabled
<1>4. \A s \in Threads \ {t} : errno'[s] = errno[s]
  BY DEF TypeOK, Goto, Return, Step, CallStep, Check, ReadDisabled, InitPrivate,
         RocsInit, RocsInitFailsEarly, RocsInitFailsLate, SetInitialized, SetDisabled
<1>5. \A s \in Threads \ {t} : result'[s] = result[s]
  BY DEF TypeOK, Goto, Return, Step, CallStep, Check, ReadDisabled, InitPrivate,
         RocsInit, RocsInitFailsEarly, RocsInitFailsLate, SetInitialized, SetDisabled
<1>6. QED  BY <1>1, <1>2, <1>3, <1>4, <1>5

(* The steps of a thread that does not hold the lock when they begin.      *)
LEMMA OutsideStep ==
  ASSUME IInv, NEW t \in Threads,
         Check(t) \/ ReadDisabled(t) \/ InitPrivate(t)
  PROVE  IInv'
<1> USE DEF IInv
<1>0. Step(t)
  BY DEF Step, CallStep
<1>1. TypeOK'
  BY <1>0, TypeStep
<1>2. /\ up /\ up' /\ sessions' = sessions
      /\ \A s \in Threads \ {t} :
           pc'[s] = pc[s] /\ errno'[s] = errno[s] /\ result'[s] = result[s]
  BY <1>0, OthersStay
<1>3. UNCHANGED <<initialized, disabled, rsmi_dlp, rsmi_refs, device_tables, ntv_table,
                  fault>>
  BY DEF Check, ReadDisabled, InitPrivate
<1>4. DownInv' /\ NoDoubleFree'
  BY <1>2, <1>3 DEF DownInv, NoDoubleFree
<1>5. CASE Check(t) \/ ReadDisabled(t)
  <2>1. pc'[t] \notin Inside /\ pc[t] \notin Inside /\ lock' = lock
    BY <1>5 DEF TypeOK, Inside, At, Goto, Return, Check, ReadDisabled
  <2>2. LockInv'
    BY <1>2, <2>1 DEF LockInv
  <2>3. StageInv'
    BY <1>2, <1>3, <2>1 DEF StageInv, On, Off, Inside
  <2>4. EnabledInv'
    BY <1>2, <1>3, <2>1 DEF EnabledInv, On, Off
  <2>5. result'[t] = "PAPI_OK" => disabled = "PAPI_OK"
    BY <1>5 DEF TypeOK, Check, ReadDisabled, Return
  <2>6. UsableWhenOK'
    BY <1>2, <1>3, <2>5 DEF UsableWhenOK, EnabledInv, On
  <2>7. FirstInv'
    BY <1>2, <1>3, <2>1 DEF FirstInv, Inside
  <2>8. HandleInv'
    BY <1>2, <1>3, <2>1 DEF HandleInv, Inside
  <2>9. QED  BY <1>1, <1>4, <2>2, <2>3, <2>4, <2>6, <2>7, <2>8
<1>6. CASE InitPrivate(t)
  <2>1. lock = {} /\ lock' = {t} /\ result' = result
    BY <1>6 DEF InitPrivate, Free
  <2>2. \A s \in Threads : pc[s] \notin Inside
    BY <2>1 DEF LockInv
  <2>3. \/ initialized /\ pc'[t] = "exit" /\ errno'[t] = disabled
        \/ ~initialized /\ pc'[t] = "init"
    BY <1>6 DEF TypeOK, InitPrivate, AlreadyDone, Goto
  <2>4. LockInv'
    BY <1>2, <2>1, <2>2, <2>3 DEF LockInv, Inside
  <2>5. StageInv'
    <3>1. ~initialized => Off
      BY <2>1 DEF EnabledInv
    <3>2. disabled = "PAPI_OK" <=> On
      BY <1>2, <2>1 DEF EnabledInv
    <3>3. \A s \in Threads \ {t} : pc'[s] \notin Inside
      BY <1>2, <2>2
    <3>4. QED  BY <1>3, <2>3, <3>1, <3>2, <3>3 DEF StageInv, On, Off, Inside
  <2>6. EnabledInv'
    BY <1>2, <1>3, <2>1 DEF EnabledInv, On, Off
  <2>7. UsableWhenOK'
    BY <1>3, <2>1 DEF UsableWhenOK
  <2>8. FirstInv'
    BY <1>2, <1>3, <2>2, <2>3 DEF FirstInv, Inside
  <2>9. HandleInv'
    BY <1>2, <1>3, <2>2, <2>3 DEF HandleInv, Inside
  <2>10. QED  BY <1>1, <1>4, <2>4, <2>5, <2>6, <2>7, <2>8, <2>9
<1>7. QED  BY <1>5, <1>6

(* rocs_init, whether it succeeds or fails, by the thread with the lock.   *)
LEMMA RocsInitStep ==
  ASSUME IInv, NEW t \in Threads,
         RocsInit(t) \/ RocsInitFailsEarly(t) \/ RocsInitFailsLate(t)
  PROVE  IInv'
<1> USE DEF IInv
<1>0. Step(t)
  BY DEF Step, CallStep
<1>1. TypeOK'
  BY <1>0, TypeStep
<1>2. /\ up /\ up' /\ sessions' = sessions
      /\ \A s \in Threads \ {t} :
           pc'[s] = pc[s] /\ errno'[s] = errno[s] /\ result'[s] = result[s]
  BY <1>0, OthersStay
<1>3. pc[t] = "init" /\ pc'[t] = "exit" /\ UNCHANGED <<initialized, lock, result>>
  BY DEF TypeOK, At, Goto, RocsInit, RocsInitFailsEarly, RocsInitFailsLate
<1>4. Off /\ ~initialized
  BY <1>3 DEF StageInv
<1>5. t \in lock /\ \A s \in Threads \ {t} : pc[s] \notin Inside
  BY <1>3 DEF LockInv, Inside
<1>6. \A s \in Threads : result'[s] # "PAPI_OK"
  BY <1>3, <1>4 DEF UsableWhenOK, Off
<1>7. LockInv' /\ DownInv' /\ UsableWhenOK'
  BY <1>2, <1>3, <1>5, <1>6 DEF LockInv, DownInv, UsableWhenOK, Inside
<1>8. (On \/ Off)' /\ (errno'[t] = "PAPI_OK" <=> On')
      /\ (disabled' = "PAPI_OK" => disabled = "PAPI_OK")
  <2>1. CASE RocsInit(t)
    <3>1. errno'[t] = "PAPI_OK" /\ disabled' = disabled
      BY <2>1 DEF TypeOK, RocsInit, Success
    <3>2. rsmi_refs' = rsmi_refs + 1 /\ rsmi_refs = 0
      BY <1>4, <2>1 DEF RocsInit, Off
    <3>3. rsmi_refs' = 1
      BY <3>2
    <3>4. On'
      BY <2>1, <3>3 DEF RocsInit, On
    <3>5. QED  BY <3>1, <3>4
  <2>2. CASE RocsInitFailsEarly(t)
    BY <1>4, <2>2 DEF TypeOK, RocsInitFailsEarly, On, Off
  <2>3. CASE RocsInitFailsLate(t)
    BY <1>4, <2>3 DEF TypeOK, RocsInitFailsLate, FreeDeviceTables, Reported, On, Off
  <2>4. QED  BY <2>1, <2>2, <2>3
<1>9. disabled # "PAPI_OK"
  BY <1>2, <1>4 DEF EnabledInv, On, Off
<1>10. EnabledInv'
  BY <1>3, <1>5, <1>8, <1>9 DEF EnabledInv
<1>11. StageInv'
  BY <1>2, <1>3, <1>5, <1>8 DEF StageInv, Inside
<1>12. FirstInv'
  <2>1. sessions # 0
    BY <1>2 DEF FirstInv
  <2>2. QED  BY <1>2, <1>3, <2>1 DEF FirstInv
<1>13. NoDoubleFree'
  <2>1. ASSUME sessions <= 1  PROVE device_tables = "NULL"
    BY <1>2, <1>3, <1>4, <1>5, <2>1 DEF FirstInv, Inside
  <2>2. sessions <= 1 => fault' = fault
    BY <2>1 DEF RocsInit, RocsInitFailsEarly, RocsInitFailsLate, FreeDeviceTables
  <2>3. QED  BY <1>2, <2>2 DEF NoDoubleFree
<1>14. HandleInv'
  BY <1>3 DEF HandleInv
<1>15. QED  BY <1>1, <1>7, <1>10, <1>11, <1>12, <1>13, <1>14

(* fn_exit: the two assignments, and the lock is given back.               *)
LEMMA ExitStep ==
  ASSUME IInv, NEW t \in Threads, SetInitialized(t) \/ SetDisabled(t)
  PROVE  IInv'
<1> USE DEF IInv
<1>0. Step(t)
  BY DEF Step, CallStep
<1>1. TypeOK'
  BY <1>0, TypeStep
<1>2. /\ up /\ up' /\ sessions' = sessions
      /\ \A s \in Threads \ {t} :
           pc'[s] = pc[s] /\ errno'[s] = errno[s] /\ result'[s] = result[s]
  BY <1>0, OthersStay
<1>3. UNCHANGED <<errno, rsmi_dlp, rsmi_refs, device_tables, ntv_table, fault>>
  BY DEF SetInitialized, SetDisabled
<1>4. pc[t] \in Inside /\ t \in lock /\ \A s \in Threads \ {t} : s \notin lock
      /\ pc[s] \notin Inside
  BY DEF LockInv, Inside, At, SetInitialized, SetDisabled
<1>5. DownInv' /\ NoDoubleFree'
  BY <1>2, <1>3 DEF DownInv, NoDoubleFree
<1>6. initialized'
  BY <1>3 DEF StageInv, At, SetInitialized, SetDisabled
<1>7. FirstInv' /\ HandleInv'
  BY <1>2, <1>6 DEF FirstInv, HandleInv
<1>8. CASE SetInitialized(t)
  <2>1. pc'[t] = "unlock" /\ pc[t] = "exit" /\ UNCHANGED <<lock, disabled, result>>
    BY <1>8 DEF TypeOK, At, Goto, SetInitialized
  <2>2. LockInv' /\ UsableWhenOK'
    BY <1>2, <1>3, <1>4, <2>1 DEF LockInv, Inside, UsableWhenOK
  <2>3. StageInv'
    BY <1>2, <1>3, <1>4, <1>6, <2>1 DEF StageInv, Inside, On, Off
  <2>4. EnabledInv'
    BY <1>2, <1>3, <1>4, <2>1 DEF EnabledInv, On, Off
  <2>5. QED  BY <1>1, <1>5, <1>7, <2>2, <2>3, <2>4
<1>9. CASE SetDisabled(t)
  <2>1. /\ pc[t] = "unlock" /\ pc'[t] = "idle" /\ disabled' = errno[t]
        /\ result'[t] = errno[t] /\ lock' = lock \ {t}
    BY <1>9 DEF TypeOK, At, Goto, Return, SetDisabled, Unlocked
  <2>2. errno[t] = "PAPI_OK" <=> On
    BY <2>1 DEF StageInv
  <2>3. LockInv'
    BY <1>2, <1>4, <2>1 DEF LockInv, Inside
  <2>4. UsableWhenOK'
    BY <1>2, <1>3, <2>1, <2>2 DEF UsableWhenOK, On
  <2>5. StageInv'
    BY <1>2, <1>4, <2>1 DEF StageInv, Inside
  <2>6. EnabledInv'
    BY <1>3, <1>6, <2>1, <2>2 DEF EnabledInv, On, Off
  <2>7. QED  BY <1>1, <1>5, <1>7, <2>3, <2>4, <2>5, <2>6
<1>10. QED  BY <1>8, <1>9

(* PAPI is initialised and shut down while no call is under way.           *)
LEMMA SessionStep ==
  ASSUME IInv, LibraryInit \/ Shutdown
  PROVE  IInv'
<1> USE SessionBound DEF IInv
<1>1. CASE LibraryInit
  <2>1. AllIdle /\ Off /\ UNCHANGED <<initialized, lock, pc, errno, result,
          rsmi_dlp, rsmi_refs, device_tables, ntv_table, fault>>
    BY <1>1 DEF LibraryInit, DownInv
  <2>2. up' = TRUE /\ disabled' = "PAPI_EDELAY_INIT" /\ ~up
    BY <1>1 DEF LibraryInit
  <2>3. sessions \in Nat /\ sessions' = sessions + 1 /\ sessions < MaxSessions
    BY <1>1 DEF LibraryInit, TypeOK
  <2>4. sessions' \in 0 .. MaxSessions /\ sessions' # 0
        /\ (sessions' <= 1 => sessions = 0 /\ sessions <= 1)
    BY <2>3
  <2>5. TypeOK'
    BY <2>1, <2>2, <2>4 DEF TypeOK, Codes, Errors
  <2>6. LockInv' /\ DownInv' /\ StageInv' /\ UsableWhenOK'
    BY <2>1, <2>2 DEF LockInv, DownInv, StageInv, UsableWhenOK, AllIdle
  <2>7. EnabledInv'
    BY <2>1, <2>2 DEF EnabledInv, On, Off
  <2>8. FirstInv' /\ NoDoubleFree' /\ HandleInv'
    BY <2>1, <2>2, <2>4 DEF FirstInv, NoDoubleFree, HandleInv
  <2>9. QED  BY <2>5, <2>6, <2>7, <2>8
<1>2. CASE Shutdown
  <2>1. AllIdle /\ up /\ up' = FALSE /\ UNCHANGED <<sessions, disabled, lock, pc, errno>>
        /\ result' = [t \in Threads |-> "none"]
    BY <1>2 DEF Shutdown
  <2>2. AllIdle' /\ lock = {}
    <3>1. lock \subseteq Threads
      BY DEF TypeOK
    <3>2. QED  BY <2>1, <3>1 DEF AllIdle, LockInv, Inside
  <2>3. LockInv' /\ StageInv' /\ UsableWhenOK'
    BY <2>1, <2>2 DEF LockInv, StageInv, UsableWhenOK, AllIdle, Inside
  <2>4. FirstInv'
    BY <2>1 DEF FirstInv
  <2>5. CASE initialized /\ disabled = "PAPI_OK"
    <3>1. On
      BY <2>1, <2>5 DEF EnabledInv
    <3>2. /\ device_tables' = "freed" /\ fault' = fault /\ ntv_table' = "empty"
          /\ rsmi_refs' = 0 /\ initialized' = FALSE /\ rsmi_dlp' = FALSE
      BY <1>2, <2>5, <3>1 DEF Shutdown, FreeDeviceTables, AfterShutdown, On
    <3>3. TypeOK'
      BY <2>1, <3>2 DEF TypeOK
    <3>4. DownInv' /\ EnabledInv' /\ NoDoubleFree' /\ HandleInv'
      BY <2>1, <2>2, <3>2
         DEF DownInv, EnabledInv, NoDoubleFree, HandleInv, On, Off, ReadyAgain
    <3>5. QED  BY <2>3, <2>4, <3>3, <3>4
  <2>6. CASE ~(initialized /\ disabled = "PAPI_OK")
    <3>1. UNCHANGED <<initialized, rsmi_dlp, rsmi_refs, device_tables, ntv_table, fault>>
      BY <1>2, <2>6 DEF Shutdown
    <3>2. Off
      BY <2>2, <2>6 DEF EnabledInv
    <3>3. TypeOK'
      BY <2>1, <3>1 DEF TypeOK
    <3>4. DownInv' /\ EnabledInv' /\ NoDoubleFree' /\ HandleInv'
      BY <2>1, <2>2, <2>6, <3>1, <3>2
         DEF DownInv, EnabledInv, NoDoubleFree, HandleInv, On, Off, ReadyAgain
    <3>5. QED  BY <2>3, <2>4, <3>3, <3>4
  <2>7. QED  BY <2>5, <2>6
<1>3. QED  BY <1>1, <1>2

LEMMA Invariance == Spec => []IInv
<1>1. Init => IInv
  <2> SUFFICES ASSUME Init  PROVE IInv
    OBVIOUS
  <2>1. TypeOK
    <3>1. sessions \in 0 .. MaxSessions
      BY SessionBound DEF Init
    <3>2. up \in BOOLEAN /\ initialized \in BOOLEAN /\ disabled \in Codes
      BY DEF Init, Codes
    <3>3. lock \subseteq Threads
      BY DEF Init
    <3>4. pc \in [Threads -> {"idle", "read", "private", "init", "exit", "unlock"}]
      BY DEF Init
    <3>5. errno \in [Threads -> Codes] /\ result \in [Threads -> Codes \cup {"none"}]
      BY DEF Init, Codes
    <3>6. QED  BY <3>1, <3>2, <3>3, <3>4, <3>5 DEF Init, TypeOK
  <2>2. LockInv /\ DownInv /\ StageInv
    BY DEF Init, LockInv, DownInv, StageInv, AllIdle, Off, ReadyAgain, Inside
  <2>3. EnabledInv /\ UsableWhenOK /\ FirstInv /\ NoDoubleFree /\ HandleInv
    BY DEF Init, EnabledInv, UsableWhenOK, FirstInv, NoDoubleFree, HandleInv, On, Off
  <2>4. QED  BY <2>1, <2>2, <2>3 DEF IInv
<1>2. IInv /\ [Next]_vars => IInv'
  <2> SUFFICES ASSUME IInv, [Next]_vars  PROVE IInv'
    OBVIOUS
  <2>1. CASE LibraryInit \/ Shutdown
    BY <2>1, SessionStep
  <2>2. ASSUME NEW t \in Threads, Check(t) \/ CallStep(t)
        PROVE  IInv'
    BY <2>2, OutsideStep, RocsInitStep, ExitStep DEF CallStep
  <2>3. CASE UNCHANGED vars
    BY <2>3 DEF vars, IInv, TypeOK, LockInv, DownInv, StageInv, EnabledInv,
       UsableWhenOK, FirstInv, NoDoubleFree, HandleInv, On, Off, AllIdle, ReadyAgain
  <2>4. QED  BY <2>1, <2>2, <2>3 DEF Next
<1>3. QED  BY <1>1, <1>2, PTL DEF Spec

(* Type correctness of the component and of the threads that call it.      *)
THEOREM TypeCorrect == Spec => []TypeOK
<1>1. IInv => TypeOK
  BY DEF IInv
<1>2. QED  BY <1>1, Invariance, PTL

(* rocs_init runs once in a session, however many threads come first.      *)
THEOREM Once == Spec => []InitializedOnce
<1>1. IInv => InitializedOnce
  BY DEF IInv, InitializedOnce, LockInv, EnabledInv, On, Off, Inside
<1>2. QED  BY <1>1, Invariance, PTL

(* No caller is told success before the tables of rocs are filled, or      *)
(* after a failure.                                                        *)
THEOREM Usable == Spec => []UsableWhenOK
<1>1. IInv => UsableWhenOK
  BY DEF IInv
<1>2. QED  BY <1>1, Invariance, PTL

(* A shutdown leaves nothing behind, whatever failed in the session.       *)
THEOREM NothingLeft == Spec => []NothingLeftWhenDown
<1>1. IInv => NothingLeftWhenDown
  BY DEF IInv, DownInv, HandleInv, AllIdle, Off, NothingLeftWhenDown
<1>2. QED  BY <1>1, Invariance, PTL

(* A component that worked works again in the next session of PAPI.        *)
THEOREM Ready == Spec => []ReadyAgain
<1>1. IInv => ReadyAgain
  BY DEF IInv, DownInv, ReadyAgain
<1>2. QED  BY <1>1, Invariance, PTL

(* The error paths of rocs_init free nothing twice in the first session.   *)
THEOREM FreedOnce == Spec => []NoDoubleFree
<1>1. IInv => NoDoubleFree
  BY DEF IInv
<1>2. QED  BY <1>1, Invariance, PTL

=============================================================================
