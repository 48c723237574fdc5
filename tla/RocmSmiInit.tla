---------------------------- MODULE RocmSmiInit ----------------------------
(***************************************************************************)
(* Delayed initialisation of the PAPI rocm_smi component.                  *)
(*                                                                         *)
(* init_component only marks the component as delayed (PAPI_EDELAY_INIT);  *)
(* the first call that needs its events runs _rocm_smi_init_private, which *)
(* initialises rocs under COMPONENT_LOCK.  Every call first looks at       *)
(* initialized and disabled without the lock.  The vector of the component *)
(* is static: it keeps its state when PAPI is shut down and initialised    *)
(* again in the same process.                                              *)
(***************************************************************************)
EXTENDS Naturals, FiniteSets

CONSTANTS
  Threads,
  MaxSessions, \* bound on the calls of PAPI_library_init
  Failing      \* the stages of rocs_init that may fail

(* The stages of rocs_init, in their order.                                *)
Stages == <<"load_rsmi_sym", "rsmi_init", "num_monitor_dev", "device_table",
            "event_table">>

ASSUME RocmSmiInitAssumption ==
  /\ MaxSessions \in Nat
  /\ Failing \subseteq {Stages[i] : i \in 1 .. 5}

VARIABLES
  up, sessions,              \* PAPI is initialised, for the n-th time
  initialized, disabled,     \* cmp_info of the component
  lock,                      \* the holders of COMPONENT_LOCK
  pc, errno,                 \* a thread in _rocm_smi_check_n_initialize
  result,                    \* what its last call returned
  rsmi_dlp,                  \* the handle of librocm_smi64.so is open
  rsmi_refs,                 \* rsmi_init calls without rsmi_shut_down
  device_tables, ntv_table,  \* freq_table and pcie_table; the event table
  fault

rocsVars == <<rsmi_dlp, rsmi_refs, device_tables, ntv_table, fault>>
papiVars == <<up, sessions>>
callVars == <<pc, errno, result>>
vars == <<papiVars, initialized, disabled, lock, callVars, rocsVars>>

Errors == {"PAPI_EMISC", "PAPI_ENOSUPP", "PAPI_ENOMEM"}
Codes  == Errors \cup {"PAPI_OK", "PAPI_EDELAY_INIT"}

Init ==
  /\ up = FALSE /\ sessions = 0
  /\ initialized = FALSE /\ disabled = "PAPI_OK"
  /\ lock = {}
  /\ pc = [t \in Threads |-> "idle"]
  /\ errno = [t \in Threads |-> "PAPI_OK"]
  /\ result = [t \in Threads |-> "none"]
  /\ rsmi_dlp = FALSE /\ rsmi_refs = 0
  /\ device_tables = "NULL" /\ ntv_table = "empty"
  /\ fault = "none"

(* PAPI_library_init calls _rocm_smi_init_component.                       *)
LibraryInit ==
  /\ fault = "none" /\ ~up /\ sessions < MaxSessions
  /\ up' = TRUE /\ sessions' = sessions + 1
  /\ disabled' = "PAPI_EDELAY_INIT"
  /\ UNCHANGED <<initialized, lock, callVars, rocsVars>>

At(t, where) == fault = "none" /\ pc[t] = where
Goto(t, where) == pc' = [pc EXCEPT ![t] = where]

(* _rocm_smi_check_n_initialize, called first by init_control_state,       *)
(* update_control_state and the ntv functions: two reads without the lock. *)
Check(t) ==
  /\ up /\ At(t, "idle")
  /\ Goto(t, IF initialized THEN "read" ELSE "private")
  /\ result' = [result EXCEPT ![t] = "none"]
  /\ UNCHANGED <<papiVars, initialized, disabled, lock, errno, rocsVars>>

Return(t, code) ==
  /\ Goto(t, "idle")
  /\ result' = [result EXCEPT ![t] = code]

ReadDisabled(t) ==
  /\ At(t, "read") /\ Return(t, disabled)
  /\ UNCHANGED <<papiVars, initialized, disabled, lock, errno, rocsVars>>

(* _rocm_smi_init_private: another thread may have been faster.            *)
AlwaysFree == TRUE   \* mutant: without the lock
Free == lock = {}
AlreadyDone == initialized

InitPrivate(t) ==
  /\ At(t, "private") /\ Free
  /\ lock' = lock \cup {t}
  /\ IF AlreadyDone
     THEN /\ errno' = [errno EXCEPT ![t] = disabled]
          /\ Goto(t, "exit")
     ELSE Goto(t, "init") /\ UNCHANGED errno
  /\ UNCHANGED <<papiVars, initialized, disabled, result, rocsVars>>
(* What _rocm_smi_init_private gets from rocs_init.                        *)
Success == "PAPI_OK"

Ignored(e) == "PAPI_OK"      \* mutant: the error path forgets the error
Reported(e) == e

(* rocs_init succeeds.                                                     *)
RocsInit(t) ==
  /\ At(t, "init")
  /\ rsmi_dlp' = TRUE /\ rsmi_refs' = rsmi_refs + 1
  /\ device_tables' = "allocated" /\ ntv_table' = "filled"
  /\ errno' = [errno EXCEPT ![t] = Success]
  /\ Goto(t, "exit")
  /\ UNCHANGED <<papiVars, initialized, disabled, lock, result, fault>>

(* It fails before anything was initialised: nothing is undone, and the    *)
(* library stays open when it lacks a symbol or rsmi_init fails.           *)
RocsInitFailsEarly(t) ==
  /\ At(t, "init")
  /\ \/ /\ "load_rsmi_sym" \in Failing
        /\ disabled' = "PAPI_ENOSUPP" /\ UNCHANGED rsmi_dlp
     \/ /\ Failing \cap {"load_rsmi_sym", "rsmi_init"} # {}
        /\ disabled' = "PAPI_EMISC" /\ rsmi_dlp' = TRUE
  /\ errno' = [errno EXCEPT ![t] = disabled']
  /\ Goto(t, "exit")
  /\ UNCHANGED <<papiVars, initialized, lock, result, rsmi_refs, device_tables,
                 ntv_table, fault>>

(* shutdown_device_table frees the tables and keeps the pointers.          *)
FreeDeviceTables ==
  /\ device_tables' = IF device_tables = "NULL" THEN "NULL" ELSE "freed"
  /\ fault' = IF device_tables = "freed" THEN "double free" ELSE fault

(* It fails later: the error path shuts both tables and librocm_smi64 down *)
(* again.  init_device_table itself leaves NULL pointers when it fails;    *)
(* rsmi_num_monitor_dev failing leaves those of an earlier session.        *)
RocsInitFailsLate(t) ==
  /\ At(t, "init")
  /\ \E e \in {"PAPI_EMISC", "PAPI_ENOMEM"} :
       errno' = [errno EXCEPT ![t] = Reported(e)]
  /\ \/ "num_monitor_dev" \in Failing /\ FreeDeviceTables
     \/ "device_table" \in Failing /\ device_tables' = "NULL" /\ UNCHANGED fault
     \/ "event_table" \in Failing /\ device_tables' = "freed" /\ UNCHANGED fault
  /\ disabled' = errno'[t] /\ rsmi_dlp' = TRUE
  /\ Goto(t, "exit")
  /\ UNCHANGED <<papiVars, initialized, lock, result, rsmi_refs, ntv_table>>

(* fn_exit: two assignments that other threads may see one by one.         *)
SetInitialized(t) ==
  /\ At(t, "exit")
  /\ initialized' = TRUE
  /\ Goto(t, "unlock")
  /\ UNCHANGED <<papiVars, disabled, lock, errno, result, rocsVars>>

KeepLock(t) == lock   \* mutant: a path that returns without unlocking
Unlocked(t) == lock \ {t}

SetDisabled(t) ==
  /\ At(t, "unlock")
  /\ disabled' = errno[t]
  /\ lock' = Unlocked(t)
  /\ Return(t, errno[t])
  /\ UNCHANGED <<papiVars, initialized, errno, rocsVars>>

(* PAPI_shutdown: only an enabled component is shut down.  The component   *)
(* refuses if it was never initialised.                                    *)
AllIdle == \A t \in Threads : pc[t] = "idle"
AfterShutdown == FALSE

Shutdown ==
  /\ fault = "none" /\ up /\ AllIdle
  /\ up' = FALSE
  /\ result' = [t \in Threads |-> "none"]
  /\ IF initialized /\ disabled = "PAPI_OK"
     THEN /\ FreeDeviceTables
          /\ ntv_table' = "empty" /\ rsmi_refs' = rsmi_refs - 1
          /\ rsmi_dlp' = FALSE
          /\ initialized' = AfterShutdown
     ELSE UNCHANGED <<initialized, rocsVars>>
  /\ UNCHANGED <<sessions, disabled, lock, pc, errno>>

(* The steps of a call that has begun.                                     *)
CallStep(t) ==
  \/ ReadDisabled(t) \/ InitPrivate(t) \/ RocsInit(t)
  \/ RocsInitFailsEarly(t) \/ RocsInitFailsLate(t)
  \/ SetInitialized(t) \/ SetDisabled(t)

Next ==
  \/ LibraryInit \/ Shutdown
  \/ \E t \in Threads : Check(t) \/ CallStep(t)

Spec == Init /\ [][Next]_vars

(* A thread that has begun a call goes on with it; rocs_init makes no call *)
(* that waits for another thread.                                          *)
FairSpec == Spec /\ \A t \in Threads : WF_vars(CallStep(t))

-----------------------------------------------------------------------------
TypeOK ==
  /\ up \in BOOLEAN /\ sessions \in 0 .. MaxSessions
  /\ initialized \in BOOLEAN /\ disabled \in Codes
  /\ lock \subseteq Threads
  /\ pc \in [Threads -> {"idle", "read", "private", "init", "exit", "unlock"}]
  /\ errno \in [Threads -> Codes]
  /\ result \in [Threads -> Codes \cup {"none"}]
  /\ rsmi_dlp \in BOOLEAN /\ rsmi_refs \in Nat
  /\ device_tables \in {"NULL", "allocated", "freed"}
  /\ ntv_table \in {"empty", "filled"}
  /\ fault \in {"none", "double free"}

(* rocs_init runs once in a session, however many threads come first.      *)
InitializedOnce ==
  /\ rsmi_refs <= 1
  /\ \A s, t \in Threads :
       {pc[s], pc[t]} \subseteq {"init", "exit", "unlock"} => s = t

(* A call that passes the check finds the tables of rocs filled, although  *)
(* initialized is set before disabled and both are read without the lock.  *)
UsableWhenOK ==
  \A t \in Threads : result[t] = "PAPI_OK" =>
    rsmi_refs = 1 /\ ntv_table = "filled" /\ device_tables = "allocated"

(* PAPI_shutdown gives everything back, so that PAPI can be initialised    *)
(* again in the same process, except that a failed rocs_init leaves the    *)
(* library open: once, as the component then stays initialized.            *)
NothingLeftWhenDown ==
  ~up => /\ rsmi_refs = 0 /\ ntv_table = "empty" /\ device_tables # "allocated"
         /\ rsmi_dlp => initialized

(* In the first session the error paths of rocs_init free no table twice,  *)
(* whichever stage fails.                                                  *)
NoDoubleFree == sessions <= 1 => fault = "none"

(* A component that worked works again in the next session: initialized    *)
(* survives PAPI_shutdown only where the component was disabled.           *)
ReadyAgain == ~up /\ initialized => disabled # "PAPI_OK"
(* Every call returns: COMPONENT_LOCK is released on every path, whatever  *)
(* fails, as long as no double free stops the process.                     *)
ChecksReturn ==
  \A t \in Threads : pc[t] # "idle" ~> pc[t] = "idle" \/ fault # "none"

=============================================================================
