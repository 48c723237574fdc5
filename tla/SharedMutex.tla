----------------------------- MODULE SharedMutex -----------------------------
(***************************************************************************)
(* The mutex of one device in shared memory (shared_mutex.cc), and how the *)
(* processes that start rocm_smi_lib make, find, recover and reset it.     *)
(*                                                                         *)
(* A process that finds no object creates one and initialises the mutex in *)
(* it; one that finds an object tries the mutex with a time-out.  When the *)
(* mutex cannot be locked it is thrown away, unless a process uses it, and *)
(* made anew; a second failure gives up with BUSY.  A started process then *)
(* locks and unlocks the device (ScopedPthread), looking at no error.      *)
(* Nothing ever destroys the object.  No call on the object itself fails   *)
(* (shm_open, ftruncate, mmap, the attributes).                            *)
(*                                                                         *)
(* Of the object only what it does is kept: a page of zeros is a plain     *)
(* mutex, neither recursive nor robust.  Making a mutex anew while it is   *)
(* held is undefined; here it forgets its holder, as the library's does.   *)
(***************************************************************************)
EXTENDS FiniteSets

CONSTANTS Procs, None,
          MayDie       \* processes that may be killed

ASSUME SharedMutexAssumption == None \notin Procs /\ MayDie \subseteq Procs

VARIABLES
  exists,    \* the shared memory object is there
  robust,    \* its mutex was initialised; a page of zeros was not
  owner,     \* the process whose number is in the mutex
  state,     \* "ok", "inherited" from a dead owner, or "unusable"
  pc,        \* where each process is
  retried,   \* argument of shared_mutex_init
  alone,     \* processes that were the only one alive since they started
  spoiled    \* the lock word of a held mutex was overwritten, or the mutex
             \* was unusable when a process locked it

mutexVars == <<exists, robust, owner, state, pc, retried, alone, spoiled>>
mutex == <<robust, owner, state>>

MutexInit ==
  /\ exists = FALSE /\ robust = FALSE /\ owner = None /\ state = "ok"
  /\ pc = [p \in Procs |-> "down"]
  /\ retried = [p \in Procs |-> FALSE]
  /\ alone = {} /\ spoiled = FALSE

Dead == {p \in Procs : pc[p] = "dead"}
Live == {p \in Procs : pc[p] \notin {"down", "dead"}}
Goto(p, from, to) == pc[p] = from /\ pc' = [pc EXCEPT ![p] = to]

\* p is between a lock and its unlock, whatever the mutex says.
Holds(p) == pc[p] \in {"consistent", "unlock", "in"}

\* The mutex cannot be locked now: held, or by a dead owner and not robust.
Held == state # "unusable" /\ owner # None /\ (owner \in Dead => ~robust)
\* mutant: a lock that is busy is taken as well
FreeOrBusy == state # "unusable"

Unlocked == state # "unusable" /\ owner = None
Orphaned == robust /\ state # "unusable" /\ owner \in Dead

\* The object is overwritten with a mutex that nobody holds.
Overwritten(r) ==
  /\ robust' = r /\ owner' = None /\ state' = "ok"
  /\ spoiled' = (spoiled \/ \E q \in Live : Holds(q))

\* The kernel lets q have the mutex; of a dead owner, as EOWNERDEAD.
LockedBy(p) ==
  /\ owner' = p /\ state' = (IF Orphaned THEN "inherited" ELSE state)
  /\ UNCHANGED robust

\* A robust mutex is unlocked by its owner only; one that was inherited and
\* not made consistent is lost.
UnlockedBy(p) ==
  /\ owner' = IF robust /\ owner # p THEN owner ELSE None
  /\ state' = IF robust /\ owner = p /\ state = "inherited"
              THEN "unusable" ELSE state
  /\ UNCHANGED robust
-----------------------------------------------------------------------------
(* shared_mutex_init is called by the constructor of a device.             *)
Start(p) ==
  /\ Goto(p, "down", "open")
  /\ alone' = IF Live = {} THEN {p} ELSE {}
  /\ retried' = [retried EXCEPT ![p] = FALSE]
  /\ UNCHANGED <<exists, mutex, spoiled>>
(* shm_open finds the object, or the name does not exist.                  *)
OpenExisting(p) ==
  /\ exists /\ Goto(p, "open", IF retried[p] THEN "init" ELSE "lock")
  /\ UNCHANGED <<exists, mutex, retried, alone, spoiled>>
OpenMissing(p) ==
  /\ ~exists /\ Goto(p, "open", "create")
  /\ UNCHANGED <<exists, mutex, retried, alone, spoiled>>

(* Without O_EXCL: it may have been created in between.  A new object is   *)
(* truncated to a page of zeros.                                           *)
Create(p) ==
  /\ Goto(p, "create", "init")
  /\ exists' = TRUE
  /\ UNCHANGED <<mutex, retried, alone, spoiled>>

(* The attributes: shared, recursive, robust.                              *)
InitMutex(p) ==
  /\ Goto(p, "init", "lock")
  /\ Overwritten(TRUE)
  /\ UNCHANGED <<exists, retried, alone>>

(* pthread_mutex_timedlock.                                                *)
TimedLock(p) ==
  /\ Unlocked \/ Orphaned
  /\ Goto(p, "lock", IF Orphaned THEN "consistent" ELSE "unlock")
  /\ LockedBy(p)
  /\ UNCHANGED <<exists, retried, alone, spoiled>>

\* mutant: the process that asks is not left out
LsofSelf(p) == {p}

\* The processes lsof finds: none.  /proc/<pid>/fd names the object with the
\* directory of shared memory, the name it is compared with has none.
lsof(p) == {}

\* mutant: no time-out
LockFails(p) ==
  /\ state = "unusable"
  /\ Goto(p, "lock", IF ~retried[p] /\ lsof(p) = {} THEN "reset" ELSE "failed")
  /\ UNCHANGED <<exists, mutex, retried, alone, spoiled>>

TimedLockFails(p) ==
  /\ Held \/ state = "unusable"
  /\ Goto(p, "lock", IF ~retried[p] /\ lsof(p) = {} THEN "reset" ELSE "failed")
  /\ UNCHANGED <<exists, mutex, retried, alone, spoiled>>

(* pthread_mutex_consistent, unless another process has overwritten the    *)
(* mutex in between: then the start fails with BUSY.                       *)
Inherited == robust /\ state = "inherited"
Consistent(p) ==
  /\ Inherited /\ Goto(p, "consistent", "unlock")
  /\ state' = "ok"
  /\ UNCHANGED <<exists, robust, owner, retried, alone, spoiled>>
ConsistentFails(p) ==
  /\ ~Inherited /\ Goto(p, "consistent", "failed")
  /\ UNCHANGED <<exists, mutex, retried, alone, spoiled>>

(* memset, then all over again.                                            *)
Reset(p) ==
  /\ Goto(p, "reset", "open")
  /\ Overwritten(FALSE)
  /\ retried' = [retried EXCEPT ![p] = TRUE]
  /\ UNCHANGED <<exists, alone>>

InitUnlock(p) ==
  /\ Goto(p, "unlock", "up")
  /\ UnlockedBy(p)
  /\ UNCHANGED <<exists, retried, alone, spoiled>>

(* A call of the library takes the device and gives it back.               *)
Acquire(p) ==
  /\ Goto(p, "up", "in")
  /\ IF state = "unusable" THEN UNCHANGED mutex
     ELSE (Unlocked \/ Orphaned) /\ LockedBy(p)
  /\ spoiled' = (spoiled \/ state = "unusable")
  /\ UNCHANGED <<exists, retried, alone>>
Release(p) ==
  /\ Goto(p, "in", "up")
  /\ UnlockedBy(p)
  /\ UNCHANGED <<exists, retried, alone, spoiled>>
(* shared_mutex_close by the destructor of the device; the exception of a  *)
(* failed start.                                                           *)
Close(p) ==
  /\ Goto(p, "up", "down") \/ Goto(p, "failed", "down")
  /\ UNCHANGED <<exists, mutex, retried, alone, spoiled>>

(* A process is killed.                                                    *)
Die(p) ==
  /\ p \in MayDie /\ pc[p] \notin {"down", "dead"}
  /\ pc' = [pc EXCEPT ![p] = "dead"]
  /\ UNCHANGED <<exists, mutex, retried, alone, spoiled>>

InitStep(p) ==
  \/ OpenExisting(p) \/ OpenMissing(p) \/ Create(p) \/ InitMutex(p)
  \/ TimedLock(p) \/ TimedLockFails(p) \/ Consistent(p)
  \/ ConsistentFails(p) \/ Reset(p) \/ InitUnlock(p)

MutexNext ==
  \E p \in Procs :
    Start(p) \/ InitStep(p) \/ Acquire(p) \/ Release(p) \/ Close(p) \/ Die(p)

MutexSpec == MutexInit /\ [][MutexNext]_mutexVars

\* The steps of an initialisation that has begun; the time-out makes waiting
\* for the mutex one of them.
FairMutexSpec == MutexSpec /\ \A p \in Procs : WF_mutexVars(InitStep(p))
-----------------------------------------------------------------------------
TypeOK ==
  /\ exists \in BOOLEAN /\ robust \in BOOLEAN /\ spoiled \in BOOLEAN
  /\ owner \in Procs \cup {None}
  /\ state \in {"ok", "inherited", "unusable"}
  /\ pc \in [Procs -> {"down", "open", "create", "init", "lock", "consistent",
                       "unlock", "reset", "up", "in", "failed", "dead"}]
  /\ retried \in [Procs -> BOOLEAN]
  /\ alone \subseteq Procs

(* Two live processes are never inside the device at once, through deaths  *)
(* of holders and time-outs of starters, unless the mutex was overwritten  *)
(* while it was held or was beyond recovery (the library notices neither). *)
Exclusive ==
  spoiled \/ \A p, q \in Live : pc[p] = "in" /\ pc[q] = "in" => p = q

(* Crash recovery: whatever dead processes left behind, at any point of    *)
(* their start or of their calls, a process that is alone can start.       *)
LoneStarterSucceeds == \A p \in alone : pc[p] # "failed"
(* A start ends: with a mutex, with BUSY, or with the process; no process  *)
(* waits for ever for one that is dead or does not give the device back.   *)
StartersReturn ==
  \A p \in Procs :
    pc[p] = "open" ~> pc[p] \in {"up", "in", "failed", "down", "dead"}
=============================================================================
