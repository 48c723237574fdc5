------------------------------ MODULE RsmiCalls -----------------------------
(***************************************************************************)
(* Processes that call the functions of rocm_smi_lib on one device.        *)
(*                                                                         *)
(* A process runs the program of a function step by step; a call inside a  *)
(* call pushes a frame.  The mutex of the device is in shared memory, is   *)
(* recursive and robust, and is given back when the function that took it  *)
(* returns.  A process may be killed at any step.                          *)
(*                                                                         *)
(* ScopedPthread looks at no error but EBUSY of a trylock.  A process that *)
(* locks the mutex of a dead owner goes on as if nothing had happened; as  *)
(* it never calls pthread_mutex_consistent, its unlock makes the mutex     *)
(* unrecoverable: from then on locking fails, at once and unnoticed.       *)
(*                                                                         *)
(* Several shared-memory mutexes are never held together: every function   *)
(* locks that of one device.                                               *)
(***************************************************************************)
EXTENDS RsmiResults, FiniteSets

CONSTANTS
  Procs,        \* the processes
  None,         \* the owner of a free mutex
  Workload,     \* the functions each process calls
  Statuses,     \* statuses of a failed file access that occur
  BadIndices,   \* processes that may pass an index out of range
  Mortal,       \* processes that may be killed
  Impatient     \* processes that may set RSMI_INIT_FLAG_RESRV_TEST1

ASSUME CallsAssumption ==
  /\ None \notin Procs
  /\ Workload \in [Procs -> SUBSET ApiFunctions]
  /\ Statuses \subseteq ErrnoToRsmiStatus
  /\ BadIndices \subseteq Procs
  /\ Mortal \subseteq Procs
  /\ Impatient \subseteq Procs

VARIABLES
  mutex,     \* the device mutex: owner, count, state
  nonblock,  \* RSMI_INIT_FLAG_RESRV_TEST1 of each process
  stack,     \* frames of the running call, innermost first
  status,    \* the last status the running call has seen
  failed,    \* an access failed and no other source answered
             \* at some time
  result,    \* the result of the last call
  edits,     \* processes with uncommitted edits in the overdrive table
  given_up,  \* those whose call ended before the commit
  dead       \* processes that were killed or crashed

vars == <<mutex, nonblock, stack, status, failed, result, edits,
          given_up, dead>>

NoResult == [fn |-> "none", st |-> "none", null |-> FALSE, stored |-> FALSE,
             failed |-> FALSE]

Init ==
  /\ mutex = [owner |-> None, count |-> 0, state |-> "ok"]
  /\ nonblock \in {n \in [Procs -> BOOLEAN] : \A p \in Procs : n[p] => p \in Impatient}
  /\ stack = [p \in Procs |-> <<>>]
  /\ status = [p \in Procs |-> "SUCCESS"]
  /\ failed = [p \in Procs |-> FALSE]
  /\ result = [p \in Procs |-> NoResult]
  /\ edits = {} /\ given_up = {} /\ dead = {}

-----------------------------------------------------------------------------
Top(p)  == Head(stack[p])
Step(p) == Head(Top(p).todo)
Running(p) == p \notin dead /\ stack[p] # <<>>
Ready(p, op) == Running(p) /\ Top(p).todo # <<>> /\ Step(p).op = op

\* The frame that goes on with its next step, or with another program.
Goto(p, todo) == stack' = [stack EXCEPT ![p][1].todo = todo]
Advance(p)    == Goto(p, Tail(Top(p).todo))

\* mutant: only the last of several holds is given back
ReleasedAtLastOnly(n) ==
  IF n = 0 \/ mutex.count > 1 THEN mutex
  ELSE [owner |-> None, count |-> 0,
        state |-> IF mutex.state = "taken_over" THEN "unusable"
                  ELSE mutex.state]

\* mutant: the mutex is not recursive, the first release gives it away
ReleasedAtOnce(n) ==
  IF n = 0 THEN mutex
  ELSE [owner |-> None, count |-> 0,
        state |-> IF mutex.state = "taken_over" THEN "unusable"
                  ELSE mutex.state]

\* The mutex after one of its holders released it n times.
Released(n) ==
  IF n = 0 THEN mutex
  ELSE IF mutex.count > n THEN [mutex EXCEPT !.count = mutex.count - n]
  ELSE [owner |-> None, count |-> 0,
        state |-> IF mutex.state = "taken_over" THEN "unusable"
                  ELSE mutex.state]

\* mutant: what the callee returned is not looked at
GoesOnAnyway(caller, f, s) == [caller EXCEPT !.stored = @ \/ (f.pass /\ f.stored)]

\* A caller of f, which returned s, goes on if it looks at the status itself;
\* any other returns a failure too.
GoesOn(caller, f, s) ==
  [caller EXCEPT !.stored = @ \/ (f.pass /\ f.stored),
                 !.todo = IF s = "SUCCESS" \/ f.try THEN @ ELSE Return(s)]

\* The function returns s: its locks are released.
ReturnWith(p, s, fails) ==
  LET f == Top(p)
      rest == Tail(stack[p])
      resumed == GoesOn(Head(rest), f, s)
  IN /\ mutex' = Released(f.held)
     /\ IF rest = <<>>
        THEN /\ stack' = [stack EXCEPT ![p] = <<>>]
             /\ status' = [status EXCEPT ![p] = "SUCCESS"]
             /\ failed' = [failed EXCEPT ![p] = FALSE]
             /\ result' = [result EXCEPT ![p] =
                  [fn |-> f.fn, st |-> s, null |-> f.null,
                   stored |-> f.stored, failed |-> fails]]
             /\ given_up' = given_up \cup (edits \cap {p})
        ELSE /\ stack' = [stack EXCEPT ![p] = <<resumed>> \o Tail(rest)]
             /\ status' = [status EXCEPT ![p] = s]
             /\ failed' = [failed EXCEPT ![p] = fails]
             /\ UNCHANGED <<result, given_up>>
     /\ UNCHANGED <<nonblock, edits, dead>>

\* A step that only moves on.
Local == UNCHANGED <<mutex, nonblock, result, edits, given_up, dead>>

-----------------------------------------------------------------------------
(* A process calls a function of the API.                                  *)
CallApi(p) ==
  /\ p \notin dead /\ stack[p] = <<>> /\ result[p] = NoResult
  /\ \E fn \in Workload[p], null, root \in BOOLEAN,
        bad \in BOOLEAN :
       /\ null => HasResult(fn)
       /\ bad => p \in BadIndices
       /\ stack' = [stack EXCEPT ![p] =
            <<[fn |-> fn, todo |-> Program[fn], held |-> 0, null |-> null,
               stored |-> FALSE, pass |-> FALSE, try |-> FALSE,
               root |-> root, bad |-> bad]>>]
  /\ UNCHANGED <<mutex, nonblock, status, failed, result, edits, given_up, dead>>

(* The caller has looked at the result; it may call again.                 *)
TakeResult(p) ==
  /\ p \notin dead /\ result[p] # NoResult
  /\ result' = [result EXCEPT ![p] = NoResult]
  /\ UNCHANGED <<mutex, nonblock, stack, status, failed, edits,
                 given_up, dead>>

\* mutant: a lock that timed out is not looked at
AcquireAtOnce(p) ==
  /\ mutex' = [owner |-> p, count |-> 1, state |-> mutex.state]
  /\ stack' = [stack EXCEPT ![p][1].todo = Tail(@), ![p][1].held = @ + 1]
  /\ UNCHANGED <<nonblock, status, failed, result, edits,
                 given_up, dead>>

(* DEVICE_MUTEX.                                                           *)
Acquire(p) ==
  /\ mutex.owner \in {None, p} \cup dead \/ mutex.state = "unusable"
  /\ IF mutex.state = "unusable"
     THEN Advance(p) /\ UNCHANGED mutex
     ELSE /\ mutex' =
               IF mutex.owner \in dead
               THEN [owner |-> p, count |-> 1, state |-> "taken_over"]
               ELSE [mutex EXCEPT !.owner = p, !.count = mutex.count + 1]
          /\ stack' = [stack EXCEPT ![p][1].todo = Tail(@),
                                    ![p][1].held = @ + 1]
  /\ UNCHANGED <<nonblock, status, failed, result, edits,
                 given_up, dead>>

LockDevice(p) ==
  /\ Ready(p, "lock") \/ Ready(p, "blocking")
  /\ ~Top(p).bad
  /\ \/ Acquire(p)
     \/ /\ mutex.owner \notin {None, p} \cup dead /\ mutex.state # "unusable"
        /\ nonblock[p] /\ Step(p).op = "lock"
        /\ ReturnWith(p, "BUSY", failed[p])

(* GetMutex has no mutex for an index out of range: a null reference; or   *)
(* the code dereferences a null pointer.  The process ends as if killed.   *)
Crashes(p) ==
  \/ (Ready(p, "lock") \/ Ready(p, "blocking")) /\ Top(p).bad
  \/ Ready(p, "crash")
  \/ Ready(p, "store") /\ Top(p).null
Die(p) ==
  /\ dead' = dead \cup {p}
  /\ given_up' = given_up \cup (edits \cap {p})
  /\ stack' = [stack EXCEPT ![p] = <<>>]
  /\ UNCHANGED <<mutex, nonblock, status, failed, result, edits>>

Crash_(p) == Crashes(p) /\ Die(p)
Kill(p) == p \in Mortal /\ Running(p) /\ Die(p)

-----------------------------------------------------------------------------
(* Arguments, privileges, and what the text of a file may be.              *)
Refuse(p) ==
  \/ /\ Ready(p, "dev") /\ Top(p).bad
     /\ ReturnWith(p, "INVALID_ARGS", failed[p])
  \/ Ready(p, "root") /\ ~Top(p).root /\ ReturnWith(p, "PERMISSION", failed[p])
  \/ /\ Ready(p, "null") /\ Top(p).null
     /\ \E s \in Step(p).of : ReturnWith(p, s, failed[p])
  \/ Ready(p, "may") /\ \E s \in Step(p).of : ReturnWith(p, s, failed[p])

Pass(p) ==
  /\ \/ Ready(p, "dev") /\ ~Top(p).bad
     \/ Ready(p, "root") /\ Top(p).root
     \/ Ready(p, "null") /\ ~Top(p).null
     \/ Ready(p, "may")
     \/ Ready(p, "when") /\ status[p] \notin Step(p).of
     \/ Ready(p, "excuse") /\ status[p] \notin Step(p).of
     \/ Ready(p, "else") /\ status[p] = "SUCCESS"
  /\ Advance(p)
  /\ UNCHANGED <<status, failed>> /\ Local

(* A file is read or written; an edit of the overdrive table waits for the *)
(* commit.                                                                 *)
Access(p) ==
  /\ Ready(p, "read") \/ Ready(p, "write")
  /\ \/ /\ Advance(p)
        /\ status' = [status EXCEPT ![p] = "SUCCESS"]
        /\ LET v == IF Step(p).op = "write" THEN Step(p).val ELSE "none"
           IN /\ edits' = CASE v = "edit" -> edits \cup {p}
                            [] v = "c"    -> {}
                            [] OTHER      -> edits
              /\ given_up' = CASE v = "edit" -> given_up \ {p}
                               [] v = "c"    -> {}
                               [] OTHER      -> given_up
        /\ UNCHANGED <<mutex, nonblock, failed, result, dead>>
     \/ \E s \in Statuses :
          IF Step(p).try
          THEN /\ Advance(p)
               /\ status' = [status EXCEPT ![p] = s]
               /\ failed' = [failed EXCEPT ![p] = TRUE]
               /\ Local
          ELSE ReturnWith(p, s, TRUE)

(* Another function of the API is called.                                  *)
CallFunction(p) ==
  /\ Ready(p, "call")
  /\ LET s == Step(p)
         callee == [Top(p) EXCEPT
           !.fn = s.fn, !.todo = Program[s.fn], !.held = 0,
           !.null = s.pass /\ @, !.stored = FALSE, !.pass = s.pass,
           !.try = s.try]
         caller == [Top(p) EXCEPT !.todo = Tail(@)]
     IN stack' = [stack EXCEPT ![p] = <<callee, caller>> \o Tail(@)]
  /\ UNCHANGED <<status, failed>> /\ Local

(* The result pointer, and the status of what was tried.                   *)
StoreResult(p) ==
  /\ \/ Ready(p, "store") /\ ~Top(p).null
     \/ Ready(p, "given")
     \/ Ready(p, "stored")
  /\ stack' = [stack EXCEPT ![p][1].todo = Tail(@),
       ![p][1].stored = @ \/ (~Top(p).null /\
                               (Step(p).op = "stored" => status[p] = "SUCCESS"))]
  /\ UNCHANGED <<status, failed>> /\ Local

Decide(p) ==
  /\ \/ Ready(p, "fallback") \/ Ready(p, "forget")
     \/ Ready(p, "excuse") /\ status[p] \in Step(p).of
  /\ Advance(p)
  /\ status' = [status EXCEPT ![p] = "SUCCESS"]
  /\ failed' = [failed EXCEPT ![p] = FALSE]
  /\ Local

Choose(p) ==
  /\ Ready(p, "choose")
  /\ \E P \in Step(p).of : Goto(p, P \o Tail(Top(p).todo))
  /\ UNCHANGED <<status, failed>> /\ Local

Leave(p) ==
  \/ /\ Ready(p, "when") /\ status[p] \in Step(p).of
     /\ ReturnWith(p, Step(p).ret, failed[p])
  \/ /\ Ready(p, "else") /\ status[p] # "SUCCESS"
     /\ ReturnWith(p, status[p], failed[p])
  \/ Ready(p, "return") /\ ReturnWith(p, Step(p).ret, failed[p])
  \/ Running(p) /\ Top(p).todo = <<>> /\ ReturnWith(p, "SUCCESS", failed[p])

Work(p) ==
  \/ LockDevice(p) \/ Crash_(p) \/ Refuse(p) \/ Pass(p) \/ Access(p)
  \/ CallFunction(p) \/ StoreResult(p) \/ Decide(p) \/ Choose(p) \/ Leave(p)

Next == \E p \in Procs : CallApi(p) \/ TakeResult(p) \/ Kill(p) \/ Work(p)

Spec == Init /\ [][Next]_vars
-----------------------------------------------------------------------------
\* p is at an access to a file of the device.
InUse(p) ==
  /\ Ready(p, "read") \/ Ready(p, "write")
  /\ UsesDevice(Step(p))
ApiCall(p) == stack[p][Len(stack[p])].fn

(* Two processes are never at an access to the files of one device, but    *)
(* for the functions that take no mutex, as long as the mutex works: a     *)
(* read-modify-write of a setter and the two reads of a range are not      *)
(* interleaved, also when a call is made of calls.                         *)
AccessExclusive ==
  \A p, q \in Procs :
    /\ p # q /\ InUse(p) /\ InUse(q) /\ mutex.state # "unusable"
    => ApiCall(p) \in Unlocked \/ ApiCall(q) \in Unlocked

(* A commit of the overdrive table never commits the edits of a process    *)
(* that is still at work on them; what a setter left behind when it failed *)
(* between its edits and the commit goes with the next commit.             *)
CommitsOwnEdits ==
  \A p \in Procs :
    /\ Ready(p, "write") /\ Step(p).val = "c" /\ mutex.state # "unusable"
    => edits \ given_up \subseteq {p}

(* A function that returns success has stored a result through the pointer *)
(* it was given, but for the functions of NoResultOnSuccess.               *)
ResultOnSuccess ==
  \A p \in Procs :
    result[p].st = "SUCCESS" /\ Promises(result[p].fn) /\ ~result[p].null
    => result[p].stored

(* An access that failed is not reported as success, unless another source *)
(* gave the value; rsmi_dev_memory_usage_get does report it so.            *)
NoFailureSwallowed ==
  \A p \in Procs :
    result[p].st = "SUCCESS" /\ result[p].failed => result[p].fn \in Swallows
\* A success means that the call worked.
SuccessIsTrue == ResultOnSuccess /\ NoFailureSwallowed

\* What the frames of a call hold: the k-th lock of the i-th of them, counted
\* from the function of the API that was called.
Holds(frames) ==
  UNION {{i} \X (1 .. frames[Len(frames) + 1 - i].held) : i \in DOMAIN frames}
HeldIn(frames) == Cardinality(Holds(frames))

(* Every return, also one out of the middle of a function or of a call in  *)
(* a call, gives back what was locked: a process that is not in a call     *)
(* holds nothing, so nobody waits for it.                                  *)
LocksReturned ==
  \A p \in Procs \ dead :
    mutex.state # "unusable" =>
      HeldIn(stack[p]) = IF mutex.owner = p THEN mutex.count ELSE 0
=============================================================================
