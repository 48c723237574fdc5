------------------------------ MODULE RsmiOps ------------------------------
(***************************************************************************)
(* The steps an API function of rocm_smi_lib is made of.                   *)
(*                                                                         *)
(* Every function of rocm_smi.cc is a short program: it checks its         *)
(* arguments, takes the mutex of the device, reads or writes files of      *)
(* sysfs, calls other functions of the API and stores a result.  Here a    *)
(* program is a sequence of steps; RsmiCalls runs programs of several      *)
(* processes against one device.  The checks are kept in the order of the  *)
(* code; what a check looks at (the text of a file, a value) is left out,  *)
(* so a step that may return is a choice.                                  *)
(***************************************************************************)
EXTENDS Sequences

(* What the errno of a failed system call becomes.                         *)
ErrnoToRsmiStatus ==
  {"NOT_FOUND", "PERMISSION", "NOT_SUPPORTED", "FILE_ERROR", "INTERRUPT",
   "UNEXPECTED_SIZE", "UNEXPECTED_DATA", "BUSY", "INVALID_ARGS",
   "UNKNOWN_ERROR"}

(* DEVICE_MUTEX: GetMutex(dv_ind), then blocking or not.  The lock is      *)
(* released when the function returns.                                     *)
Lock == <<[op |-> "lock"]>>
BlockingLock == <<[op |-> "blocking"]>>

(* GET_DEV_FROM_INDX: INVALID_ARGS for an index out of range.              *)
Dev == <<[op |-> "dev"]>>

(* The function may return one of the statuses S here.                     *)
May(S) == <<[op |-> "may", of |-> S]>>

(* The look-up of the KFD node of the device.                              *)
Node == Dev \o May({"INITIALIZATION_ERROR"})

(* REQUIRE_ROOT_ACCESS.                                                    *)
Root == <<[op |-> "root"]>>

(* A null result pointer is answered with one of S.                        *)
NullArg(S) == <<[op |-> "null", of |-> S]>>

(* CHK_API_SUPPORT_ONLY and CHK_SUPPORT: a null pointer asks whether the   *)
(* device supports the function.                                           *)
ChkApi == NullArg({"NOT_SUPPORTED", "INVALID_ARGS"})
Chk == Dev \o ChkApi

(* A file of the device is read or written: the statuses of a failure.     *)
ReadFile(f)     == <<[op |-> "read", file |-> f, try |-> FALSE]>>
WriteFile(f, v) == <<[op |-> "write", file |-> f, val |-> v, try |-> FALSE]>>

(* Another function of the API is called with a result of the caller.      *)
Call(g) == <<[op |-> "call", fn |-> g, pass |-> FALSE, try |-> FALSE]>>

(* ... with the caller's own result pointer.                               *)
PassTo(g) == <<[op |-> "call", fn |-> g, pass |-> TRUE, try |-> FALSE]>>

(* The last step of P does not return on failure: its status is looked at  *)
(* by When, or not at all.                                                 *)
Try(P) == [P EXCEPT ![Len(P)].try = TRUE]
Ignore(P) == Try(P) \o <<[op |-> "forget"]>>   \* status not looked at

(* If the last status is in S the function returns r.                      *)
When(S, r) == <<[op |-> "when", of |-> S, ret |-> r]>>
OrElse == <<[op |-> "else"]>>     \* return the last status if it is a failure
Return(s) == <<[op |-> "return", ret |-> s]>>

(* The result is written through the caller's pointer.                     *)
Store == <<[op |-> "store"]>>

(* The same for an optional result: a null pointer is left alone.          *)
StoreIfGiven == <<[op |-> "given"]>>

(* A read stored what it read, if it did.                                  *)
StoreIfRead == <<[op |-> "stored"]>>

(* The failure so far is answered by another source of the value.          *)
Fallback == <<[op |-> "fallback"]>>

(* A failure of one of S is none: an empty file.                           *)
Excuse(S) == <<[op |-> "excuse", of |-> S]>>

(* A null pointer is dereferenced.                                         *)
Crash == <<[op |-> "crash"]>>

(* One of the programs of PP is taken.                                     *)
OneOf(PP) == <<[op |-> "choose", of |-> PP]>>
Opt(P) == OneOf({P, <<>>})
=============================================================================
