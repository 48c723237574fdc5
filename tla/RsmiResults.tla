---------------------------- MODULE RsmiResults ----------------------------
(***************************************************************************)
(* What the functions of rocm_smi_lib do with the result pointer and with  *)
(* the status of a call they look at later: the rules that keep a failure  *)
(* from being reported as a success and a success from coming without a    *)
(* result.                                                                 *)
(***************************************************************************)
EXTENDS RsmiLocking

\* A function with a result pointer; for the others it is never null.
HasResult(fn) ==
  \E i \in DOMAIN Program[fn] :
    \/ Program[fn][i].op \in {"null", "store", "given"}
    \/ Program[fn][i].op = "call" /\ Program[fn][i].pass

\* It returns success without a result (rsmi_dev_brand_get drops the status of
\* rsmi_dev_name_get, rsmi_dev_activity_avg_mm_get changes its copy of the
\* pointer), or after a failure: rsmi_dev_memory_usage_get overwrites the
\* status of the used memory with that of the total.
Swallows == {"rsmi_dev_memory_usage_get"}
NoResultOnSuccess ==
  {"rsmi_dev_brand_get", "rsmi_dev_activity_avg_mm_get"} \cup Swallows
Promises(fn) == HasResult(fn) /\ fn \notin NoResultOnSuccess

-----------------------------------------------------------------------------
\* The program t with P in place of its i-th step, a choice.
Chosen(t, i, P) ==
  [k \in 1 .. Len(t) + Len(P) - 1 |->
     IF k < i THEN t[k]
     ELSE IF k < i + Len(P) THEN P[k - i + 1] ELSE t[k - Len(P) + 1]]
Choices(t) == {i \in DOMAIN t : t[i].op = "choose"}
Picks(t) == IF Choices(t) = {} THEN {t}
            ELSE UNION {{Chosen(t, i, P) : P \in t[i].of} : i \in Choices(t)}

\* What a program may turn out to be; no program makes more than two choices.
Runs(t) == UNION {Picks(u) : u \in Picks(t)}

\* The step asks for a new status.
Asks(step) == step.op \in {"read", "write", "call"}

\* It may be a return of success,
Succeeds(step) ==
  \/ step.op \in {"may", "null"} /\ "SUCCESS" \in step.of
  \/ step.op \in {"when", "return"} /\ step.ret = "SUCCESS"

\* or is one of a failure in any case.
Fails(step) == step.op = "return" /\ step.ret # "SUCCESS"

\* After a failure the step goes on with it, or returns a failure.
Keeps(step) ==
  \/ step.op \in {"lock", "blocking", "dev", "root", "store", "given",
                  "stored", "crash"}
  \/ step.op \in {"may", "null"} /\ "SUCCESS" \notin step.of
  \/ step.op = "when" /\ (step.ret # "SUCCESS" \/ step.of = {"SUCCESS"})

\* After a failure of status s the step returns one, or the failure is
\* answered by another source, or not looked at on purpose.
Settles(step) == step.op \in {"else", "fallback", "forget"} \/ Fails(step)
Deals(step, s) ==
  Settles(step) \/ (step.op = "when" /\ s \in step.of /\ step.ret # "SUCCESS")

\* A failure seen before the first step is dealt with before a new status is
\* asked for and before success is returned.
Settled(t, s) ==
  \E j \in DOMAIN t :
    /\ Deals(t[j], s)
    /\ \A i \in 1 .. j - 1 : Keeps(t[i]) \/ t[i].op = "excuse"

\* So is that of every step whose failure is no return.
Tidy(t) ==
  \A n \in DOMAIN t :
    Asks(t[n]) /\ t[n].try =>
      \E j \in DOMAIN t :
        /\ j > n
        /\ \/ Settles(t[j])
           \/ t[n].op # "call" /\ \A s \in ErrnoToRsmiStatus : Deals(t[j], s)
        /\ \A i \in n + 1 .. j - 1 : Keeps(t[i]) \/ t[i].op = "excuse"

\* The step stores the result.  A call with the own result pointer does if it
\* succeeds.
Hands(step) == step.op = "call" /\ step.pass /\ Promises(step.fn)
Stores(step) == step.op \in {"store", "given"} \/ (Hands(step) /\ ~step.try)

\* After a failure seen before the step n + 1 success is not returned without
\* a result.
Later(t, n) ==
  \E j \in DOMAIN t :
    /\ j > n
    /\ \/ /\ t[j].op = "else" \/ Fails(t[j])
          /\ \A i \in n + 1 .. j - 1 : Keeps(t[i])
       \/ /\ Stores(t[j])
          /\ \A i \in n + 1 .. j - 1 :
               ~Succeeds(t[i]) \/ \A k \in n + 1 .. i : Keeps(t[k])

\* Nor is it otherwise.
Delivers(t) ==
  \E j \in DOMAIN t :
    /\ \A i \in 1 .. j - 1 : ~Succeeds(t[i])
    /\ \/ Stores(t[j])
       \/ Fails(t[j])
       \/ t[j].op = "stored" /\ Later(t, j)
       \/ Hands(t[j]) /\ t[j].try /\ Later(t, j)

\* A program, with what may be chosen in it.
Shaped(t) ==
  /\ IsProgram(t)
  /\ \A i \in Choices(t) : \A P \in t[i].of : IsProgram(P)
Honest(t) ==
  /\ Shaped(t) /\ Picks(t) # {}
  /\ \A u \in Picks(t) : Shaped(u) /\ Picks(u) # {}
  /\ \A r \in Runs(t) :
       /\ Choices(r) = {} /\ Tidy(r)
       /\ \A i \in DOMAIN r : r[i].op = "call" => r[i].fn \in DOMAIN Program \ Swallows

\* Facts about the programs, which no constant changes.
ASSUME ResultAssumption ==
  \A fn \in DOMAIN Program \ Swallows :
    /\ Honest(Program[fn])
    /\ Promises(fn) => \A r \in Runs(Program[fn]) : Delivers(r)
=============================================================================
