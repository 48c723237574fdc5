---------------------------- MODULE RsmiLocking ----------------------------
(***************************************************************************)
(* What the functions of rocm_smi_lib do with the mutex of the device and  *)
(* with the overdrive table: which of them take the mutex before they use  *)
(* the files of the device, and which edit the table.                      *)
(***************************************************************************)
EXTENDS RsmiApi, Naturals

\* Functions that read the files of the device without its mutex.
Unlocked ==
  {"rsmi_dev_memory_reserved_pages_get", "rsmi_dev_metrics_log_get",
   "rsmi_dev_metrics_header_info_get", "rsmi_dev_gpu_metrics_header_info_get",
   "rsmi_dev_supported_func_iterator_open"}

\* Files that are not the device's: of KFD, of the driver module.
Elsewhere == {"amdgpu/version", "gpu_id", "node", "kfd/proc",
              "kfd/proc/queues", "kfd/proc/pid"}

UsesDevice(step) ==
  step.op \in {"read", "write"} /\ step.file \notin Elsewhere

\* The functions that see to the mutex themselves: of the static ones all but
\* get_frequencies, whose callers have it.
Careful == DOMAIN Program \ (Unlocked \cup {"get_frequencies"})

\* Before its first lock a program uses no file of the device and calls only
\* careful functions; nor does any program it may go on with there.
IsProgram(t) == Len(t) \in Nat /\ t = [i \in 1 .. Len(t) |-> t[i]]
IsLock(step) == step.op \in {"lock", "blocking"}
LockedBefore(t, i) == \E j \in 1 .. i - 1 : IsLock(t[j])
NeedsNoMutex(step) == ~UsesDevice(step) /\ (step.op = "call" => step.fn \in Careful)
Straight(t) ==
  /\ IsProgram(t)
  /\ \A i \in DOMAIN t :
       LockedBefore(t, i) \/ (NeedsNoMutex(t[i]) /\ t[i].op # "choose")
LocksFirst(t) ==
  /\ IsProgram(t)
  /\ \A i \in DOMAIN t :
       \/ LockedBefore(t, i)
       \/ /\ NeedsNoMutex(t[i])
          /\ t[i].op = "choose" => \A P \in t[i].of : Straight(P)

\* The functions that edit the overdrive table and commit it are straight, and
\* no function calls them.
OverdriveStep(step) == step.op = "write" /\ step.val \in {"edit", "c"}
Setters == {fn \in DOMAIN Program :
             \E i \in DOMAIN Program[fn] : OverdriveStep(Program[fn][i])}
CallsNoSetter(step) ==
  step.op = "call" => step.fn \in DOMAIN Program \ Setters
IsSetter(t) ==
  /\ IsProgram(t)
  /\ \A i \in DOMAIN t :
       /\ OverdriveStep(t[i]) => UsesDevice(t[i])
       /\ CallsNoSetter(t[i]) /\ t[i].op # "choose"

\* The others leave the table alone, as do the programs they choose from.
LeavesTable(step) == ~OverdriveStep(step) /\ CallsNoSetter(step)
Calm(t) ==
  /\ IsProgram(t)
  /\ \A i \in DOMAIN t : LeavesTable(t[i]) /\ t[i].op # "choose"
CalmChoice(t) ==
  /\ IsProgram(t)
  /\ \A i \in DOMAIN t :
       /\ LeavesTable(t[i])
       /\ t[i].op = "choose" => \A P \in t[i].of : Calm(P)
NoSetter(t) ==
  /\ IsProgram(t)
  /\ \A i \in DOMAIN t :
       /\ LeavesTable(t[i])
       /\ t[i].op = "choose" => \A P \in t[i].of : CalmChoice(P)

\* Facts about the programs, which no constant changes.
ASSUME ProgramAssumption ==
  /\ \A fn \in Careful : LocksFirst(Program[fn])
  /\ Setters \subseteq Careful
  /\ \A fn \in Setters : IsSetter(Program[fn])
  /\ \A fn \in DOMAIN Program \ Setters : NoSetter(Program[fn])
=============================================================================
