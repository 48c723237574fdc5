--------------------------- MODULE DeviceOwnership ---------------------------
(***************************************************************************)
(* What the device_mask of rocs.c promises: a GPU device belongs to at     *)
(* most one open context, all devices of a context are taken in one step   *)
(* and given back in one step.  When a call of librocm_smi64 fails a       *)
(* device may be lost: nobody holds it and nobody ever gets it again.      *)
(***************************************************************************)
CONSTANTS Owners, Devices, MayLose

VARIABLES holds, \* the devices of the open context of each owner
          lost   \* devices marked in use that no context holds

InUse == lost \cup UNION {holds[o] : o \in Owners}

Init == holds = [o \in Owners |-> {}] /\ lost = {}

(* Opening a context; one that was never closed is forgotten.              *)
Acquire(o, ds) ==
  /\ ds \cap InUse = {}
  /\ holds[o] = {} \/ MayLose
  /\ holds' = [holds EXCEPT ![o] = ds]
  /\ lost' = lost \cup holds[o]

Release(o) == holds' = [holds EXCEPT ![o] = {}] /\ UNCHANGED lost

(* Devices that were free are marked in use by an opening that fails.      *)
LoseFree(o, ds) ==
  /\ MayLose /\ ds \cap InUse = {}
  /\ holds' = [holds EXCEPT ![o] = {}]
  /\ lost' = lost \cup ds \cup holds[o]

(* A context is forgotten with its devices.                                *)
LoseHeld(o) ==
  /\ MayLose
  /\ holds' = [holds EXCEPT ![o] = {}]
  /\ lost' = lost \cup holds[o]

Next == \E o \in Owners :
          \/ \E ds \in SUBSET Devices : Acquire(o, ds) \/ LoseFree(o, ds)
          \/ Release(o)
          \/ LoseHeld(o)

Spec == Init /\ [][Next]_<<holds, lost>>

==============================================================================
