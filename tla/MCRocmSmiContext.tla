-------------------------- MODULE MCRocmSmiContext --------------------------
(* Two threads, the second with two event sets; two devices with an XGMI   *)
(* event each, a writable event on the first and one event without device. *)
EXTENDS RocmSmiContext, TLC

CONSTANTS t1, t2, s1, s2, s3, d1, d2, xgmi1, xgmi2, power1, ndev

MCThreadOf == [s \in EventSets |-> IF s = s1 THEN t1 ELSE t2]
MCDeviceOf == (xgmi1 :> d1) @@ (xgmi2 :> d2) @@ (power1 :> d1) @@ (ndev :> NoDevice)
MCEventLists == {<<xgmi1, xgmi2>>, <<power1, ndev>>, <<xgmi2>>}
MCCounterLists == {<<xgmi1, xgmi2>>, <<xgmi2>>}
=============================================================================
