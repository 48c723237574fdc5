---------------------------- MODULE MCGpuMetrics ----------------------------
(* d1 and d2 have the same version and one user, t1; both threads use d3.  *)
EXTENDS GpuMetrics, Naturals, TLC

CONSTANTS t1, t2, d1, d2, d3

MCVersions == <<"v11", "v12", "v13", "v14", "v15", "v16", "v17">>
Pair(v, w) == (d1 :> v) @@ (d2 :> v) @@ (d3 :> w)
MCFirmware ==
  {Pair(MCVersions[i], "v20") : i \in 1 .. 7}
    \cup {Pair("v11", "v12"), Pair("v15", "v16"), Pair("v20", "v16")}
MCCalls ==
  ({t1} \X {d1, d2} \X Functions)
    \cup ({t1, t2} \X {d3} \X
          {"gpu_metrics_info_get", "gpu_metrics_header_info_get"})

\* The calls of the run do not race for the object of a version.
ASSUME OneReader
=============================================================================
