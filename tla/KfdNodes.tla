------------------------------ MODULE KfdNodes ------------------------------
(***************************************************************************)
(* What rocm_smi_kfd.cc and rocm_smi_io_link.cc read below                 *)
(* /sys/class/kfd/kfd: the topology nodes with their links and memory      *)
(* banks, and the processes with the GPUs they use.                        *)
(*                                                                         *)
(* A system sys has a sequence of nodes, CPUs and GPUs, in the order of    *)
(* their numbers.  A node has                                              *)
(*   seen    its files can be read (a container hides those of other GPUs) *)
(*   whole   every property the library insists on is there                *)
(*   gpu     its gpu_id, 0 of a CPU                                        *)
(*   uid     its unique_id, 0 when the GPU has none                        *)
(*   bdf     its domain and location_id                                    *)
(*   cus     its compute units                                             *)
(*   links   for each node it is linked to, the type and weight            *)
(*   banks   the size of each memory bank, Absent when it cannot be read   *)
(***************************************************************************)
EXTENDS Integers, SequencesExt, FiniteSetsExt

Absent == -1      \* a file that is not there, or not readable
Broken == -2      \* a file whose text is no number

\* Numbers of s in ascending order.
Ascending(s) ==
  [k \in 1 .. Cardinality(s) |->
     CHOOSE n \in s : Cardinality({m \in s : m <= n}) = k]

KFDNodeSupported(sys, n) == n \in DOMAIN sys.nodes /\ sys.nodes[n].seen
ReadKFDGpuId(sys, n) ==
  IF KFDNodeSupported(sys, n) THEN sys.nodes[n].gpu ELSE Absent

\* The nodes numbered before the first that cannot be read: where
\* get_gpu_id ends the listing of DiscoverAmdgpuDevices.
Listed(sys) ==
  {n \in DOMAIN sys.nodes : /\ \A m \in 1 .. n : sys.nodes[m].seen
                            /\ sys.nodes[n].gpu # 0}

\* KFDNode::Initialize: one link, in the order of the nodes linked to.  The
\* nearest CPU is kept, and every GPU; a node whose gpu_id cannot be read ends
\* the initialisation, and nobody looks at the error.
AddLink(sys, links, a, to) ==
  IF a.ended \/ ReadKFDGpuId(sys, to) = Absent THEN [a EXCEPT !.ended = TRUE]
  ELSE IF ReadKFDGpuId(sys, to) # 0
       THEN [a EXCEPT !.direct = @ \cup {to}]
       ELSE IF a.numa = 0 \/ links[to].weight < a.weight
            THEN [a EXCEPT !.numa = to, !.weight = links[to].weight]
            ELSE a

\* The links of a node, one after the other: numa 0 is no CPU found.
NoLink == [numa |-> 0, weight |-> 0, direct |-> {}, ended |-> FALSE]
Linked(sys, links) ==
  LET L[k \in 0 .. Cardinality(DOMAIN links)] ==
        IF k = 0 THEN NoLink
        ELSE AddLink(sys, links, L[k - 1], Ascending(DOMAIN links)[k])
  IN L

\* A KFDNode object.
KFDNode(sys, n) ==
  LET links == sys.nodes[n].links
      l     == Linked(sys, links)[Cardinality(DOMAIN links)]
  IN [node |-> n, gpu |-> sys.nodes[n].gpu, numa |-> l.numa,
      numa_weight |-> l.weight,
      numa_type |-> IF l.numa = 0 THEN "none" ELSE links[l.numa].type,
      direct |-> [m \in l.direct |-> links[m]],
      cu_count |-> IF l.ended THEN 0 ELSE sys.nodes[n].cus, dev |-> 0]

GpuNodes(sys) == {n \in DOMAIN sys.nodes : ReadKFDGpuId(sys, n) > 0}

\* A property missing, or links that cannot be listed, throw.
NodeThrows(sys) == \E n \in GpuNodes(sys) : ~sys.nodes[n].whole

\* By bdf, the last of the directory when several have one.
DiscoverKFDNodes(sys) ==
  [b \in {sys.nodes[n].bdf : n \in GpuNodes(sys)} |->
     KFDNode(sys, Max({n \in GpuNodes(sys) : sys.nodes[n].bdf = b}))]

\* By the two nodes.  The links of a node that cannot be read are stored too,
\* all under whatever numbers the objects happened to have.
DiscoverIOLinks(sys) ==
  LET ends == {e \in (DOMAIN sys.nodes) \X (DOMAIN sys.nodes) :
                 /\ sys.nodes[e[1]].seen
                 /\ e[2] \in DOMAIN sys.nodes[e[1]].links}
  IN [e \in ends |-> sys.nodes[e[1]].links[e[2]].weight]
-----------------------------------------------------------------------------
(* Memory.                                                                 *)

\* The entry of the directory is read again for each bank that counts: the
\* first bank that can be read, times the number of banks.
get_total_memory(banks) ==
  LET sizes == SelectSeq(banks, LAMBDA b : b # Absent)
  IN IF sizes = <<>> THEN 0 ELSE Len(banks) * Head(sizes)

\* Absent stands for the error.
get_used_memory(banks, available) ==
  LET total == get_total_memory(banks)
  IN IF total > 0 /\ available < total THEN total - available ELSE Absent
-----------------------------------------------------------------------------
(* Processes.  proc maps a gpu_id to the numbers in its three files;       *)
(* occupancy is an unsigned number below width.                            *)

CheckValidProcessInfoData(v) == v # Broken

Plus(total, v) == IF v = Absent THEN total ELSE total + v

\* One GPU of GetProcessInfoForPID.  err is the first error but ENOENT.  An
\* occupancy that is not there spoils the sum and forgets the units counted.
AddGpu(proc, nodes, width, a, g) ==
  LET f == proc[g]
  IN IF a.err \/ (\E k \in DOMAIN f : ~CheckValidProcessInfoData(f[k]))
     THEN [a EXCEPT !.err = TRUE]
     ELSE [vram |-> Plus(a.vram, f.vram), sdma |-> Plus(a.sdma, f.sdma),
           occ |-> IF f.occ = Absent THEN width - 1 ELSE (a.occ + f.occ) % width,
           units |-> IF f.occ = Absent THEN 0 ELSE a.units + nodes[g].cu_count,
           err |-> FALSE]

\* The GPUs come in the order of a hash set: gpus is any permutation.
Nothing == [vram |-> 0, sdma |-> 0, occ |-> 0, units |-> 0, err |-> FALSE]
SumsOf(proc, nodes, width, gpus) ==
  LET A[k \in 0 .. Len(gpus)] ==
        IF k = 0 THEN Nothing
        ELSE AddGpu(proc, nodes, width, A[k - 1], gpus[k])
  IN A
GetProcessInfoForPID(proc, nodes, width, gpus) ==
  LET sum == SumsOf(proc, nodes, width, gpus)[Len(gpus)]
  IN IF sum.units > 0 /\ ~sum.err
     THEN [sum EXCEPT !.occ = ((@ * 100) % width) \div sum.units] ELSE sum
=============================================================================
