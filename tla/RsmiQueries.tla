----------------------------- MODULE RsmiQueries -----------------------------
(***************************************************************************)
(* The calls of a session that answer from the maps of RocmSMI: links      *)
(* between devices, memory of a node, and the processes of KFD.  With them *)
(* the steps of everything else: events of the GPUs, descriptors of other  *)
(* code of the process, and cards repartitioned between sessions.          *)
(***************************************************************************)
EXTENDS RsmiSession

\* As many elements as the numbers of f add up to.
Tally(f) == UNION {{x} \X (1 .. f[x]) : x \in DOMAIN f}

\* A process occupies far less than a hundredth of 2^32 units.
Numeral == Nat \cup {Absent, Broken}
ASSUME FilesAssumption ==
  \A s \in Systems : \A proc \in ProcessFiles(s) :
    /\ IsFiniteSet(DOMAIN proc)
    /\ \A g \in DOMAIN proc :
         proc[g] \in [vram : Numeral, sdma : Numeral, occ : Numeral]
    /\ 100 * Cardinality(Tally([g \in DOMAIN proc |-> proc[g].occ])) < OccWidth

NodeOf(i) == kfdNodes[devices[i].gpu]
Answer(a) ==
  /\ answer' = a
  /\ UNCHANGED <<sys, refCount, devices, maps, handle, open, inits, get,
                 events, flags>>
\* Weight of the path over the CPUs of two devices.
WeightOverCpus(i, j) ==
  LET cpus == <<NodeOf(i).numa, NodeOf(j).numa>>
  IN NodeOf(i).numa_weight + NodeOf(j).numa_weight
       + (IF cpus[1] = cpus[2] THEN 0
          ELSE IF cpus \in DOMAIN links THEN links[cpus] ELSE 10)

\* j is looked up in a map that may know more devices than there are.
rsmi_topo_get_link_weight(t, i, j) ==
  LET weight(s, w) ==
        Answer([of |-> "weight", src |-> i, dst |-> j, status |-> s,
                weight |-> w])
  IN /\ Inside(t) /\ i \in DOMAIN devices
     /\ IF j \notin DOMAIN nodeOf THEN weight("INVALID_ARGS", 0)
        ELSE IF nodeOf[j] \in DOMAIN NodeOf(i).direct
        THEN LET l == NodeOf(i).direct[nodeOf[j]]
             IN IF l.type = "XGMI" THEN weight("SUCCESS", l.weight)
                ELSE weight("NOT_SUPPORTED", 0)
        ELSE IF NodeOf(i).numa_type # "PCI" THEN weight("NOT_SUPPORTED", 0)
        ELSE IF j \in DOMAIN devices THEN weight("SUCCESS", WeightOverCpus(i, j))
        ELSE weight("INIT_ERROR", 0)

\* The device indices of the GPUs a process has queues on; GPUs the library
\* does not know are left out.
rsmi_compute_process_gpus_get(t, gpus) ==
  LET known == gpus \cap DOMAIN kfdNodes
  IN /\ Inside(t)
     /\ Answer([of |-> "gpus", gpus |-> gpus,
                devices |-> {kfdNodes[g].dev : g \in known},
                status |-> IF Cardinality(known) > Len(devices)
                           THEN "UNEXPECTED_SIZE" ELSE "SUCCESS"])

\* Sums over every GPU the library ever knew, in any order.
rsmi_compute_process_info_by_pid_get(t, proc) ==
  LET files == [g \in DOMAIN kfdNodes |->
                  IF g \in DOMAIN proc THEN proc[g]
                  ELSE [vram |-> Absent, sdma |-> Absent, occ |-> Absent]]
  IN /\ Inside(t)
     /\ \E gpus \in SetToSeqs(DOMAIN kfdNodes) :
          Answer([of |-> "process", files |-> files,
                  proc |-> GetProcessInfoForPID(files, kfdNodes, OccWidth,
                                                gpus)])

rsmi_compute_process_info_by_device_get(t, proc, i) ==
  /\ Inside(t) /\ i \in DOMAIN devices
  /\ LET g == devices[i].gpu
         files == [x \in {g} |->
                     IF g \in DOMAIN proc THEN proc[g]
                     ELSE [vram |-> Absent, sdma |-> Absent, occ |-> Absent]]
     IN Answer([of |-> "process", files |-> files,
                proc |-> GetProcessInfoForPID(files, kfdNodes, OccWidth,
                                              <<g>>)])

\* rsmi_dev_memory_total_get and rsmi_dev_memory_usage_get, when they ask KFD.
MemoryOfNode(t, i, available) ==
  /\ Inside(t) /\ i \in DOMAIN devices
  /\ LET banks == sys.nodes[NodeOf(i).node].banks
     IN Answer([of |-> "memory", banks |-> banks, available |-> available,
                total |-> get_total_memory(banks),
                used |-> get_used_memory(banks, available)])
-----------------------------------------------------------------------------
(* Everything else.                                                        *)

\* The kernel raises an event of a GPU to whom it may concern.
Raise(f) ==
  /\ open[f].kind = "listening" /\ raised < MaxEvents
  /\ raised' = raised + 1
  /\ open' = [open EXCEPT ![f].unread = @ + 1]
  /\ answer' = NoAnswer
  /\ UNCHANGED <<sys, refCount, devices, maps, handle, inits, get,
                 taken, lost, flags>>

\* Other code of the process has one file.
AppOpens ==
  /\ \A f \in Fds : open[f].kind # "app"
  /\ \E f \in LowestOf(FreeFds) :
       open' = [open EXCEPT ![f] = [Free EXCEPT !.kind = "app"]]
  /\ answer' = NoAnswer
  /\ UNCHANGED <<sys, refCount, devices, maps, handle, inits, get,
                 events, flags>>

\* Between sessions, by another process or by the one that was.
Repartition(s) ==
  /\ <<sys, s>> \in Repartitions /\ refCount = 0
  /\ sys' = s
  /\ answer' = NoAnswer
  /\ UNCHANGED <<refCount, devices, maps, handle, open, inits, get, events, flags>>

\* No query depends on the notifications: they are asked when there are none,
\* the buffers are empty and no descriptor is open.
Query(t) ==
  /\ Started = {} /\ \A l \in Listeners : get[l] = Idle
  /\ \A f \in Fds : open[f].kind = "free"
  /\ \/ rsmi_test_refcount(t)
     \/ \E i, j \in DOMAIN nodeOf : rsmi_topo_get_link_weight(t, i, j)
     \/ \E proc \in ProcessFiles(sys) :
          \/ rsmi_compute_process_gpus_get(t, DOMAIN proc)
          \/ rsmi_compute_process_info_by_pid_get(t, proc)
          \/ \E i \in DOMAIN devices :
               rsmi_compute_process_info_by_device_get(t, proc, i)
     \/ \E i \in DOMAIN devices, a \in {1, 9} : MemoryOfNode(t, i, a)

Notify(t) ==
  \/ \E i \in DOMAIN devices :
       \/ rsmi_event_notification_init(t, i)
       \/ rsmi_event_notification_mask_set(t, i)
       \/ rsmi_event_notification_stop(t, i)
  \/ \E room \in 1 .. MaxRoom : rsmi_event_notification_get(t, room)
  \/ NextFile(t) \/ ReadEvent(t) \/ EndOfFile(t) \/ ReadClosed(t)
  \/ PollEnds(t) \/ GetReturns(t)

Next ==
  \/ \E t \in Threads : \/ \E all \in BOOLEAN : rsmi_init(t, all)
                        \/ rsmi_shut_down(t)
                        \/ t \notin Listeners /\ Query(t)
                        \/ t \in Listeners /\ Notify(t)
  \/ \E f \in Fds : Raise(f)
  \/ AppOpens
  \/ \E s \in Systems : Repartition(s)

Spec == Init /\ [][Next]_vars

\* One thread uses notifications: rsmi_event_notification_get holds no mutex
\* while it looks at the devices and reads their files.
OneListener == \A t, u \in Listeners : t = u
-----------------------------------------------------------------------------
\* The devices live exactly as long as somebody is between rsmi_init and
\* rsmi_shut_down, whoever was first and whoever is last (rocm_smi.cc).
DevicesCounted ==
  /\ refCount = Cardinality(Tally(inits))
  /\ refCount = 0 => devices = <<>>
  /\ answer.of = "count" => answer.refs >= 0

\* The node of a card that is there, or of a partition that can be found.
HasCard(s, n) ==
  \E c \in DOMAIN s.cards :
    /\ s.cards[c].amd
    /\ \/ s.cards[c].bdf = s.nodes[n].bdf
       \/ /\ \A m \in 1 .. n : s.nodes[m].seen
          /\ s.cards[c].uid # 0 /\ s.cards[c].uid = s.nodes[n].uid

\* The partitions of a card, and the cards, that KFD shows are devices, each
\* once, in the order of their addresses; only those numbered behind a node
\* that cannot be read may lack their partitions (DiscoverAmdgpuDevices).
EveryGpuOnce ==
  refCount > 0 =>
    /\ \A n \in GpuNodes(sys) : HasCard(sys, n) =>
         Cardinality({i \in DOMAIN devices : nodeOf[i] = n}) = 1
    /\ \A i, j \in DOMAIN devices :
         i < j => SortKey(devices[i]) <= SortKey(devices[j])

\* A device and the node that answers for it are the same GPU, whatever was
\* there in earlier sessions (RocmSMI::Initialize, GET_DEV_AND_KFDNODE).
NodesOfDevices ==
  \A i \in DOMAIN devices :
    /\ sys.nodes[nodeOf[i]].bdf = devices[i].bdf
    /\ NodeOf(i).node = nodeOf[i] /\ NodeOf(i).gpu = sys.nodes[nodeOf[i]].gpu

\* The list of devices is that of the GPUs of the system, in the life of the
\* library, whichever thread initialised it last.
DevicesAreGpus == DevicesCounted /\ EveryGpuOnce /\ NodesOfDevices

\* The CPUs a node is linked to, and those of a system.
LinkedCpus(s, n) == {m \in DOMAIN s.nodes[n].links : s.nodes[m].gpu = 0}
CpuNodes(s) == {n \in DOMAIN s.nodes : s.nodes[n].gpu = 0}

\* What KFD shows of links: a GPU is linked to a CPU, the CPUs can be read,
\* nodes that cannot are numbered behind the others, and repartitioning a card
\* leaves the CPUs alone.
LinksShown ==
  /\ \A s \in Systems : \A n \in GpuNodes(s) :
       /\ LinkedCpus(s, n) # {}
       /\ \A m \in LinkedCpus(s, n) : s.nodes[m].seen
       /\ \A k, m \in DOMAIN s.nodes[n].links :
            ~s.nodes[k].seen /\ s.nodes[m].seen => m < k
  /\ \A r, s \in Systems : <<r, s>> \in Repartitions =>
       /\ CpuNodes(s) \subseteq CpuNodes(r)
       /\ \A c \in CpuNodes(s) : LinkedCpus(r, c) \subseteq LinkedCpus(s, c)

\* What the library may know: K has the GPUs with a card of a system and of
\* those it was before, and a process uses none that is gone.
ProcessesShown(K) ==
  LET Gpus(s) == {s.nodes[n].gpu : n \in {m \in GpuNodes(s) : HasCard(s, m)}}
  IN /\ \A s \in Systems : Gpus(s) \subseteq K[s]
     /\ \A r, s \in Systems : <<r, s>> \in Repartitions => K[r] \subseteq K[s]
     /\ \A s \in Systems : \A proc \in ProcessFiles(s) :
          DOMAIN proc \cap K[s] \subseteq Gpus(s)

\* The devices a process is said to use are those of its GPUs
\* (rsmi_compute_process_gpus_get).
ProcessesOnTheirGpus ==
  answer.of = "gpus" /\ refCount > 0 =>
    answer.devices = {i \in DOMAIN devices : devices[i].gpu \in answer.gpus}

\* The weight between two devices is that of their direct link, or of the
\* path over their nearest CPUs (KFDNode::Initialize, rsmi_topo_get_link_weight).
NearestPath ==
  LET Cpus(n) == LinkedCpus(sys, n)
      W(n) == Min({sys.nodes[n].links[m].weight : m \in Cpus(n)})
      i == answer.src   j == answer.dst
      n == nodeOf[i]    m == nodeOf[j]
  IN answer.of = "weight" /\ refCount > 0 /\ {i, j} \subseteq DOMAIN devices
       /\ answer.status = "SUCCESS" =>
     IF m \in DOMAIN sys.nodes[n].links
     THEN answer.weight = sys.nodes[n].links[m].weight
     ELSE /\ answer.weight >= W(n) + W(m)
          /\ answer.weight = W(n) + W(m) \/
             \E c \in Cpus(n), d \in Cpus(m) :
               /\ c # d /\ sys.nodes[n].links[c].weight = W(n)
               /\ sys.nodes[m].links[d].weight = W(m)
               /\ answer.weight = W(n) + W(m) +
                    (IF d \in DOMAIN sys.nodes[c].links
                     THEN sys.nodes[c].links[d].weight ELSE 10)

\* What a process uses is the sum over its GPUs, and its occupancy the share
\* of their units, when its files of all known GPUs are there
\* (GetProcessInfoForPID).
ProcessSums ==
  LET f == answer.files
      Sum(numbers) == Cardinality(Tally(numbers))
      units == Sum([g \in DOMAIN f |-> kfdNodes[g].cu_count])
      occ   == Sum([g \in DOMAIN f |-> f[g].occ])
  IN answer.of = "process" /\ ~answer.proc.err
       /\ (\A g \in DOMAIN f : f[g].occ # Absent) =>
     /\ answer.proc.vram = Sum([g \in DOMAIN f |-> f[g].vram])
     /\ answer.proc.sdma = Sum([g \in DOMAIN f |-> f[g].sdma])
     /\ answer.proc.occ = IF units = 0 THEN occ ELSE (100 * occ) \div units

\* The answers about processes and links come from the nodes that are there
\* now: neither an earlier session nor another order of discovery shows.
AnswersFromTopology == ProcessesOnTheirGpus /\ NearestPath /\ ProcessSums

\* The handle of /dev/kfd is counted once for each device prepared and each
\* preparation that failed late, and is open while anybody is counted.
HandleCounted ==
  refCount > 0 /\ ~unopened =>
    /\ fhRefs = Cardinality(Started) + failed
    /\ (fh # NoFile) = (fhRefs > 0)
    /\ fh # NoFile => open[fh].kind = "kfd"

\* No file of other code of the process is closed: there is one as soon as one
\* was opened (Cleanup and rsmi_event_notification_stop close by number).
FilesOfOthersStay ==
  [][\A f \in Fds : open[f].kind = "app" => open'[f].kind = "app"]_vars

\* A notification reads and closes the file of a device only, never one that
\* is closed, null or somebody else's, unless an fdopen failed.
FilesInUse == misused => unopened

\* Descriptors are counted, and used while they are open.
DescriptorsInUse == HandleCounted /\ FilesInUse

\* The events that wait in the files.
Unread == Tally([f \in Fds |-> open[f].unread])

\* An event is delivered for the device it is of, to the buffer that has room
\* for it, and none is lost while its device is listened to, also when the
\* wait is interrupted.
EventsDelivered ==
  /\ raised = taken + lost + Cardinality(Unread)
  /\ \A t \in Threads : \A k \in DOMAIN get[t].items :
       inits[t] > 0 =>
         LET e == get[t].items[k]
         IN e[1] \in DOMAIN devices /\ devices[e[1]].gpu = e[2]
=============================================================================
