---------------------------- MODULE RsmiDiscovery ----------------------------
(***************************************************************************)
(* The devices RocmSMI::Initialize finds (rocm_smi_main.cc): the cards of  *)
(* /sys/class/drm, further ones for the partitions of a card that KFD      *)
(* knows, put in the order of their addresses and matched with KFD nodes.  *)
(*                                                                         *)
(* A card has amd (its vendor), uid (its unique_id, 0 when the file cannot *)
(* be read) and bdf (from the path of its link, NoBdf when that fails).  A *)
(* number with no card is one that is not amd and has neither.  A bdf is a *)
(* record of bus, part, the four partition bits, and fn.                   *)
(***************************************************************************)
EXTENDS KfdNodes

\* UINT64_MAX; it sorts last.
NoBdf == [bus |-> 255, part |-> 15, fn |-> 7]
NoFile == 0

\* What the kernel shows: GPUs and cards have addresses and ids of their own,
\* no other card has a unique_id or the address of a GPU, the first node with
\* the unique_id of a card has its address, the others that of no card, and
\* links are those between nodes.
WellFormed(sys) ==
  LET Amd == {c \in DOMAIN sys.cards : sys.cards[c].amd}
      Same(c) == {n \in Listed(sys) : sys.nodes[n].uid = sys.cards[c].uid}
  IN /\ sys.cards \in Seq(Range(sys.cards)) /\ sys.nodes \in Seq(Range(sys.nodes))
     /\ \A n \in DOMAIN sys.nodes :
          LET d == sys.nodes[n]
          IN /\ {d.gpu, d.bdf.bus, d.bdf.fn, d.cus} \subseteq Nat
             /\ DOMAIN d.links \subseteq DOMAIN sys.nodes
             /\ \A m \in DOMAIN d.links : d.links[m].weight \in Nat
     /\ \A m, n \in GpuNodes(sys) :
          /\ sys.nodes[n].bdf # NoBdf
          /\ \/ sys.nodes[m].bdf = sys.nodes[n].bdf
             \/ sys.nodes[m].gpu = sys.nodes[n].gpu
             => m = n
     /\ \A c, e \in Amd :
          \/ sys.cards[c].bdf = sys.cards[e].bdf
          \/ sys.cards[c].uid = sys.cards[e].uid /\ sys.cards[c].uid # 0
          => c = e
     /\ \A c \in DOMAIN sys.cards \ Amd :
          /\ sys.cards[c].uid = 0
          /\ \A n \in GpuNodes(sys) : sys.cards[c].bdf # sys.nodes[n].bdf
     /\ \A c \in Amd : \A n \in Same(c) : sys.cards[c].uid # 0 =>
          IF n = Min(Same(c)) THEN sys.nodes[n].bdf = sys.cards[c].bdf
          ELSE \A e \in Amd : sys.nodes[n].bdf # sys.cards[e].bdf

\* A Device object, once it has its gpu_id: fd and file are those of its event
\* notification.
Device(found, g) ==
  [card |-> found.card, bdf |-> found.bdf, gpu |-> g,
   fd |-> NoFile, file |-> NoFile]

\* The state of the walk over the cards: the devices so far, and the nodes
\* left in allSystemNodes.  A card and its partitions share a path.
AddToDeviceList(s, c, b) ==
  [s EXCEPT !.devices = Append(@, [card |-> c, bdf |-> b])]
Erase(sys, s, u) ==
  [s EXCEPT !.nodes = {n \in @ : sys.nodes[n].uid # u}]

\* One device for each of these nodes, in the order of their numbers.
AddNodes(sys, s, c, nodes) ==
  [s EXCEPT !.devices = @ \o [k \in 1 .. Cardinality(nodes) |->
     [card |-> c, bdf |-> sys.nodes[Ascending(nodes)[k]].bdf]]]
\* The first node of the card is the card itself.
\* mutant: a partition is added for the first node too
AddAllNodes(sys, s, c, same) == AddNodes(sys, s, c, same)
AddPartitions(sys, s, c, same) == AddNodes(sys, s, c, same \ {Min(same)})

\* One card.  Its partition and unique_id are asked of the device that the
\* list does not have yet, so a card is added without an address at first.  A
\* unique_id that no node has is looked up behind the end of the map: what is
\* found there is taken for one that no node has, or for 0.
AddCard(sys, s, c) ==
  LET uid   == sys.cards[c].uid
      added == AddToDeviceList(s, c, NoBdf)
      same  == {n \in s.nodes : sys.nodes[n].uid = uid}
  IN CASE s.nodes = {} -> {added}
       [] s.nodes # {} /\ uid = 0 -> {Erase(sys, added, 0)}
       [] s.nodes # {} /\ uid # 0 /\ same = {} ->
            {added, Erase(sys, added, 0)}
       [] OTHER -> {Erase(sys, AddPartitions(sys, added, c, same), uid)}

\* What the walk may have made of the cards up to each; all is
\* RSMI_INIT_FLAG_ALL_GPUS.
Walked(sys, all) ==
  LET W[c \in 0 .. Len(sys.cards)] ==
        IF c = 0 THEN {[devices |-> <<>>, nodes |-> Listed(sys)]}
        ELSE IF sys.cards[c].amd \/ all
             THEN UNION {AddCard(sys, s, c) : s \in W[c - 1]}
             ELSE W[c - 1]
  IN W
DiscoverAmdgpuDevices(sys, all) ==
  {s.devices : s \in Walked(sys, all)[Len(sys.cards)]}

\* A device that was given no address takes the one of its path.
ConstructBDFID(sys, devices) ==
  [i \in DOMAIN devices |->
     IF devices[i].bdf = NoBdf
     THEN [devices[i] EXCEPT !.bdf = sys.cards[devices[i].card].bdf]
     ELSE devices[i]]

\* The bits of the partition do not count.
SortKey(d) == d.bdf.bus * 8 + d.bdf.fn
\* A position p comes after q, or is q: those of one key stay in their order.
NotBefore(devices, p, q) ==
  \/ SortKey(devices[q]) < SortKey(devices[p])
  \/ SortKey(devices[q]) = SortKey(devices[p]) /\ q <= p
\* The devices at these positions, sorted.
Sorted(devices, positions) ==
  [k \in 1 .. Cardinality(positions) |->
     devices[CHOOSE p \in positions :
               Cardinality({q \in positions : NotBefore(devices, p, q)}) = k]]
StableSort(devices) == Sorted(devices, DOMAIN devices)
\* Devices without a KFD node are dropped; the others learn their gpu_id.
Matched(sys, devices, kfd) ==
  LET found == ConstructBDFID(sys, devices)
      kept  == Sorted(found, {p \in DOMAIN found : found[p].bdf \in DOMAIN kfd})
  IN [i \in DOMAIN kept |-> Device(kept[i], kfd[kept[i].bdf].gpu)]
=============================================================================
