--------------------------- MODULE MCRsmiQueries ---------------------------
(* Five small systems.  Cards count from 1, and so do nodes; cpu nodes come *)
(* first, as KFD numbers them.                                              *)
EXTENDS RsmiQueries

CONSTANTS t1, t2

Bdf(b, p, f) == [bus |-> b, part |-> p, fn |-> f]
Card(u, b) == [amd |-> TRUE, uid |-> u, bdf |-> b]
Other == [amd |-> FALSE, uid |-> 0, bdf |-> NoBdf]
Link(t, w) == [type |-> t, weight |-> w]
Pci(w) == Link("PCI", w)
Xgmi(w) == Link("XGMI", w)
Cpu(l) == [seen |-> TRUE, whole |-> TRUE, gpu |-> 0, uid |-> 0, bdf |-> NoBdf,
           cus |-> 0, links |-> l, banks |-> <<8>>]
Gpu(g, u, b, l) ==
  [seen |-> TRUE, whole |-> TRUE, gpu |-> g, uid |-> u, bdf |-> b,
   cus |-> 2 + (g % 2), links |-> l, banks |-> <<4, 4>>]
Hide(n) == [n EXCEPT !.seen = FALSE]

\* Two cards in one piece; the one of the higher address has the lower
\* number, and they are linked to each other.
Whole ==
  [cards |-> <<Card(2, Bdf(2, 0, 0)), Card(1, Bdf(1, 0, 0))>>,
   nodes |-> <<Cpu(2 :> Pci(3)), Cpu(1 :> Pci(3)),
               Gpu(11, 1, Bdf(1, 0, 0), (1 :> Pci(2)) @@ (2 :> Pci(5))
                                        @@ (4 :> Xgmi(1))),
               Gpu(12, 2, Bdf(2, 0, 0), (2 :> Pci(4)) @@ (3 :> Xgmi(1)))>>]
\* The same, the first card in two partitions with links of their own.
Split ==
  [cards |-> Whole.cards \o <<Other>>,
   nodes |-> <<Cpu(2 :> Pci(3)), Cpu(1 :> Pci(3)),
               Gpu(21, 1, Bdf(1, 0, 0), (1 :> Pci(4)) @@ (2 :> Pci(2))),
               Gpu(22, 1, Bdf(1, 1, 0), (1 :> Pci(4)) @@ (5 :> Xgmi(1))),
               Gpu(12, 2, Bdf(2, 0, 0), (1 :> Pci(4)))>>]
\* A container with the second card only, which is in two partitions.
Contained ==
  [cards |-> Whole.cards,
   nodes |-> <<Cpu(2 :> Pci(3)), Cpu(1 :> Pci(3)), Hide(Whole.nodes[3]),
               Gpu(21, 2, Bdf(2, 0, 0), (1 :> Pci(4)) @@ (5 :> Xgmi(1))),
               Gpu(22, 2, Bdf(2, 1, 0), (2 :> Pci(4)) @@ (3 :> Xgmi(1)))>>]
\* Cards without a unique_id, one that KFD does not know, and one whose
\* unique_id no node has; a GPU is linked to its CPU by XGMI.
Mixed ==
  [cards |-> <<Other, Card(0, Bdf(1, 0, 0)), Card(3, Bdf(0, 0, 0)),
               Card(7, Bdf(3, 0, 1))>>,
   nodes |-> <<Cpu(<<>>), Gpu(11, 0, Bdf(1, 0, 0), (1 :> Pci(2))),
               Gpu(12, 5, Bdf(3, 0, 1), (1 :> Xgmi(4))),
               Gpu(13, 6, Bdf(4, 0, 0), (1 :> Pci(4)))>>]
\* A node lacks a property.
Incomplete ==
  [Whole EXCEPT !.nodes[3].whole = FALSE]

MCSystems == {Whole, Split, Contained, Mixed, Incomplete}
MCRepartitions == {<<Whole, Split>>, <<Split, Whole>>}

Files(v, s, o) == [vram |-> v, sdma |-> s, occ |-> o]
MCProcessFiles(s) ==
  LET g == s.nodes[3].gpu   h == s.nodes[4].gpu
  IN {(g :> Files(5, 2, 3)),
      (g :> Files(5, 2, 3)) @@ (h :> Files(1, Absent, 1)),
      (g :> Files(Broken, 2, 3)),
      (h :> Files(Absent, 1, Absent))}

\* The GPUs the library may have seen when a system is there: those of the two
\* systems that become each other are the same.
MCKnown == [s \in MCSystems |->
  CASE s \in {Whole, Split} -> {11, 12, 21, 22}
    [] s = Contained -> {21, 22}
    [] OTHER -> {11, 12}]

\* One thread of the run uses notifications, and sysfs shows what the theorems
\* about the answers suppose.
ASSUME OneListener
ASSUME LinksShown
ASSUME ProcessesShown(MCKnown)
=============================================================================
