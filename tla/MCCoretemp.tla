----------------------------- MODULE MCCoretemp -----------------------------
(* A sensor of hwmon that the first thread reads, and the energy file of   *)
(* pm_counters that two threads share.                                     *)
EXTENDS Coretemp, TLC

CONSTANTS s1, s2

MCListing == << [energy |-> FALSE, cray |-> FALSE],
                [energy |-> TRUE,  cray |-> TRUE] >>
MCWants == (s1 :> {0, 1}) @@ (s2 :> {1})
=============================================================================
