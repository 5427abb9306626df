----------------------------- MODULE MCLoadTest -----------------------------
(***************************************************************************)
(* Instances of LoadTest for TLC: one load test of two executors.          *)
(***************************************************************************)
EXTENDS LoadTest, TLC

CONSTANTS t1, g1, g2

OneTest  == [g \in {g1, g2} |-> t1]
Symmetry == Permutations({g1, g2})

=============================================================================
