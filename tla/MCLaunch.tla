------------------------------ MODULE MCLaunch ------------------------------
(***************************************************************************)
(* Instances of Launch for TLC: one load test of two executors.            *)
(***************************************************************************)
EXTENDS Launch, TLC

CONSTANTS t1, g1, g2

OneTest  == [g \in {g1, g2} |-> t1]

\* The launchers of one load test are interchangeable.
Symmetry == Permutations({g1, g2})

=============================================================================
