------------------------------ MODULE MCRates -------------------------------
(***************************************************************************)
(* An instance of Rates for TLC.  An executor is good for 40 requests per  *)
(* second (the flag says 500).  Rates lie on both sides of the multiples   *)
(* of 40 and of the least starting rate, 11.  An int is small enough for   *)
(* the largest growth factor to exceed it.                                 *)
(***************************************************************************)
EXTENDS Rates

SomeRates == {-90, -50, 0, 5, 10, 11, 12, 22, 23, 33, 39, 40, 41, 80, 81, 95, 120}

=============================================================================
