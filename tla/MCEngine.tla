------------------------------ MODULE MCEngine ------------------------------
(***************************************************************************)
(* An instance of Engine for TLC: two names of steps, and programs that do *)
(* up to four things.                                                      *)
(***************************************************************************)
EXTENDS Engine

=============================================================================
