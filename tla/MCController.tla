---------------------------- MODULE MCController ----------------------------
(***************************************************************************)
(* Instances of Controller for TLC.  The rates are small and a second is a *)
(* single tick: at first one job a tick, two after a growth step.          *)
(***************************************************************************)
EXTENDS Controller

=============================================================================
