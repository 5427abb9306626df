---------------------------- MODULE MCCommander -----------------------------
(***************************************************************************)
(* An instance of Commander for TLC: one worker, one background sender and *)
(* a client that sends up to three commands.                               *)
(***************************************************************************)
EXTENDS Commander

=============================================================================
