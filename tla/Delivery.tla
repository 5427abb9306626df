------------------------------ MODULE Delivery ------------------------------
(***************************************************************************)
(* What a run on an executor promises about its measurements, without the  *)
(* workers, gatherers and senders that keep the promise (Controller).      *)
(*                                                                         *)
(* A point is held from the moment it is added until some batch takes it   *)
(* over, and is saved or dropped after that; which points make up a batch  *)
(* is left open.  Points are added only while the run is on; when it       *)
(* returns none is held any more, though some may still be on their way.   *)
(* The process may die while it runs.                                      *)
(***************************************************************************)
EXTENDS Naturals

CONSTANT Points

VARIABLES
  where,  \* where each point is
  phase   \* of the run

dVars == <<where, phase>>

At(place) == {p \in Points : where[p] = place}

Move(S, place) == where' = [p \in Points |-> IF p \in S THEN place ELSE where[p]]

Init ==
  /\ where = [p \in Points |-> "none"]
  /\ phase = "running"

Add(p) ==
  /\ phase = "running"
  /\ where[p] = "none"
  /\ Move({p}, "held")
  /\ UNCHANGED phase

TakeOver(S) ==
  /\ phase # "dead"
  /\ S \subseteq At("held")
  /\ Move(S, "flying")
  /\ UNCHANGED phase

\* Some of the points on their way are saved or dropped.
Settle(S, end) ==
  /\ phase # "dead"
  /\ S \subseteq At("flying")
  /\ Move(S, end)
  /\ UNCHANGED phase

Stop ==
  /\ phase = "running"
  /\ phase' = "draining"
  /\ UNCHANGED where

\* The last batch ends, and the run with it.
Return(S, end) ==
  /\ phase = "draining"
  /\ At("held") = {}
  /\ S \subseteq At("flying")
  /\ Move(S, end)
  /\ phase' = "returned"

\* A run that is refused has added nothing.
Refuse ==
  /\ phase = "running"
  /\ At("none") = Points
  /\ phase' = "returned"
  /\ UNCHANGED where

Die ==
  /\ phase = "running"
  /\ phase' = "dead"
  /\ UNCHANGED where

Next ==
  \/ \E p \in Points : Add(p)
  \/ \E S \in SUBSET Points : TakeOver(S)
  \/ \E S \in SUBSET Points, end \in {"saved", "dropped"} :
       Settle(S, end) \/ Return(S, end)
  \/ Stop
  \/ Refuse
  \/ Die

Spec == Init /\ [][Next]_dVars

=============================================================================
