------------------------------ MODULE Session -------------------------------
(***************************************************************************)
(* What the client of a load test may rely on, without the goroutines and  *)
(* channels behind it (LoadTest).                                          *)
(*                                                                         *)
(* A session is told its phases in order: Preparing, Started once every    *)
(* executor of its team has the command, Finished once every one of them   *)
(* has replied, or Errored at any time after Preparing.  Nothing follows   *)
(* Finished or Errored.  A session may end without a word, and the         *)
(* scheduler may forget all of them.                                       *)
(***************************************************************************)
EXTENDS Sequences

CONSTANTS Tests, Executors

VARIABLES
  told,       \* the phases each session has been told
  open,       \* sessions that have begun and not ended
  team,       \* the executors of each session
  commanded,  \* executors that have been sent the command
  replied     \* executors that have replied

sVars == <<told, open, team, commanded, replied>>

Init ==
  /\ told = [t \in Tests |-> <<>>]
  /\ open = {}
  /\ team = [t \in Tests |-> {}]
  /\ commanded = {}
  /\ replied = {}

Tell(t, phase) == told' = [told EXCEPT ![t] = Append(@, phase)]

Begin(t) ==
  /\ t \notin open
  /\ told[t] = <<>>
  /\ Tell(t, "Preparing")
  /\ open' = open \cup {t}
  /\ UNCHANGED <<team, commanded, replied>>

\* The team is gathered, or given up, before anything is commanded.
Gather(t, S) ==
  /\ t \in open
  /\ told[t] = <<"Preparing">>
  /\ \A e \in team[t] \cup S : e \notin commanded
  /\ team' = [team EXCEPT ![t] = S]
  /\ UNCHANGED <<told, open, commanded, replied>>

Command(t, e) ==
  /\ t \in open
  /\ e \in team[t]
  /\ commanded' = commanded \cup {e}
  /\ UNCHANGED <<told, open, team, replied>>

ReplyOf(e) ==
  /\ e \in commanded
  /\ replied' = replied \cup {e}
  /\ UNCHANGED <<told, open, team, commanded>>

Start(t) ==
  /\ t \in open
  /\ told[t] = <<"Preparing">>
  /\ team[t] \subseteq commanded
  /\ Tell(t, "Started")
  /\ UNCHANGED <<open, team, commanded, replied>>

Finish(t) ==
  /\ t \in open
  /\ told[t] = <<"Preparing", "Started">>
  /\ team[t] \subseteq replied
  /\ Tell(t, "Finished")
  /\ UNCHANGED <<open, team, commanded, replied>>

Fail(t) ==
  /\ t \in open
  /\ told[t] \in {<<"Preparing">>, <<"Preparing", "Started">>}
  /\ Tell(t, "Errored")
  /\ UNCHANGED <<open, team, commanded, replied>>

\* The call returns: after its last word, or without one when the launch fails.
End(t) ==
  /\ t \in open
  /\ told[t] = <<"Preparing">> => team[t] = {}
  /\ told[t] # <<"Preparing", "Started">>
  /\ open' = open \ {t}
  /\ UNCHANGED <<told, team, commanded, replied>>

\* The scheduler dies.
Forget ==
  /\ open' = {}
  /\ team' = [t \in Tests |-> {}]
  /\ UNCHANGED <<told, commanded, replied>>

Next ==
  \/ \E t \in Tests : Begin(t) \/ Start(t) \/ Finish(t) \/ Fail(t) \/ End(t)
  \/ \E t \in Tests, S \in SUBSET Executors : Gather(t, S)
  \/ \E t \in Tests, e \in Executors : Command(t, e)
  \/ \E e \in Executors : ReplyOf(e)
  \/ Forget

Spec == Init /\ [][Next]_sVars

=============================================================================
