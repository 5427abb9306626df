--------------------------- MODULE DeliveryProofs ---------------------------
(***************************************************************************)
(* Controller implements Delivery, for every number of workers, senders    *)
(* and points.                                                             *)
(*                                                                         *)
(* The inductive invariant of ControllerProofs puts every point in one     *)
(* place, so that the CASE of WhereIs reads as a table (Places).  One      *)
(* thing is missing in it: nothing is reported before the workers start    *)
(* (Unreported), which a run that is refused relies on.                    *)
(***************************************************************************)
EXTENDS ControllerProofs

\* Nothing is reported before the workers are started.
Unreported == pc = "start" => \A w \in Workers : added[w] = 0

\* What WhereIs says, place by place.
Places ==
  \A p \in Points :
    /\ WhereIs(p) \in {"none", "saved", "dropped", "held", "flying"}
    /\ WhereIs(p) = "none" <=> p[2] > added[p[1]]
    /\ WhereIs(p) = "saved" <=> p \in saved
    /\ WhereIs(p) = "dropped" <=> p \in dropped
    /\ WhereIs(p) = "held" <=> p \in gatherer[p[1]]
    /\ WhereIs(p) = "flying" <=> \E s \in Senders : p \in batch[s]

-----------------------------------------------------------------------------
\* A point names its worker and its number.
LEMMA PointIsPair ==
  ASSUME NEW p \in Points
  PROVE  p[1] \in Workers /\ p[2] \in 1..MaxPoints /\ p = <<p[1], p[2]>>
  BY DEF Points

\* Each place of Delivery is one place of Controller (metrics_gatherer.go 29 to 43,
\* controller.go 147 to 201).
LEMMA PlacesHold == IInv => Places
<1> SUFFICES ASSUME IInv, NEW p \in Points
             PROVE  /\ WhereIs(p) \in {"none", "saved", "dropped", "held", "flying"}
                    /\ WhereIs(p) = "none" <=> p[2] > added[p[1]]
                    /\ WhereIs(p) = "saved" <=> p \in saved
                    /\ WhereIs(p) = "dropped" <=> p \in dropped
                    /\ WhereIs(p) = "held" <=> p \in gatherer[p[1]]
                    /\ WhereIs(p) = "flying" <=> \E s \in Senders : p \in batch[s]
    BY DEF Places
<1>1. p[1] \in Workers /\ p[2] \in 1..MaxPoints /\ p = <<p[1], p[2]>>
    BY PointIsPair
<1>2. added[p[1]] \in Nat /\ p[2] \in Nat
    BY <1>1, ControllerAssumption DEF IInv, TypeOK, ControllerAssumption
<1>3. p[2] <= added[p[1]] <=>
        \/ p \in gatherer[p[1]] \/ p \in saved \/ p \in dropped
        \/ \E s \in Senders : p \in batch[s]
    BY <1>1 DEF IInv, PointsAccounted
<1>4. /\ p \in saved => p \notin dropped
      /\ p \in gatherer[p[1]] => p \notin saved /\ p \notin dropped
      /\ \A s \in Senders : p \in batch[s] =>
           p \notin saved /\ p \notin dropped /\ p \notin gatherer[p[1]]
    <2>1. /\ saved \cap dropped = {}
          /\ \A s \in Senders : gatherer[p[1]] \cap (saved \cup dropped \cup batch[s]) = {}
          /\ \A s \in Senders : batch[s] \cap (saved \cup dropped) = {}
        BY <1>1 DEF IInv, PointsAccounted
    <2>2. 0 \in Senders
        BY ControllerAssumption DEF Senders, ControllerAssumption
    <2>3. QED
        BY <2>1, <2>2
<1>5. p[2] <= added[p[1]] <=> ~ (p[2] > added[p[1]])
    BY <1>2
<1>6. QED
    BY <1>3, <1>4, <1>5 DEF WhereIs

\* Nothing is reported before the workers are started (controller.go 58 to 80).
LEMMA UnreportedStep == IInv /\ Unreported /\ [Next]_vars => Unreported'
<1> SUFFICES ASSUME IInv, Unreported, [Next]_vars, pc' = "start"
             PROVE  \A w \in Workers : added'[w] = 0
    BY DEF Unreported
<1> USE DEF vars, workVars
<1>1. CASE DispatcherStep \/ TimeUp \/ Halt
    BY <1>1
    DEF DispatcherStep, Reject, Start, Tick, SendJob, BreakSelect, EndTick, Grow,
        Stop, CloseDone, Wait, Resume, Drain, TimeUp, Halt, Unreported
<1>2. ASSUME NEW w \in Workers, WorkerStep(w) PROVE \A v \in Workers : added'[v] = 0
    <2>1. pc = "start"
        BY <1>2
        DEF WorkerStep, WorkerStarts, SeesEnd, WorkerExits, Done, TakesJob,
            LooksAtDone, AddPoint, JobEnds, WorkerQuits
    <2>2. worker[w] = "none"
        BY <2>1 DEF IInv, Shutdown
    <2>3. QED
        BY <1>2, <2>2
        DEF WorkerStep, WorkerStarts, SeesEnd, TakesJob, LooksAtDone, AddPoint,
            JobEnds, WorkerQuits
<1>3. ASSUME NEW s \in Senders, SenderStep(s) PROVE \A v \in Workers : added'[v] = 0
    BY <1>3
    DEF SenderStep, SenderStarts, ClearBatchPoints, PersistSucceeds, PersistFails,
        SenderEnds, Done, Unreported
<1>4. CASE UNCHANGED vars
    BY <1>4 DEF Unreported
<1>5. QED
    BY <1>1, <1>2, <1>3, <1>4 DEF Next

-----------------------------------------------------------------------------
\* Points that no one has touched stay where Delivery sees them.
LEMMA SamePlace ==
  ASSUME UNCHANGED <<added, gatherer, saved, dropped>>
  PROVE  UNCHANGED [p \in Points |-> WhereIs(p)]
  BY DEF WhereIs

\* A point that is added (metrics_gatherer.go 45 to 57) is Add of Delivery.
LEMMA AddPointDelivers ==
  ASSUME IInv, Places, Places', NEW w \in Workers, AddPoint(w)
  PROVE  D!Next
<1>0. <<w, added[w] + 1>> \in Points /\ added[w] \in Nat
    BY ControllerAssumption DEF AddPoint, IInv, TypeOK, Points, ControllerAssumption
<1>1. PICK p \in Points : p = <<w, added[w] + 1>>
    BY <1>0
<1>2. PhaseOfRun = "running" /\ UNCHANGED PhaseOfRun
    BY DEF AddPoint, Alive, IInv, QuietAfterStop, PhaseOfRun
<1>3. WhereIs(p) = "none"
    BY <1>0, <1>1 DEF Places
<1>4. WhereIs(p)' = "held"
    <2>1. p \in gatherer'[w]
        BY <1>1 DEF AddPoint, IInv, TypeOK
    <2>2. QED
        BY <1>1, <2>1 DEF Places
<1>5. \A q \in Points : q # p => WhereIs(q)' = WhereIs(q)
    <2> SUFFICES ASSUME NEW q \in Points, q # p PROVE WhereIs(q)' = WhereIs(q)
        OBVIOUS
    <2>1. q[1] \in Workers /\ q[2] \in Nat /\ q = <<q[1], q[2]>>
        BY PointIsPair
    <2>2. q[2] > added'[q[1]] <=> q[2] > added[q[1]]
        BY <1>0, <1>1, <2>1 DEF AddPoint, IInv, TypeOK
    <2>3. q \in gatherer'[q[1]] <=> q \in gatherer[q[1]]
        BY <1>1, <2>1 DEF AddPoint, IInv, TypeOK
    <2>4. UNCHANGED <<saved, dropped>>
        BY DEF AddPoint, sendVars
    <2>5. QED
        BY <2>2, <2>3, <2>4 DEF WhereIs
<1>6. D!Add(p)
    BY <1>1, <1>2, <1>3, <1>4, <1>5 DEF D!Add, D!Move
<1>7. QED
    BY <1>1, <1>6 DEF D!Next

\* A gatherer that is emptied (metrics_gatherer.go 29 to 43) is TakeOver.
LEMMA ClearDelivers ==
  ASSUME IInv, Places, Places', NEW s \in Senders, ClearBatchPoints(s)
  PROVE  D!Next
<1>1. PICK w \in Workers : /\ batch' = [batch EXCEPT ![s] = @ \cup gatherer[w]]
                           /\ gatherer' = [gatherer EXCEPT ![w] = {}]
    BY DEF ClearBatchPoints
<1>2. PICK S \in SUBSET Points : S = gatherer[w]
    BY DEF IInv, TypeOK
<1>3. PhaseOfRun # "dead" /\ UNCHANGED PhaseOfRun /\ UNCHANGED <<added, saved, dropped>>
    BY DEF ClearBatchPoints, Alive, PhaseOfRun, sendVars, workVars
<1>4. \A p \in S : p \in Points /\ WhereIs(p) = "held"
    BY <1>2 DEF IInv, Owned, Places
<1>5. \A p \in S : WhereIs(p)' = "flying"
    <2>1. \A p \in S : p \in batch'[s]
        BY <1>1, <1>2 DEF IInv, TypeOK
    <2>2. QED
        BY <2>1 DEF Places
<1>6. \A p \in Points : p \notin S => WhereIs(p)' = WhereIs(p)
    <2> SUFFICES ASSUME NEW p \in Points, p \notin S PROVE WhereIs(p)' = WhereIs(p)
        OBVIOUS
    <2>1. p[1] \in Workers
        BY PointIsPair
    <2>2. p \in gatherer'[p[1]] <=> p \in gatherer[p[1]]
        BY <1>1, <1>2, <2>1 DEF IInv, TypeOK
    <2>3. QED
        BY <1>3, <2>2 DEF WhereIs
<1>7. D!TakeOver(S)
    BY <1>3, <1>4, <1>5, <1>6 DEF D!TakeOver, D!Move, D!At
<1>8. QED
    BY <1>7 DEF D!Next

\* A batch that is persisted or given up (controller.go 188 to 201) is Settle, and
\* Return if it is the last one.
LEMMA EndDelivers ==
  ASSUME IInv, Places, Places', NEW s \in Senders, NEW end \in {"saved", "dropped"},
         NEW err, Alive, sender[s] = "busy", toClear[s] = {}, SenderEnds(s, err),
         \/ end = "saved" /\ saved' = saved \cup batch[s] /\ UNCHANGED dropped
         \/ end = "dropped" /\ dropped' = dropped \cup batch[s] /\ UNCHANGED saved
  PROVE  D!Next
<1>1. PICK S \in SUBSET Points : S = batch[s]
    BY DEF IInv, TypeOK
<1>2. UNCHANGED <<added, gatherer>>
    BY DEF SenderEnds, workVars
<1>3. \A p \in S : p \in Points /\ WhereIs(p) = "flying"
    BY <1>1 DEF Places
<1>4. \A p \in S : WhereIs(p)' = end
    <2>1. CASE end = "saved" /\ saved' = saved \cup batch[s]
        BY <1>1, <2>1 DEF Places
    <2>2. CASE end = "dropped" /\ dropped' = dropped \cup batch[s]
        BY <1>1, <2>2 DEF Places
    <2>3. QED
        BY <2>1, <2>2
<1>5. \A p \in Points : p \notin S => WhereIs(p)' = WhereIs(p)
    <2> SUFFICES ASSUME NEW p \in Points, p \notin S PROVE WhereIs(p)' = WhereIs(p)
        OBVIOUS
    <2>1. (p \in saved' <=> p \in saved) /\ (p \in dropped' <=> p \in dropped)
        BY <1>1
    <2>2. QED
        BY <1>2, <2>1 DEF WhereIs
<1>6. CASE s # 0
    <2>1. PhaseOfRun # "dead" /\ UNCHANGED PhaseOfRun
        BY <1>6 DEF Alive, SenderEnds, Done, PhaseOfRun
    <2>2. D!Settle(S, end)
        BY <1>3, <1>4, <1>5, <2>1 DEF D!Settle, D!Move, D!At
    <2>3. QED
        BY <2>2 DEF D!Next
<1>7. CASE s = 0
    <2>1. pc = "draining" /\ outcome # "invalid"
        BY <1>7 DEF IInv, Shutdown
    <2>2. PhaseOfRun = "draining" /\ PhaseOfRun' = "returned"
        BY <1>7, <2>1 DEF SenderEnds, PhaseOfRun
    <2>3. \A w \in Workers : gatherer[w] = {}
        BY <1>7, <2>1 DEF IInv, LastBatchComplete
    <2>4. \A p \in Points : WhereIs(p) # "held"
        BY <2>3, PointIsPair DEF Places
    <2>5. D!Return(S, end)
        BY <1>3, <1>4, <1>5, <2>2, <2>4 DEF D!Return, D!Move, D!At
    <2>6. QED
        BY <2>5 DEF D!Next
<1>8. QED
    BY <1>6, <1>7

\* What the dispatcher does (controller.go 58 to 167) moves no point.
LEMMA DispatcherDelivers ==
  ASSUME IInv, Unreported, Places, DispatcherStep
  PROVE  [D!Next]_D!dVars
<1>1. UNCHANGED [p \in Points |-> WhereIs(p)]
    BY SamePlace
    DEF DispatcherStep, Reject, Start, Tick, SendJob, BreakSelect, EndTick, Grow,
        Stop, CloseDone, Wait, Resume, Drain, workVars, sendVars
<1>2. CASE Reject
    <2>1. \A p \in Points : WhereIs(p) = "none"
        <3> SUFFICES ASSUME NEW p \in Points PROVE WhereIs(p) = "none"
            OBVIOUS
        <3>1. p[1] \in Workers /\ p[2] \in 1..MaxPoints
            BY PointIsPair
        <3>2. added[p[1]] = 0
            BY <1>2, <3>1 DEF Reject, Unreported
        <3>3. QED
            BY <3>1, <3>2, ControllerAssumption DEF Places, ControllerAssumption
    <2>2. D!Refuse
        BY <1>1, <1>2, <2>1 DEF Reject, PhaseOfRun, D!Refuse, D!At
    <2>3. QED
        BY <2>2 DEF D!Next
<1>3. CASE pc' = "panicked" /\ (Start \/ Resume)
    <2>1. D!Die
        BY <1>1, <1>3 DEF Start, Resume, PhaseOfRun, D!Die
    <2>2. QED
        BY <2>1 DEF D!Next
<1>4. CASE pc' = "draining" /\ (Wait \/ Resume)
    <2>1. D!Stop
        BY <1>1, <1>4 DEF Wait, Resume, PhaseOfRun, D!Stop
    <2>2. QED
        BY <2>1 DEF D!Next
<1>5. CASE UNCHANGED PhaseOfRun
    BY <1>1, <1>5 DEF D!dVars
<1>6. QED
    <2>1. \/ Reject
          \/ pc' = "panicked" /\ (Start \/ Resume)
          \/ pc' = "draining" /\ (Wait \/ Resume)
          \/ UNCHANGED PhaseOfRun
        BY DEF DispatcherStep, Start, Tick, SendJob, BreakSelect, EndTick, Grow,
               Stop, CloseDone, Wait, Resume, Drain, PhaseOfRun
    <2>2. QED
        BY <1>2, <1>3, <1>4, <1>5, <2>1

\* Nothing has been reported when the run begins.
LEMMA StartDelivers == Init => D!Init /\ Unreported
<1>1. Init => D!Init
    <2> SUFFICES ASSUME Init, NEW p \in Points PROVE WhereIs(p) = "none"
        BY DEF Init, D!Init, PhaseOfRun
    <2>1. p[1] \in Workers /\ p[2] \in 1..MaxPoints
        BY PointIsPair
    <2>2. p[2] > added[p[1]]
        BY <2>1, ControllerAssumption DEF Init, ControllerAssumption
    <2>3. QED
        BY <2>2, InitIInv, PlacesHold DEF Places
<1>2. Init => Unreported
    BY DEF Init, Unreported
<1>3. QED
    BY <1>1, <1>2

\* Every step of the run (controller.go 34 to 201, worker.go 33 to 75) is a step of
\* Delivery or leaves all points where they are.
LEMMA StepDelivers ==
  IInv /\ Unreported /\ Places /\ Places' /\ [Next]_vars => [D!Next]_D!dVars
<1> SUFFICES ASSUME IInv, Unreported, Places, Places', [Next]_vars
             PROVE  [D!Next]_D!dVars
    OBVIOUS
<1>1. CASE TimeUp \/ Halt \/ UNCHANGED vars
    BY <1>1, SamePlace
    DEF TimeUp, Halt, vars, workVars, sendVars, PhaseOfRun, D!dVars
<1>2. ASSUME NEW w \in Workers, WorkerStep(w) PROVE [D!Next]_D!dVars
    <2>1. CASE AddPoint(w)
        BY <2>1, AddPointDelivers
    <2>2. CASE UNCHANGED <<added, gatherer, saved, dropped>> /\ UNCHANGED PhaseOfRun
        BY <2>2, SamePlace DEF D!dVars
    <2>3. QED
        BY <1>2, <2>1, <2>2
        DEF WorkerStep, WorkerStarts, SeesEnd, WorkerExits, Done, TakesJob,
            LooksAtDone, JobEnds, WorkerQuits, sendVars, PhaseOfRun
<1>3. ASSUME NEW s \in Senders, SenderStep(s) PROVE [D!Next]_D!dVars
    <2>1. CASE SenderStarts(s)
        BY <2>1, SamePlace DEF SenderStarts, workVars, PhaseOfRun, D!dVars
    <2>2. CASE ClearBatchPoints(s)
        BY <2>2, ClearDelivers
    <2>3. CASE PersistSucceeds(s)
        BY <2>3, EndDelivers DEF PersistSucceeds
    <2>4. CASE PersistFails(s)
        <3>1. CASE SenderEnds(s, TRUE) /\ dropped' = dropped \cup batch[s] /\ UNCHANGED saved
            BY <2>4, <3>1, EndDelivers DEF PersistFails
        <3>2. CASE UNCHANGED <<pc, workVars, saved, dropped>>
            BY <3>2, SamePlace DEF workVars, PhaseOfRun, D!dVars
        <3>3. QED
            BY <2>4, <3>1, <3>2 DEF PersistFails
    <2>5. QED
        BY <1>3, <2>1, <2>2, <2>3, <2>4 DEF SenderStep
<1>4. QED
    BY <1>1, <1>2, <1>3, DispatcherDelivers DEF Next

\* Controller implements Delivery: every point that is reported is taken over once,
\* is saved or dropped after that and never taken back, and none is left behind in a
\* gatherer when RunInstructions returns (controller.go 34 to 56, 147 to 201).
THEOREM ImplementsDelivery == Spec => KeepsDelivery
  BY Invariance, PlacesHold, UnreportedStep, StartDelivers, StepDelivers, PTL
  DEF Spec, KeepsDelivery, D!Spec

=============================================================================
