-------------------------- MODULE ControllerProofs --------------------------
(***************************************************************************)
(* Proofs about Controller, for every number of workers and senders, every *)
(* rate and every limit.                                                   *)
(*                                                                         *)
(* The inductive invariant is IInv: the types, how far the shutdown has    *)
(* come (Shutdown), and where the points are (PointsAccounted, Owned).     *)
(***************************************************************************)
EXTENDS Controller, TLAPS

\* How far the shutdown of the workers has come.
Shutdown ==
  /\ \A w \in Workers :
       worker[w] \in {"idle", "got", "running"} => <<"worker", w>> \in wg
  /\ pc = "start" \/ outcome = "invalid" =>
       \A w \in Workers : worker[w] = "none"
  /\ pc \in {"waiting", "woken", "draining"} => workerDone = Workers
  /\ pc = "returned" /\ outcome # "invalid" => workerDone = Workers
  /\ sender[0] # "new"
  /\ sender[0] = "busy" => pc = "draining"
  /\ outcome # "none" => pc = "returned"

\* A gatherer holds points of its own worker only.
Owned ==
  \A w \in Workers : \A p \in gatherer[w] : p[1] = w

IInv ==
  /\ TypeOK
  /\ Shutdown
  /\ QuietAfterStop
  /\ LastBatchComplete
  /\ PointsAccounted
  /\ Owned

-----------------------------------------------------------------------------
\* Every step keeps the types (controller.go 36 to 201).
LEMMA TypeStep ==
  TypeOK /\ [Next]_vars => TypeOK'
<1> SUFFICES ASSUME TypeOK, [Next]_vars
             PROVE  TypeOK'
    OBVIOUS
<1> USE ControllerAssumption DEF vars, rateVars, chanVars, workVars, sendVars
<1>1. CASE Reject
    BY <1>1 DEF Reject, TypeOK, DispatcherPCs
<1>2. CASE Start
    BY <1>2 DEF Start, TypeOK, DispatcherPCs
<1>3. CASE Tick
    <2>1. getNumberOfIterations(rps) \in Nat
        BY DEF getNumberOfIterations, TypeOK, ControllerAssumption
    <2>2. total' \in Nat /\ left' \in Nat
        BY <1>3, <2>1 DEF Tick, TypeOK
    <2>3. QED
        BY <1>3, <2>2 DEF Tick, TypeOK, DispatcherPCs
<1>4. CASE SendJob
    <2>1. jobs' \in Nat /\ left' \in Nat
        BY <1>4 DEF SendJob, TypeOK
    <2>2. QED
        BY <1>4, <2>1 DEF SendJob, TypeOK
<1>5. CASE BreakSelect
    BY <1>5 DEF BreakSelect, TypeOK, DispatcherPCs
<1>6. CASE EndTick
    BY <1>6 DEF EndTick, TypeOK, DispatcherPCs
<1>7. CASE Grow
    <2>1. (rps * Growth) \div 2 \in Nat
        BY DEF TypeOK, ControllerAssumption
    <2>2. rps' \in Nat /\ growthActive' \in BOOLEAN
        BY <1>7, <2>1 DEF Grow, ControllerAssumption
    <2>3. QED
        BY <1>7, <2>2 DEF Grow, TypeOK
<1>8. CASE Stop
    BY <1>8 DEF Stop, TypeOK, DispatcherPCs
<1>9. CASE CloseDone
    BY <1>9 DEF CloseDone, TypeOK, DispatcherPCs
<1>10. CASE Wait
    BY <1>10 DEF Wait, Drain, TypeOK, DispatcherPCs, Senders
<1>11. CASE Resume
    BY <1>11 DEF Resume, Drain, TypeOK, DispatcherPCs, Senders
<1>12. CASE TimeUp
    BY <1>12 DEF TimeUp, TypeOK, DispatcherPCs
<1>13. CASE Halt
    BY <1>13 DEF Halt, TypeOK, DispatcherPCs
<1>14. ASSUME NEW w \in Workers, WorkerStarts(w) PROVE TypeOK'
    BY <1>14 DEF WorkerStarts, Add, TypeOK, DispatcherPCs
<1>15. ASSUME NEW w \in Workers, SeesEnd(w) PROVE TypeOK'
    BY <1>15 DEF SeesEnd, WorkerExits, Done, TypeOK, DispatcherPCs
<1>16. ASSUME NEW w \in Workers, TakesJob(w) PROVE TypeOK'
    BY <1>16 DEF TakesJob, TypeOK, DispatcherPCs
<1>17. ASSUME NEW w \in Workers, LooksAtDone(w) PROVE TypeOK'
    BY <1>17 DEF LooksAtDone, WorkerExits, Done, TypeOK, DispatcherPCs
<1>18. ASSUME NEW w \in Workers, AddPoint(w) PROVE TypeOK'
    <2>1. added[w] + 1 \in 1..MaxPoints
        BY <1>18 DEF AddPoint, TypeOK, ControllerAssumption
    <2>2. added' \in [Workers -> 0..MaxPoints]
        BY <1>18, <2>1 DEF AddPoint, TypeOK
    <2>3. gatherer' \in [Workers -> SUBSET Points]
        BY <1>18, <2>1 DEF AddPoint, TypeOK, Points
    <2>4. QED
        BY <1>18, <2>2, <2>3 DEF AddPoint, TypeOK
<1>19. ASSUME NEW w \in Workers, JobEnds(w) PROVE TypeOK'
    BY <1>19 DEF JobEnds, TypeOK, DispatcherPCs
<1>20. ASSUME NEW w \in Workers, WorkerQuits(w) PROVE TypeOK'
    BY <1>20 DEF WorkerQuits, WorkerExits, Done, TypeOK, DispatcherPCs
<1>21. ASSUME NEW s \in Senders, SenderStarts(s) PROVE TypeOK'
    <2>1. wg' \subseteq ({"worker"} \X Workers) \cup ({"sender"} \X Senders)
        BY <1>21 DEF SenderStarts, Add, TypeOK
    <2>2. /\ sender' \in [Senders -> {"none", "new", "busy"}]
          /\ toClear' \in [Senders -> SUBSET Workers]
        BY <1>21 DEF SenderStarts, TypeOK
    <2>3. QED
        BY <1>21, <2>1, <2>2 DEF SenderStarts, TypeOK
<1>22. ASSUME NEW s \in Senders, ClearBatchPoints(s) PROVE TypeOK'
    <2>1. PICK w \in Workers :
             /\ batch' = [batch EXCEPT ![s] = @ \cup gatherer[w]]
             /\ gatherer' = [gatherer EXCEPT ![w] = {}]
             /\ toClear' = [toClear EXCEPT ![s] = @ \ {w}]
        BY <1>22 DEF ClearBatchPoints
    <2>2. batch' \in [Senders -> SUBSET Points]
        BY <2>1 DEF TypeOK
    <2>3. gatherer' \in [Workers -> SUBSET Points]
        BY <2>1 DEF TypeOK
    <2>4. toClear' \in [Senders -> SUBSET Workers]
        BY <2>1 DEF TypeOK
    <2>5. QED
        BY <1>22, <2>2, <2>3, <2>4 DEF ClearBatchPoints, TypeOK
<1>23. ASSUME NEW s \in Senders, PersistSucceeds(s) PROVE TypeOK'
    BY <1>23 DEF PersistSucceeds, SenderEnds, Done, TypeOK, DispatcherPCs
<1>24. ASSUME NEW s \in Senders, PersistFails(s) PROVE TypeOK'
    <2>1. numTries[s] \in 0..(maxRetries + 1) /\ 0 \in 0..(maxRetries + 1)
        BY DEF TypeOK, ControllerAssumption
    <2>2. CASE /\ numTries[s] <= maxRetries
               /\ numTries' = [numTries EXCEPT ![s] = @ + 1]
               /\ UNCHANGED <<pc, outcome, rateVars, chanVars, wg, workVars>>
               /\ UNCHANGED <<sender, toClear, batch, saved, dropped>>
        <3>1. numTries[s] + 1 \in 0..(maxRetries + 1)
            BY <2>1, <2>2 DEF ControllerAssumption
        <3>2. numTries' \in [Senders -> 0..(maxRetries + 1)]
            BY <2>2, <3>1 DEF TypeOK
        <3>3. QED
            BY <2>2, <3>2 DEF TypeOK
    <2>3. CASE /\ SenderEnds(s, TRUE)
               /\ dropped' = dropped \cup batch[s]
               /\ UNCHANGED saved
        <3>1. numTries' \in [Senders -> 0..(maxRetries + 1)]
            BY <2>1, <2>3 DEF SenderEnds, TypeOK
        <3>2. QED
            BY <2>3, <3>1 DEF SenderEnds, Done, TypeOK, DispatcherPCs
    <2>4. QED
        BY <1>24, <2>2, <2>3 DEF PersistFails
<1>25. CASE UNCHANGED vars
    BY <1>25 DEF TypeOK, DispatcherPCs
<1>26. QED
    BY <1>1, <1>2, <1>3, <1>4, <1>5, <1>6, <1>7, <1>8, <1>9, <1>10, <1>11,
       <1>12, <1>13, <1>14, <1>15, <1>16, <1>17, <1>18, <1>19, <1>20, <1>21,
       <1>22, <1>23, <1>24, <1>25
    DEF Next, DispatcherStep, WorkerStep, SenderStep

\* Every step keeps Shutdown (controller.go 160 to 167, worker.go 24 to 45).
LEMMA ShutdownStep ==
  TypeOK /\ Shutdown /\ [Next]_vars => Shutdown'
<1> SUFFICES ASSUME TypeOK, Shutdown, [Next]_vars
             PROVE  Shutdown'
    OBVIOUS
<1> USE ControllerAssumption DEF vars, rateVars, chanVars, workVars, sendVars
<1>1. CASE Reject
    BY <1>1 DEF Reject, TypeOK, Shutdown
<1>2. CASE Start
    BY <1>2 DEF Start, TypeOK, Shutdown
<1>3. CASE Tick
    BY <1>3 DEF Tick, TypeOK, Shutdown
<1>4. CASE SendJob
    BY <1>4 DEF SendJob, TypeOK, Shutdown
<1>5. CASE BreakSelect
    BY <1>5 DEF BreakSelect, TypeOK, Shutdown
<1>6. CASE EndTick
    <2>1. \A r \in Senders : sender'[r] # sender[r] => r # 0
        BY <1>6 DEF EndTick, IsFirst, TypeOK
    <2>2. sender'[0] = sender[0]
        BY <2>1 DEF Senders, ControllerAssumption
    <2>3. QED
        BY <1>6, <2>2 DEF EndTick, Shutdown
<1>7. CASE Grow
    BY <1>7 DEF Grow, TypeOK, Shutdown
<1>8. CASE Stop
    BY <1>8 DEF Stop, TypeOK, Shutdown
<1>9. CASE CloseDone
    BY <1>9 DEF CloseDone, TypeOK, Shutdown
<1>10. CASE Wait
    BY <1>10 DEF Wait, Drain, TypeOK, Shutdown
<1>11. CASE Resume
    BY <1>11 DEF Resume, Drain, TypeOK, Shutdown
<1>12. CASE TimeUp
    BY <1>12 DEF TimeUp, TypeOK, Shutdown
<1>13. CASE Halt
    BY <1>13 DEF Halt, TypeOK, Shutdown
<1>14. ASSUME NEW w \in Workers, WorkerStarts(w) PROVE Shutdown'
    BY <1>14 DEF WorkerStarts, Add, TypeOK, Shutdown
<1>15. ASSUME NEW w \in Workers, SeesEnd(w) PROVE Shutdown'
    BY <1>15 DEF SeesEnd, WorkerExits, Done, TypeOK, Shutdown
<1>16. ASSUME NEW w \in Workers, TakesJob(w) PROVE Shutdown'
    BY <1>16 DEF TakesJob, TypeOK, Shutdown
<1>17. ASSUME NEW w \in Workers, LooksAtDone(w) PROVE Shutdown'
    BY <1>17 DEF LooksAtDone, WorkerExits, Done, TypeOK, Shutdown
<1>18. ASSUME NEW w \in Workers, AddPoint(w) PROVE Shutdown'
    BY <1>18 DEF AddPoint, TypeOK, Shutdown
<1>19. ASSUME NEW w \in Workers, JobEnds(w) PROVE Shutdown'
    BY <1>19 DEF JobEnds, TypeOK, Shutdown
<1>20. ASSUME NEW w \in Workers, WorkerQuits(w) PROVE Shutdown'
    BY <1>20 DEF WorkerQuits, WorkerExits, Done, TypeOK, Shutdown
<1>21. ASSUME NEW s \in Senders, SenderStarts(s) PROVE Shutdown'
    BY <1>21 DEF SenderStarts, Add, TypeOK, Shutdown
<1>22. ASSUME NEW s \in Senders, ClearBatchPoints(s) PROVE Shutdown'
    BY <1>22 DEF ClearBatchPoints, TypeOK, Shutdown
<1>23. ASSUME NEW s \in Senders, PersistSucceeds(s) PROVE Shutdown'
    BY <1>23 DEF PersistSucceeds, SenderEnds, Done, TypeOK, Shutdown
<1>24. ASSUME NEW s \in Senders, PersistFails(s) PROVE Shutdown'
    <2>1. CASE SenderEnds(s, TRUE)
        BY <1>24, <2>1 DEF PersistFails, SenderEnds, Done, TypeOK, Shutdown
    <2>2. CASE UNCHANGED <<pc, outcome, chanVars, wg, workVars, sender>>
        BY <2>2 DEF Shutdown
    <2>3. QED
        BY <1>24, <2>1, <2>2 DEF PersistFails
<1>25. CASE UNCHANGED vars
    BY <1>25 DEF TypeOK, Shutdown
<1>26. QED
    BY <1>1, <1>2, <1>3, <1>4, <1>5, <1>6, <1>7, <1>8, <1>9, <1>10, <1>11,
       <1>12, <1>13, <1>14, <1>15, <1>16, <1>17, <1>18, <1>19, <1>20, <1>21,
       <1>22, <1>23, <1>24, <1>25
    DEF Next, DispatcherStep, WorkerStep, SenderStep

\* Every step keeps QuietAfterStop: a worker that runs is counted by the WaitGroup
\* until its Done (worker.go 25 to 27), and one that starts late finds Done closed.
LEMMA QuietStep ==
  TypeOK /\ Shutdown /\ QuietAfterStop /\ [Next]_vars => QuietAfterStop'
<1> SUFFICES ASSUME TypeOK, Shutdown, QuietAfterStop, [Next]_vars
             PROVE  QuietAfterStop'
    OBVIOUS
<1> USE ControllerAssumption DEF vars, rateVars, chanVars, workVars, sendVars
<1>1. CASE Reject
    BY <1>1 DEF Reject, TypeOK, Shutdown, QuietAfterStop
<1>2. CASE Start
    BY <1>2 DEF Start, TypeOK, Shutdown, QuietAfterStop
<1>3. CASE Tick
    BY <1>3 DEF Tick, TypeOK, Shutdown, QuietAfterStop
<1>4. CASE SendJob
    BY <1>4 DEF SendJob, TypeOK, Shutdown, QuietAfterStop
<1>5. CASE BreakSelect
    BY <1>5 DEF BreakSelect, TypeOK, Shutdown, QuietAfterStop
<1>6. CASE EndTick
    BY <1>6 DEF EndTick, TypeOK, Shutdown, QuietAfterStop
<1>7. CASE Grow
    BY <1>7 DEF Grow, TypeOK, Shutdown, QuietAfterStop
<1>8. CASE Stop
    BY <1>8 DEF Stop, TypeOK, Shutdown, QuietAfterStop
<1>9. CASE CloseDone
    BY <1>9 DEF CloseDone, TypeOK, Shutdown, QuietAfterStop
<1>10. CASE Wait
    BY <1>10 DEF Wait, Drain, TypeOK, Shutdown, QuietAfterStop
<1>11. CASE Resume
    BY <1>11 DEF Resume, Drain, TypeOK, Shutdown, QuietAfterStop
<1>12. CASE TimeUp
    BY <1>12 DEF TimeUp, TypeOK, Shutdown, QuietAfterStop
<1>13. CASE Halt
    BY <1>13 DEF Halt, TypeOK, Shutdown, QuietAfterStop
<1>14. ASSUME NEW w \in Workers, WorkerStarts(w) PROVE QuietAfterStop'
    BY <1>14 DEF WorkerStarts, Add, TypeOK, Shutdown, QuietAfterStop
<1>15. ASSUME NEW w \in Workers, SeesEnd(w) PROVE QuietAfterStop'
    BY <1>15 DEF SeesEnd, WorkerExits, Done, TypeOK, Shutdown, QuietAfterStop
<1>16. ASSUME NEW w \in Workers, TakesJob(w) PROVE QuietAfterStop'
    BY <1>16 DEF TakesJob, TypeOK, Shutdown, QuietAfterStop
<1>17. ASSUME NEW w \in Workers, LooksAtDone(w) PROVE QuietAfterStop'
    BY <1>17
    DEF LooksAtDone, WorkerExits, Done, TypeOK, Shutdown, QuietAfterStop
<1>18. ASSUME NEW w \in Workers, AddPoint(w) PROVE QuietAfterStop'
    BY <1>18 DEF AddPoint, TypeOK, Shutdown, QuietAfterStop
<1>19. ASSUME NEW w \in Workers, JobEnds(w) PROVE QuietAfterStop'
    BY <1>19 DEF JobEnds, TypeOK, Shutdown, QuietAfterStop
<1>20. ASSUME NEW w \in Workers, WorkerQuits(w) PROVE QuietAfterStop'
    BY <1>20
    DEF WorkerQuits, WorkerExits, Done, TypeOK, Shutdown, QuietAfterStop
<1>21. ASSUME NEW s \in Senders, SenderStarts(s) PROVE QuietAfterStop'
    BY <1>21 DEF SenderStarts, Add, TypeOK, Shutdown, QuietAfterStop
<1>22. ASSUME NEW s \in Senders, ClearBatchPoints(s) PROVE QuietAfterStop'
    BY <1>22 DEF ClearBatchPoints, TypeOK, Shutdown, QuietAfterStop
<1>23. ASSUME NEW s \in Senders, PersistSucceeds(s) PROVE QuietAfterStop'
    BY <1>23
    DEF PersistSucceeds, SenderEnds, Done, TypeOK, Shutdown, QuietAfterStop
<1>24. ASSUME NEW s \in Senders, PersistFails(s) PROVE QuietAfterStop'
    BY <1>24
    DEF PersistFails, SenderEnds, Done, TypeOK, Shutdown, QuietAfterStop
<1>25. CASE UNCHANGED vars
    BY <1>25 DEF TypeOK, Shutdown, QuietAfterStop
<1>26. QED
    BY <1>1, <1>2, <1>3, <1>4, <1>5, <1>6, <1>7, <1>8, <1>9, <1>10, <1>11,
       <1>12, <1>13, <1>14, <1>15, <1>16, <1>17, <1>18, <1>19, <1>20, <1>21,
       <1>22, <1>23, <1>24, <1>25
    DEF Next, DispatcherStep, WorkerStep, SenderStep

\* Every step keeps LastBatchComplete (controller.go 165 to 166).
LEMMA LastBatchStep ==
  TypeOK /\ Shutdown /\ QuietAfterStop /\ LastBatchComplete /\ [Next]_vars => LastBatchComplete'
<1> SUFFICES ASSUME TypeOK, Shutdown, QuietAfterStop, LastBatchComplete, [Next]_vars
             PROVE  LastBatchComplete'
    OBVIOUS
<1> USE ControllerAssumption DEF vars, rateVars, chanVars, workVars, sendVars
<1>1. CASE Reject
    BY <1>1
    DEF Reject, TypeOK, Shutdown, QuietAfterStop, LastBatchComplete, Senders,
        ControllerAssumption
<1>2. CASE Start
    BY <1>2
    DEF Start, TypeOK, Shutdown, QuietAfterStop, LastBatchComplete, Senders,
        ControllerAssumption
<1>3. CASE Tick
    BY <1>3
    DEF Tick, TypeOK, Shutdown, QuietAfterStop, LastBatchComplete, Senders,
        ControllerAssumption
<1>4. CASE SendJob
    BY <1>4
    DEF SendJob, TypeOK, Shutdown, QuietAfterStop, LastBatchComplete, Senders,
        ControllerAssumption
<1>5. CASE BreakSelect
    BY <1>5
    DEF BreakSelect, TypeOK, Shutdown, QuietAfterStop, LastBatchComplete,
        Senders, ControllerAssumption
<1>6. CASE EndTick
    BY <1>6
    DEF EndTick, TypeOK, Shutdown, QuietAfterStop, LastBatchComplete, Senders,
        ControllerAssumption
<1>7. CASE Grow
    BY <1>7
    DEF Grow, TypeOK, Shutdown, QuietAfterStop, LastBatchComplete, Senders,
        ControllerAssumption
<1>8. CASE Stop
    BY <1>8
    DEF Stop, TypeOK, Shutdown, QuietAfterStop, LastBatchComplete, Senders,
        ControllerAssumption
<1>9. CASE CloseDone
    BY <1>9
    DEF CloseDone, TypeOK, Shutdown, QuietAfterStop, LastBatchComplete,
        Senders, ControllerAssumption
<1>10. CASE Wait
    BY <1>10
    DEF Wait, Drain, TypeOK, Shutdown, QuietAfterStop, LastBatchComplete,
        Senders, ControllerAssumption
<1>11. CASE Resume
    BY <1>11
    DEF Resume, Drain, TypeOK, Shutdown, QuietAfterStop, LastBatchComplete,
        Senders, ControllerAssumption
<1>12. CASE TimeUp
    BY <1>12
    DEF TimeUp, TypeOK, Shutdown, QuietAfterStop, LastBatchComplete, Senders,
        ControllerAssumption
<1>13. CASE Halt
    BY <1>13
    DEF Halt, TypeOK, Shutdown, QuietAfterStop, LastBatchComplete, Senders,
        ControllerAssumption
<1>14. ASSUME NEW w \in Workers, WorkerStarts(w) PROVE LastBatchComplete'
    BY <1>14
    DEF WorkerStarts, Add, TypeOK, Shutdown, QuietAfterStop,
        LastBatchComplete, Senders, ControllerAssumption
<1>15. ASSUME NEW w \in Workers, SeesEnd(w) PROVE LastBatchComplete'
    BY <1>15
    DEF SeesEnd, WorkerExits, Done, TypeOK, Shutdown, QuietAfterStop,
        LastBatchComplete, Senders, ControllerAssumption
<1>16. ASSUME NEW w \in Workers, TakesJob(w) PROVE LastBatchComplete'
    BY <1>16
    DEF TakesJob, TypeOK, Shutdown, QuietAfterStop, LastBatchComplete,
        Senders, ControllerAssumption
<1>17. ASSUME NEW w \in Workers, LooksAtDone(w) PROVE LastBatchComplete'
    BY <1>17
    DEF LooksAtDone, WorkerExits, Done, TypeOK, Shutdown, QuietAfterStop,
        LastBatchComplete, Senders, ControllerAssumption
<1>18. ASSUME NEW w \in Workers, AddPoint(w) PROVE LastBatchComplete'
    BY <1>18
    DEF AddPoint, TypeOK, Shutdown, QuietAfterStop, LastBatchComplete,
        Senders, ControllerAssumption
<1>19. ASSUME NEW w \in Workers, JobEnds(w) PROVE LastBatchComplete'
    BY <1>19
    DEF JobEnds, TypeOK, Shutdown, QuietAfterStop, LastBatchComplete, Senders,
        ControllerAssumption
<1>20. ASSUME NEW w \in Workers, WorkerQuits(w) PROVE LastBatchComplete'
    BY <1>20
    DEF WorkerQuits, WorkerExits, Done, TypeOK, Shutdown, QuietAfterStop,
        LastBatchComplete, Senders, ControllerAssumption
<1>21. ASSUME NEW s \in Senders, SenderStarts(s) PROVE LastBatchComplete'
    BY <1>21
    DEF SenderStarts, Add, TypeOK, Shutdown, QuietAfterStop,
        LastBatchComplete, Senders, ControllerAssumption
<1>22. ASSUME NEW s \in Senders, ClearBatchPoints(s) PROVE LastBatchComplete'
    BY <1>22
    DEF ClearBatchPoints, TypeOK, Shutdown, QuietAfterStop, LastBatchComplete,
        Senders, ControllerAssumption
<1>23. ASSUME NEW s \in Senders, PersistSucceeds(s) PROVE LastBatchComplete'
    BY <1>23
    DEF PersistSucceeds, SenderEnds, Done, TypeOK, Shutdown, QuietAfterStop,
        LastBatchComplete, Senders, ControllerAssumption
<1>24. ASSUME NEW s \in Senders, PersistFails(s) PROVE LastBatchComplete'
    BY <1>24
    DEF PersistFails, SenderEnds, Done, TypeOK, Shutdown, QuietAfterStop,
        LastBatchComplete, Senders, ControllerAssumption
<1>25. CASE UNCHANGED vars
    BY <1>25
    DEF TypeOK, Shutdown, QuietAfterStop, LastBatchComplete, Senders,
        ControllerAssumption
<1>26. QED
    BY <1>1, <1>2, <1>3, <1>4, <1>5, <1>6, <1>7, <1>8, <1>9, <1>10, <1>11,
       <1>12, <1>13, <1>14, <1>15, <1>16, <1>17, <1>18, <1>19, <1>20, <1>21,
       <1>22, <1>23, <1>24, <1>25
    DEF Next, DispatcherStep, WorkerStep, SenderStep

\* Every step keeps PointsAccounted: a batch changes hands as a whole, under the
\* mutex of the gatherer (metrics_gatherer.go 30 to 42).
LEMMA PointsStep ==
  TypeOK /\ PointsAccounted /\ Owned /\ [Next]_vars => PointsAccounted'
<1> SUFFICES ASSUME TypeOK, PointsAccounted, Owned, [Next]_vars
             PROVE  PointsAccounted'
    OBVIOUS
<1> USE ControllerAssumption DEF vars, rateVars, chanVars, workVars, sendVars
<1>1. CASE Reject
    BY <1>1 DEF Reject, TypeOK, PointsAccounted
<1>2. CASE Start
    BY <1>2 DEF Start, TypeOK, PointsAccounted
<1>3. CASE Tick
    BY <1>3 DEF Tick, TypeOK, PointsAccounted
<1>4. CASE SendJob
    BY <1>4 DEF SendJob, TypeOK, PointsAccounted
<1>5. CASE BreakSelect
    BY <1>5 DEF BreakSelect, TypeOK, PointsAccounted
<1>6. CASE EndTick
    BY <1>6 DEF EndTick, TypeOK, PointsAccounted
<1>7. CASE Grow
    BY <1>7 DEF Grow, TypeOK, PointsAccounted
<1>8. CASE Stop
    BY <1>8 DEF Stop, TypeOK, PointsAccounted
<1>9. CASE CloseDone
    BY <1>9 DEF CloseDone, TypeOK, PointsAccounted
<1>10. CASE Wait
    BY <1>10 DEF Wait, Drain, TypeOK, PointsAccounted
<1>11. CASE Resume
    BY <1>11 DEF Resume, Drain, TypeOK, PointsAccounted
<1>12. CASE TimeUp
    BY <1>12 DEF TimeUp, TypeOK, PointsAccounted
<1>13. CASE Halt
    BY <1>13 DEF Halt, TypeOK, PointsAccounted
<1>14. ASSUME NEW w \in Workers, WorkerStarts(w) PROVE PointsAccounted'
    BY <1>14 DEF WorkerStarts, Add, TypeOK, PointsAccounted
<1>15. ASSUME NEW w \in Workers, SeesEnd(w) PROVE PointsAccounted'
    BY <1>15 DEF SeesEnd, WorkerExits, Done, TypeOK, PointsAccounted
<1>16. ASSUME NEW w \in Workers, TakesJob(w) PROVE PointsAccounted'
    BY <1>16 DEF TakesJob, TypeOK, PointsAccounted
<1>17. ASSUME NEW w \in Workers, LooksAtDone(w) PROVE PointsAccounted'
    BY <1>17 DEF LooksAtDone, WorkerExits, Done, TypeOK, PointsAccounted
<1>18. ASSUME NEW w \in Workers, AddPoint(w) PROVE PointsAccounted'
    BY <1>18 DEF AddPoint, TypeOK, PointsAccounted, Owned
<1>19. ASSUME NEW w \in Workers, JobEnds(w) PROVE PointsAccounted'
    BY <1>19 DEF JobEnds, TypeOK, PointsAccounted
<1>20. ASSUME NEW w \in Workers, WorkerQuits(w) PROVE PointsAccounted'
    BY <1>20 DEF WorkerQuits, WorkerExits, Done, TypeOK, PointsAccounted
<1>21. ASSUME NEW s \in Senders, SenderStarts(s) PROVE PointsAccounted'
    BY <1>21 DEF SenderStarts, Add, TypeOK, PointsAccounted
<1>22. ASSUME NEW s \in Senders, ClearBatchPoints(s) PROVE PointsAccounted'
    <2>1. PICK w \in Workers :
             /\ batch' = [batch EXCEPT ![s] = @ \cup gatherer[w]]
             /\ gatherer' = [gatherer EXCEPT ![w] = {}]
        BY <1>22 DEF ClearBatchPoints
    <2>2. UNCHANGED <<added, saved, dropped>>
        BY <1>22 DEF ClearBatchPoints
    <2>3. /\ batch'[s] = batch[s] \cup gatherer[w]
          /\ \A r \in Senders : r # s => batch'[r] = batch[r]
          /\ gatherer'[w] = {}
          /\ \A v \in Workers : v # w => gatherer'[v] = gatherer[v]
        BY <2>1 DEF TypeOK
    <2>4. \A v \in Workers : v # w => gatherer[v] \cap gatherer[w] = {}
        BY DEF Owned
    <2>5. \A v \in Workers, k \in 1..MaxPoints :
             <<v, k>> \in gatherer[w] => v = w
        BY DEF Owned
    <2>6. \A v \in Workers, k \in 1..MaxPoints :
             (\/ <<v, k>> \in gatherer[v] \cup saved \cup dropped
              \/ \E r \in Senders : <<v, k>> \in batch[r])
             <=> (\/ <<v, k>> \in gatherer'[v] \cup saved \cup dropped
                  \/ \E r \in Senders : <<v, k>> \in batch'[r])
        BY <2>3, <2>5
    <2>7. /\ \A v \in Workers, r \in Senders :
                gatherer'[v] \cap (saved \cup dropped \cup batch'[r]) = {}
          /\ \A r \in Senders : batch'[r] \cap (saved \cup dropped) = {}
        BY <2>3, <2>4 DEF PointsAccounted
    <2>8. \A q, r \in Senders : q # r => batch'[q] \cap batch'[r] = {}
        BY <2>3 DEF PointsAccounted
    <2>9. QED
        BY <2>2, <2>6, <2>7, <2>8 DEF PointsAccounted
<1>23. ASSUME NEW s \in Senders, PersistSucceeds(s) PROVE PointsAccounted'
    <2>1. /\ saved' = saved \cup batch[s]
          /\ UNCHANGED <<added, gatherer, dropped>>
          /\ batch' = [batch EXCEPT ![s] = {}]
        BY <1>23 DEF PersistSucceeds, SenderEnds
    <2>2. /\ batch'[s] = {}
          /\ \A r \in Senders : r # s => batch'[r] = batch[r]
        BY <2>1 DEF TypeOK
    <2>3. \A v \in Workers, k \in 1..MaxPoints :
             (\/ <<v, k>> \in gatherer[v] \cup saved \cup dropped
              \/ \E r \in Senders : <<v, k>> \in batch[r])
             <=> (\/ <<v, k>> \in gatherer[v] \cup saved' \cup dropped'
                  \/ \E r \in Senders : <<v, k>> \in batch'[r])
        BY <2>1, <2>2
    <2>4. saved' \cap dropped' = {}
        BY <2>1 DEF PointsAccounted
    <2>5. /\ \A v \in Workers, r \in Senders :
                gatherer[v] \cap (saved' \cup dropped' \cup batch'[r]) = {}
          /\ \A r \in Senders : batch'[r] \cap (saved' \cup dropped') = {}
        BY <2>1, <2>2 DEF PointsAccounted
    <2>6. \A q, r \in Senders : q # r => batch'[q] \cap batch'[r] = {}
        BY <2>2 DEF PointsAccounted
    <2>7. QED
        BY <2>1, <2>3, <2>4, <2>5, <2>6 DEF PointsAccounted
<1>24. ASSUME NEW s \in Senders, PersistFails(s) PROVE PointsAccounted'
    <2>1. CASE UNCHANGED <<workVars, batch, saved, dropped>>
        BY <2>1 DEF PointsAccounted
    <2>2. CASE /\ SenderEnds(s, TRUE)
               /\ dropped' = dropped \cup batch[s]
               /\ UNCHANGED saved
        <3>1. /\ dropped' = dropped \cup batch[s]
              /\ UNCHANGED <<added, gatherer, saved>>
              /\ batch' = [batch EXCEPT ![s] = {}]
            BY <2>2 DEF SenderEnds
        <3>2. /\ batch'[s] = {}
              /\ \A r \in Senders : r # s => batch'[r] = batch[r]
            BY <3>1 DEF TypeOK
        <3>3. \A v \in Workers, k \in 1..MaxPoints :
                 (\/ <<v, k>> \in gatherer[v] \cup saved \cup dropped
                  \/ \E r \in Senders : <<v, k>> \in batch[r])
                 <=> (\/ <<v, k>> \in gatherer[v] \cup saved' \cup dropped'
                      \/ \E r \in Senders : <<v, k>> \in batch'[r])
            BY <3>1, <3>2
        <3>4. saved' \cap dropped' = {}
            BY <3>1 DEF PointsAccounted
        <3>5. /\ \A v \in Workers, r \in Senders :
                    gatherer[v] \cap (saved' \cup dropped' \cup batch'[r]) = {}
              /\ \A r \in Senders : batch'[r] \cap (saved' \cup dropped') = {}
            BY <3>1, <3>2 DEF PointsAccounted
        <3>6. \A q, r \in Senders : q # r => batch'[q] \cap batch'[r] = {}
            BY <3>2 DEF PointsAccounted
        <3>7. QED
            BY <3>1, <3>3, <3>4, <3>5, <3>6 DEF PointsAccounted
    <2>3. QED
        BY <1>24, <2>1, <2>2 DEF PersistFails
<1>25. CASE UNCHANGED vars
    BY <1>25 DEF TypeOK, PointsAccounted
<1>26. QED
    BY <1>1, <1>2, <1>3, <1>4, <1>5, <1>6, <1>7, <1>8, <1>9, <1>10, <1>11,
       <1>12, <1>13, <1>14, <1>15, <1>16, <1>17, <1>18, <1>19, <1>20, <1>21,
       <1>22, <1>23, <1>24, <1>25
    DEF Next, DispatcherStep, WorkerStep, SenderStep

\* Every step keeps Owned: a worker reports to its own gatherer (controller.go 68
\* to 80).
LEMMA OwnedStep ==
  TypeOK /\ Owned /\ [Next]_vars => Owned'
<1> SUFFICES ASSUME TypeOK, Owned, [Next]_vars
             PROVE  Owned'
    OBVIOUS
<1> USE ControllerAssumption DEF vars, rateVars, chanVars, workVars, sendVars
<1>1. CASE Reject
    BY <1>1 DEF Reject, TypeOK, Owned
<1>2. CASE Start
    BY <1>2 DEF Start, TypeOK, Owned
<1>3. CASE Tick
    BY <1>3 DEF Tick, TypeOK, Owned
<1>4. CASE SendJob
    BY <1>4 DEF SendJob, TypeOK, Owned
<1>5. CASE BreakSelect
    BY <1>5 DEF BreakSelect, TypeOK, Owned
<1>6. CASE EndTick
    BY <1>6 DEF EndTick, TypeOK, Owned
<1>7. CASE Grow
    BY <1>7 DEF Grow, TypeOK, Owned
<1>8. CASE Stop
    BY <1>8 DEF Stop, TypeOK, Owned
<1>9. CASE CloseDone
    BY <1>9 DEF CloseDone, TypeOK, Owned
<1>10. CASE Wait
    BY <1>10 DEF Wait, Drain, TypeOK, Owned
<1>11. CASE Resume
    BY <1>11 DEF Resume, Drain, TypeOK, Owned
<1>12. CASE TimeUp
    BY <1>12 DEF TimeUp, TypeOK, Owned
<1>13. CASE Halt
    BY <1>13 DEF Halt, TypeOK, Owned
<1>14. ASSUME NEW w \in Workers, WorkerStarts(w) PROVE Owned'
    BY <1>14 DEF WorkerStarts, Add, TypeOK, Owned
<1>15. ASSUME NEW w \in Workers, SeesEnd(w) PROVE Owned'
    BY <1>15 DEF SeesEnd, WorkerExits, Done, TypeOK, Owned
<1>16. ASSUME NEW w \in Workers, TakesJob(w) PROVE Owned'
    BY <1>16 DEF TakesJob, TypeOK, Owned
<1>17. ASSUME NEW w \in Workers, LooksAtDone(w) PROVE Owned'
    BY <1>17 DEF LooksAtDone, WorkerExits, Done, TypeOK, Owned
<1>18. ASSUME NEW w \in Workers, AddPoint(w) PROVE Owned'
    BY <1>18 DEF AddPoint, TypeOK, Owned
<1>19. ASSUME NEW w \in Workers, JobEnds(w) PROVE Owned'
    BY <1>19 DEF JobEnds, TypeOK, Owned
<1>20. ASSUME NEW w \in Workers, WorkerQuits(w) PROVE Owned'
    BY <1>20 DEF WorkerQuits, WorkerExits, Done, TypeOK, Owned
<1>21. ASSUME NEW s \in Senders, SenderStarts(s) PROVE Owned'
    BY <1>21 DEF SenderStarts, Add, TypeOK, Owned
<1>22. ASSUME NEW s \in Senders, ClearBatchPoints(s) PROVE Owned'
    BY <1>22 DEF ClearBatchPoints, TypeOK, Owned
<1>23. ASSUME NEW s \in Senders, PersistSucceeds(s) PROVE Owned'
    BY <1>23 DEF PersistSucceeds, SenderEnds, Done, TypeOK, Owned
<1>24. ASSUME NEW s \in Senders, PersistFails(s) PROVE Owned'
    BY <1>24 DEF PersistFails, SenderEnds, Done, TypeOK, Owned
<1>25. CASE UNCHANGED vars
    BY <1>25 DEF TypeOK, Owned
<1>26. QED
    BY <1>1, <1>2, <1>3, <1>4, <1>5, <1>6, <1>7, <1>8, <1>9, <1>10, <1>11,
       <1>12, <1>13, <1>14, <1>15, <1>16, <1>17, <1>18, <1>19, <1>20, <1>21,
       <1>22, <1>23, <1>24, <1>25
    DEF Next, DispatcherStep, WorkerStep, SenderStep

-----------------------------------------------------------------------------
\* The initial state satisfies the inductive invariant.
LEMMA InitIInv == Init => IInv
<1> SUFFICES ASSUME Init PROVE IInv
    OBVIOUS
<1> USE ControllerAssumption DEF ControllerAssumption
<1>1. TypeOK
    <2>1. 0 \in 0..MaxPoints /\ 0 \in 0..(maxRetries + 1)
        OBVIOUS
    <2>2. QED
        BY <2>1 DEF Init, TypeOK, DispatcherPCs
<1>2. Shutdown
    BY DEF Init, Shutdown, Senders
<1>3. QuietAfterStop /\ LastBatchComplete
    BY DEF Init, QuietAfterStop, LastBatchComplete
<1>4. PointsAccounted /\ Owned
    BY DEF Init, PointsAccounted, Owned
<1>5. QED
    BY <1>1, <1>2, <1>3, <1>4 DEF IInv

\* Every step keeps the inductive invariant.
LEMMA StepIInv == IInv /\ [Next]_vars => IInv'
  BY TypeStep, ShutdownStep, QuietStep, LastBatchStep, PointsStep, OwnedStep
  DEF IInv

\* The inductive invariant holds in every state of a load test.
THEOREM Invariance == Spec => []IInv
  BY InitIInv, StepIInv, PTL DEF Spec

\* Every variable keeps the type of the Go value it stands for.
THEOREM TypeCorrect == Spec => []TypeOK
<1>1. IInv => TypeOK
    BY DEF IInv
<1>2. QED
    BY Invariance, <1>1, PTL

\* No point is lost or reported twice between the workers and the persister
\* (metrics_gatherer.go 29 to 43, controller.go 147 to 201).
THEOREM NoPointLost == Spec => []PointsAccounted
<1>1. IInv => PointsAccounted
    BY DEF IInv
<1>2. QED
    BY Invariance, <1>1, PTL

\* After the wait of stopWorkers (controller.go 165) no worker runs the script.
THEOREM StopsQuietly == Spec => []QuietAfterStop
<1>1. IInv => QuietAfterStop
    BY DEF IInv
<1>2. QED
    BY Invariance, <1>1, PTL

\* The batch RunInstructions sends last (controller.go 166) leaves nothing behind.
THEOREM LeavesNothingBehind == Spec => []LastBatchComplete
<1>1. IInv => LastBatchComplete
    BY DEF IInv
<1>2. QED
    BY Invariance, <1>1, PTL

=============================================================================
