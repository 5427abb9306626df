----------------------------- MODULE Controller -----------------------------
(***************************************************************************)
(* One load test on one executor (executor/controller/controller.go,       *)
(* worker.go and metrics_gatherer.go): RunInstructions.                    *)
(*                                                                         *)
(* The dispatcher, runScript, feeds a channel of jobs at every tick until  *)
(* the run time is over or the command is halted.  Workers take jobs, run  *)
(* the script and add points to gatherers of their own.  Once in a while   *)
(* the dispatcher starts a sender, sendData, that empties the gatherers    *)
(* into a batch and persists it.  At the end the dispatcher closes the     *)
(* workers' Done channels, waits for the WaitGroup, and sends a last batch *)
(* itself: it is sender 0.                                                 *)
(*                                                                         *)
(* The WaitGroup is the set of goroutines that have called Add and not yet *)
(* Done; its counter is the size of the set.  A point is the k-th of its   *)
(* worker; what it measures is left out.                                   *)
(***************************************************************************)
EXTENDS Integers

CONSTANTS
  MaxWorkers,         \* Command.MaxWorkers
  StartingRPS,        \* Command.StartingRequestsPerSecond
  MaxRPS,             \* Command.MaxRequestsPerSecond
  Growth,             \* Command.GrowthFactor, in halves
  Intervals,          \* whole seconds TimeBetweenGrowth may come to
  TicksPerSecond,     \* ten in the code: a tick every 100 milliseconds
  numSavedExecutions,
  maxRetries,
  MaxPoints,          \* bound: points of one worker
  MaxSenders,         \* bound: senders at one time
  MaxTotal            \* bound: totalIterations

ASSUME ControllerAssumption ==
  /\ MaxWorkers \in Nat
  /\ StartingRPS \in Nat
  /\ MaxRPS \in Nat
  /\ Growth \in Nat
  /\ Intervals \subseteq Nat
  /\ TicksPerSecond \in Nat \ {0}
  /\ numSavedExecutions \in Nat
  /\ maxRetries \in Nat
  /\ MaxPoints \in Nat
  /\ MaxSenders \in Nat
  /\ MaxTotal \in Nat

Workers == 1..MaxWorkers
Senders == 0..MaxSenders
Points  == Workers \X (1..MaxPoints)

VARIABLES
  \* the dispatcher
  pc,
  rps,          \* requestsPerSecond
  growthActive,
  left,         \* jobs of this tick that are not sent
  total,        \* totalIterations
  outcome,      \* what RunInstructions has returned
  \* channels
  jobs,         \* elements of jobChannel
  jobsClosed,
  halt,         \* closed by the goroutine that listens for Halt
  done,         \* closed when the run time is over
  workerDone,   \* workers whose Done channel is closed
  \* the WaitGroup
  wg,
  \* workers, and their gatherers
  worker,
  added,        \* number of points each worker has added
  gatherer,     \* the points in each MetricsGatherer
  \* senders
  sender,
  toClear,      \* gatherers the sender has not emptied yet
  batch,
  numTries,
  \* what became of a batch
  saved,        \* points of batches that were persisted
  dropped       \* points of batches that were given up

rateVars     == <<rps, growthActive, left, total>>
chanVars     == <<jobs, jobsClosed, halt, done, workerDone>>
workVars     == <<worker, added, gatherer>>
sendVars     == <<sender, toClear, batch, numTries, saved, dropped>>
vars == <<pc, outcome, rateVars, chanVars, wg, workVars, sendVars>>

DispatcherPCs == {"start", "select", "dispatch", "stopping", "waiting",
                  "woken", "draining", "returned", "panicked"}

\* A panic ends the process and with it every goroutine.
Alive == pc # "panicked"

IsFirst(x, S) == x \in S /\ \A y \in S : x <= y

\* Jobs for one tick: the product is cut to a whole number.
getNumberOfIterations(r) == r \div TicksPerSecond

-----------------------------------------------------------------------------
Init ==
  /\ pc = "start"
  /\ rps = StartingRPS
  /\ growthActive = TRUE
  /\ left = 0
  /\ total = 0
  /\ outcome = "none"
  /\ jobs = 0
  /\ jobsClosed = FALSE
  /\ halt = FALSE
  /\ done = FALSE
  /\ workerDone = {}
  /\ wg = {}
  /\ worker = [w \in Workers |-> "none"]
  /\ added = [w \in Workers |-> 0]
  /\ gatherer = [w \in Workers |-> {}]
  /\ sender = [s \in Senders |-> "none"]
  /\ toClear = [s \in Senders |-> {}]
  /\ batch = [s \in Senders |-> {}]
  /\ numTries = [s \in Senders |-> 0]
  /\ saved = {}
  /\ dropped = {}

-----------------------------------------------------------------------------
(***************************************************************************)
(* The WaitGroup.                                                          *)
(***************************************************************************)

Add(x) == wg' = wg \cup {x}

\* Done wakes the dispatcher when the counter drops to zero.
Done(x) ==
  /\ wg' = wg \ {x}
  /\ pc' = IF pc = "waiting" /\ wg \subseteq {x} THEN "woken" ELSE pc

-----------------------------------------------------------------------------
(***************************************************************************)
(* The dispatcher.                                                         *)
(***************************************************************************)

\* The script does not compile, or the configuration is not accepted.
Reject ==
  /\ pc = "start"
  /\ pc' = "returned"
  /\ outcome' = "invalid"
  /\ UNCHANGED <<rateVars, chanVars, wg, workVars, sendVars>>

\* Starts the workers and the tickers.  A ticker whose period is zero panics.
Start ==
  /\ pc = "start"
  /\ worker' = [w \in Workers |-> "new"]
  /\ \E i \in Intervals : pc' = IF i = 0 THEN "panicked" ELSE "select"
  /\ UNCHANGED <<outcome, rateVars, chanVars, wg, added, gatherer, sendVars>>

\* The run time is over.
TimeUp ==
  /\ Alive
  /\ pc # "start" /\ outcome # "invalid"
  /\ ~done
  /\ done' = TRUE
  /\ UNCHANGED <<jobs, jobsClosed, halt, workerDone>>
  /\ UNCHANGED <<pc, outcome, rateVars, wg, workVars, sendVars>>

\* The goroutine that listens for Halt ends.
Halt ==
  /\ Alive
  /\ ~halt
  /\ halt' = TRUE
  /\ UNCHANGED <<jobs, jobsClosed, done, workerDone>>
  /\ UNCHANGED <<pc, outcome, rateVars, wg, workVars, sendVars>>

\* The loop over the jobs of the tick starts at one.
Tick ==
  /\ pc = "select"
  /\ \E s \in Senders \ {0} : sender[s] = "none"    \* bound
  /\ LET iterations == getNumberOfIterations(rps)
     IN  /\ total + iterations <= MaxTotal             \* bound
         /\ total' = total + iterations
         /\ left' = IF iterations > 1 THEN iterations - 1 ELSE 0
  /\ pc' = "dispatch"
  /\ UNCHANGED <<outcome, rps, growthActive, chanVars, wg, workVars, sendVars>>

SendJob ==
  /\ pc = "dispatch"
  /\ left > 0
  /\ jobs < MaxRPS
  /\ jobs' = jobs + 1
  /\ left' = left - 1
  /\ UNCHANGED <<jobsClosed, halt, done, workerDone>>
  /\ UNCHANGED <<pc, outcome, rps, growthActive, total, wg, workVars, sendVars>>

\* The loop is left for another round of the select.
BreakSelect ==
  /\ pc = "dispatch"
  /\ left > 0
  /\ done \/ halt
  /\ left' = 0
  /\ pc' = "select"
  /\ UNCHANGED <<outcome, rps, growthActive, total, chanVars, wg, workVars, sendVars>>

\* All jobs of the tick are sent; after enough of them a sender is started.
EndTick ==
  /\ pc = "dispatch"
  /\ left = 0
  /\ pc' = "select"
  /\ \/ /\ total <= numSavedExecutions
        /\ UNCHANGED <<total, sender>>
     \/ /\ total > numSavedExecutions
        /\ total' = 0
        /\ \E s \in Senders :
             /\ IsFirst(s, {r \in Senders \ {0} : sender[r] = "none"})
             /\ sender' = [sender EXCEPT ![s] = "new"]
  /\ UNCHANGED <<outcome, rps, growthActive, left, chanVars, wg, workVars>>
  /\ UNCHANGED <<toClear, batch, numTries, saved, dropped>>

Grow ==
  /\ pc = "select"
  /\ growthActive
  /\ LET grown == (rps * Growth) \div 2
     IN  /\ rps' = IF grown > MaxRPS THEN MaxRPS ELSE grown
         /\ growthActive' = (grown <= MaxRPS)
  /\ UNCHANGED <<pc, outcome, left, total, chanVars, wg, workVars, sendVars>>

Stop ==
  /\ pc = "select"
  /\ done \/ halt
  /\ jobsClosed' = TRUE
  /\ pc' = "stopping"
  /\ UNCHANGED <<jobs, halt, done, workerDone>>
  /\ UNCHANGED <<outcome, rateVars, wg, workVars, sendVars>>

\* stopWorkers closes the Done channels one by one.
CloseDone ==
  /\ pc = "stopping"
  /\ \E w \in Workers :
       /\ IsFirst(w, Workers \ workerDone)
       /\ workerDone' = workerDone \cup {w}
  /\ UNCHANGED <<jobs, jobsClosed, halt, done>>
  /\ UNCHANGED <<pc, outcome, rateVars, wg, workVars, sendVars>>

\* The last batch is begun: sender 0 has all gatherers to empty.
Drain ==
  /\ pc' = "draining"
  /\ sender' = [sender EXCEPT ![0] = "busy"]
  /\ toClear' = [toClear EXCEPT ![0] = Workers]

\* Seeded fault: stopWorkers does not wait for the workers.
WaitSkipped ==
  /\ pc = "stopping"
  /\ workerDone = Workers
  /\ Drain
  /\ UNCHANGED <<outcome, rateVars, chanVars, wg, workVars>>
  /\ UNCHANGED <<batch, numTries, saved, dropped>>

\* wg.Wait, which returns at once if the counter is zero.
Wait ==
  /\ pc = "stopping"
  /\ workerDone = Workers
  /\ \/ wg = {} /\ Drain
     \/ wg # {} /\ pc' = "waiting" /\ UNCHANGED <<sender, toClear>>
  /\ UNCHANGED <<outcome, rateVars, chanVars, wg, workVars>>
  /\ UNCHANGED <<batch, numTries, saved, dropped>>

\* The woken dispatcher finds the counter at zero, or somebody has called Add
\* since: "WaitGroup is reused before previous Wait has returned".
Resume ==
  /\ pc = "woken"
  /\ \/ wg = {} /\ Drain
     \/ wg # {} /\ pc' = "panicked" /\ UNCHANGED <<sender, toClear>>
  /\ UNCHANGED <<outcome, rateVars, chanVars, wg, workVars>>
  /\ UNCHANGED <<batch, numTries, saved, dropped>>

-----------------------------------------------------------------------------
(***************************************************************************)
(* The workers.                                                            *)
(***************************************************************************)

WorkerStarts(w) ==
  /\ Alive
  /\ worker[w] = "new"
  /\ worker' = [worker EXCEPT ![w] = "idle"]
  /\ Add(<<"worker", w>>)
  /\ UNCHANGED <<pc, outcome, rateVars, chanVars, added, gatherer, sendVars>>

WorkerExits(w) ==
  /\ worker' = [worker EXCEPT ![w] = "exit"]
  /\ Done(<<"worker", w>>)
  /\ UNCHANGED <<outcome, rateVars, chanVars, added, gatherer, sendVars>>

\* Done is closed, or jobChannel is drained and closed.
SeesEnd(w) ==
  /\ Alive
  /\ worker[w] = "idle"
  /\ w \in workerDone \/ (jobsClosed /\ jobs = 0)
  /\ WorkerExits(w)

TakesJob(w) ==
  /\ Alive
  /\ worker[w] = "idle"
  /\ jobs > 0
  /\ jobs' = jobs - 1
  /\ worker' = [worker EXCEPT ![w] = "got"]
  /\ UNCHANGED <<jobsClosed, halt, done, workerDone>>
  /\ UNCHANGED <<pc, outcome, rateVars, wg, added, gatherer, sendVars>>

\* Seeded fault: the worker does not look at Done again.
RunsUnchecked(w) ==
  /\ Alive
  /\ worker[w] = "got"
  /\ worker' = [worker EXCEPT ![w] = "running"]
  /\ UNCHANGED <<pc, outcome, rateVars, chanVars, wg, added, gatherer, sendVars>>

\* With a job in hand the worker looks at Done once more.
LooksAtDone(w) ==
  /\ Alive
  /\ worker[w] = "got"
  /\ \/ /\ w \in workerDone
        /\ WorkerExits(w)
     \/ /\ w \notin workerDone
        /\ worker' = [worker EXCEPT ![w] = "running"]
        /\ UNCHANGED <<pc, outcome, rateVars, chanVars, wg, added, gatherer, sendVars>>

\* The script reports something: a point goes to the worker's gatherer.
AddPoint(w) ==
  /\ Alive
  /\ worker[w] = "running"
  /\ added[w] < MaxPoints                             \* bound
  /\ added' = [added EXCEPT ![w] = @ + 1]
  /\ gatherer' = [gatherer EXCEPT ![w] = @ \cup {<<w, added[w] + 1>>}]
  /\ UNCHANGED <<pc, outcome, rateVars, chanVars, wg, worker, sendVars>>

\* The script has run, with or without an error.
JobEnds(w) ==
  /\ Alive
  /\ worker[w] = "running"
  /\ worker' = [worker EXCEPT ![w] = "idle"]
  /\ UNCHANGED <<pc, outcome, rateVars, chanVars, wg, added, gatherer, sendVars>>

\* The script or its configuration cannot be loaded: the worker gives up.
WorkerQuits(w) ==
  /\ Alive
  /\ worker[w] = "running"
  /\ WorkerExits(w)

-----------------------------------------------------------------------------
(***************************************************************************)
(* The senders.                                                            *)
(***************************************************************************)

SenderStarts(s) ==
  /\ Alive
  /\ sender[s] = "new"
  /\ sender' = [sender EXCEPT ![s] = "busy"]
  /\ toClear' = [toClear EXCEPT ![s] = Workers]
  /\ Add(<<"sender", s>>)
  /\ UNCHANGED <<pc, outcome, rateVars, chanVars, workVars>>
  /\ UNCHANGED <<batch, numTries, saved, dropped>>

\* Seeded fault: the gatherer keeps its batch.
ClearKeepsPoints(s) ==
  /\ Alive
  /\ sender[s] = "busy"
  /\ \E w \in Workers :
       /\ IsFirst(w, toClear[s])
       /\ batch' = [batch EXCEPT ![s] = @ \cup gatherer[w]]
       /\ toClear' = [toClear EXCEPT ![s] = @ \ {w}]
  /\ UNCHANGED <<pc, outcome, rateVars, chanVars, wg, worker, added, gatherer>>
  /\ UNCHANGED <<sender, numTries, saved, dropped>>

\* getBatchPoints takes over the points of one gatherer, under its mutex.
ClearBatchPoints(s) ==
  /\ Alive
  /\ sender[s] = "busy"
  /\ \E w \in Workers :
       /\ IsFirst(w, toClear[s])
       /\ batch' = [batch EXCEPT ![s] = @ \cup gatherer[w]]
       /\ gatherer' = [gatherer EXCEPT ![w] = {}]
       /\ toClear' = [toClear EXCEPT ![s] = @ \ {w}]
  /\ UNCHANGED <<pc, outcome, rateVars, chanVars, wg, worker, added>>
  /\ UNCHANGED <<sender, numTries, saved, dropped>>

\* sendBatchPoints returns: RunInstructions passes its error on, sendData logs it.
SenderEnds(s, err) ==
  /\ sender' = [sender EXCEPT ![s] = "none"]
  /\ batch' = [batch EXCEPT ![s] = {}]
  /\ numTries' = [numTries EXCEPT ![s] = 0]
  /\ \/ /\ s = 0
        /\ pc' = "returned"
        /\ outcome' = IF err THEN "error" ELSE "ok"
        /\ UNCHANGED wg
     \/ /\ s # 0
        /\ Done(<<"sender", s>>)
        /\ UNCHANGED outcome
  /\ UNCHANGED <<rateVars, chanVars, workVars, toClear>>

PersistSucceeds(s) ==
  /\ Alive
  /\ sender[s] = "busy"
  /\ toClear[s] = {}
  /\ saved' = saved \cup batch[s]
  /\ UNCHANGED dropped
  /\ SenderEnds(s, FALSE)

\* Seeded fault: a batch is never given up.
RetriesForever(s) ==
  /\ Alive
  /\ sender[s] = "busy"
  /\ toClear[s] = {}
  /\ numTries' = [numTries EXCEPT ![s] = @ + 1]
  /\ UNCHANGED <<pc, outcome, rateVars, chanVars, wg, workVars>>
  /\ UNCHANGED <<sender, toClear, batch, saved, dropped>>

\* Seeded fault: a batch that cannot be persisted goes back to the gatherers.
BatchGoesBack(s) ==
  /\ Alive
  /\ sender[s] = "busy"
  /\ toClear[s] = {}
  /\ gatherer' = [w \in Workers |-> gatherer[w] \cup {p \in batch[s] : p[1] = w}]
  /\ batch' = [batch EXCEPT ![s] = {}]
  /\ toClear' = [toClear EXCEPT ![s] = Workers]
  /\ UNCHANGED <<pc, outcome, rateVars, chanVars, wg, worker, added>>
  /\ UNCHANGED <<sender, numTries, saved, dropped>>

\* Persist is tried again while numTries is not above maxRetries.
PersistFails(s) ==
  /\ Alive
  /\ sender[s] = "busy"
  /\ toClear[s] = {}
  /\ \/ /\ numTries[s] > maxRetries
        /\ dropped' = dropped \cup batch[s]
        /\ UNCHANGED saved
        /\ SenderEnds(s, TRUE)
     \/ /\ numTries[s] <= maxRetries
        /\ numTries' = [numTries EXCEPT ![s] = @ + 1]
        /\ UNCHANGED <<pc, outcome, rateVars, chanVars, wg, workVars>>
        /\ UNCHANGED <<sender, toClear, batch, saved, dropped>>

-----------------------------------------------------------------------------
DispatcherStep ==
  \/ Reject \/ Start \/ Tick \/ SendJob \/ BreakSelect \/ EndTick \/ Grow
  \/ Stop \/ CloseDone \/ Wait \/ Resume

WorkerStep(w) ==
  \/ WorkerStarts(w) \/ SeesEnd(w) \/ TakesJob(w) \/ LooksAtDone(w)
  \/ AddPoint(w) \/ JobEnds(w) \/ WorkerQuits(w)

SenderStep(s) ==
  \/ SenderStarts(s) \/ ClearBatchPoints(s) \/ PersistSucceeds(s)
  \/ PersistFails(s)

Next ==
  \/ DispatcherStep
  \/ TimeUp
  \/ Halt
  \/ \E w \in Workers : WorkerStep(w)
  \/ \E s \in Senders : SenderStep(s)

Spec == Init /\ [][Next]_vars

(***************************************************************************)
(* Goroutines run, a script ends, Persist answers and the run time passes. *)
(* A select chooses at random among the cases that are ready, so the one   *)
(* that stops the run is chosen in the end however often ticks come first. *)
(***************************************************************************)
Fairness ==
  /\ WF_vars(Reject \/ Start)
  /\ WF_vars(TimeUp)
  /\ WF_vars(SendJob \/ BreakSelect \/ EndTick)
  /\ SF_vars(Stop)
  /\ WF_vars(CloseDone \/ Wait \/ Resume)
  /\ \A w \in Workers :
       /\ WF_vars(WorkerStarts(w) \/ SeesEnd(w) \/ TakesJob(w) \/ LooksAtDone(w))
       /\ WF_vars(JobEnds(w) \/ WorkerQuits(w))
  /\ \A s \in Senders : WF_vars(SenderStep(s))

FairSpec == Spec /\ Fairness

-----------------------------------------------------------------------------
(***************************************************************************)
(* Properties.                                                             *)
(***************************************************************************)

\* Every variable has the type of the Go value it stands for.
TypeOK ==
  /\ pc \in DispatcherPCs
  /\ outcome \in {"none", "invalid", "ok", "error"}
  /\ rps \in Nat /\ left \in Nat /\ total \in Nat /\ jobs \in Nat
  /\ growthActive \in BOOLEAN /\ jobsClosed \in BOOLEAN
  /\ halt \in BOOLEAN /\ done \in BOOLEAN
  /\ workerDone \subseteq Workers
  /\ wg \subseteq ({"worker"} \X Workers) \cup ({"sender"} \X Senders)
  /\ worker \in [Workers -> {"none", "new", "idle", "got", "running", "exit"}]
  /\ added \in [Workers -> 0..MaxPoints]
  /\ gatherer \in [Workers -> SUBSET Points]
  /\ sender \in [Senders -> {"none", "new", "busy"}]
  /\ toClear \in [Senders -> SUBSET Workers]
  /\ batch \in [Senders -> SUBSET Points]
  /\ numTries \in [Senders -> 0..(maxRetries + 1)]
  /\ saved \subseteq Points
  /\ dropped \subseteq Points

\* Every point a worker has added is in exactly one place: its gatherer, one batch
\* on its way, or among the batches persisted or given up (metrics_gatherer.go 29
\* to 43, controller.go 147 to 201).  Nothing is reported twice or left out,
\* however the senders and the last batch overlap.
PointsAccounted ==
  /\ \A w \in Workers, k \in 1..MaxPoints :
       k <= added[w] <=>
         \/ <<w, k>> \in gatherer[w] \cup saved \cup dropped
         \/ \E s \in Senders : <<w, k>> \in batch[s]
  /\ saved \cap dropped = {}
  /\ \A w \in Workers, s \in Senders :
       gatherer[w] \cap (saved \cup dropped \cup batch[s]) = {}
  /\ \A s \in Senders : batch[s] \cap (saved \cup dropped) = {}
  /\ \A r, s \in Senders : r # s => batch[r] \cap batch[s] = {}

\* Once stopWorkers has waited (controller.go 165) no worker runs the script any
\* more, not even one that starts late and still finds jobs in the channel.
QuietAfterStop ==
  pc \in {"draining", "returned"} => \A w \in Workers : worker[w] # "running"

\* A gatherer the last batch has emptied (controller.go 166) stays empty: when
\* RunInstructions returns, no point is left in one.  A late sender (129, 148) may
\* still hold a batch that it has not persisted.
LastBatchComplete ==
  pc \in {"draining", "returned"} /\ outcome # "invalid" =>
    \A w \in Workers \ toClear[0] : gatherer[w] = {}

\* Where Delivery sees each point, and which phase of the run.
WhereIs(p) ==
  CASE p[2] > added[p[1]]       -> "none"
    [] p \in saved              -> "saved"
    [] p \in dropped            -> "dropped"
    [] p \in gatherer[p[1]]     -> "held"
    [] OTHER                    -> "flying"

PhaseOfRun ==
  CASE pc \in {"draining", "returned"} -> pc
    [] pc = "panicked"                 -> "dead"
    [] OTHER                           -> "running"

D == INSTANCE Delivery WITH where <- [p \in Points |-> WhereIs(p)],
                            phase <- PhaseOfRun

\* The run keeps the promise of Delivery: a point is added only while the run is on,
\* is taken over once, which is never undone, and is not left behind in a gatherer
\* when RunInstructions returns (controller.go 34 to 56, 147 to 201).
KeepsDelivery == D!Spec

\* "I want to tell the server I halted" (executor_grpc_listener.go 104): a command
\* that is halted is answered.
HaltIsAnswered == halt ~> pc = "returned"

=============================================================================
