------------------------------- MODULE Rates --------------------------------
(***************************************************************************)
(* The way of a request rate through the system: from the flags of         *)
(* schedulerctl (cmd/schedulerctl/main.go) through the admission of the    *)
(* load test (scheduler/server.go) under the settings of schedulerd        *)
(* (cmd/schedulerd/main.go) and its division among the executors           *)
(* (scheduler/db.go) to verifyCommand and the jobs of a tick on an         *)
(* executor (executor/controller).                                         *)
(*                                                                         *)
(* Launch and LoadTest say how many executors join and Controller what a   *)
(* run does with its jobs; here only the numbers matter.  All executors of *)
(* a test are given the same command, so one of them stands for all.  A    *)
(* growth factor is given in sixteenths, which a float64 holds exactly,    *)
(* and a time between growth steps in tenths of a second.                  *)
(***************************************************************************)
EXTENDS Integers

CONSTANTS
  LimitFlag, LimitEnv,      \* max.rps.per.executor and MAX_RPS_PER_EXECUTOR
  WorkersFlag, WorkersEnv,  \* max.worker.per.executor and MAX_WORKER_PER_EXECUTOR
  NotGiven,                 \* a flag or a variable that is not set
  MaxInt,      \* the largest int: 2^63 - 1 in the code
  Rates,       \* rates a client may ask for
  Growths,     \* growth factors it may ask for
  Gaps,        \* times between growth steps it may ask for
  RunTimes,    \* run times it may ask for
  MaxGrowths   \* bound: growth steps of a run

ASSUME RatesAssumption ==
  /\ NotGiven \notin Int
  /\ {LimitFlag, LimitEnv, WorkersFlag, WorkersEnv} \subseteq Int \cup {NotGiven}
  /\ MaxInt \in Nat
  /\ Rates \subseteq (-MaxInt - 1)..MaxInt    \* an int32 of the request is an int
  /\ Growths \subseteq Nat
  /\ Gaps \subseteq Nat
  /\ RunTimes \subseteq Nat
  /\ MaxGrowths \in Nat

VARIABLES
  stage,         \* how far the request has come
  req,           \* LoadTestReq
  needExecutors,
  joined,        \* executors LaunchExecutors has returned
  params,        \* ScriptParams, the command of one executor
  rps,           \* requestsPerSecond
  growthActive,
  growths,       \* history: growth steps the run has made
  tick           \* jobs the last tick has sent, -1 before the first at a rate

vars == <<stage, req, needExecutors, joined, params, rps, growthActive, growths,
          tick>>

Stages == {"ask", "admission", "refused", "crashed", "launching", "commanding",
           "rejected", "panicked", "running", "stopped"}

Requests == [max : Rates, start : Rates, growth : Growths, gap : Gaps,
             runTime : RunTimes]

-----------------------------------------------------------------------------
(***************************************************************************)
(* Arithmetic.                                                             *)
(***************************************************************************)

Abs(x) == IF x < 0 THEN -x ELSE x

\* Go cuts a quotient towards zero; \div rounds down.  The divisor is not zero.
Quo(a, b) == IF (a < 0) = (b < 0) THEN Abs(a) \div Abs(b) ELSE -(Abs(a) \div Abs(b))

\* Seeded fault: the quotient is rounded down.
FloorQuo(a, b) == a \div b

\* math.Ceil of the quotient of a and b, which is not zero.
CeilQuo(a, b) == IF b > 0 THEN -((-a) \div b) ELSE -(a \div (-b))

\* A float64 that no int holds is converted to the least int (amd64).
ToInt(x) == IF x \in (-MaxInt - 1)..MaxInt THEN x ELSE -MaxInt - 1

\* Seeded fault: the product is rounded up.
IterationsRoundedUp(r) == CeilQuo(r, 10)

\* Ten ticks a second; the product is cut to a whole number.
getNumberOfIterations(r) == Quo(r, 10)

-----------------------------------------------------------------------------
(***************************************************************************)
(* The settings of schedulerd.  A flag wins over a variable of the         *)
(* environment.  envflag.IntVar stores its own default in the variable the *)
(* flag has been declared for, so that the default of the flag, 500 or     *)
(* 100, is lost: zero is what is left when neither is given.               *)
(***************************************************************************)

Setting(flag, env) ==
  CASE flag # NotGiven -> flag
    [] flag = NotGiven /\ env # NotGiven -> env
    [] OTHER -> 0

Limit == Setting(LimitFlag, LimitEnv)             \* Config.MaxExecPSPerExecutor

MaxWorkers == Setting(WorkersFlag, WorkersEnv)    \* Config.MaxWorkerPerExecutor

-----------------------------------------------------------------------------
Init ==
  /\ stage = "ask"
  /\ req \in Requests
  /\ needExecutors = 0
  /\ joined = 0
  /\ params = [max |-> 0, start |-> 0]
  /\ rps = 0
  /\ growthActive = TRUE
  /\ growths = 0
  /\ tick = -1

\* schedulerctl: max.exec.ps is the starting rate as well, and a growth factor or a
\* time between growth steps of zero becomes one.
Ctl ==
  /\ stage = "ask"
  /\ stage' = "admission"
  /\ req' = [req EXCEPT !.start  = req.max,
                        !.growth = IF @ = 0 THEN 16 ELSE @,
                        !.gap    = IF @ = 0 THEN 10 ELSE @]
  /\ UNCHANGED <<needExecutors, joined, params, rps, growthActive, growths, tick>>

\* Another client sends what it likes.
OtherClient ==
  /\ stage = "ask"
  /\ stage' = "admission"
  /\ UNCHANGED <<req, needExecutors, joined, params, rps, growthActive, growths, tick>>

\* Seeded fault: the starting rate of the whole test is compared.
TooSlowUndivided(need) == req.start <= 10

TooSlow(need) == Quo(req.start, need) <= 10

\* The executors a rate needs.  The quotient of a limit of zero is no number or an
\* infinite one; as an int32 it is zero (amd64).
Needed(max) == IF Limit = 0 THEN 0 ELSE CeilQuo(max, Limit)

\* LoadTest divides by needExecutors before it looks at it, and LaunchExecutors
\* makes channels of that capacity: both kill the scheduler, for zero and for a
\* negative number.
Admit ==
  /\ stage = "admission"
  /\ LET need == Needed(req.max)
     IN  /\ needExecutors' = need
         /\ stage' = IF need = 0 THEN "crashed"
                     ELSE IF TooSlow(need) THEN "refused"
                     ELSE IF need < 0 THEN "crashed" ELSE "launching"
  /\ UNCHANGED <<req, joined, params, rps, growthActive, growths, tick>>

\* Failed launchers may be passed over (AllExecutorsJoined of Launch does not hold).
\* If all of them are, nobody is commanded.
Launch ==
  /\ stage = "launching"
  /\ joined' \in 1..needExecutors
  /\ stage' = "commanding"
  /\ UNCHANGED <<req, needExecutors, params, rps, growthActive, growths, tick>>

verifyCommand(start, max) ==
  /\ MaxWorkers >= 1
  /\ req.runTime > 1
  /\ start > 10
  /\ max >= 1
  /\ max >= start
  /\ req.growth >= 16
  /\ req.gap >= 1

\* executeCommand divides the rates by the executors there are; the executor
\* verifies the command and starts its tickers, one of them with a period of whole
\* seconds.
Command ==
  /\ stage = "commanding"
  /\ LET start == Quo(req.start, joined)
         max   == Quo(req.max, joined)
     IN  /\ params' = [max |-> max, start |-> start]
         /\ \/ /\ ~verifyCommand(start, max)
               /\ stage' = "rejected"
               /\ UNCHANGED rps
            \/ /\ verifyCommand(start, max)
               /\ stage' = IF Quo(req.gap, 10) = 0 THEN "panicked" ELSE "running"
               /\ rps' = start
  /\ UNCHANGED <<req, needExecutors, joined, growthActive, growths, tick>>

\* Seeded fault: the rate that has hit the maximum is not cut.
GrowUncut ==
  /\ stage = "running"
  /\ growthActive
  /\ growths < MaxGrowths
  /\ growths' = growths + 1
  /\ rps' = ToInt(Quo(rps * req.growth, 16))
  /\ growthActive' = (rps' <= params.max)
  /\ tick' = -1
  /\ UNCHANGED <<stage, req, needExecutors, joined, params>>

\* Seeded fault: the starting rate is multiplied each time.
GrowFromStart ==
  /\ stage = "running"
  /\ growthActive
  /\ growths < MaxGrowths
  /\ growths' = growths + 1
  /\ LET grown == ToInt(Quo(params.start * req.growth, 16))
     IN  /\ rps' = IF grown > params.max THEN params.max ELSE grown
         /\ growthActive' = (grown <= params.max)
  /\ tick' = -1
  /\ UNCHANGED <<stage, req, needExecutors, joined, params>>

\* A tick of the growth ticker.  It does nothing once the rate has hit the maximum.
Grow ==
  /\ stage = "running"
  /\ growthActive
  /\ growths < MaxGrowths                             \* bound
  /\ growths' = growths + 1
  /\ LET grown == ToInt(Quo(rps * req.growth, 16))
     IN  /\ rps' = IF grown > params.max THEN params.max ELSE grown
         /\ growthActive' = (grown <= params.max)
  /\ tick' = -1
  /\ UNCHANGED <<stage, req, needExecutors, joined, params>>

\* Seeded fault: the jobs are counted and not looped over.
TickUnguarded ==
  /\ stage = "running"
  /\ tick' = getNumberOfIterations(rps) - 1
  /\ UNCHANGED <<stage, req, needExecutors, joined, params, rps, growthActive, growths>>

\* The loop over the jobs of the tick starts at one.
Tick ==
  /\ stage = "running"
  /\ LET iterations == getNumberOfIterations(rps)
     IN  tick' = IF iterations > 1 THEN iterations - 1 ELSE 0
  /\ UNCHANGED <<stage, req, needExecutors, joined, params, rps, growthActive, growths>>

\* The run time is over, or the run is halted, however far the rate has come: what
\* ticks the tickers still had are lost.
StopRun ==
  /\ stage = "running"
  /\ stage' = "stopped"
  /\ UNCHANGED <<req, needExecutors, joined, params, rps, growthActive, growths, tick>>

Next == Ctl \/ OtherClient \/ Admit \/ Launch \/ Command \/ Grow \/ Tick \/ StopRun

Spec == Init /\ [][Next]_vars

-----------------------------------------------------------------------------
(***************************************************************************)
(* Properties.                                                             *)
(***************************************************************************)

\* Every variable has the type of the Go value it stands for.
TypeOK ==
  /\ stage \in Stages
  /\ req \in [max : Int, start : Int, growth : Nat, gap : Nat, runTime : Nat]
  /\ needExecutors \in Int
  /\ joined \in Nat
  /\ params \in [max : Int, start : Int]
  /\ rps \in (-MaxInt - 1)..MaxInt
  /\ growthActive \in BOOLEAN
  /\ growths \in 0..MaxGrowths
  /\ tick \in Nat \cup {-1}

\* The growth factor times a rate the executor may reach does not fit in an int.
Overflows == params.max * req.growth >= 16 * (MaxInt + 1)

\* The request itself is one an executor accepts.
WellFormed ==
  /\ MaxWorkers >= 1
  /\ req.runTime > 1
  /\ req.start <= req.max
  /\ req.growth >= 16
  /\ req.gap >= 1

\* Admission (server.go 70 to 76) and verifyCommand (executor_grpc_listener.go 153 to
\* 180) agree whatever the limit is: whoever is admitted is accepted by every
\* executor, however few of them have joined (db.go 308), unless the request is
\* malformed in a way admission does not look at; and admission ends in a crash
\* only for a rate or a limit that is not positive.
AdmittedIsAccepted ==
  /\ stage = "rejected" => ~WellFormed
  /\ stage = "crashed" => req.max <= 0 \/ Limit <= 0

\* An executor is asked for more than MaxExecPSPerExecutor (server.go 71) only when
\* executors are missing, and the division (db.go 308) loses less than one request
\* per second for each executor.
WithinLimit ==
  stage \in {"running", "stopped", "rejected", "panicked"} =>
    /\ params.max > Limit /\ Limit > 0 => joined < needExecutors
    /\ req.max > 0 => req.max - joined * params.max \in 0..(joined - 1)

\* A run keeps its rate between the starting rate and the maximum (controller.go 131
\* to 141), unless the growth factor is so large that the product does not fit in
\* an int: then the rate falls below zero and no job is sent any more.
RateInBounds ==
  stage \in {"running", "stopped"} =>
    /\ rps <= params.max
    /\ rps >= params.start \/ Overflows

\* The factor adds less than one request per second to the starting rate.
TooLittle == params.start * (req.growth - 16) < 16

\* Growth (controller.go 131 to 141) does not end before the maximum is reached, and
\* until then each tick of the growth ticker the run lives to see adds a request per
\* second at least, though the conversion to int cuts the product every time:
\* unless it cuts off all that the factor adds to the starting rate, for then the
\* rate never moves, or the product overflows.
GrowsEachTime ==
  stage \in {"running", "stopped"} =>
    \/ rps = params.max
    \/ /\ growthActive
       /\ \/ TooLittle /\ rps = params.start
          \/ ~TooLittle /\ rps >= params.start + growths
          \/ Overflows

\* What the executors together are sent in a second at the full rate never exceeds
\* the rate that was asked for, and stays behind it by the same measure however many
\* executors share it: by ten at least for each of them, the job that the loop of
\* every tick leaves out (controller.go 118), and by less than twenty, with what the
\* division (db.go 308) and the ten ticks of a second (controller.go 203) cut off.
FallsShort ==
  stage \in {"running", "stopped"} /\ tick >= 0 /\ rps = params.max =>
    req.max - 10 * joined * tick \in (10 * joined)..(20 * joined - 1)

=============================================================================
