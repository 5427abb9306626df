# A TLA+ verification of loadtests

`loadtests` runs load tests from throw-away machines. A **scheduler** creates
DigitalOcean droplets, waits until the **executor** daemon on each of them has
registered, sends every executor a Lua script with the rates to run it at, waits
for their replies and destroys the droplets. Each executor runs the script from
many workers and writes its measurements to InfluxDB.

This directory holds TLA+ modules for the two halves of the system, abstract
specifications of what they promise, the TLC configurations that check them, and
TLAPS proofs of their safety properties.
Names of definitions follow the names of the Go code; line numbers refer to the
files under `src/`.

## Inventory of the system

| component | state | operations | interacts with |
|---|---|---|---|
| droplet registry and launch (`scheduler/db.go` 44-203) | `db.lock`, `waitDroplets` (droplet to port channel), per call `executorc`, `errc`, a WaitGroup | `LaunchExecutors`, `RegisterExecutorUp` | cloud API; called by the LoadTest handler and, over gRPC, by executord |
| recovery (`NewDB`, db.go 51-69; `cmd/schedulerd`) | none of its own: the droplets of the account | list, delete, serve | cloud API; runs before the server |
| LoadTest handler (`scheduler/server.go`) | the stream to the client and its context | `LoadTest`, `RegisterExecutor`, the four answers | registry, executors client |
| executors client (`scheduler/db.go` 205-391) | per executor a connection and a command stream | `each`, `executeCommand`, `waitTilAlive`, `waitCompletion`, `killall`, `haltCommand` (no caller) | executors over gRPC, cloud API |
| executord start (`executor/cmd/executord`, `registerDroplet`) | none | register, listen; restarted for ever by systemd | scheduler |
| command server (`executor_grpc_listener.go`) | `halt`, `halted`, `serverErr` | `ExecuteCommand`, `listenForHalt`, `verifyCommand` | scheduler, controller |
| dispatcher (`controller.go`) | job channel, tickers, rates, `totalIterations`, WaitGroup | `RunInstructions`, `runScript`, `stopWorkers`, `sendData`, `sendBatchPoints` | workers, gatherers, persister |
| workers (`worker.go`) | `Done`, test number | `execute` | dispatcher, engine, gatherer |
| metrics gatherer (`metrics_gatherer.go`) | a batch of points, a mutex | `Incr*`, `AddLuaError`, `ClearBatchPoints` | engine, senders |
| persister (`influx_persister.go`) | an InfluxDB client | `Persist`, `SetupPersister`, queries | senders |
| Lua engine and HTTP binding (`executor/engine`) | a Lua state | compile, `AddConfig`, `Execute`, `VerifyConfig` | workers, handler |
| `schedulerctl`, `executor-client`, `influx-client` | none | command lines | scheduler, executor, InfluxDB |

What is hard about it: launchers, registrations and a collecting loop meet in two
buffered channels and one lock that is held across calls of the cloud; the
scheduler may die at any time with droplets running; executord restarts by
itself; errors and cancellation end a call while its goroutines go on; and on an
executor a WaitGroup that goroutines join late decides when the last batch of
measurements may be taken; a client may halt a run, talk out of turn or vanish;
rates are divided, rounded and compared in three places by different rules; and a
script is checked once and then run in an interpreter that it can disturb. `PROJECT.json` lists the hazards line by line.

What makes each component correct:

* registry: entries and launchers agree; an awaited executor is never destroyed; a
  late one is; no executor is lost; a registration is answered;
* recovery: nothing of an earlier life keeps running;
* handler and client: the client is told only what happened; executors are
  destroyed at the right time, and always in the end;
* command server: the status says why a run ended, and comes when it has;
* dispatcher, workers, gatherers: no measurement is lost or sent twice, nothing
  runs after the end, and the end comes;
* rates: who is admitted is accepted, no executor is asked for more than its
  limit, growth stays in bounds;
* engine: what is reported of a script is what happened, and no step is skipped.

## Modules

| module | models | with |
|---|---|---|
| `Launch` | registry, launch, registration, recovery, cloud | `MCLaunch`, `LaunchProofs` |
| `LoadTest` | the handler, the executors client and executord's start, composed with `Launch` (EXTENDS; its steps are steps of `Launch` or leave it unchanged) | `MCLoadTest`, `LoadTestProofs` |
| `Session` | abstract: what the client of a load test may rely on; implemented by `LoadTest` | `LoadTestProofs` |
| `Controller` | one run on one executor | `MCController`, `ControllerProofs` |
| `Delivery` | abstract: what a run promises about its measurements; implemented by `Controller` | `DeliveryProofs` |
| `Commander` | one call of `ExecuteCommand` and its client, composed with `Controller` (EXTENDS) | `MCCommander`, `CommanderProofs` |
| `Rates` | the numbers: from the flags of `schedulerctl` and the limits of `schedulerd` to the jobs of a tick | `MCRates`, `RatesProofs` |
| `Engine` | a script: its check and one job of a worker | `MCEngine`, `EngineProofs` |

Each module also contains a few definitions marked *Seeded fault*: a variant of
the definition that follows it, as a plausible bug would have it. They are not
part of any specification; `PROJECT.json` pairs each of them with the property
that detects it.

### Launch

A launcher is the goroutine of `LaunchExecutors` that creates one droplet; droplets
carry the name of their launcher. `pc` is where a launcher is:

| `pc` | code |
|---|---|
| `spawned` | before `db.lock.Lock()`, db.go 100 |
| `creating` | in `Droplets.Create`, holding the lock, 101 |
| `waiting` | in the select on `portc` and the context, 116 |
| `getting` | in `Droplets.Get`, 118 |
| `removing` | in the deferred removal, before the lock, 111 |
| `done` | `wg.Done` |

`executorc`, `errc` and `closed` are the channels of the call, `exec` what the loop
has collected. The loop is one action for each case of its select, so every
choice Go may make among ready cases is explored. `regs` counts calls of
`RegisterExecutorUp` that wait for the lock; `blocked` holds the droplet whose
call has the lock and waits for room in the port channel. A create request
(`pending`) is carried out by the cloud at any later time, also after a failure
was reported to the launcher or after the scheduler has died. Ports, addresses and
droplet attributes are left out. `up` is the life of the process: `down`,
`cleaning` (in `NewDB`) and `serving`. `ProcessDies` clears everything held in memory; it
happens in `Crash` and in `GetFails`, where the code reads the ID of a nil droplet.
`Faults` says which failures an instance has.

### LoadTest

`handler` is where the `LoadTest` call is, `answers` what the client was told.
`each` runs one goroutine per executor and returns the first error, or nil when
all have ended; so `jobs` holds the state of each goroutine for each of the three
kinds of call and the outcome is a predicate on them. Goroutines that `each` does not wait for
stay in `jobs` and go on. `executord` is how far the daemon on a droplet has come:
it registers before it opens its port, exits when it is turned away, and may be
started again at any time. `run` and `status` are the execution on an executor as its
stream shows it: running, replied with a status, or broken. A refused request (the
script does not compile, the rates do not fit) is a nondeterministic `RefuseTest`;
`Engine` and `Rates` say when it happens.

`Session` is the view of the client: the phases it is told, the team of executors
behind them, who of it was commanded and who has replied. The mapping is direct
(`told <- answers`, `team <- exec`, and so on); an open session is a handler that
has begun and neither returned nor died with the process.

### Controller

The dispatcher's `pc` follows `runScript`, `stopWorkers` and the return. A tick is
the actions `Tick`, `SendJob` (one for every job, blocking on a full channel),
`BreakSelect` and `EndTick`; the growth factor is given in halves and cut to a
whole number as the code does. The
WaitGroup is the set of goroutines that have called `Add`. `Done` that empties it
wakes the dispatcher (`woken`), and an `Add` before the dispatcher has returned
from `Wait` makes it panic, as the Go library does. Senders share the actions of
the last batch, which is sender 0. A point is the k-th of its worker. Failed
`NewBatchPoints` calls, which the InfluxDB client makes fail for a bad precision
only, are left out.

`Delivery` knows points and the phase of the run only. The mapping `WhereIs` finds
each point: not yet added, held by a gatherer, in some batch, saved or dropped. Which
points make up a batch `Delivery` leaves open: points on their way may be settled
together or apart.

### Commander

`call` is where `ExecuteCommand` is, `listener` where `listenForHalt` is; `halted` is
the flag they share. The client sends commands into `inbox`, ends its side or is cut
off, at any time. `Run(A)` is a step `A` of `Controller` taken once the command is
accepted; closing `halt` is `Controller`'s action `Halt`. A failed first `Recv` makes
the handler read a nil message (`FirstRecvFails`). `serverErr` is not modelled
because it is never set: `listenForHalt` declares a variable of the same name. The
status (`Reply`) and the return (`CallReturns`) are two steps, since the listener may answer
one more command in between.

### Rates

One request goes through its stages: `Ctl` or `OtherClient` makes it, `Admit` is the
arithmetic of `LoadTest`, `Launch` says how many executors joined, `Command` divides
the rates, verifies them and starts the tickers, `Grow` and `Tick` are the ticks of
`runScript`, and `StopRun` is its end, which may come before any of them. `growths` is a
history variable that counts the growth steps. `Setting` is how `schedulerd` comes by the
limit of an executor and its number of workers: the flag, else the variable of the
environment, else zero. Quotients are cut towards zero as Go does (`Quo`), the number of
executors is rounded up (`CeilQuo`), growth factors are sixteenths so that the products
are exact, and a product that no int holds becomes the least int (`ToInt`).

### Engine

`at` is where a program is: `load`, `top` (the body that defines the steps), `config`,
`steps` (between two), `in` a step, `end`. The same actions serve the check
(`job = FALSE`) and the job. `table` holds the names with a value in the Lua table
`step`, `steps` the list the hook `__newindex` keeps; the hook is called only for names without a
value, which is how the two may differ. `report` is what the gatherer is given. The
script is external and does up to `MaxOps` operations: assignments to steps, a
replacement of the global `step`, requests, log calls, errors.

## Runs

| run | instance | result |
|---|---|---|
| `launch` | one test, two launchers, three starts per droplet, one death, all faults but failing deletes | pass |
| `launch_joined` | one test, two launchers, failing create | violation |
| `controller` | two workers, one background sender beside the last batch, one point per worker, one retry | pass |
| `controller_halt` | one worker, one sender | violation |
| `commander` | one worker, one sender, three commands of the client | pass |
| `commander_recv` | the same | violation |
| `loadtest` | one test, two executors, two starts each, one death, all faults | pass |
| `loadtest_live` | one test, two executors, two starts each, failing create, address and command | pass |
| `loadtest_leak` | one test, two executors, no faults but cancellation | violation |
| `loadtest_finished` | one test, two executors, no faults | violation |
| `rates` | a limit of 40 per executor; rates below and above 0, 10, the limit and its multiples; six growth factors | pass |
| `engine` | two names of steps, programs of four operations, all kinds of configuration | pass |

What they show:

* **launch**: `RegistryConsistent` ties `waitDroplets` and the lock to the launchers;
  `AwaitedNotDestroyed` says that however early an executor registers it is not
  mistaken for a stray one (the lock around the create call is what it takes);
  `NoSilentShortfall` that an executor is missing from a successful launch only
  with an unread error or a done context; `BlocksOnlyOnReboots` how often
  executord must start before a registration can block the registry;
  `NothingSurvivesRestart` that a scheduler that has restarted, also through
  failing cleanups, faces no started droplet of an earlier life except one whose
  registration is pending.
* **controller**: `PointsAccounted` puts every point in exactly one place;
  `QuietAfterStop` and `LastBatchComplete` hold although workers may join the
  WaitGroup after it was waited for, because of the second look at `Done`.
  `KeepsDelivery` is the refinement: every step of the run is a step of `Delivery`.
* **commander**: `StatusTellsWhy`: a run that a Halt cut short is never answered OK.
  `OneVerdict`: but for the `Invalid` that answers a command out of place, before it or
  after it, there is one status, and it comes when the run has returned and its
  gatherers are empty; `waitCompletion`, whose scheduler sends one command, relies
  on it. `RunStops`: time-up, a halt, the end of the stream or a lost connection
  ends a run, also when all workers have given up and the job channel is full.
* **loadtest**: answers are earned, a running executor is killed only after an
  error, only its own restart makes the registry destroy it under a test, and
  `KeepsSession`, the refinement of `Session`, holds with every fault. `AllKilled`:
  deletions may fail, the `each` of `killall` then returns on the first error and the
  handler with it, and no executor is given up but those whose own deletion failed.
* **loadtest_live**: `HangsOnlyForExecutord`: a test ends unless an executord of its
  own never starts (the launcher waits for ever) or one is started again (its
  registration may block the registry, or have the droplet destroyed that
  `waitTilAlive` goes on dialling). Registrations are answered, launchers end and
  late executors are destroyed, again unless an executord starts twice.
* **rates**: `AdmittedIsAccepted`: the three comparisons of the rates agree. An
  admitted request is refused by an executor only if its run time, growth or
  order of rates is bad, which the scheduler does not look at; the scheduler's
  own arithmetic kills it only for a rate or a limit that is not positive. `WithinLimit`,
  `RateInBounds` and `GrowsEachTime` follow the rate through division and growth,
  with their exceptions spelt out: a factor so close to one that it is cut off, and
  one so large that the product overflows. That a run reaches its maximum is not
  claimed: it may end first, and nothing says how many ticks it lives to see.
  `FallsShort` compares what is sent with what was asked for: never more, and less by
  ten to twenty jobs a second for each executor.
* **engine**: `ReportMatchesJob` reads the reports back into what happened;
  `FailedRequestEndsJob`, `DefinedStepsRun` and `AcceptedConfigIsAdded`
  say what a script can and cannot do to the list of its steps and to its worker.

The violations are disagreements between what the code says of itself and what it
does; `PROJECT.json` (`findings`) quotes the lines:

1. the select may prefer the closed `executorc` to a buffered error, and "all
   executors have joined" is then false (`launch_joined`);
2. `wg.Add` inside goroutines can panic the executor instead of answering a halt
   (`controller_halt`);
3. a failed or cancelled launch leaks the droplets that have joined (`loadtest_leak`);
4. a refused execution is reported as finished (`loadtest_finished`);
5. the error of `Recv` that has cut a run short is not returned, and the client is told
   OK (`commander_recv`).

Other disagreements have no run; a theorem or a property says what holds instead:

* The flag max.exec.ps is the "number of executions per second" (schedulerctl/main.go
  39), but the loop over the jobs of a tick starts at one (controller.go 118): every executor
  is sent at least ten jobs a second fewer than its rate, and none at all at a rate of
  11 to 19, which `verifyCommand` accepts (`FallsShort`, `ShortfallIsBounded`).
* The flag max.rps.per.executor has the default 500 (schedulerd/main.go 35), but
  `envflag.IntVar` stores zero in its variable (51): a scheduler that is given neither
  dies of every request (`NoTestByDefault`). The scheduler.env under terraform/ gives
  the variable. The number of workers, 100 by default (34), becomes zero in the same
  way, and executors refuse every command.
* "step is immutable" (lua.go 212) is said only of names without a value: a running
  script can replace a step or take it away (`Assign` of `Engine`). `DefinedStepsRun`
  says that no step is left out for it.
* `MaxWaitExecutorOnline` ("max duration to wait for before giving up on an executor
  to register itself", schedulerd/main.go 33) is read nowhere, hence the exception in
  `HangsOnlyForExecutord`.
* `NewDB` cleans up the one page of droplets it lists, hence the hypothesis
  `PageHoldsAll` below.

### Bounds

Two launchers are the least number with which one result can arrive and another be
missing, and with which one launcher can hold the lock against another. One test is
enough: launchers of different tests share the lock and the registry, just as
those of one test do, and nothing else. Three starts of
executord are the least with which a registration can be blocked behind a launcher that has taken
its port. One death lets every step be the last of a life, and the cleanup that
follows may fail any number of times. For the controller, two workers make the
order of closing `Done` and of emptying gatherers matter; one background sender
and the last batch are two concurrent drains; `MaxTotal` bounds
`totalIterations`, `MaxPoints` the points of a worker, `MaxSenders` the senders
that run at one time. A second is one tick in the instances, so that the channel
of `MaxRequestsPerSecond` elements can fill up. Three commands (`MaxCommands`) are a Run, one out of
place and a Halt. In `Rates`, `MaxInt` is scaled down to 999, above every product but
that of the one factor meant to overflow; `MaxGrowths`, 30, is more steps than any run of the
instance can grow in; the rates lie on both sides of every
comparison and make up to three executors. Four operations (`MaxOps`) let a script
define a step, do something in it, redefine or remove one and fail. Symmetry is used only where no liveness property is
checked and launchers belong to one test. Deadlock is not checked: all
systems may stop (a test ends, bounds are used up).

### Fairness

Goroutines that can run do so; `db.lock` has finitely many contenders; the cloud
answers requests. On the
executor, a script ends and `Persist` answers. Where a liveness property needs the
dispatcher's select to choose the stop case among cases that recur, strong fairness is assumed:
Go chooses uniformly among ready cases. In `Commander` nothing makes the run time
pass or the client act: a run that is told to stop must not need either. In
`LoadTest` nothing makes a client cancel, a call fail or executord start; an executor
that was commanded replies, which `RunStops` supports, panics included: the stream
then breaks. `Rates` and `Engine` have no liveness property and assume no fairness.

## Proofs

Every safety property that a passing run checks, invariant, action property or
refinement, is a theorem too, for any number of tests, launchers, workers, senders,
points, starts and commands, any rates, any names of steps. The assumptions are the named ones
of the modules (`LaunchAssumption`, `ControllerAssumption`, `CommanderAssumption`,
`RatesAssumption`, `EngineAssumption`). They give the constants their types; what they say
more is that a rate is an int, which holds because a request carries int32s, and
that a setting is an int or not given. No limit is excluded, not even zero or a
negative one: schedulerd does not check them.
Two theorems have a hypothesis of their own: `RestartLeavesNothing` (`PageHoldsAll`) and
`NoTestByDefault` (neither setting given).
Each inductive invariant below was checked by TLC on the instance of the module's
run before it was proved.

**Launch.** `IInv` is `TypeOK /\ RegistryConsistent /\ Origin /\ Results /\ Ports`.
`RegistryConsistent` is inductive only together with its clause on the holder of the lock.
`Origin` says that a droplet exists only after its launcher asked for it, which
`AwaitedNotDestroyed` needs: while the launcher is creating it holds the lock, and
from then until it is done its droplet is in `waitDroplets`. `Results` follows an
executor from the launcher through `executorc` to `exec`. `Ports` counts: calls waiting
for the lock, ports buffered, calls blocked and ports received are together at
most the starts of executord. Proved from it: `TypeCorrect`, `RegistryCorrect`,
`NeverDestroysAwaited` (an action property), `LosesNoExecutor`,
`OneStartNeverBlocks`. `RestartLeavesNothing` adds `Survivors` and the hypothesis
`PageHoldsAll`: the droplets fit in one page and no deletion fails. With a smaller
page TLC finds a droplet that outlives the restart.

**Controller.** `IInv` is `TypeOK`, the three safety properties, `Shutdown` and
`Owned`. `Shutdown` says which goroutines are in the WaitGroup and how
far the dispatcher has closed the `Done` channels; with it, a worker that starts
after the wait cannot pass its second look at `Done`. `Owned` says that a gatherer
holds points of its own worker, which makes a new point distinct from all others.
Proved: `TypeCorrect`, `NoPointLost`, `StopsQuietly`, `LeavesNothingBehind`.

**LoadTest.** All steps of the scheduler and its executors but one are steps of
`Launch` (`StepOfLaunch`). The exception is `Destroy`, the goroutines of `killall`: they
delete a droplet without `db.lock`, and `DestroyKeepsIInv` shows that the invariant
of `Launch` does not mind. So it carries over (`LaunchKept`), and with it `LaunchPromisesKept`. `LTInv` adds
`Calling` (where the handler is in its call of `LaunchExecutors`), `Telling` (the sequences
of answers that belong to each place of the handler), `Working` (what the goroutines of `each` have
done and for whom, also those of a call that no longer waits for them) and `Joined` (an
executor that has joined has used one of its starts). `TellsTheTruth` needs `Working`:
`each` returns nil when every goroutine has ended well, and a goroutine ends
well only after its executor was sent Run or has replied. `SparesTheRunning` needs
`Telling`: the only last word besides Errored is Finished, after which nobody runs.
`OnlyRestartsDestroy` needs `Joined`: a registration that finds no entry for a collected executor is a
second start. `GivesNoneUp` needs `Joined` as well: a droplet that has joined is not created
again once it is gone. `ImplementsSession` goes action by action: the handler's steps are
steps of `Session`, those of `Launch` and of executord add to the team or are invisible.

**Delivery.** `Controller`'s `IInv` puts every point in one place, so that the CASE of
`WhereIs` can be read as a table (`Places`), and each action that moves a point is one
move of `Delivery`. One fact is missing in it: nothing is reported before the workers
start (`Unreported`), which `Refuse` relies on.

**Commander.** Every step is a step of `Controller`, leaves it alone, or is the death of the
process in the first `Recv` (`StepOfRun`), so `IInv` carries over, and with it
`NoPointLostUnderCommand` and `DeliversUnderCommand`. `CInv` adds `Ending` (a run that ends was told to,
by time or by halt), `Listening` (`halt` is closed only by a listener with a reason to), `Answering`
(only one answer of a call that runs a command is a verdict, and none before the run has
returned) and `Paid` (answers, commands
under way and the command that runs are at most the commands sent, without which the
bound in `CTypeOK` is not inductive). `OKTellsWhy` follows from the first two: `halted` is
set before `halt` is closed, and read after the run has seen it. `VerdictIsUnique` follows
from `Answering`: what the listener may send after the verdict is `Invalid`.

**Rates.** Lemmas on the two quotients (`QuoOfNat`, `QuoMonotone`, `CeilQuoCovers`)
carry the argument, and `NeededCovers`: with a limit that is not positive only a
request with a negative maximum is admitted, and every executor refuses that. `RInv` keeps what admission has established (`Admitted`), that
between one and all of the executors needed have joined (`SomeJoined`), and that the
command is the request divided by them (`Divided`). `AdmissionIsSound`: a starting rate
that is enough for all executors needed is enough for fewer. `SharesAreFair`: with all of
them there, the maximum divided by its own number of shares is within the limit.
`RateStaysInBounds`: without overflow the product is at least sixteen times the rate.
`EachStepGrows`: a factor that adds one to the starting rate adds one to every larger
rate; `NotGrown` says that the counting begins with the run. `ShortfallIsBounded` adds
`Counted`, that the jobs of the last tick are those of the rate as it is. `NoTestByDefault`
needs no invariant: with the limit zero no executor is ever needed, and admission divides
by their number.

**Engine.** `EInv` has `Staged` (where a program is says what has been done, and a job
has a configuration the check accepted) and `KeepsPace` (at every moment, not only at the
end, the steps reported are those before the next one, in order, and an error has
been reported only if the job has failed). Reports are counted by `Cardinality` over the
positions of a kind, for which there are lemmas (`NoneAdded`, `OneAdded`, `OrderKept`, `OrderGrows`);
filtering the sequence would be recursive, and beyond induction-free proofs.

Only model-checked: liveness (`RunStops` and the four properties of
`loadtest_live`), which TLAPS does not reach under fairness. The violations are
counterexamples and have no proofs.

## Not modelled

* Third-party code under `Godeps`: gRPC and HTTP/2, protobuf, go-lua, the InfluxDB and
  DigitalOcean clients. It is by far the largest part of the tree and none of it is
  this program's logic; the modules take from it what the program relies on.
* Generated protobuf code, flags, the binary file server, InfluxDB queries, the manual
  clients, Terraform: I/O without state of their own.
* `haltCommand` of the executors client: it has no caller. `Commander` covers what
  an executor does with a Halt.
* What a script computes, and a replacement of the global `step` by another table that can be
  indexed. The context of `Execute` is always `Background`, so its stop is not
  reached.
* The wrap of a flag larger than an int32 in `schedulerctl`, and rounding of products
  that a float64 does not hold exactly.
* A command whose script parameters are missing altogether: the scheduler and the
  tools always send them.

## Plan

Done: all modules, and proofs of all safety properties of the passing runs. What may
follow:

1. The safety half of the liveness arguments as invariants with proofs: which step of a
   launcher, a registration or a run is possible in every state that is not the end.
2. The exact condition for each of the five findings, as a theorem with the hypothesis
   that rules it out (as `PageHoldsAll` does for the recovery).
