------------------------------- MODULE Launch -------------------------------
(***************************************************************************)
(* The droplet registry of the scheduler (scheduler/db.go): the launch of  *)
(* the executors of a load test, the registration of an executor that has  *)
(* booted, and the cleanup a restarted scheduler begins with.              *)
(*                                                                         *)
(* LaunchExecutors starts one goroutine (a launcher) for each executor it  *)
(* needs.  A launcher creates a droplet, enters it in waitDroplets and     *)
(* waits until the droplet registers or the context of the load test is    *)
(* done.  RegisterExecutorUp, called by the executord of a droplet, hands  *)
(* a port to the launcher that waits for the droplet, and has the droplet  *)
(* destroyed if there is none.  Both run under db.lock, and so does the    *)
(* call that creates a droplet.                                            *)
(*                                                                         *)
(* A launcher creates at most one droplet and the cloud never issues an    *)
(* identifier twice, so a droplet carries the name of its launcher.  Ports *)
(* and addresses are left out.                                             *)
(***************************************************************************)
EXTENDS Naturals, FiniteSets

CONSTANTS
  Tests,      \* load tests, each at most one call of LaunchExecutors
  Launchers,  \* the goroutines of all the calls, and the droplets they create
  TestOf,     \* the load test a launcher belongs to
  PageSize,   \* droplets in the one page that Droplets.List returns
  Faults,     \* the failures that may happen, see FaultKinds
  MaxBoots,   \* bound: starts of executord on one droplet
  MaxCrashes  \* bound: deaths of the scheduler process

FaultKinds ==
  {"create", "address", "get", "delete", "cleanup", "crash", "command"}

ASSUME LaunchAssumption ==
  /\ TestOf \in [Launchers -> Tests]
  /\ PageSize \in Nat
  /\ MaxBoots \in Nat
  /\ MaxCrashes \in Nat
  /\ Faults \subseteq FaultKinds

VARIABLES
  \* LaunchExecutors, one call for each load test
  call,         \* where the collecting loop is
  ctxDone,      \* the context of the RPC is done
  exec,         \* exec.executors, what the loop has collected
  executorc,    \* the executors buffered in executorc
  closed,       \* executorc has been closed
  errc,         \* number of errors buffered in errc
  \* the launchers
  pc,
  \* DB
  locked,       \* db.lock is held
  waitDroplets, \* the keys of db.waitDroplets
  portc,        \* a port is buffered in the channel of the droplet
  \* RegisterExecutorUp
  regs,         \* calls that have not got db.lock
  blocked,      \* droplets whose call holds db.lock and waits to send a port
  \* the scheduler process
  up,           \* "down", "cleaning" (in NewDB) or "serving"
  page,         \* the droplets NewDB has listed and not yet deleted
  crashes,
  \* the cloud
  pending,      \* create requests the cloud has received and not carried out
  cloud,        \* droplets that exist
  boots         \* starts of executord on each droplet

callVars   == <<call, ctxDone, exec, executorc, closed, errc>>
dbVars     == <<locked, waitDroplets, portc>>
regVars    == <<regs, blocked>>
serverVars == <<up, page, crashes>>
cloudVars  == <<pending, cloud, boots>>
vars == <<callVars, pc, dbVars, regVars, serverVars, cloudVars>>

LaunchersOf(t) == {g \in Launchers : TestOf[g] = t}

Calls == {"idle", "launching", "ok", "failed", "lost"}
PCs   == {"idle", "spawned", "creating", "waiting", "getting", "removing",
          "done", "dead"}

-----------------------------------------------------------------------------
\* Every process starts with NewDB, on an account without executors at first.
Init ==
  /\ call = [t \in Tests |-> "idle"]
  /\ ctxDone = [t \in Tests |-> FALSE]
  /\ exec = [t \in Tests |-> {}]
  /\ executorc = [t \in Tests |-> {}]
  /\ closed = [t \in Tests |-> FALSE]
  /\ errc = [t \in Tests |-> 0]
  /\ pc = [g \in Launchers |-> "idle"]
  /\ locked = FALSE
  /\ waitDroplets = {}
  /\ portc = [g \in Launchers |-> FALSE]
  /\ regs = [g \in Launchers |-> 0]
  /\ blocked = {}
  /\ up = "down"
  /\ page = {}
  /\ crashes = 0
  /\ pending = {}
  /\ cloud = {}
  /\ boots = [g \in Launchers |-> 0]

-----------------------------------------------------------------------------
(***************************************************************************)
(* LaunchExecutors: the call and its collecting loop.                      *)
(***************************************************************************)

\* LoadTest calls LaunchExecutors, which starts the launchers.
Request(t) ==
  /\ up = "serving"
  /\ call[t] = "idle"
  /\ call' = [call EXCEPT ![t] = "launching"]
  /\ pc' = [g \in Launchers |-> IF TestOf[g] = t THEN "spawned" ELSE pc[g]]
  /\ UNCHANGED <<ctxDone, exec, executorc, closed, errc>>
  /\ UNCHANGED <<dbVars, regVars, serverVars, cloudVars>>

\* Seeded fault: wg.Add is called by the launcher itself, so that wg.Wait does
\* not count a launcher that has not started.
CloseExecutorcEarly(t) ==
  /\ call[t] \in {"launching", "ok", "failed"}
  /\ ~closed[t]
  /\ \A g \in LaunchersOf(t) : pc[g] \in {"spawned", "done"}
  /\ closed' = [closed EXCEPT ![t] = TRUE]
  /\ UNCHANGED <<call, ctxDone, exec, executorc, errc>>
  /\ UNCHANGED <<pc, dbVars, regVars, serverVars, cloudVars>>

\* The goroutine that waits for all launchers and closes executorc.
CloseExecutorc(t) ==
  /\ call[t] \in {"launching", "ok", "failed"}
  /\ ~closed[t]
  /\ \A g \in LaunchersOf(t) : pc[g] = "done"
  /\ closed' = [closed EXCEPT ![t] = TRUE]
  /\ UNCHANGED <<call, ctxDone, exec, executorc, errc>>
  /\ UNCHANGED <<pc, dbVars, regVars, serverVars, cloudVars>>

CollectExecutor(t) ==
  /\ call[t] = "launching"
  /\ \E g \in executorc[t] :
       /\ executorc' = [executorc EXCEPT ![t] = @ \ {g}]
       /\ exec' = [exec EXCEPT ![t] = @ \cup {g}]
  /\ UNCHANGED <<call, ctxDone, closed, errc>>
  /\ UNCHANGED <<pc, dbVars, regVars, serverVars, cloudVars>>

\* executorc is drained and closed: "all executors have joined".
CollectClosed(t) ==
  /\ call[t] = "launching"
  /\ closed[t]
  /\ executorc[t] = {}
  /\ call' = [call EXCEPT ![t] = "ok"]
  /\ UNCHANGED <<ctxDone, exec, executorc, closed, errc>>
  /\ UNCHANGED <<pc, dbVars, regVars, serverVars, cloudVars>>

\* Seeded fault: errc is closed with executorc, and receiving from a closed
\* channel needs no element.
CollectErrorClosed(t) ==
  /\ call[t] = "launching"
  /\ errc[t] > 0 \/ closed[t]
  /\ errc' = [errc EXCEPT ![t] = @ - 1]
  /\ call' = [call EXCEPT ![t] = "failed"]
  /\ exec' = [exec EXCEPT ![t] = {}]
  /\ UNCHANGED <<ctxDone, executorc, closed>>
  /\ UNCHANGED <<pc, dbVars, regVars, serverVars, cloudVars>>

\* The loop returns nil and the error: what it has collected is dropped.
CollectError(t) ==
  /\ call[t] = "launching"
  /\ errc[t] > 0
  /\ errc' = [errc EXCEPT ![t] = @ - 1]
  /\ call' = [call EXCEPT ![t] = "failed"]
  /\ exec' = [exec EXCEPT ![t] = {}]
  /\ UNCHANGED <<ctxDone, executorc, closed>>
  /\ UNCHANGED <<pc, dbVars, regVars, serverVars, cloudVars>>

CollectCtxDone(t) ==
  /\ call[t] = "launching"
  /\ ctxDone[t]
  /\ call' = [call EXCEPT ![t] = "failed"]
  /\ exec' = [exec EXCEPT ![t] = {}]
  /\ UNCHANGED <<ctxDone, executorc, closed, errc>>
  /\ UNCHANGED <<pc, dbVars, regVars, serverVars, cloudVars>>

\* The select of the loop takes any case that is ready.
Collect(t) ==
  \/ CollectExecutor(t)
  \/ CollectClosed(t)
  \/ CollectError(t)
  \/ CollectCtxDone(t)

\* LoadTest returns the error of LaunchExecutors; gRPC ends the stream and
\* with it the context.
HandlerReturns(t) ==
  /\ call[t] = "failed"
  /\ ~ctxDone[t]
  /\ ctxDone' = [ctxDone EXCEPT ![t] = TRUE]
  /\ UNCHANGED <<call, exec, executorc, closed, errc>>
  /\ UNCHANGED <<pc, dbVars, regVars, serverVars, cloudVars>>

\* The client goes away or its deadline passes.
ClientCancels(t) ==
  /\ call[t] \in {"launching", "ok"}
  /\ ~ctxDone[t]
  /\ ctxDone' = [ctxDone EXCEPT ![t] = TRUE]
  /\ UNCHANGED <<call, exec, executorc, closed, errc>>
  /\ UNCHANGED <<pc, dbVars, regVars, serverVars, cloudVars>>

-----------------------------------------------------------------------------
(***************************************************************************)
(* A launcher.  Its channels errc and executorc have room for every        *)
(* launcher of the call, so sending to them never blocks.                  *)
(***************************************************************************)

\* Seeded fault: the lock is taken for the entry in waitDroplets only, after
\* the create call.
CreateUnlocked(g) ==
  /\ pc[g] = "spawned"
  /\ ~locked
  /\ pc' = [pc EXCEPT ![g] = "creating"]
  /\ pending' = pending \cup {g}
  /\ UNCHANGED <<dbVars, cloud, boots>>
  /\ UNCHANGED <<callVars, regVars, serverVars>>

\* Takes db.lock and sends the create request.
LockAndCreate(g) ==
  /\ pc[g] = "spawned"
  /\ ~locked
  /\ locked' = TRUE
  /\ pc' = [pc EXCEPT ![g] = "creating"]
  /\ pending' = pending \cup {g}
  /\ UNCHANGED <<waitDroplets, portc, cloud, boots>>
  /\ UNCHANGED <<callVars, regVars, serverVars>>

\* The create call answers; the droplet is entered in waitDroplets under the
\* lock the launcher still holds.
CreateReturns(g) ==
  /\ pc[g] = "creating"
  /\ g \in cloud
  /\ waitDroplets' = waitDroplets \cup {g}
  /\ locked' = FALSE
  /\ pc' = [pc EXCEPT ![g] = "waiting"]
  /\ UNCHANGED portc
  /\ UNCHANGED <<callVars, regVars, serverVars, cloudVars>>

\* Seeded fault: the error path returns without the deferred unlock.
CreateFailsLocked(g) ==
  /\ "create" \in Faults
  /\ pc[g] = "creating"
  /\ errc' = [errc EXCEPT ![TestOf[g]] = @ + 1]
  /\ pc' = [pc EXCEPT ![g] = "done"]
  /\ pending' \in {pending, pending \ {g}}
  /\ UNCHANGED <<call, ctxDone, exec, executorc, closed>>
  /\ UNCHANGED <<dbVars, cloud, boots>>
  /\ UNCHANGED <<regVars, serverVars>>

\* The create call fails.  Whether the cloud has created the droplet, or still
\* will, the launcher cannot know.
CreateFails(g) ==
  /\ "create" \in Faults
  /\ pc[g] = "creating"
  /\ errc' = [errc EXCEPT ![TestOf[g]] = @ + 1]
  /\ locked' = FALSE
  /\ pc' = [pc EXCEPT ![g] = "done"]
  /\ pending' \in {pending, pending \ {g}}
  /\ UNCHANGED <<call, ctxDone, exec, executorc, closed>>
  /\ UNCHANGED <<waitDroplets, portc, cloud, boots>>
  /\ UNCHANGED <<regVars, serverVars>>

ReceivePort(g) ==
  /\ pc[g] = "waiting"
  /\ portc[g]
  /\ portc' = [portc EXCEPT ![g] = FALSE]
  /\ pc' = [pc EXCEPT ![g] = "getting"]
  /\ UNCHANGED <<locked, waitDroplets>>
  /\ UNCHANGED <<callVars, regVars, serverVars, cloudVars>>

\* Seeded fault: the select of the launcher has no case for the context.
WaitForever(g) ==
  /\ pc[g] = "waiting"
  /\ FALSE
  /\ UNCHANGED vars

\* Seeded fault: the removal is deferred only once a port was received.
WaitKeepsEntry(g) ==
  /\ pc[g] = "waiting"
  /\ ctxDone[TestOf[g]]
  /\ pc' = [pc EXCEPT ![g] = "done"]
  /\ UNCHANGED <<callVars, dbVars, regVars, serverVars, cloudVars>>

WaitCtxDone(g) ==
  /\ pc[g] = "waiting"
  /\ ctxDone[TestOf[g]]
  /\ pc' = [pc EXCEPT ![g] = "removing"]
  /\ UNCHANGED <<callVars, dbVars, regVars, serverVars, cloudVars>>

\* Droplets.Get answers with a public address: the executor has joined.
Join(g) ==
  /\ pc[g] = "getting"
  /\ executorc' = [executorc EXCEPT ![TestOf[g]] = @ \cup {g}]
  /\ pc' = [pc EXCEPT ![g] = "removing"]
  /\ UNCHANGED <<call, ctxDone, exec, closed, errc>>
  /\ UNCHANGED <<dbVars, regVars, serverVars, cloudVars>>

\* The droplet has no public IPv4 address.
NoAddress(g) ==
  /\ "address" \in Faults
  /\ pc[g] = "getting"
  /\ errc' = [errc EXCEPT ![TestOf[g]] = @ + 1]
  /\ pc' = [pc EXCEPT ![g] = "removing"]
  /\ UNCHANGED <<call, ctxDone, exec, executorc, closed>>
  /\ UNCHANGED <<dbVars, regVars, serverVars, cloudVars>>

\* The deferred removal from waitDroplets, under db.lock.
Remove(g) ==
  /\ pc[g] = "removing"
  /\ ~locked
  /\ waitDroplets' = waitDroplets \ {g}
  /\ pc' = [pc EXCEPT ![g] = "done"]
  /\ UNCHANGED <<locked, portc>>
  /\ UNCHANGED <<callVars, regVars, serverVars, cloudVars>>

-----------------------------------------------------------------------------
(***************************************************************************)
(* RegisterExecutorUp.                                                     *)
(***************************************************************************)

\* executord starts, or restarts (Restart=always), on a droplet and calls
\* RegisterExecutor.
Boot(d) ==
  /\ up = "serving"
  /\ d \in cloud
  /\ boots[d] < MaxBoots
  /\ boots' = [boots EXCEPT ![d] = @ + 1]
  /\ regs' = [regs EXCEPT ![d] = @ + 1]
  /\ UNCHANGED <<blocked, pending, cloud>>
  /\ UNCHANGED <<callVars, pc, dbVars, serverVars>>

\* Seeded fault: executord repeats a call that was answered.
RegisterRepeated(d) ==
  /\ regs[d] > 0
  /\ ~locked
  /\ d \in waitDroplets
  /\ ~portc[d]
  /\ portc' = [portc EXCEPT ![d] = TRUE]
  /\ UNCHANGED <<locked, waitDroplets, regVars>>
  /\ UNCHANGED <<callVars, pc, serverVars, cloudVars>>

\* The droplet is awaited and its channel, of capacity one, has room.
RegisterAwaited(d) ==
  /\ regs[d] > 0
  /\ ~locked
  /\ d \in waitDroplets
  /\ ~portc[d]
  /\ regs' = [regs EXCEPT ![d] = @ - 1]
  /\ portc' = [portc EXCEPT ![d] = TRUE]
  /\ UNCHANGED <<locked, waitDroplets, blocked>>
  /\ UNCHANGED <<callVars, pc, serverVars, cloudVars>>

\* Seeded fault: portc has no buffer, so that every send waits.
RegisterUnbuffered(d) ==
  /\ regs[d] > 0
  /\ ~locked
  /\ d \in waitDroplets
  /\ regs' = [regs EXCEPT ![d] = @ - 1]
  /\ locked' = TRUE
  /\ blocked' = blocked \cup {d}
  /\ UNCHANGED <<waitDroplets, portc>>
  /\ UNCHANGED <<callVars, pc, serverVars, cloudVars>>

\* The channel is full: the call blocks on it and keeps db.lock.
RegisterBlocks(d) ==
  /\ regs[d] > 0
  /\ ~locked
  /\ d \in waitDroplets
  /\ portc[d]
  /\ regs' = [regs EXCEPT ![d] = @ - 1]
  /\ locked' = TRUE
  /\ blocked' = blocked \cup {d}
  /\ UNCHANGED <<waitDroplets, portc>>
  /\ UNCHANGED <<callVars, pc, serverVars, cloudVars>>

\* The launcher has received a port, so the blocked call can send its own.
RegisterUnblocks(d) ==
  /\ d \in blocked
  /\ ~portc[d]
  /\ portc' = [portc EXCEPT ![d] = TRUE]
  /\ locked' = FALSE
  /\ blocked' = blocked \ {d}
  /\ UNCHANGED <<waitDroplets, regs>>
  /\ UNCHANGED <<callVars, pc, serverVars, cloudVars>>

\* Nobody waits for the droplet: it is deleted, all under db.lock.
RegisterUnexpected(d) ==
  /\ regs[d] > 0
  /\ ~locked
  /\ d \notin waitDroplets
  /\ regs' = [regs EXCEPT ![d] = @ - 1]
  /\ \/ cloud' = cloud \ {d}
     \/ "delete" \in Faults /\ UNCHANGED cloud
  /\ UNCHANGED <<blocked, pending, boots>>
  /\ UNCHANGED <<callVars, pc, dbVars, serverVars>>

Register(d) ==
  \/ RegisterAwaited(d)
  \/ RegisterBlocks(d)
  \/ RegisterUnblocks(d)
  \/ RegisterUnexpected(d)

-----------------------------------------------------------------------------
(***************************************************************************)
(* The cloud, and the life of the scheduler process.                       *)
(***************************************************************************)

\* The cloud carries out a create request, even one whose sender has died.
CloudCreates(g) ==
  /\ g \in pending
  /\ pending' = pending \ {g}
  /\ cloud' = cloud \cup {g}
  /\ UNCHANGED boots
  /\ UNCHANGED <<callVars, pc, dbVars, regVars, serverVars>>

\* Everything the process keeps in memory is lost; droplets live on.
ProcessDies ==
  /\ crashes < MaxCrashes
  /\ crashes' = crashes + 1
  /\ up' = "down"
  /\ page' = {}
  /\ call' = [t \in Tests |-> IF call[t] = "idle" THEN "idle" ELSE "lost"]
  /\ ctxDone' = [t \in Tests |-> FALSE]
  /\ exec' = [t \in Tests |-> {}]
  /\ executorc' = [t \in Tests |-> {}]
  /\ closed' = [t \in Tests |-> FALSE]
  /\ errc' = [t \in Tests |-> 0]
  /\ pc' = [g \in Launchers |-> IF pc[g] = "idle" THEN "idle" ELSE "dead"]
  /\ locked' = FALSE
  /\ waitDroplets' = {}
  /\ portc' = [g \in Launchers |-> FALSE]
  /\ regs' = [g \in Launchers |-> 0]
  /\ blocked' = {}
  /\ UNCHANGED cloudVars

Crash ==
  /\ "crash" \in Faults
  /\ up = "serving"
  /\ ProcessDies

\* Droplets.Get fails and returns a nil droplet, whose ID the log line reads:
\* the nil pointer kills the process.
GetFails(g) ==
  /\ "get" \in Faults
  /\ pc[g] = "getting"
  /\ ProcessDies

\* NewDB lists the droplets of the account: one page of them.
ListDroplets ==
  /\ up = "down"
  /\ up' = "cleaning"
  /\ page' \in {P \in SUBSET cloud :
                  /\ Cardinality(P) <= PageSize
                  /\ Cardinality(P) = PageSize \/ P = cloud}
  /\ UNCHANGED crashes
  /\ UNCHANGED <<callVars, pc, dbVars, regVars, cloudVars>>

CleanupDeletes(d) ==
  /\ up = "cleaning"
  /\ d \in page
  /\ page' = page \ {d}
  /\ cloud' = cloud \ {d}
  /\ UNCHANGED <<up, crashes, pending, boots>>
  /\ UNCHANGED <<callVars, pc, dbVars, regVars>>

\* Seeded fault: NewDB passes over a droplet it could not delete.
CleanupSkips ==
  /\ "cleanup" \in Faults
  /\ up = "cleaning"
  /\ \E d \in page : page' = page \ {d}
  /\ UNCHANGED <<up, crashes>>
  /\ UNCHANGED <<callVars, pc, dbVars, regVars, cloudVars>>

\* A deletion fails: NewDB returns the error, schedulerd exits, and systemd
\* starts it again.
CleanupFails ==
  /\ "cleanup" \in Faults
  /\ up = "cleaning"
  /\ page # {}
  /\ up' = "down"
  /\ page' = {}
  /\ UNCHANGED crashes
  /\ UNCHANGED <<callVars, pc, dbVars, regVars, cloudVars>>

Serve ==
  /\ up = "cleaning"
  /\ page = {}
  /\ up' = "serving"
  /\ UNCHANGED <<page, crashes>>
  /\ UNCHANGED <<callVars, pc, dbVars, regVars, cloudVars>>

-----------------------------------------------------------------------------
CallStep(t) ==
  Request(t) \/ CloseExecutorc(t) \/ Collect(t) \/ HandlerReturns(t)
  \/ ClientCancels(t)

LauncherStep(g) ==
  LockAndCreate(g) \/ CreateReturns(g) \/ CreateFails(g) \/ ReceivePort(g)
  \/ WaitCtxDone(g) \/ Join(g) \/ NoAddress(g) \/ GetFails(g) \/ Remove(g)

DropletStep(d) ==
  Boot(d) \/ Register(d) \/ CloudCreates(d) \/ CleanupDeletes(d)

Next ==
  \/ \E t \in Tests : CallStep(t)
  \/ \E g \in Launchers : LauncherStep(g)
  \/ \E d \in Launchers : DropletStep(d)
  \/ Crash
  \/ ListDroplets
  \/ CleanupFails
  \/ Serve

Spec == Init /\ [][Next]_vars

-----------------------------------------------------------------------------
(***************************************************************************)
(* Properties.                                                             *)
(***************************************************************************)

\* Every variable has the type of the Go value it stands for.
TypeOK ==
  /\ call \in [Tests -> Calls]
  /\ ctxDone \in [Tests -> BOOLEAN]
  /\ exec \in [Tests -> SUBSET Launchers]
  /\ executorc \in [Tests -> SUBSET Launchers]
  /\ closed \in [Tests -> BOOLEAN]
  /\ errc \in [Tests -> Nat]
  /\ pc \in [Launchers -> PCs]
  /\ locked \in BOOLEAN
  /\ waitDroplets \subseteq Launchers
  /\ portc \in [Launchers -> BOOLEAN]
  /\ regs \in [Launchers -> Nat]
  /\ blocked \subseteq Launchers
  /\ up \in {"down", "cleaning", "serving"}
  /\ page \subseteq Launchers
  /\ crashes \in Nat
  /\ pending \subseteq Launchers
  /\ cloud \subseteq Launchers
  /\ boots \in [Launchers -> Nat]

\* The registry and its lock: waitDroplets holds exactly the droplets whose
\* launcher has created them and not yet removed them, so no entry outlives the
\* goroutine that reads its channel (db.go 108 to 114); and db.lock is held by
\* one launcher that creates or by one registration that is blocked, never two.
RegistryConsistent ==
  /\ waitDroplets = {g \in Launchers : pc[g] \in {"waiting", "getting", "removing"}}
  /\ blocked \subseteq waitDroplets
  /\ \A g, h \in {x \in Launchers : pc[x] = "creating"} \cup blocked : g = h
  /\ locked <=> \E g \in Launchers : pc[g] = "creating" \/ g \in blocked

\* While the scheduler serves, a droplet is destroyed as unexpected
\* (db.go 195 to 199) only if its launcher has finished: the executor of a launch
\* in progress is never mistaken for a stray one, however early it registers.
AwaitedNotDestroyed ==
  [][\A d \in Launchers :
       up = "serving" /\ d \in cloud /\ d \notin cloud'
         => pc[d] \in {"done", "dead"}]_vars

\* LaunchExecutors returns fewer executors than it was asked for only when the
\* context is done or an error was raised that the select (db.go 158 to 170)
\* passed over: no executor gets lost on its way through executorc.
NoSilentShortfall ==
  \A t \in Tests :
    call[t] = "ok" /\ exec[t] # LaunchersOf(t) => ctxDone[t] \/ errc[t] > 0

\* A registration blocks while it holds db.lock (db.go 201) only when executord
\* was started at least twice on the droplet, and, once the launcher has taken its
\* one port, at least three times: a single start never costs the registry its lock.
BlocksOnlyOnReboots ==
  \A d \in blocked :
    /\ boots[d] >= 2
    /\ portc[d] /\ pc[d] = "getting" => boots[d] >= 3

\* When the page NewDB lists (db.go 54 to 66) holds all droplets, then a serving
\* scheduler faces a droplet of an earlier life only if that droplet has not
\* registered, or its registration is about to have it destroyed.
NothingSurvivesRestart ==
  up = "serving" =>
    \A d \in cloud : pc[d] = "dead" => boots[d] = 0 \/ regs[d] > 0

\* "all executors have joined" (db.go 162): a launch that succeeds has an
\* executor from every launcher.
AllExecutorsJoined ==
  \A t \in Tests : call[t] = "ok" => exec[t] = LaunchersOf(t)

\* Some executord was started again.  Its second registration may block the registry.
StartedAgain == \E d \in Launchers : boots[d] >= 2

\* Every call of RegisterExecutorUp (db.go 187 to 203) returns, unless an executord
\* was started twice, whose second call may block under db.lock.
RegistrationAnswered ==
  \A d \in Launchers :
    (regs[d] > 0 \/ d \in blocked) ~>
      \/ regs[d] = 0 /\ d \notin blocked
      \/ StartedAgain

\* After LaunchExecutors has returned an error its launchers, which it leaves
\* running (db.go 82 to 150), all come to an end and clear their entries, unless an
\* executord was started twice.
LaunchersFinish ==
  \A t \in Tests :
    call[t] = "failed" ~>
      \/ \A g \in LaunchersOf(t) : pc[g] \in {"done", "dead"}
      \/ StartedAgain

\* A droplet that registers after its launcher gave up is destroyed (db.go 195 to
\* 199), unless an executord was started twice.
LateExecutorDestroyed ==
  \A d \in Launchers :
    pc[d] = "done" /\ regs[d] > 0 ~> d \notin cloud \/ StartedAgain

=============================================================================
