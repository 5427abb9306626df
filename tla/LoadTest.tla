------------------------------ MODULE LoadTest ------------------------------
(***************************************************************************)
(* The LoadTest call of the scheduler (scheduler/server.go) and its use of *)
(* the executors it has launched (the second half of scheduler/db.go),     *)
(* composed with the launch and the registry, Launch.                      *)
(*                                                                         *)
(* The handler launches executors, commands all of them, waits for the     *)
(* reply of each, and has them all destroyed.  Each of the last three is a *)
(* call of executors.each, which runs one goroutine for every executor and *)
(* returns the first error, or nil once every goroutine has ended without  *)
(* one; the goroutines it does not wait for go on.  So the outcome of a    *)
(* call of each is a function of the states of its goroutines, jobs.       *)
(*                                                                         *)
(* The executors are external: an executor that was sent Run replies with  *)
(* a status, or its connection breaks.                                     *)
(***************************************************************************)
EXTENDS Launch, Sequences

VARIABLES
  handler,   \* where the LoadTest call of each test is
  answers,   \* the phases the client has been told
  jobs,      \* the goroutines of each, for every kind of call
  executord, \* how far executord has come on each droplet
  run,       \* the execution on each executor
  status     \* its reply

ltVars  == <<handler, answers, jobs, executord, run, status>>
allVars == <<vars, ltVars>>

Kinds    == {"execute", "wait", "kill"}
Handlers == {"idle", "launching", "commanding", "waiting", "killing",
             "returned", "lost"}
Phases   == {"Preparing", "Started", "Finished", "Errored"}

LTInit ==
  /\ Init
  /\ handler = [t \in Tests |-> "idle"]
  /\ answers = [t \in Tests |-> <<>>]
  /\ jobs = [k \in Kinds |-> [e \in Launchers |-> "none"]]
  /\ executord = [e \in Launchers |-> "off"]
  /\ run = [e \in Launchers |-> "none"]
  /\ status = [e \in Launchers |-> "none"]

-----------------------------------------------------------------------------
(***************************************************************************)
(* executors.each.                                                         *)
(***************************************************************************)

\* One goroutine for each executor of the test.
EachStarts(k, t) ==
  jobs' = [jobs EXCEPT ![k] = [e \in Launchers |->
             IF e \in exec[t] THEN "running" ELSE @[e]]]

\* Seeded fault: errc is closed when the first goroutine ends.
EachReturnsEarly(k, t) ==
  \/ exec[t] = {}
  \/ \E e \in exec[t] : jobs[k][e] = "ok"

\* errc is closed and empty.
EachReturnsNil(k, t) == \A e \in exec[t] : jobs[k][e] = "ok"

\* Seeded fault: each waits for the close of errc only.
EachDropsErrors(k, t) == FALSE

\* An error is received from errc.
EachReturnsError(k, t) == \E e \in exec[t] : jobs[k][e] = "error"

JobEnds(k, e, result) ==
  /\ jobs[k][e] = "running"
  /\ jobs' = [jobs EXCEPT ![k][e] = result]

-----------------------------------------------------------------------------
(***************************************************************************)
(* The handler.                                                            *)
(***************************************************************************)

Goto(t, h) == handler' = [handler EXCEPT ![t] = h]

Answer(t, phase) == answers' = [answers EXCEPT ![t] = Append(@, phase)]

\* The script or its configuration does not verify, the rates do not fit the
\* number of executors, or the first answer cannot be sent.
RefuseTest(t) ==
  /\ up = "serving"
  /\ handler[t] = "idle"
  /\ Goto(t, "returned")
  /\ UNCHANGED <<vars, answers, jobs, executord, run, status>>

BeginTest(t) ==
  /\ handler[t] = "idle"
  /\ Request(t)
  /\ Answer(t, "Preparing")
  /\ Goto(t, "launching")
  /\ UNCHANGED <<jobs, executord, run, status>>

\* The error of LaunchExecutors is returned; nothing is destroyed.
LaunchFailed(t) ==
  /\ handler[t] = "launching"
  /\ call[t] = "failed"
  /\ Goto(t, "returned")
  /\ ctxDone' = [ctxDone EXCEPT ![t] = TRUE]
  /\ UNCHANGED <<call, exec, executorc, closed, errc>>
  /\ UNCHANGED <<pc, dbVars, regVars, serverVars, cloudVars>>
  /\ UNCHANGED <<answers, jobs, executord, run, status>>

Launched(t) ==
  /\ handler[t] = "launching"
  /\ call[t] = "ok"
  /\ Goto(t, "commanding")
  /\ EachStarts("execute", t)
  /\ UNCHANGED <<vars, answers, executord, run, status>>

\* executeCommand has returned nil.
CommandsSent(t) ==
  /\ handler[t] = "commanding"
  /\ EachReturnsNil("execute", t)
  /\ Answer(t, "Started")
  /\ Goto(t, "waiting")
  /\ EachStarts("wait", t)
  /\ UNCHANGED <<vars, executord, run, status>>

\* waitCompletion has returned nil; the deferred killall begins.
Completed(t) ==
  /\ handler[t] = "waiting"
  /\ EachReturnsNil("wait", t)
  /\ Answer(t, "Finished")
  /\ Goto(t, "killing")
  /\ EachStarts("kill", t)
  /\ UNCHANGED <<vars, executord, run, status>>

\* Seeded fault: the handler goes on after the error of executeCommand.
TestFailsGoesOn(t) ==
  /\ handler[t] = "commanding"
  /\ EachReturnsError("execute", t) \/ ctxDone[t]
  /\ answers' = [answers EXCEPT ![t] = @ \o <<"Errored", "Started">>]
  /\ Goto(t, "waiting")
  /\ EachStarts("wait", t)
  /\ UNCHANGED <<vars, executord, run, status>>

\* Seeded fault: the error is returned and not answered.
TestFailsSilently(t) ==
  /\ \/ handler[t] = "commanding" /\ (EachReturnsError("execute", t) \/ ctxDone[t])
     \/ handler[t] = "waiting" /\ (EachReturnsError("wait", t) \/ ctxDone[t])
  /\ Goto(t, "killing")
  /\ EachStarts("kill", t)
  /\ UNCHANGED <<vars, answers, executord, run, status>>

\* executeCommand or waitCompletion has returned an error, of an executor or of
\* the context; the deferred killall begins.
TestFails(t) ==
  /\ \/ handler[t] = "commanding" /\ (EachReturnsError("execute", t) \/ ctxDone[t])
     \/ handler[t] = "waiting" /\ (EachReturnsError("wait", t) \/ ctxDone[t])
  /\ Answer(t, "Errored")
  /\ Goto(t, "killing")
  /\ EachStarts("kill", t)
  /\ UNCHANGED <<vars, executord, run, status>>

\* Seeded fault: what each has not waited for is cancelled when it returns.
KillReturnsCancels(t) ==
  /\ handler[t] = "killing"
  /\ EachReturnsNil("kill", t) \/ EachReturnsError("kill", t)
  /\ Goto(t, "returned")
  /\ jobs' = [jobs EXCEPT !["kill"] =
                 [e \in Launchers |-> IF e \in exec[t] /\ @[e] = "running" THEN "none"
                                                                         ELSE @[e]]]
  /\ ctxDone' = [ctxDone EXCEPT ![t] = TRUE]
  /\ UNCHANGED <<call, exec, executorc, closed, errc>>
  /\ UNCHANGED <<pc, dbVars, regVars, serverVars, cloudVars>>
  /\ UNCHANGED <<answers, executord, run, status>>

\* killall, which has a context of its own, has returned, and so does LoadTest:
\* gRPC ends the stream and its context.
KillReturns(t) ==
  /\ handler[t] = "killing"
  /\ EachReturnsNil("kill", t) \/ EachReturnsError("kill", t)
  /\ Goto(t, "returned")
  /\ ctxDone' = [ctxDone EXCEPT ![t] = TRUE]
  /\ UNCHANGED <<call, exec, executorc, closed, errc>>
  /\ UNCHANGED <<pc, dbVars, regVars, serverVars, cloudVars>>
  /\ UNCHANGED <<answers, jobs, executord, run, status>>

-----------------------------------------------------------------------------
(***************************************************************************)
(* The goroutines of each.                                                 *)
(***************************************************************************)

\* The executor listens and the stream takes the Run command.
CommandSent(e) ==
  /\ e \in cloud
  /\ executord[e] = "listening"
  /\ ~ctxDone[TestOf[e]]
  /\ JobEnds("execute", e, "ok")
  /\ run' = [run EXCEPT ![e] = "running"]
  /\ UNCHANGED <<vars, handler, answers, executord, status>>

\* The context is done, or the executor cannot be dialled or commanded.  One that
\* does not answer the dial is tried again for as long as the context lasts.
CommandFails(e) ==
  /\ ctxDone[TestOf[e]] \/ "command" \in Faults
  /\ JobEnds("execute", e, "error")
  /\ UNCHANGED <<vars, handler, answers, executord, run, status>>

\* Recv returns a status, whatever it says.
StatusReceived(e) ==
  /\ run[e] = "replied"
  /\ JobEnds("wait", e, "ok")
  /\ UNCHANGED <<vars, handler, answers, executord, run, status>>

\* Seeded fault: the error of Recv is logged and not returned.
RecvErrorLogged(e) ==
  /\ run[e] = "broken" \/ e \notin cloud \/ ctxDone[TestOf[e]]
  /\ JobEnds("wait", e, "ok")
  /\ UNCHANGED <<vars, handler, answers, executord, run, status>>

\* The connection is broken or the context is done.
RecvFails(e) ==
  /\ run[e] = "broken" \/ e \notin cloud \/ ctxDone[TestOf[e]]
  /\ JobEnds("wait", e, "error")
  /\ UNCHANGED <<vars, handler, answers, executord, run, status>>

Destroy(e) ==
  /\ JobEnds("kill", e, "ok")
  /\ cloud' = cloud \ {e}
  /\ UNCHANGED <<callVars, pc, dbVars, regVars, serverVars, pending, boots>>
  /\ UNCHANGED <<handler, answers, executord, run, status>>

DestroyFails(e) ==
  /\ "delete" \in Faults
  /\ JobEnds("kill", e, "error")
  /\ UNCHANGED <<vars, handler, answers, executord, run, status>>

-----------------------------------------------------------------------------
(***************************************************************************)
(* The executors, and the steps of Launch.                                 *)
(***************************************************************************)

\* The executor replies: OK, or Invalid if it would not or could not run.
Replies(e) ==
  /\ run[e] = "running"
  /\ e \in cloud
  /\ run' = [run EXCEPT ![e] = "replied"]
  /\ \E s \in {"OK", "Invalid"} : status' = [status EXCEPT ![e] = s]
  /\ UNCHANGED <<vars, handler, answers, jobs, executord>>

\* executord starts; one that ran before has died, and its execution with it.
Restarts(e) ==
  /\ Boot(e)
  /\ executord' = [executord EXCEPT ![e] = "registering"]
  /\ run' = [run EXCEPT ![e] = IF @ = "running" THEN "broken" ELSE @]
  /\ UNCHANGED <<handler, answers, jobs, status>>

\* The registration is answered.  An executord that is turned away exits.
Registers(e) ==
  /\ \/ /\ RegisterAwaited(e) \/ RegisterUnblocks(e)
        /\ executord' = [executord EXCEPT ![e] = "accepted"]
     \/ /\ RegisterUnexpected(e)
        /\ executord' = [executord EXCEPT ![e] = "off"]
     \/ /\ RegisterBlocks(e)
        /\ UNCHANGED executord
  /\ UNCHANGED <<handler, answers, jobs, run, status>>

\* The port is opened only when the scheduler has been told of it.
Listens(e) ==
  /\ e \in cloud
  /\ executord[e] = "accepted"
  /\ executord' = [executord EXCEPT ![e] = "listening"]
  /\ UNCHANGED <<vars, handler, answers, jobs, run, status>>

\* With the scheduler die its calls, and the streams to the executors.
Dies ==
  /\ Crash \/ \E g \in Launchers : GetFails(g)
  /\ handler' = [t \in Tests |->
                   IF handler[t] \in {"idle", "returned"} THEN handler[t] ELSE "lost"]
  /\ jobs' = [k \in Kinds |-> [e \in Launchers |-> "none"]]
  /\ executord' = [e \in Launchers |->
                     IF executord[e] = "registering" THEN "off" ELSE executord[e]]
  /\ run' = [e \in Launchers |-> IF run[e] = "running" THEN "broken" ELSE run[e]]
  /\ UNCHANGED <<answers, status>>

\* What the launch and the registry do by themselves.
LaunchStep ==
  /\ \/ \E t \in Tests : CloseExecutorc(t) \/ Collect(t) \/ ClientCancels(t)
     \/ \E g \in Launchers :
          \/ LockAndCreate(g) \/ CreateReturns(g) \/ CreateFails(g)
          \/ ReceivePort(g) \/ WaitCtxDone(g) \/ Join(g) \/ NoAddress(g)
          \/ Remove(g) \/ CloudCreates(g) \/ CleanupDeletes(g)
     \/ ListDroplets
     \/ CleanupFails
     \/ Serve
  /\ UNCHANGED ltVars

HandlerStep(t) ==
  \/ RefuseTest(t) \/ BeginTest(t) \/ LaunchFailed(t) \/ Launched(t)
  \/ CommandsSent(t) \/ Completed(t) \/ TestFails(t) \/ KillReturns(t)

ExecutorStep(e) ==
  \/ CommandSent(e) \/ CommandFails(e) \/ StatusReceived(e) \/ RecvFails(e)
  \/ Destroy(e) \/ DestroyFails(e) \/ Replies(e) \/ Restarts(e) \/ Registers(e)
  \/ Listens(e)

LTNext ==
  \/ \E t \in Tests : HandlerStep(t)
  \/ \E e \in Launchers : ExecutorStep(e)
  \/ LaunchStep
  \/ Dies

LTSpec == LTInit /\ [][LTNext]_allVars

(***************************************************************************)
(* Goroutines run, the cloud answers, and an executor that was commanded   *)
(* replies (RunStops of Commander).  Nothing makes a client cancel, a call *)
(* fail or executord start.                                                *)
(***************************************************************************)
LTFairness ==
  /\ \A t \in Tests :
       /\ WF_allVars(LaunchFailed(t) \/ Launched(t))
       /\ WF_allVars(CommandsSent(t) \/ Completed(t) \/ TestFails(t))
       /\ WF_allVars(KillReturns(t))
       /\ WF_allVars((CloseExecutorc(t) \/ Collect(t)) /\ UNCHANGED ltVars)
  /\ \A e \in Launchers :
       /\ WF_allVars(CommandSent(e) \/ CommandFails(e))
       /\ WF_allVars(StatusReceived(e) \/ RecvFails(e))
       /\ WF_allVars(Destroy(e) \/ DestroyFails(e))
       /\ WF_allVars(Replies(e))
       /\ WF_allVars(LockAndCreate(e) /\ UNCHANGED ltVars)
       /\ WF_allVars(CreateReturns(e) /\ UNCHANGED ltVars)
       /\ WF_allVars((ReceivePort(e) \/ WaitCtxDone(e)) /\ UNCHANGED ltVars)
       /\ WF_allVars((Join(e) \/ NoAddress(e)) /\ UNCHANGED ltVars)
       /\ WF_allVars(Remove(e) /\ UNCHANGED ltVars)
       /\ WF_allVars(Registers(e))
       /\ WF_allVars(Listens(e))
       /\ WF_allVars(CloudCreates(e) /\ UNCHANGED ltVars)

LTFairSpec == LTSpec /\ LTFairness

-----------------------------------------------------------------------------
(***************************************************************************)
(* Properties.                                                             *)
(***************************************************************************)

\* Every variable has the type of the Go value it stands for.
LTTypeOK ==
  /\ TypeOK
  /\ handler \in [Tests -> Handlers]
  /\ answers \in [Tests -> Seq(Phases)]
  /\ \A t \in Tests : Len(answers[t]) <= 3
  /\ jobs \in [Kinds -> [Launchers -> {"none", "running", "ok", "error"}]]
  /\ executord \in [Launchers -> {"off", "registering", "accepted", "listening"}]
  /\ run \in [Launchers -> {"none", "running", "replied", "broken"}]
  /\ status \in [Launchers -> {"none", "OK", "Invalid"}]

Told(t, phase) == \E i \in DOMAIN answers[t] : answers[t][i] = phase

\* The client is told Started (server.go 110) only when every executor that was
\* collected has been sent Run, and Finished (127) only when every one of them has
\* replied: the first goroutine of each (db.go 365 to 391) to end does not decide.
AnswersAreEarned ==
  \A t \in Tests : \A e \in exec[t] :
    /\ Told(t, "Started") => run[e] # "none"
    /\ Told(t, "Finished") => run[e] = "replied"

S == INSTANCE Session WITH
       Executors <- Launchers,
       told      <- answers,
       open      <- {t \in Tests : handler[t] \notin {"idle", "returned", "lost"}},
       team      <- exec,
       commanded <- {e \in Launchers : run[e] # "none"},
       replied   <- {e \in Launchers : run[e] = "replied"}

\* LoadTest (server.go 64 to 135) implements Session: the phases come in order and
\* each is true when it is told, no executor is commanded before the launch is
\* complete, and nothing is told after the last word, whatever fails.
KeepsSession == S!Spec

\* killall (server.go 87) destroys an executor that is still running the script
\* only after the client was told that the test failed.
KillsRunningOnlyOnError ==
  [][\A e \in Launchers :
       jobs["kill"][e] = "running" /\ jobs'["kill"][e] = "ok" /\ run[e] = "running"
         => Told(TestOf[e], "Errored")]_allVars

\* The droplet of an executor of the test is destroyed under the handler, while it
\* commands or waits, only by the registration of an executord that was started
\* again (db.go 195 to 199): no other call of the scheduler interferes.
NobodyElseDestroys ==
  [][\A t \in Tests : \A e \in exec[t] :
       handler[t] \in {"commanding", "waiting"} /\ e \in cloud /\ e \notin cloud'
         => boots[e] >= 2]_allVars

\* From the beginning of killall on (server.go 87) an executor of the test is gone,
\* on its way out, or one whose own deletion has failed: the first error makes each
\* return (db.go 385 to 390), and LoadTest with it, but what the other goroutines
\* have begun is not given up.  The context of the call ends with LoadTest; the
\* deletions do not depend on it (db.go 258).
AllKilled ==
  \A t \in Tests :
    handler[t] \in {"killing", "returned"} =>
      \A e \in exec[t] \cap cloud : jobs["kill"][e] \in {"running", "error"}

\* A test comes to its end (server.go 64 to 135) unless an executord of its own never
\* starts, for which the launcher waits without a limit (db.go 116), or one is started
\* again, when its registration may block the registry (201) or have the droplet
\* destroyed that waitTilAlive goes on dialling (225 to 248).
HangsOnlyForExecutord ==
  \A t \in Tests :
    handler[t] = "launching" ~>
      \/ handler[t] = "returned"
      \/ StartedAgain
      \/ [](\E e \in LaunchersOf(t) : pc[e] = "waiting" /\ boots[e] = 0)

\* "killing all executors" (server.go 86): when LoadTest has returned, no executor
\* it has launched and that has started is left running.
LeavesNoExecutor ==
  \A t \in Tests :
    handler[t] = "returned" ~> \A e \in LaunchersOf(t) \cap cloud : boots[e] = 0

\* "execution completed" (db.go 359): a test that is Finished was executed by all
\* of its executors.
FinishedMeansExecuted ==
  \A t \in Tests :
    Told(t, "Finished") => \A e \in exec[t] : status[e] = "OK"

=============================================================================
