--------------------------- MODULE LoadTestProofs ---------------------------
(***************************************************************************)
(* Proofs about LoadTest, for every number of load tests and executors.    *)
(*                                                                         *)
(* Every step of LoadTest but Destroy is a step of Launch, so that its     *)
(* inductive invariant carries over (LaunchKept).  LTInv adds what the     *)
(* handler has done: where it is in its call of LaunchExecutors (Calling), *)
(* what it has told the client (Telling), what the goroutines of each have *)
(* done (Working), and that an executor that has joined has used one of    *)
(* its starts (Joined).                                                    *)
(***************************************************************************)
EXTENDS LoadTest, LaunchProofs, SequenceTheorems

\* The handler and its call of LaunchExecutors.
Calling ==
  \A t \in Tests :
    /\ call[t] = "launching" => handler[t] = "launching"
    /\ handler[t] \in {"commanding", "waiting", "killing"} => call[t] = "ok"
    /\ handler[t] = "launching" => call[t] \in {"launching", "ok", "failed"}
    /\ handler[t] = "idle" => call[t] = "idle"
    /\ call[t] \in {"idle", "failed", "lost"} => exec[t] = {}
    /\ handler[t] \in {"launching", "commanding", "waiting", "killing"} =>
         up = "serving"

Last == {<<"Preparing", "Started", "Finished">>, <<"Preparing", "Errored">>,
         <<"Preparing", "Started", "Errored">>}

\* What the client has been told.
Telling ==
  \A t \in Tests :
    /\ handler[t] = "idle" => answers[t] = <<>>
    /\ handler[t] \in {"launching", "commanding"} => answers[t] = <<"Preparing">>
    /\ handler[t] = "waiting" => answers[t] = <<"Preparing", "Started">>
    /\ handler[t] = "killing" => answers[t] \in Last
    /\ handler[t] \in {"returned", "lost"} =>
         answers[t] \in Last \cup {<<>>, <<"Preparing">>, <<"Preparing", "Started">>}

\* What the goroutines of each have done, and for whom.
Working ==
  \A e \in Launchers :
    /\ run[e] # "none" \/ (\E k \in Kinds : jobs[k][e] # "none") =>
         handler[TestOf[e]] \notin {"idle", "launching"}
    /\ jobs["execute"][e] = "running" =>
         /\ run[e] = "none"
         /\ e \in exec[TestOf[e]]
         /\ \/ handler[TestOf[e]] \in {"commanding", "killing"}
            \/ handler[TestOf[e]] = "returned" /\ ctxDone[TestOf[e]]
    /\ jobs["execute"][e] = "ok" => run[e] # "none"
    /\ jobs["wait"][e] = "ok" => run[e] = "replied"
    /\ jobs["kill"][e] = "running" =>
         /\ e \in exec[TestOf[e]]
         /\ handler[TestOf[e]] \in {"killing", "returned"}
         /\ answers[TestOf[e]] \in Last

\* An executor that has joined has used one start of executord.
Joined ==
  \A e \in Launchers :
    e \in exec[TestOf[e]] \cup executorc[TestOf[e]] => regs[e] < boots[e]

LTInv == IInv /\ LTTypeOK /\ Calling /\ Telling /\ Working /\ Joined /\ AnswersAreEarned


-----------------------------------------------------------------------------
\* A droplet that is destroyed leaves the registry as it was: killall (db.go 397
\* to 408) deletes it without db.lock.
LEMMA DestroyKeepsIInv ==
  ASSUME IInv, cloud' \subseteq cloud,
         UNCHANGED <<callVars, pc, dbVars, regVars, serverVars, pending, boots>>
  PROVE  IInv'
<1> USE DEF callVars, dbVars, regVars, serverVars
<1>1. TypeOK'
    BY DEF IInv, TypeOK
<1>2. RegistryConsistent'
    BY DEF IInv, RegistryConsistent
<1>3. Origin'
    BY DEF IInv, Origin
<1>4. Results'
    BY DEF IInv, Results
<1>5. Ports'
    BY DEF IInv, Ports, One
<1>6. QED
    BY <1>1, <1>2, <1>3, <1>4, <1>5 DEF IInv

\* Whatever the handler, the goroutines of each and the executors do is a step of
\* Launch, or none, but for the deletion of a droplet by killall (db.go 397).
LEMMA StepOfLaunch ==
  ASSUME TypeOK, Calling, LTNext,
         \A e \in Launchers : ~Destroy(e)
  PROVE  [Next]_vars
<1>1. ASSUME NEW t \in Tests, HandlerStep(t) PROVE [Next]_vars
    <2>1. CASE BeginTest(t)
        BY <2>1 DEF BeginTest, Next, CallStep
    <2>2. CASE LaunchFailed(t)
        <3>1. CASE ctxDone[t]
            BY <2>2, <3>1 DEF LaunchFailed, TypeOK, vars, callVars
        <3>2. CASE ~ctxDone[t]
            BY <2>2, <3>2 DEF LaunchFailed, HandlerReturns, Next, CallStep
        <3>3. QED
            BY <3>1, <3>2
    <2>3. CASE KillReturns(t)
        <3>1. CASE ctxDone[t]
            BY <2>3, <3>1 DEF KillReturns, TypeOK, vars, callVars
        <3>2. CASE ~ctxDone[t]
            BY <2>3, <3>2 DEF KillReturns, Calling, ClientCancels, Next, CallStep
        <3>3. QED
            BY <3>1, <3>2
    <2>4. QED
        BY <1>1, <2>1, <2>2, <2>3
        DEF HandlerStep, RefuseTest, Launched, CommandsSent, Completed, TestFails
<1>2. ASSUME NEW e \in Launchers, ExecutorStep(e) PROVE [Next]_vars
    <2>1. CASE Restarts(e)
        BY <2>1 DEF Restarts, Next, DropletStep
    <2>2. CASE Registers(e)
        BY <2>2 DEF Registers, Register, Next, DropletStep
    <2>3. QED
        BY <1>2, <2>1, <2>2
        DEF ExecutorStep, CommandSent, CommandFails, StatusReceived, RecvFails,
            DestroyFails, Replies, Listens
<1>3. CASE LaunchStep
    BY <1>3 DEF LaunchStep, Next, CallStep, LauncherStep, DropletStep
<1>4. CASE Dies
    BY <1>4 DEF Dies, Next, LauncherStep
<1>5. QED
    BY <1>1, <1>2, <1>3, <1>4 DEF LTNext

\* Every step keeps what LaunchProofs shows of the registry (db.go 51 to 203).
LEMMA LaunchKept ==
  IInv /\ Calling /\ [LTNext]_allVars => IInv'
<1> SUFFICES ASSUME IInv, Calling, [LTNext]_allVars PROVE IInv'
    OBVIOUS
<1>1. CASE \E e \in Launchers : Destroy(e)
    BY <1>1, DestroyKeepsIInv DEF Destroy
<1>2. CASE LTNext /\ \A e \in Launchers : ~Destroy(e)
    BY <1>2, StepOfLaunch, StepIInv DEF IInv
<1>3. CASE UNCHANGED allVars
    BY <1>3, StepIInv DEF allVars
<1>4. QED
    BY <1>1, <1>2, <1>3

-----------------------------------------------------------------------------
\* Of the steps the launch takes by itself (db.go 71 to 173), those that the
\* handler can notice.
LEMMA NoticeableLaunchSteps ==
  ASSUME LaunchStep
  PROVE  \/ \E t \in Tests : Collect(t) \/ ClientCancels(t)
         \/ \E g \in Launchers : Join(g)
         \/ ListDroplets \/ CleanupFails \/ Serve
         \/ UNCHANGED <<call, ctxDone, exec, executorc, regs, boots, up>>
  BY DEF LaunchStep, callVars, regVars, serverVars, cloudVars, CloseExecutorc,
         LockAndCreate, CreateReturns, CreateFails, ReceivePort, WaitCtxDone,
         NoAddress, Remove, CloudCreates, CleanupDeletes

\* Every step keeps Calling: the handler (server.go 80 to 91) goes on only when
\* LaunchExecutors has returned, and returns itself when that has failed.
LEMMA CallingStep ==
  TypeOK /\ handler \in [Tests -> Handlers] /\ Calling /\ [LTNext]_allVars => Calling'
<1> SUFFICES ASSUME TypeOK, handler \in [Tests -> Handlers], Calling, [LTNext]_allVars
             PROVE  Calling'
    OBVIOUS
<1> USE DEF TypeOK, Calling
<1>1. ASSUME UNCHANGED <<call, exec, up, handler>> PROVE Calling'
    BY <1>1
<1>2. ASSUME NEW t \in Tests, RefuseTest(t) PROVE Calling'
    BY <1>2 DEF RefuseTest, Goto, vars, callVars, serverVars
<1>3. ASSUME NEW t \in Tests, BeginTest(t) PROVE Calling'
    BY <1>3 DEF BeginTest, Request, Goto, serverVars
<1>4. ASSUME NEW t \in Tests, LaunchFailed(t) PROVE Calling'
    BY <1>4 DEF LaunchFailed, Goto, serverVars
<1>5. ASSUME NEW t \in Tests, Launched(t) PROVE Calling'
    BY <1>5 DEF Launched, Goto, vars, callVars, serverVars
<1>6. ASSUME NEW t \in Tests, CommandsSent(t) PROVE Calling'
    BY <1>6 DEF CommandsSent, Goto, vars, callVars, serverVars
<1>7. ASSUME NEW t \in Tests, Completed(t) PROVE Calling'
    BY <1>7 DEF Completed, Goto, vars, callVars, serverVars
<1>8. ASSUME NEW t \in Tests, TestFails(t) PROVE Calling'
    BY <1>8 DEF TestFails, Goto, vars, callVars, serverVars
<1>9. ASSUME NEW t \in Tests, KillReturns(t) PROVE Calling'
    BY <1>9 DEF KillReturns, Goto, serverVars
<1>10. ASSUME NEW e \in Launchers, ExecutorStep(e) PROVE Calling'
    <2>1. UNCHANGED <<call, exec, up, handler>>
        BY <1>10
        DEF ExecutorStep, CommandSent, CommandFails, StatusReceived, RecvFails,
            Destroy, DestroyFails, Replies, Restarts, Boot, Registers,
            RegisterAwaited, RegisterBlocks, RegisterUnblocks, RegisterUnexpected,
            Listens, vars, callVars, serverVars
    <2>2. QED
        BY <1>1, <2>1
<1>11. CASE LaunchStep
    <2> USE <1>11 DEF LaunchStep, ltVars, serverVars
    <2>1. ASSUME NEW t \in Tests, CollectExecutor(t) PROVE Calling'
        BY <2>1 DEF CollectExecutor
    <2>2. ASSUME NEW t \in Tests, CollectClosed(t) PROVE Calling'
        BY <2>2 DEF CollectClosed
    <2>3. ASSUME NEW t \in Tests, CollectError(t) PROVE Calling'
        BY <2>3 DEF CollectError
    <2>4. ASSUME NEW t \in Tests, CollectCtxDone(t) PROVE Calling'
        BY <2>4 DEF CollectCtxDone
    <2>5. ASSUME NEW t \in Tests, ClientCancels(t) PROVE Calling'
        BY <1>1, <2>5 DEF ClientCancels
    <2>6. ASSUME NEW g \in Launchers, Join(g) PROVE Calling'
        BY <1>1, <2>6 DEF Join
    <2>7. CASE ListDroplets \/ CleanupFails \/ Serve
        BY <2>7 DEF ListDroplets, CleanupFails, Serve, callVars
    <2>8. CASE UNCHANGED <<call, exec, up>>
        BY <1>1, <2>8
    <2>9. QED
        BY NoticeableLaunchSteps, <2>1, <2>2, <2>3, <2>4, <2>5, <2>6, <2>7, <2>8
        DEF Collect
<1>12. CASE Dies
    BY <1>12 DEF Dies, Crash, GetFails, ProcessDies, Handlers, Calls
<1>13. CASE UNCHANGED allVars
    BY <1>1, <1>13 DEF allVars, vars, callVars, serverVars, ltVars
<1>14. QED
    BY <1>2, <1>3, <1>4, <1>5, <1>6, <1>7, <1>8, <1>9, <1>10, <1>11, <1>12, <1>13
    DEF LTNext, HandlerStep

-----------------------------------------------------------------------------
\* Sequences of answers, a phase longer.
LEMMA OneWord == \A a : Append(<<>>, a) = <<a>>
  OBVIOUS

\* Sequences of answers, a phase longer.
LEMMA TwoWords == \A a, b : Append(<<a>>, b) = <<a, b>>
<1> TAKE a, b
<1>1. <<a>> \in Seq({a, b}) /\ <<a, b>> \in Seq({a, b})
    OBVIOUS
<1>2. Append(<<a>>, b) \in Seq({a, b}) /\ Len(Append(<<a>>, b)) = 2
    BY <1>1
<1>3. \A i \in 1 .. 2 : Append(<<a>>, b)[i] = <<a, b>>[i]
    BY <1>1
<1>4. QED
    BY <1>1, <1>2, <1>3, SeqEqual

\* Sequences of answers, a phase longer.
LEMMA ThreeWords == \A a, b, c : Append(<<a, b>>, c) = <<a, b, c>>
<1> TAKE a, b, c
<1>1. <<a, b>> \in Seq({a, b, c}) /\ <<a, b, c>> \in Seq({a, b, c})
    OBVIOUS
<1>2. Append(<<a, b>>, c) \in Seq({a, b, c}) /\ Len(Append(<<a, b>>, c)) = 3
    BY <1>1
<1>3. \A i \in 1 .. 3 : Append(<<a, b>>, c)[i] = <<a, b, c>>[i]
    BY <1>1
<1>4. QED
    BY <1>1, <1>2, <1>3, SeqEqual

\* Every step keeps Telling: each answer of the handler (server.go 72, 110, 127
\* and the error paths 98 to 124) follows the one the protocol puts before it.
LEMMA TellingStep ==
  /\ handler \in [Tests -> Handlers] /\ answers \in [Tests -> Seq(Phases)]
  /\ Telling /\ [LTNext]_allVars
  => Telling'
<1> SUFFICES ASSUME handler \in [Tests -> Handlers], answers \in [Tests -> Seq(Phases)],
                    Telling, [LTNext]_allVars
             PROVE  Telling'
    OBVIOUS
<1> USE DEF Telling
<1>1. ASSUME UNCHANGED <<handler, answers>> PROVE Telling'
    BY <1>1
<1>2. ASSUME NEW t \in Tests, RefuseTest(t) PROVE Telling'
    BY <1>2 DEF RefuseTest, Goto
<1>3. ASSUME NEW t \in Tests, BeginTest(t) PROVE Telling'
    BY <1>3, OneWord DEF BeginTest, Goto, Answer
<1>4. ASSUME NEW t \in Tests, LaunchFailed(t) PROVE Telling'
    BY <1>4 DEF LaunchFailed, Goto
<1>5. ASSUME NEW t \in Tests, Launched(t) PROVE Telling'
    BY <1>5 DEF Launched, Goto
<1>6. ASSUME NEW t \in Tests, CommandsSent(t) PROVE Telling'
    BY <1>6, TwoWords DEF CommandsSent, Goto, Answer
<1>7. ASSUME NEW t \in Tests, Completed(t) PROVE Telling'
    <2>1. answers'[t] = <<"Preparing", "Started", "Finished">>
        BY <1>7, ThreeWords DEF Completed, Answer
    <2>2. QED
        BY <1>7, <2>1 DEF Completed, Goto, Answer, Last
<1>8. ASSUME NEW t \in Tests, TestFails(t) PROVE Telling'
    <2>1. answers'[t] \in {<<"Preparing", "Errored">>, <<"Preparing", "Started", "Errored">>}
        <3>1. CASE handler[t] = "commanding"
            BY <1>8, <3>1, TwoWords DEF TestFails, Answer
        <3>2. CASE handler[t] = "waiting"
            BY <1>8, <3>2, ThreeWords DEF TestFails, Answer
        <3>3. QED
            BY <1>8, <3>1, <3>2 DEF TestFails
    <2>2. QED
        BY <1>8, <2>1 DEF TestFails, Goto, Answer, Last
<1>9. ASSUME NEW t \in Tests, KillReturns(t) PROVE Telling'
    BY <1>9 DEF KillReturns, Goto
<1>10. ASSUME NEW e \in Launchers, ExecutorStep(e) PROVE Telling'
    BY <1>1, <1>10
    DEF ExecutorStep, CommandSent, CommandFails, StatusReceived, RecvFails,
        Destroy, DestroyFails, Replies, Restarts, Registers, Listens
<1>11. CASE LaunchStep
    BY <1>1, <1>11 DEF LaunchStep, ltVars
<1>12. CASE Dies
    BY <1>12 DEF Dies, Handlers
<1>13. CASE UNCHANGED allVars
    BY <1>1, <1>13 DEF allVars, ltVars
<1>14. QED
    BY <1>2, <1>3, <1>4, <1>5, <1>6, <1>7, <1>8, <1>9, <1>10, <1>11, <1>12, <1>13
    DEF LTNext, HandlerStep

\* Every step keeps the types of what LoadTest adds to Launch.
LEMMA LTTypeStep ==
  LTTypeOK /\ TypeOK' /\ Telling' /\ [LTNext]_allVars => LTTypeOK'
<1> SUFFICES ASSUME LTTypeOK, TypeOK', Telling', [LTNext]_allVars
             PROVE  LTTypeOK'
    OBVIOUS
<1> USE DEF LTTypeOK
<1> DEFINE T == /\ handler' \in [Tests -> Handlers]
                /\ answers' \in [Tests -> Seq(Phases)]
           E == /\ jobs' \in [Kinds -> [Launchers -> {"none", "running", "ok", "error"}]]
                /\ executord' \in [Launchers ->
                                      {"off", "registering", "accepted", "listening"}]
                /\ run' \in [Launchers -> {"none", "running", "replied", "broken"}]
                /\ status' \in [Launchers -> {"none", "OK", "Invalid"}]
<1>1. ASSUME T PROVE \A t \in Tests : Len(answers'[t]) <= 3
    <2> SUFFICES ASSUME NEW t \in Tests PROVE Len(answers'[t]) <= 3
        OBVIOUS
    <2>1. \A s \in Last \cup {<<>>, <<"Preparing">>, <<"Preparing", "Started">>} : Len(s) <= 3
        <3>1. /\ Len(<<>>) <= 3 /\ Len(<<"Preparing">>) <= 3
              /\ Len(<<"Preparing", "Started">>) <= 3
              /\ Len(<<"Preparing", "Errored">>) <= 3
              /\ Len(<<"Preparing", "Started", "Errored">>) <= 3
              /\ Len(<<"Preparing", "Started", "Finished">>) <= 3
            OBVIOUS
        <3>2. QED
            BY <3>1, Zenon DEF Last
    <2>2. answers'[t] \in Last \cup {<<>>, <<"Preparing">>, <<"Preparing", "Started">>}
        BY <1>1 DEF Telling, Handlers
    <2>3. QED
        BY <2>1, <2>2
<1>2. T /\ E
    <2>1. ASSUME NEW t \in Tests, HandlerStep(t) PROVE T /\ E
        <3>1. CASE RefuseTest(t) \/ LaunchFailed(t) \/ KillReturns(t)
            BY <3>1 DEF RefuseTest, LaunchFailed, KillReturns, Goto, Handlers
        <3>2. CASE BeginTest(t)
            BY <3>2 DEF BeginTest, Goto, Answer, Handlers, Phases
        <3>3. CASE Launched(t)
            BY <3>3 DEF Launched, Goto, EachStarts, Handlers, Kinds
        <3>4. CASE CommandsSent(t)
            BY <3>4 DEF CommandsSent, Goto, Answer, EachStarts, Handlers, Phases, Kinds
        <3>5. CASE Completed(t)
            BY <3>5 DEF Completed, Goto, Answer, EachStarts, Handlers, Phases, Kinds
        <3>6. CASE TestFails(t)
            BY <3>6 DEF TestFails, Goto, Answer, EachStarts, Handlers, Phases, Kinds
        <3>7. QED
            BY <2>1, <3>1, <3>2, <3>3, <3>4, <3>5, <3>6 DEF HandlerStep
    <2>2. ASSUME NEW e \in Launchers, ExecutorStep(e) PROVE T /\ E
        <3>1. CASE CommandSent(e)
            BY <3>1 DEF CommandSent, JobEnds, Kinds
        <3>2. CASE CommandFails(e)
            BY <3>2 DEF CommandFails, JobEnds, Kinds
        <3>3. CASE StatusReceived(e)
            BY <3>3 DEF StatusReceived, JobEnds, Kinds
        <3>4. CASE RecvFails(e)
            BY <3>4 DEF RecvFails, JobEnds, Kinds
        <3>5. CASE Destroy(e) \/ DestroyFails(e)
            BY <3>5 DEF Destroy, DestroyFails, JobEnds, Kinds
        <3>6. CASE Replies(e)
            BY <3>6 DEF Replies
        <3>7. CASE Restarts(e) \/ Registers(e) \/ Listens(e)
            BY <3>7 DEF Restarts, Registers, Listens
        <3>8. QED
            BY <2>2, <3>1, <3>2, <3>3, <3>4, <3>5, <3>6, <3>7 DEF ExecutorStep
    <2>3. CASE LaunchStep
        BY <2>3 DEF LaunchStep, ltVars
    <2>4. CASE Dies
        BY <2>4 DEF Dies, Handlers
    <2>5. CASE UNCHANGED allVars
        BY <2>5 DEF allVars, ltVars
    <2>6. QED
        BY <2>1, <2>2, <2>3, <2>4, <2>5 DEF LTNext
<1>3. QED
    BY <1>1, <1>2

\* Every step keeps Working: a goroutine of each (db.go 365 to 391) that goes on
\* after each has returned belongs to a call that is over or being killed.
LEMMA WorkingStep ==
  IInv /\ LTTypeOK /\ Calling /\ Telling /\ Telling' /\ Working /\ [LTNext]_allVars
  => Working'
<1> SUFFICES ASSUME IInv, LTTypeOK, Calling, Telling, Telling', Working, [LTNext]_allVars
             PROVE  Working'
    OBVIOUS
<1> USE DEF LTTypeOK, TypeOK, Working
<1>0. \A t \in Tests : \A e \in exec[t] : e \in Launchers /\ TestOf[e] = t
    BY DEF IInv, Results, LaunchersOf
<1>a. \A e \in Launchers : TestOf[e] \in Tests
    BY LaunchAssumption DEF LaunchAssumption
<1>b. Kinds = {"execute", "wait", "kill"}
    BY DEF Kinds
<1>1. ASSUME UNCHANGED <<exec, ctxDone, handler, answers, jobs, run>> PROVE Working'
    BY <1>1
<1>2. ASSUME NEW t \in Tests, RefuseTest(t) PROVE Working'
    BY <1>a, <1>2 DEF RefuseTest, Goto, vars, callVars
<1>3. ASSUME NEW t \in Tests, BeginTest(t) PROVE Working'
    BY <1>a, <1>b, <1>3 DEF BeginTest, Request, Goto, Answer
<1>4. ASSUME NEW t \in Tests, LaunchFailed(t) PROVE Working'
    BY <1>a, <1>4 DEF LaunchFailed, Goto
<1>5. ASSUME NEW t \in Tests, Launched(t) PROVE Working'
    BY <1>0, <1>a, <1>b, <1>5 DEF Launched, Goto, EachStarts, vars, callVars
<1>6. ASSUME NEW t \in Tests, CommandsSent(t) PROVE Working'
    BY <1>0, <1>a, <1>b, <1>6
    DEF CommandsSent, EachReturnsNil, Goto, Answer, EachStarts, vars, callVars
<1>7. ASSUME NEW t \in Tests, Completed(t) PROVE Working'
    BY <1>0, <1>a, <1>b, <1>7
    DEF Completed, Goto, Answer, EachStarts, Telling, vars, callVars
<1>8. ASSUME NEW t \in Tests, TestFails(t) PROVE Working'
    BY <1>0, <1>a, <1>b, <1>8
    DEF TestFails, Goto, Answer, EachStarts, Telling, vars, callVars
<1>9. ASSUME NEW t \in Tests, KillReturns(t) PROVE Working'
    BY <1>a, <1>9 DEF KillReturns, Goto
<1>10. ASSUME NEW e \in Launchers, ExecutorStep(e) PROVE Working'
    <2> USE DEF vars, callVars, JobEnds
    <2>1. CASE CommandSent(e)
        BY <1>a, <1>b, <2>1 DEF CommandSent
    <2>2. CASE CommandFails(e)
        BY <1>a, <1>b, <2>2 DEF CommandFails
    <2>3. CASE StatusReceived(e)
        BY <1>a, <1>b, <2>3 DEF StatusReceived
    <2>4. CASE RecvFails(e)
        BY <1>a, <1>b, <2>4 DEF RecvFails
    <2>5. CASE Destroy(e)
        BY <1>a, <1>b, <2>5 DEF Destroy
    <2>6. CASE DestroyFails(e)
        BY <1>a, <1>b, <2>6 DEF DestroyFails
    <2>7. CASE Replies(e)
        BY <1>a, <2>7 DEF Replies
    <2>8. CASE Restarts(e)
        BY <1>a, <2>8 DEF Restarts, Boot
    <2>9. CASE Registers(e)
        BY <1>1, <2>9
        DEF Registers, RegisterAwaited, RegisterBlocks, RegisterUnblocks,
            RegisterUnexpected
    <2>10. CASE Listens(e)
        BY <1>1, <2>10 DEF Listens
    <2>11. QED
        BY <1>10, <2>1, <2>2, <2>3, <2>4, <2>5, <2>6, <2>7, <2>8, <2>9, <2>10
        DEF ExecutorStep
<1>11. CASE LaunchStep
    <2> USE <1>11 DEF LaunchStep, ltVars
    <2>1. ASSUME NEW t \in Tests, Collect(t) PROVE Working'
        <3>1. handler[t] = "launching" /\ UNCHANGED ctxDone
              /\ \A s \in Tests \ {t} : exec'[s] = exec[s]
            BY <2>1
            DEF Collect, CollectExecutor, CollectClosed, CollectError, CollectCtxDone,
                Calling
        <3>2. \A e \in Launchers : \A k \in Kinds :
                jobs[k][e] = "running" => exec'[TestOf[e]] = exec[TestOf[e]]
            BY <1>a, <3>1
        <3>3. QED
            BY <1>a, <1>b, <3>1, <3>2
    <2>2. ASSUME NEW t \in Tests, ClientCancels(t) PROVE Working'
        BY <1>a, <2>2 DEF ClientCancels
    <2>3. CASE UNCHANGED <<exec, ctxDone>>
        BY <1>1, <2>3
    <2>4. QED
        BY NoticeableLaunchSteps, <2>1, <2>2, <2>3
        DEF Join, ListDroplets, CleanupFails, Serve, callVars
<1>12. CASE Dies
    BY <1>a, <1>b, <1>12 DEF Dies, Handlers
<1>13. CASE UNCHANGED allVars
    BY <1>1, <1>13 DEF allVars, vars, callVars, ltVars
<1>14. QED
    BY <1>2, <1>3, <1>4, <1>5, <1>6, <1>7, <1>8, <1>9, <1>10, <1>11, <1>12, <1>13
    DEF LTNext, HandlerStep

\* Every step keeps Joined: the port that a launcher receives (db.go 118) was
\* handed over by a registration that has returned.
LEMMA JoinedStep ==
  IInv /\ Joined /\ [LTNext]_allVars => Joined'
<1> SUFFICES ASSUME IInv, Joined, [LTNext]_allVars
             PROVE  Joined'
    OBVIOUS
<1> USE DEF Joined
<1>a. TypeOK
    BY DEF IInv
<1>b. \A e \in Launchers : TestOf[e] \in Tests
    BY LaunchAssumption DEF LaunchAssumption
<1>1. ASSUME UNCHANGED <<exec, executorc, regs, boots>> PROVE Joined'
    BY <1>1
<1>2. ASSUME NEW t \in Tests, HandlerStep(t) PROVE Joined'
    BY <1>1, <1>2
    DEF HandlerStep, RefuseTest, BeginTest, Request, LaunchFailed, Launched,
        CommandsSent, Completed, TestFails, KillReturns, vars, callVars, regVars,
        cloudVars
<1>3. ASSUME NEW e \in Launchers, ExecutorStep(e) PROVE Joined'
    <2> USE DEF TypeOK, vars, callVars, regVars, cloudVars
    <2>1. CASE Restarts(e)
        BY <1>a, <2>1 DEF Restarts, Boot
    <2>2. CASE Registers(e)
        BY <1>a, <2>2
        DEF Registers, RegisterAwaited, RegisterBlocks, RegisterUnblocks,
            RegisterUnexpected
    <2>3. QED
        BY <1>1, <1>3, <2>1, <2>2
        DEF ExecutorStep, CommandSent, CommandFails, StatusReceived, RecvFails,
            Destroy, DestroyFails, Replies, Listens
<1>4. CASE LaunchStep
    <2> USE DEF TypeOK, regVars, cloudVars
    <2>1. ASSUME NEW t \in Tests, CollectExecutor(t) PROVE Joined'
        BY <1>a, <1>b, <2>1 DEF CollectExecutor
    <2>2. ASSUME NEW t \in Tests, CollectClosed(t) PROVE Joined'
        BY <1>1, <2>2 DEF CollectClosed
    <2>3. ASSUME NEW t \in Tests, CollectError(t) PROVE Joined'
        BY <1>a, <1>b, <2>3 DEF CollectError
    <2>4. ASSUME NEW t \in Tests, CollectCtxDone(t) PROVE Joined'
        BY <1>a, <1>b, <2>4 DEF CollectCtxDone
    <2>5. ASSUME NEW g \in Launchers, Join(g) PROVE Joined'
        <3>1. regs[g] < boots[g]
            BY <1>a, <2>5 DEF Join, IInv, Ports, One
        <3>2. QED
            BY <1>a, <1>b, <2>5, <3>1 DEF Join
    <2>6. QED
        BY <1>1, <1>4, <2>1, <2>2, <2>3, <2>4, <2>5, NoticeableLaunchSteps
        DEF Collect, ClientCancels, ListDroplets, CleanupFails, Serve, callVars
<1>5. CASE Dies
    BY <1>b, <1>5 DEF Dies, Crash, GetFails, ProcessDies
<1>6. CASE UNCHANGED allVars
    BY <1>1, <1>6 DEF allVars, vars, callVars, regVars, cloudVars
<1>7. QED
    BY <1>2, <1>3, <1>4, <1>5, <1>6 DEF LTNext

-----------------------------------------------------------------------------
\* Which phases the client has been told, from the sequence of its answers.
LEMMA Words ==
  ASSUME NEW s
  PROVE  /\ s = <<>> => \A i \in DOMAIN s : FALSE
         /\ s = <<"Preparing">> => \A i \in DOMAIN s : s[i] = "Preparing"
         /\ s = <<"Preparing", "Started">> =>
              \A i \in DOMAIN s : s[i] \in {"Preparing", "Started"}
         /\ s = <<"Preparing", "Errored">> =>
              /\ \E i \in DOMAIN s : s[i] = "Errored"
              /\ \A i \in DOMAIN s : s[i] \in {"Preparing", "Errored"}
         /\ s = <<"Preparing", "Started", "Errored">> =>
              /\ \E i \in DOMAIN s : s[i] = "Errored"
              /\ \A i \in DOMAIN s : s[i] \in {"Preparing", "Started", "Errored"}
         /\ s = <<"Preparing", "Started", "Finished">> =>
              /\ \E i \in DOMAIN s : s[i] = "Finished"
              /\ \A i \in DOMAIN s : s[i] \in {"Preparing", "Started", "Finished"}
<1>1. s = <<>> => \A i \in DOMAIN s : FALSE
    OBVIOUS
<1>2. s = <<"Preparing">> => \A i \in DOMAIN s : s[i] = "Preparing"
    OBVIOUS
<1>3. s = <<"Preparing", "Started">> =>
        \A i \in DOMAIN s : s[i] \in {"Preparing", "Started"}
    OBVIOUS
<1>4. ASSUME s = <<"Preparing", "Errored">>
      PROVE  /\ \E i \in DOMAIN s : s[i] = "Errored"
             /\ \A i \in DOMAIN s : s[i] \in {"Preparing", "Errored"}
    <2>1. 2 \in DOMAIN s /\ s[2] = "Errored"
        BY <1>4
    <2>2. QED
        BY <1>4, <2>1
<1>5. ASSUME s = <<"Preparing", "Started", "Errored">>
      PROVE  /\ \E i \in DOMAIN s : s[i] = "Errored"
             /\ \A i \in DOMAIN s : s[i] \in {"Preparing", "Started", "Errored"}
    <2>1. 3 \in DOMAIN s /\ s[3] = "Errored"
        BY <1>5
    <2>2. QED
        BY <1>5, <2>1
<1>6. ASSUME s = <<"Preparing", "Started", "Finished">>
      PROVE  /\ \E i \in DOMAIN s : s[i] = "Finished"
             /\ \A i \in DOMAIN s : s[i] \in {"Preparing", "Started", "Finished"}
    <2>1. 3 \in DOMAIN s /\ s[3] = "Finished"
        BY <1>6
    <2>2. QED
        BY <1>6, <2>1
<1>7. QED
    BY <1>1, <1>2, <1>3, <1>4, <1>5, <1>6

\* A phase that is told after an answer was told before it, or is that answer.
LEMMA ToldMore ==
  ASSUME NEW s \in Seq(Phases), NEW x \in Phases, NEW w,
         \E i \in DOMAIN Append(s, x) : Append(s, x)[i] = w
  PROVE  w = x \/ \E i \in DOMAIN s : s[i] = w
<1>1. PICK i \in DOMAIN Append(s, x) : Append(s, x)[i] = w
    OBVIOUS
<1>2. i \in 1 .. Len(s) + 1 /\ DOMAIN s = 1 .. Len(s) /\ Len(s) \in Nat
    BY <1>1, AppendProperties, LenProperties
<1>3. QED
    BY <1>1, <1>2, AppendProperties

\* Every step keeps AnswersAreEarned: each (db.go 365 to 391) returns nil only when
\* all its goroutines have ended without an error.
LEMMA EarnedStep ==
  /\ IInv /\ LTTypeOK /\ Calling /\ Telling /\ Working
  /\ AnswersAreEarned /\ [LTNext]_allVars
  => AnswersAreEarned'
<1> SUFFICES ASSUME IInv, LTTypeOK, Calling, Telling, Working, AnswersAreEarned,
                    [LTNext]_allVars
             PROVE  AnswersAreEarned'
    OBVIOUS
<1> USE DEF LTTypeOK, TypeOK
<1>a. \A t \in Tests : \A e \in exec[t] : e \in Launchers /\ TestOf[e] = t
    BY DEF IInv, Results, LaunchersOf
<1>1. ASSUME UNCHANGED <<exec, answers>>,
             \A e \in Launchers : /\ run[e] # "none" => run'[e] # "none"
                                  /\ run[e] = "replied" => run'[e] = "replied"
      PROVE  AnswersAreEarned'
    BY <1>1 DEF AnswersAreEarned, Told
<1>2. ASSUME NEW t \in Tests, NEW x \in Phases, Answer(t, x), UNCHANGED <<exec, run>>,
             x = "Started" => \A e \in exec[t] : run[e] # "none",
             x = "Finished" => \A e \in exec[t] : run[e] = "replied"
      PROVE  AnswersAreEarned'
    <2> SUFFICES ASSUME NEW s \in Tests, NEW e \in exec[s], NEW w, Told(s, w)'
                 PROVE  /\ w = "Started" => run[e] # "none"
                        /\ w = "Finished" => run[e] = "replied"
        BY <1>2 DEF AnswersAreEarned
    <2>1. CASE s # t
        <3>1. answers'[s] = answers[s]
            BY <1>2, <2>1 DEF Answer
        <3>2. Told(s, w)
            BY <3>1 DEF Told
        <3>3. QED
            BY <3>2 DEF AnswersAreEarned
    <2>2. CASE s = t
        <3>1. answers'[t] = Append(answers[t], x) /\ answers[t] \in Seq(Phases)
            BY <1>2 DEF Answer
        <3>2. w = x \/ Told(t, w)
            BY <2>2, <3>1, ToldMore DEF Told
        <3>3. QED
            BY <1>2, <2>2, <3>2 DEF AnswersAreEarned
    <2>3. QED
        BY <2>1, <2>2
<1>3. ASSUME NEW t \in Tests, HandlerStep(t) PROVE AnswersAreEarned'
    <2> USE DEF vars, callVars, Phases
    <2>1. CASE RefuseTest(t) \/ LaunchFailed(t) \/ Launched(t) \/ KillReturns(t)
        BY <1>1, <2>1 DEF RefuseTest, LaunchFailed, Launched, KillReturns
    <2>2. CASE BeginTest(t)
        BY <1>2, <2>2 DEF BeginTest, Request
    <2>3. CASE CommandsSent(t)
        <3>1. \A e \in exec[t] : run[e] # "none"
            BY <1>a, <2>3 DEF CommandsSent, EachReturnsNil, Working
        <3>2. QED
            BY <1>2, <2>3, <3>1 DEF CommandsSent
    <2>4. CASE Completed(t)
        <3>1. \A e \in exec[t] : run[e] = "replied"
            BY <1>a, <2>4 DEF Completed, EachReturnsNil, Working
        <3>2. QED
            BY <1>2, <2>4, <3>1 DEF Completed
    <2>5. CASE TestFails(t)
        BY <1>2, <2>5 DEF TestFails
    <2>6. QED
        BY <1>3, <2>1, <2>2, <2>3, <2>4, <2>5 DEF HandlerStep
<1>4. ASSUME NEW e \in Launchers, ExecutorStep(e) PROVE AnswersAreEarned'
    <2> USE DEF vars, callVars
    <2>1. CASE CommandSent(e)
        BY <1>1, <2>1 DEF CommandSent, JobEnds, Working
    <2>2. CASE Replies(e)
        BY <1>1, <2>2 DEF Replies
    <2>3. CASE Restarts(e)
        BY <1>1, <2>3 DEF Restarts, Boot
    <2>4. CASE Registers(e)
        BY <1>1, <2>4
        DEF Registers, RegisterAwaited, RegisterBlocks, RegisterUnblocks,
            RegisterUnexpected
    <2>5. QED
        BY <1>1, <1>4, <2>1, <2>2, <2>3, <2>4
        DEF ExecutorStep, CommandFails, StatusReceived, RecvFails, Destroy,
            DestroyFails, Listens
<1>5. CASE LaunchStep
    <2> USE <1>5 DEF LaunchStep, ltVars
    <2>1. ASSUME NEW t \in Tests, Collect(t) PROVE AnswersAreEarned'
        <3>1. call[t] = "launching" /\ \A s \in Tests \ {t} : exec'[s] = exec[s]
            BY <2>1
            DEF Collect, CollectExecutor, CollectClosed, CollectError, CollectCtxDone
        <3>2. ~ Told(t, "Started") /\ ~ Told(t, "Finished")
            <4>1. answers[t] = <<"Preparing">>
                BY <3>1 DEF Calling, Telling
            <4>2. \A i \in DOMAIN answers[t] : answers[t][i] = "Preparing"
                BY <4>1, Words
            <4>3. QED
                BY <4>2 DEF Told
        <3>3. QED
            <4>1. \A s \in Tests : \A w : Told(s, w)' <=> Told(s, w)
                BY DEF Told
            <4>2. UNCHANGED run
                OBVIOUS
            <4>3. QED
                BY <3>1, <3>2, <4>1, <4>2 DEF AnswersAreEarned
    <2>2. CASE UNCHANGED exec
        BY <1>1, <2>2
    <2>3. QED
        BY NoticeableLaunchSteps, <2>1, <2>2
        DEF ClientCancels, Join, ListDroplets, CleanupFails, Serve, callVars
<1>6. CASE Dies
    BY <1>6 DEF Dies, Crash, GetFails, ProcessDies, AnswersAreEarned
<1>7. CASE UNCHANGED allVars
    BY <1>1, <1>7 DEF allVars, vars, callVars, ltVars
<1>8. QED
    BY <1>3, <1>4, <1>5, <1>6, <1>7 DEF LTNext

-----------------------------------------------------------------------------
\* Initially no test has begun and no droplet exists.
LEMMA LTInitInv == LTInit => LTInv
<1> SUFFICES ASSUME LTInit PROVE LTInv
    OBVIOUS
<1>1. IInv
    BY InitIInv DEF LTInit
<1>2. LTTypeOK
    BY <1>1 DEF LTInit, LTTypeOK, IInv, Handlers
<1>3. Calling
    BY DEF LTInit, Init, Calling
<1>4. Telling
    BY DEF LTInit, Telling
<1>5. Working
    BY LaunchAssumption DEF LTInit, Working, Kinds, LaunchAssumption
<1>6. Joined
    BY LaunchAssumption DEF LTInit, Init, Joined, LaunchAssumption
<1>7. AnswersAreEarned
    BY DEF LTInit, Init, AnswersAreEarned
<1>8. QED
    BY <1>1, <1>2, <1>3, <1>4, <1>5, <1>6, <1>7 DEF LTInv

\* Every step keeps the inductive invariant.
LEMMA LTStepInv == LTInv /\ [LTNext]_allVars => LTInv'
<1> SUFFICES ASSUME LTInv, [LTNext]_allVars PROVE LTInv'
    OBVIOUS
<1>1. IInv'
    BY LaunchKept DEF LTInv
<1>2. Calling'
    BY CallingStep DEF LTInv, LTTypeOK
<1>3. Telling'
    BY TellingStep DEF LTInv, LTTypeOK
<1>4. LTTypeOK'
    BY <1>1, <1>3, LTTypeStep DEF LTInv, IInv
<1>5. Working'
    BY <1>3, WorkingStep DEF LTInv
<1>6. Joined'
    BY JoinedStep DEF LTInv
<1>7. AnswersAreEarned'
    BY EarnedStep DEF LTInv
<1>8. QED
    BY <1>1, <1>2, <1>3, <1>4, <1>5, <1>6, <1>7 DEF LTInv

\* The inductive invariant holds in every state the scheduler reaches.
THEOREM LTInvariance == LTSpec => []LTInv
  BY LTInitInv, LTStepInv, PTL DEF LTSpec

\* Every variable keeps the type of the Go value it stands for, and the client is
\* told at most three phases.
THEOREM LTTypeCorrect == LTSpec => []LTTypeOK
<1>1. LTInv => LTTypeOK
    BY DEF LTInv
<1>2. QED
    BY LTInvariance, <1>1, PTL

\* The client is told Started and Finished (server.go 110 and 127) only when all
\* executors of the test were sent Run, and all have replied, whatever fails.
THEOREM TellsTheTruth == LTSpec => []AnswersAreEarned
<1>1. LTInv => AnswersAreEarned
    BY DEF LTInv
<1>2. QED
    BY LTInvariance, <1>1, PTL

\* What Launch promises of the registry and of LaunchExecutors (db.go 71 to 203)
\* holds for the whole scheduler, although killall deletes droplets without db.lock.
THEOREM LaunchPromisesKept ==
  LTSpec => [](RegistryConsistent /\ NoSilentShortfall /\ BlocksOnlyOnReboots)
<1>1. LTInv => RegistryConsistent
    BY DEF LTInv, IInv
<1>2. LTInv => NoSilentShortfall
    BY LaunchAssumption
    DEF LTInv, IInv, TypeOK, Results, NoSilentShortfall, LaunchersOf, LaunchAssumption
<1>3. LTInv => BlocksOnlyOnReboots
    BY DEF LTInv, IInv, TypeOK, Ports, One, BlocksOnlyOnReboots
<1>4. QED
    BY LTInvariance, <1>1, <1>2, <1>3, PTL

\* killall (server.go 87) destroys an executor that still runs the script only after
\* the client was told Errored: after Finished all have replied.
THEOREM SparesTheRunning == LTSpec => KillsRunningOnlyOnError
<1> DEFINE A == \A e \in Launchers :
                  jobs["kill"][e] = "running" /\ jobs'["kill"][e] = "ok" /\ run[e] = "running"
                    => Told(TestOf[e], "Errored")
<1>1. LTInv => A
    <2> SUFFICES ASSUME LTInv, NEW e \in Launchers,
                        jobs["kill"][e] = "running", run[e] = "running"
                 PROVE  Told(TestOf[e], "Errored")
        OBVIOUS
    <2>1. e \in exec[TestOf[e]] /\ answers[TestOf[e]] \in Last
        BY DEF LTInv, Working
    <2>2. ~ Told(TestOf[e], "Finished")
        BY <2>1, LaunchAssumption DEF LTInv, AnswersAreEarned, LaunchAssumption
    <2>3. answers[TestOf[e]] # <<"Preparing", "Started", "Finished">>
        BY <2>2, Words DEF Told
    <2>4. QED
        BY <2>1, <2>3, Words DEF Last, Told
<1>2. QED
    BY LTInvariance, <1>1, PTL DEF LTSpec, KillsRunningOnlyOnError

\* While the handler commands its executors or waits for them, the scheduler destroys
\* none of them but one whose executord was started again (db.go 195 to 199).
THEOREM OnlyRestartsDestroy == LTSpec => NobodyElseDestroys
<1> DEFINE A == \A t \in Tests : \A e \in exec[t] :
                  handler[t] \in {"commanding", "waiting"} /\ e \in cloud /\ e \notin cloud'
                    => boots[e] >= 2
<1>1. LTInv /\ [LTNext]_allVars => [A]_allVars
    <2> SUFFICES ASSUME LTInv, [LTNext]_allVars, NEW t \in Tests, NEW e \in exec[t],
                        handler[t] \in {"commanding", "waiting"},
                        e \in cloud, e \notin cloud'
                 PROVE  boots[e] >= 2
        OBVIOUS
    <2>1. e \in Launchers /\ TestOf[e] = t /\ TypeOK
        BY DEF LTInv, IInv, TypeOK, Results, LaunchersOf
    <2>2. up = "serving"
        BY DEF LTInv, Calling
    <2>3. ~ Destroy(e)
        BY <2>1 DEF Destroy, JobEnds, LTInv, Working
    <2>4. RegisterUnexpected(e)
        <3> USE DEF vars, cloudVars
        <3>1. ASSUME NEW s \in Tests, HandlerStep(s) PROVE FALSE
            BY <3>1
            DEF HandlerStep, RefuseTest, BeginTest, Request, LaunchFailed, Launched,
                CommandsSent, Completed, TestFails, KillReturns
        <3>2. ASSUME NEW d \in Launchers, ExecutorStep(d) PROVE RegisterUnexpected(e)
            BY <2>3, <3>2
            DEF ExecutorStep, CommandSent, CommandFails, StatusReceived, RecvFails,
                Destroy, DestroyFails, Replies, Restarts, Boot, Registers,
                RegisterAwaited, RegisterBlocks, RegisterUnblocks, RegisterUnexpected,
                Listens
        <3>3. CASE LaunchStep
            BY <2>2, <3>3
            DEF LaunchStep, CloseExecutorc, Collect, CollectExecutor, CollectClosed,
                CollectError, CollectCtxDone, ClientCancels, LockAndCreate,
                CreateReturns, CreateFails, ReceivePort, WaitCtxDone, Join, NoAddress,
                Remove, CloudCreates, CleanupDeletes, ListDroplets, CleanupFails, Serve
        <3>4. CASE Dies
            BY <3>4 DEF Dies, Crash, GetFails, ProcessDies
        <3>5. CASE UNCHANGED allVars
            BY <3>5 DEF allVars
        <3>6. QED
            BY <3>1, <3>2, <3>3, <3>4, <3>5 DEF LTNext
    <2>5. QED
        BY <2>1, <2>4 DEF RegisterUnexpected, LTInv, Joined, TypeOK
<1>2. QED
    BY LTInvariance, <1>1, PTL DEF LTSpec, NobodyElseDestroys

-----------------------------------------------------------------------------
\* Every step keeps AllKilled: no goroutine of killall (db.go 256 to 263, 365 to 391)
\* ends without having deleted its droplet or failed to, and a droplet that has
\* joined is not created a second time.
LEMMA KilledStep ==
  LTInv /\ AllKilled /\ [LTNext]_allVars => AllKilled'
<1> SUFFICES ASSUME LTInv, AllKilled, [LTNext]_allVars
             PROVE  AllKilled'
    OBVIOUS
<1> USE DEF AllKilled
<1>t. LTTypeOK /\ TypeOK
    BY DEF LTInv, LTTypeOK
<1>a. \A t \in Tests : \A e \in exec[t] : e \in Launchers /\ TestOf[e] = t
    BY DEF LTInv, IInv, Results, LaunchersOf
<1>b. Kinds = {"execute", "wait", "kill"}
    BY DEF Kinds
<1>1. ASSUME UNCHANGED <<exec, handler, jobs>>, cloud' \subseteq cloud
      PROVE  AllKilled'
    BY <1>1
<1>2. ASSUME NEW t \in Tests, HandlerStep(t) PROVE AllKilled'
    <2> USE <1>t DEF LTTypeOK, TypeOK, vars, callVars, cloudVars, Goto
    <2>1. CASE RefuseTest(t)
        BY <2>1 DEF RefuseTest, LTInv, Calling
    <2>2. CASE BeginTest(t)
        BY <2>2 DEF BeginTest, Request
    <2>3. CASE LaunchFailed(t)
        BY <2>3 DEF LaunchFailed, LTInv, Calling
    <2>4. CASE Launched(t)
        BY <1>b, <2>4 DEF Launched, EachStarts
    <2>5. CASE CommandsSent(t)
        BY <1>b, <2>5 DEF CommandsSent, EachStarts
    <2>6. CASE Completed(t) \/ TestFails(t)
        <3>1. /\ UNCHANGED <<exec, cloud>>
              /\ \A s \in Tests \ {t} : handler'[s] = handler[s]
            BY <2>6 DEF Completed, TestFails
        <3>2. EachStarts("kill", t)
            BY <2>6 DEF Completed, TestFails
        <3>3. \A e \in Launchers :
                jobs'["kill"][e] = IF e \in exec[t] THEN "running" ELSE jobs["kill"][e]
            BY <1>b, <3>2 DEF EachStarts
        <3>4. QED
            BY <1>a, <3>1, <3>3
    <2>7. CASE KillReturns(t)
        BY <2>7 DEF KillReturns
    <2>8. QED
        BY <1>2, <2>1, <2>2, <2>3, <2>4, <2>5, <2>6, <2>7 DEF HandlerStep
<1>3. ASSUME NEW e \in Launchers, ExecutorStep(e) PROVE AllKilled'
    <2> USE <1>t DEF LTTypeOK, TypeOK, vars, callVars, cloudVars, JobEnds
    <2>1. CASE CommandSent(e) \/ CommandFails(e) \/ StatusReceived(e) \/ RecvFails(e)
        <3>1. UNCHANGED <<exec, handler, cloud, jobs["kill"]>>
            BY <1>b, <2>1 DEF CommandSent, CommandFails, StatusReceived, RecvFails
        <3>2. QED
            BY <3>1
    <2>2. CASE Destroy(e)
        BY <1>a, <1>b, <2>2 DEF Destroy
    <2>3. CASE DestroyFails(e)
        BY <1>a, <1>b, <2>3 DEF DestroyFails
    <2>4. CASE Replies(e) \/ Restarts(e) \/ Registers(e) \/ Listens(e)
        BY <1>1, <2>4
        DEF Replies, Restarts, Boot, Registers, RegisterAwaited, RegisterBlocks,
            RegisterUnblocks, RegisterUnexpected, Listens
    <2>5. QED
        BY <1>3, <2>1, <2>2, <2>3, <2>4 DEF ExecutorStep
<1>4. CASE LaunchStep
    <2> USE <1>4 DEF ltVars, callVars, cloudVars
    <2>0. UNCHANGED <<handler, jobs>>
        BY DEF LaunchStep
    <2>1. ASSUME NEW t \in Tests, Collect(t) PROVE AllKilled'
        <3>1. /\ handler[t] = "launching" /\ UNCHANGED cloud
              /\ \A s \in Tests \ {t} : exec'[s] = exec[s]
            BY <1>t, <2>1
            DEF Collect, CollectExecutor, CollectClosed, CollectError, CollectCtxDone,
                LTInv, Calling, TypeOK
        <3>2. QED
            BY <2>0, <3>1
    <2>2. ASSUME NEW g \in Launchers, CloudCreates(g) PROVE AllKilled'
        <3>1. g \in pending /\ boots[g] = 0 /\ UNCHANGED exec /\ cloud' = cloud \cup {g}
            BY <2>2 DEF CloudCreates, LTInv, IInv, Origin
        <3>2. \A t \in Tests : g \notin exec[t]
            BY <1>a, <1>t, <3>1 DEF LTInv, Joined, TypeOK
        <3>3. QED
            BY <2>0, <3>1, <3>2
    <2>3. CASE UNCHANGED exec /\ cloud' \subseteq cloud
        BY <1>1, <2>0, <2>3
    <2>4. QED
        BY <2>1, <2>2, <2>3
        DEF LaunchStep, CloseExecutorc, ClientCancels, LockAndCreate, CreateReturns,
            CreateFails, ReceivePort, WaitCtxDone, Join, NoAddress, Remove,
            CleanupDeletes, ListDroplets, CleanupFails, Serve
<1>5. CASE Dies
    BY <1>5 DEF Dies, Crash, GetFails, ProcessDies
<1>6. CASE UNCHANGED allVars
    BY <1>1, <1>6 DEF allVars, vars, callVars, cloudVars, ltVars
<1>7. QED
    BY <1>2, <1>3, <1>4, <1>5, <1>6 DEF LTNext

\* killall (server.go 87) gives no executor up: from its beginning on each is gone, on
\* its way out, or has had its own deletion fail.
THEOREM GivesNoneUp == LTSpec => []AllKilled
<1>1. LTInit => AllKilled
    BY DEF LTInit, Init, AllKilled
<1>2. LTInv /\ AllKilled /\ [LTNext]_allVars => AllKilled'
    BY KilledStep
<1>3. QED
    BY LTInvariance, <1>1, <1>2, PTL DEF LTSpec

-----------------------------------------------------------------------------
\* Each step of the handler (server.go 64 to 135) is the step of Session of its
\* name, or none.
LEMMA HandlerKeepsSession ==
  ASSUME LTInv, NEW t \in Tests, HandlerStep(t)
  PROVE  [S!Next]_S!sVars
<1> USE DEF LTInv, LTTypeOK, TypeOK
<1>a. \A e \in exec[t] : e \in Launchers /\ TestOf[e] = t
    BY DEF IInv, Results, LaunchersOf
<1>1. CASE RefuseTest(t)
    BY <1>1 DEF RefuseTest, Goto, S!sVars, vars, callVars
<1>2. CASE BeginTest(t)
    <2>1. S!Begin(t)
        BY <1>2 DEF BeginTest, Request, Goto, Answer, S!Begin, S!Tell, Telling
    <2>2. QED
        BY <2>1 DEF S!Next
<1>3. CASE LaunchFailed(t)
    <2>1. exec[t] = {} /\ answers[t] = <<"Preparing">>
        BY <1>3 DEF LaunchFailed, Calling, Telling
    <2>2. S!End(t)
        BY <1>3, <2>1 DEF LaunchFailed, Goto, S!End
    <2>3. QED
        BY <2>2 DEF S!Next
<1>4. CASE Launched(t)
    BY <1>4 DEF Launched, Goto, S!sVars, vars, callVars
<1>5. CASE CommandsSent(t)
    <2>1. \A e \in exec[t] : run[e] # "none"
        BY <1>a, <1>5 DEF CommandsSent, EachReturnsNil, Working
    <2>2. S!Start(t)
        BY <1>a, <1>5, <2>1
        DEF CommandsSent, Goto, Answer, S!Start, S!Tell, Telling, vars, callVars
    <2>3. QED
        BY <2>2 DEF S!Next
<1>6. CASE Completed(t)
    <2>1. \A e \in exec[t] : run[e] = "replied"
        BY <1>a, <1>6 DEF Completed, EachReturnsNil, Working
    <2>2. S!Finish(t)
        BY <1>a, <1>6, <2>1
        DEF Completed, Goto, Answer, S!Finish, S!Tell, Telling, vars, callVars
    <2>3. QED
        BY <2>2 DEF S!Next
<1>7. CASE TestFails(t)
    <2>1. S!Fail(t)
        BY <1>7 DEF TestFails, Goto, Answer, S!Fail, S!Tell, Telling, vars, callVars
    <2>2. QED
        BY <2>1 DEF S!Next
<1>8. CASE KillReturns(t)
    <2>1. answers[t] \in Last
        BY <1>8 DEF KillReturns, Telling
    <2>2. answers[t] # <<"Preparing">> /\ answers[t] # <<"Preparing", "Started">>
        <3>1. /\ \A a, b, c : <<a, b, c>> # <<"Preparing">>
              /\ \A a, b, c : <<a, b, c>> # <<"Preparing", "Started">>
              /\ \A a, b : <<a, b>> # <<"Preparing">>
              /\ <<"Preparing", "Errored">> # <<"Preparing", "Started">>
            OBVIOUS
        <3>2. QED
            BY <2>1, <3>1, Zenon DEF Last
    <2>3. S!End(t)
        BY <1>8, <2>2 DEF KillReturns, Goto, S!End
    <2>4. QED
        BY <2>3 DEF S!Next
<1>9. QED
    BY <1>1, <1>2, <1>3, <1>4, <1>5, <1>6, <1>7, <1>8 DEF HandlerStep

\* Each step of a goroutine of each (db.go 365 to 391) or of an executor is
\* Command, ReplyOf or no step of Session.
LEMMA ExecutorKeepsSession ==
  ASSUME LTInv, NEW e \in Launchers, ExecutorStep(e)
  PROVE  [S!Next]_S!sVars
<1> USE DEF LTInv, LTTypeOK, TypeOK
<1>a. TestOf[e] \in Tests
    BY LaunchAssumption DEF LaunchAssumption
<1>1. CASE CommandSent(e)
    <2>1. /\ run[e] = "none" /\ e \in exec[TestOf[e]]
          /\ handler[TestOf[e]] \in {"commanding", "killing"}
        BY <1>1 DEF CommandSent, JobEnds, Working
    <2>2. S!Command(TestOf[e], e)
        BY <1>a, <1>1, <2>1 DEF CommandSent, S!Command, vars, callVars
    <2>3. QED
        BY <1>a, <2>2 DEF S!Next
<1>2. CASE Replies(e)
    <2>1. S!ReplyOf(e)
        BY <1>2 DEF Replies, S!ReplyOf, vars, callVars
    <2>2. QED
        BY <2>1 DEF S!Next
<1>3. CASE Restarts(e)
    BY <1>3 DEF Restarts, Boot, S!sVars, callVars
<1>4. CASE Registers(e)
    BY <1>4
    DEF Registers, RegisterAwaited, RegisterBlocks, RegisterUnblocks,
        RegisterUnexpected, S!sVars, callVars
<1>5. QED
    BY ExecutorStep(e), <1>1, <1>2, <1>3, <1>4
    DEF ExecutorStep, CommandFails, StatusReceived, RecvFails, Destroy,
        DestroyFails, Listens, S!sVars, vars, callVars

\* Collecting an executor, and giving all of them up, is Gather (db.go 152 to 173);
\* the launch takes no other step that Session sees.
LEMMA LaunchKeepsSession ==
  ASSUME LTInv, LaunchStep
  PROVE  [S!Next]_S!sVars
<1> USE DEF LTInv, LTTypeOK, TypeOK, LaunchStep, ltVars
<1>a. \A t \in Tests : \A e \in exec[t] \cup executorc[t] : e \in Launchers /\ TestOf[e] = t
    BY DEF IInv, Results, LaunchersOf
<1>1. ASSUME NEW t \in Tests, Collect(t), NEW T \in SUBSET Launchers,
             T \subseteq exec[t] \cup executorc[t],
             exec' = [exec EXCEPT ![t] = T]
      PROVE  [S!Next]_S!sVars
    <2>1. handler[t] = "launching"
        BY <1>1
        DEF Collect, CollectExecutor, CollectClosed, CollectError, CollectCtxDone, Calling
    <2>2. \A e \in exec[t] \cup T : run[e] = "none"
        BY <1>a, <1>1, <2>1 DEF Working
    <2>3. S!Gather(t, T)
        BY <1>1, <2>1, <2>2 DEF S!Gather, Telling
    <2>4. QED
        BY <2>3 DEF S!Next
<1>2. ASSUME NEW t \in Tests, Collect(t) PROVE [S!Next]_S!sVars
    <2>1. CASE CollectExecutor(t)
        <3>1. PICK g \in executorc[t] : exec' = [exec EXCEPT ![t] = @ \cup {g}]
            BY <2>1 DEF CollectExecutor
        <3> DEFINE T == exec[t] \cup {g}
        <3>2. /\ T \in SUBSET Launchers /\ T \subseteq exec[t] \cup executorc[t]
              /\ exec' = [exec EXCEPT ![t] = T]
            BY <1>a, <3>1
        <3> HIDE DEF T
        <3>3. QED
            BY <1>1, <1>2, <3>2, Zenon
    <2>2. CASE CollectError(t) \/ CollectCtxDone(t)
        <3>1. exec' = [exec EXCEPT ![t] = {}]
            BY <2>2 DEF CollectError, CollectCtxDone
        <3>2. {} \in SUBSET Launchers /\ {} \subseteq exec[t] \cup executorc[t]
            OBVIOUS
        <3>3. QED
            BY <1>1, <1>2, <3>1, <3>2, Zenon
    <2>3. CASE CollectClosed(t)
        BY <2>3 DEF CollectClosed, S!sVars
    <2>4. QED
        BY <1>2, <2>1, <2>2, <2>3 DEF Collect
<1>3. CASE UNCHANGED exec
    BY <1>3 DEF S!sVars
<1>4. QED
    BY <1>2, <1>3, NoticeableLaunchSteps
    DEF ClientCancels, Join, ListDroplets, CleanupFails, Serve, callVars

\* LoadTest implements Session (server.go 64 to 135): the client is told the phases
\* in order, each one true when it is told and nothing after the last, for every
\* number of executors and every failure.
THEOREM ImplementsSession == LTSpec => KeepsSession
<1>1. LTInit => S!Init
    BY DEF LTInit, Init, S!Init
<1>2. LTInv /\ [LTNext]_allVars => [S!Next]_S!sVars
    <2> SUFFICES ASSUME LTInv, [LTNext]_allVars PROVE [S!Next]_S!sVars
        OBVIOUS
    <2>1. CASE Dies
        <3>1. S!Forget
            BY <2>1 DEF Dies, Crash, GetFails, ProcessDies, S!Forget, LTInv, LTTypeOK
        <3>2. QED
            BY <3>1 DEF S!Next
    <2>2. CASE UNCHANGED allVars
        BY <2>2 DEF allVars, vars, callVars, ltVars, S!sVars
    <2>3. QED
        BY <2>1, <2>2, HandlerKeepsSession, ExecutorKeepsSession, LaunchKeepsSession
        DEF LTNext
<1>3. QED
    BY LTInvariance, <1>1, <1>2, PTL DEF LTSpec, KeepsSession, S!Spec

=============================================================================
