-------------------------- MODULE CommanderProofs ---------------------------
(***************************************************************************)
(* Proofs about Commander, for every number of workers, senders and        *)
(* commands.                                                               *)
(*                                                                         *)
(* Every step of a run is a step of Controller, and so is the close of     *)
(* halt, so that the inductive invariant of ControllerProofs carries over  *)
(* (RunKept).  CInv adds how the run ends (Ending), how the call and its   *)
(* listener are related to it (Listening), what has been answered          *)
(* (Answering), and that every answer has cost a command (Paid).           *)
(***************************************************************************)
EXTENDS Commander, DeliveryProofs, SequenceTheorems

\* The last batch is emptied before the run returns, the run returns with an outcome,
\* and a run that ends was told to.
Ending ==
  /\ pc # "draining" => toClear[0] = {}
  /\ pc = "returned" => outcome # "none"
  /\ pc \in {"stopping", "waiting", "woken", "draining", "returned"} /\ outcome # "invalid"
       => done \/ halt

\* The call, its listener and the run.
Listening ==
  /\ call = "recv" => listener = "none" /\ pc \in {"start", "panicked"}
  /\ call \in {"running", "replied"} => listener # "none"
  /\ call \in {"replied", "returned"} /\ listener # "none" => pc = "returned"
  /\ halt => listener = "ended"
  /\ listener \in {"closing", "ended"} =>
       halted \/ stream # "open" \/ call = "returned"

\* Only one answer of a call that runs a command is a verdict.
Answering ==
  /\ call = "recv" => replies = <<>>
  /\ call = "running" => \A i \in DOMAIN replies : replies[i] = "Invalid"
  /\ listener # "none" =>
       \A i, j \in DOMAIN replies :
         replies[i] # "Invalid" /\ replies[j] # "Invalid" => i = j

\* Every answer, and the command that runs, was paid for with a command.
Paid ==
  Len(replies) + Len(inbox) + (IF call = "running" THEN 1 ELSE 0) <= sent

CInv ==
  /\ IInv /\ CTypeOK /\ Ending /\ Listening /\ Answering /\ Paid
  /\ StatusTellsWhy

-----------------------------------------------------------------------------
(***************************************************************************)
(* What Commander adds to the run.                                         *)
(***************************************************************************)

\* A run that ends was told to, by done or halt (controller.go 108 to 114), and
\* returns only when its last batch has emptied every gatherer (166).
LEMMA EndingStep ==
  IInv /\ Ending /\ [Next]_vars => Ending'
<1> SUFFICES ASSUME IInv, Ending, [Next]_vars
             PROVE  Ending'
    OBVIOUS
<1>a. TypeOK /\ Shutdown /\ 0 \in Senders
    BY ControllerAssumption DEF IInv, Senders, ControllerAssumption
<1> USE <1>a DEF TypeOK, Shutdown, Ending, vars, rateVars, chanVars, workVars, sendVars
<1>1. CASE Reject
    BY <1>1 DEF Reject
<1>2. CASE Start
    BY <1>2 DEF Start
<1>3. CASE Tick
    BY <1>3 DEF Tick
<1>4. CASE SendJob
    BY <1>4 DEF SendJob
<1>5. CASE BreakSelect
    BY <1>5 DEF BreakSelect
<1>6. CASE EndTick
    BY <1>6 DEF EndTick
<1>7. CASE Grow
    BY <1>7 DEF Grow
<1>8. CASE Stop
    BY <1>8 DEF Stop
<1>9. CASE CloseDone
    BY <1>9 DEF CloseDone
<1>10. CASE Wait
    BY <1>10 DEF Wait, Drain
<1>11. CASE Resume
    BY <1>11 DEF Resume, Drain
<1>12. CASE TimeUp
    BY <1>12 DEF TimeUp
<1>13. CASE Halt
    BY <1>13 DEF Halt
<1>14. ASSUME NEW w \in Workers, WorkerStep(w) PROVE Ending'
    <2>1. CASE SeesEnd(w) \/ LooksAtDone(w) \/ WorkerQuits(w)
        BY <2>1 DEF SeesEnd, LooksAtDone, WorkerQuits, WorkerExits, Done
    <2>2. CASE WorkerStarts(w) \/ TakesJob(w) \/ AddPoint(w) \/ JobEnds(w)
        BY <2>2 DEF WorkerStarts, TakesJob, AddPoint, JobEnds
    <2>3. QED
        BY <1>14, <2>1, <2>2 DEF WorkerStep
<1>15. ASSUME NEW s \in Senders, SenderStep(s) PROVE Ending'
    <2>1. CASE SenderStarts(s)
        BY <2>1 DEF SenderStarts
    <2>2. CASE ClearBatchPoints(s)
        BY <2>2 DEF ClearBatchPoints
    <2>3. CASE PersistSucceeds(s)
        BY <2>3 DEF PersistSucceeds, SenderEnds, Done
    <2>4. CASE PersistFails(s)
        BY <2>4 DEF PersistFails, SenderEnds, Done
    <2>5. QED
        BY <1>15, <2>1, <2>2, <2>3, <2>4 DEF SenderStep
<1>16. CASE UNCHANGED vars
    BY <1>16
<1>17. QED
    BY <1>1, <1>2, <1>3, <1>4, <1>5, <1>6, <1>7, <1>8, <1>9, <1>10, <1>11,
       <1>12, <1>13, <1>14, <1>15, <1>16
    DEF Next, DispatcherStep

\* RunInstructions returns once, the run time does not come back, and only the
\* listener closes halt (executor_grpc_listener.go 114 to 122).
LEMMA RunGoesForward ==
  ASSUME IInv, RunStep
  PROVE  /\ pc = "returned" => pc' = "returned"
         /\ done => done'
         /\ UNCHANGED halt
<1> USE DEF IInv, TypeOK, Shutdown, chanVars
<1>1. CASE Run(DispatcherStep)
    BY <1>1
    DEF Run, DispatcherStep, Reject, Start, Tick, SendJob, BreakSelect, EndTick, Grow,
        Stop, CloseDone, Wait, Resume, Drain
<1>2. CASE Run(TimeUp)
    BY <1>2 DEF Run, TimeUp
<1>3. ASSUME NEW w \in Workers, Run(WorkerStep(w))
      PROVE  (pc = "returned" => pc' = "returned") /\ (done => done') /\ UNCHANGED halt
    BY <1>3
    DEF Run, WorkerStep, WorkerStarts, SeesEnd, WorkerExits, Done, TakesJob,
        LooksAtDone, AddPoint, JobEnds, WorkerQuits
<1>4. ASSUME NEW s \in Senders, Run(SenderStep(s))
      PROVE  (pc = "returned" => pc' = "returned") /\ (done => done') /\ UNCHANGED halt
    BY <1>4
    DEF Run, SenderStep, SenderStarts, ClearBatchPoints, PersistSucceeds,
        PersistFails, SenderEnds, Done
<1>5. QED
    BY <1>1, <1>2, <1>3, <1>4 DEF RunStep

\* Before the run, the process may die without any harm to what Controller keeps.
LEMMA FirstRecvKeeps ==
  ASSUME IInv, Ending, Listening, FirstRecvFails
  PROVE  IInv' /\ Ending'
<1>1. pc = "start" /\ pc' = "panicked"
    BY DEF FirstRecvFails, Alive, Listening
<1> USE DEF FirstRecvFails, rateVars, chanVars, workVars, sendVars
<1>2. TypeOK'
    BY <1>1 DEF IInv, TypeOK, DispatcherPCs
<1>3. Shutdown' /\ QuietAfterStop' /\ LastBatchComplete'
    BY <1>1 DEF IInv, Shutdown, QuietAfterStop, LastBatchComplete
<1>4. PointsAccounted' /\ Owned'
    BY DEF IInv, PointsAccounted, Owned
<1>5. Ending'
    BY <1>1 DEF Ending
<1>6. QED
    BY <1>2, <1>3, <1>4, <1>5 DEF IInv

\* Every step is one of the run, or leaves it alone, or is the death of the process
\* in the first Recv.
LEMMA StepOfRun == [CNext]_cVars => [Next]_vars \/ FirstRecvFails
<1> SUFFICES ASSUME [CNext]_cVars PROVE [Next]_vars \/ FirstRecvFails
    OBVIOUS
<1>1. CASE RunStep
    BY <1>1 DEF RunStep, Run, Next
<1>2. CASE CloseHalt
    BY <1>2 DEF CloseHalt, Next
<1>3. QED
    BY <1>1, <1>2
    DEF CNext, CallStep, RefuseCommand, AcceptRun, Reply, CallReturns, ListenerStep,
        HaltReceived, OtherReceived, ListenFails, ClientStep, ClientSends,
        ClientEnds, ClientIsCutOff, cVars

\* Every step keeps what ControllerProofs shows of a run (controller.go 36 to 201).
LEMMA RunKept ==
  IInv /\ Ending /\ Listening /\ [CNext]_cVars => IInv' /\ Ending'
<1> SUFFICES ASSUME IInv, Ending, Listening, [CNext]_cVars
             PROVE  IInv' /\ Ending'
    OBVIOUS
<1>1. CASE FirstRecvFails
    BY <1>1, FirstRecvKeeps
<1>2. CASE [Next]_vars
    BY <1>2, StepIInv, EndingStep
<1>3. QED
    BY <1>1, <1>2, StepOfRun

\* What a status adds to the answers.
LEMMA Appended ==
  ASSUME NEW S, NEW q \in Seq(S), NEW x \in S
  PROVE  /\ Append(q, x) \in Seq(S)
         /\ Len(q) \in Nat
         /\ Len(Append(q, x)) = Len(q) + 1
         /\ DOMAIN q = 1..Len(q)
         /\ DOMAIN Append(q, x) = 1..(Len(q) + 1)
         /\ \A i \in 1..Len(q) : Append(q, x)[i] = q[i]
         /\ Append(q, x)[Len(q) + 1] = x
  BY AppendProperties, LenProperties

\* What a command that is read leaves in the stream.
LEMMA Taken ==
  ASSUME NEW S, NEW q \in Seq(S), q # <<>>
  PROVE  /\ Tail(q) \in Seq(S)
         /\ Len(q) \in Nat
         /\ Len(Tail(q)) = Len(q) - 1
  BY HeadTailProperties, LenProperties

\* Every step keeps Paid: a status answers a command (executor_grpc_listener.go 78
\* to 111 and 138), and the run is one.
LEMMA PaidStep ==
  CTypeOK /\ Paid /\ [CNext]_cVars => Paid'
<1> SUFFICES ASSUME CTypeOK, Paid, [CNext]_cVars
             PROVE  Paid'
    OBVIOUS
<1>a. /\ inbox \in Seq(Commands) /\ replies \in Seq(Statuses)
      /\ sent \in Nat /\ Len(inbox) \in Nat /\ Len(replies) \in Nat
    BY CommanderAssumption, LenProperties DEF CTypeOK, CommanderAssumption
<1>b. ASSUME NEW x \in Statuses, Send(x)
      PROVE  Len(replies') \in {Len(replies), Len(replies) + 1}
    BY <1>a, <1>b, Appended DEF Send
<1>c. ASSUME inbox # <<>>, inbox' = Tail(inbox)
      PROVE  Len(inbox') = Len(inbox) - 1
    BY <1>a, <1>c, Taken
<1> USE <1>a DEF Paid
<1>1. CASE RefuseCommand
    <2>1. Len(replies') \in {Len(replies), Len(replies) + 1}
        BY <1>b, <1>1 DEF RefuseCommand, Statuses
    <2>2. QED
        BY <1>c, <1>1, <2>1 DEF RefuseCommand
<1>2. CASE AcceptRun
    BY <1>c, <1>2 DEF AcceptRun
<1>3. CASE Reply
    <2>1. Len(replies') \in {Len(replies), Len(replies) + 1}
        <3>1. PICK x \in Statuses : Send(x)
            BY <1>3 DEF Reply, Statuses
        <3>2. QED
            BY <1>b, <3>1
    <2>2. QED
        BY <1>3, <2>1 DEF Reply
<1>4. CASE HaltReceived
    BY <1>c, <1>4 DEF HaltReceived
<1>5. CASE OtherReceived
    <2>1. Len(replies') \in {Len(replies), Len(replies) + 1}
        BY <1>b, <1>5 DEF OtherReceived, Statuses
    <2>2. QED
        BY <1>c, <1>5, <2>1 DEF OtherReceived
<1>6. ASSUME NEW c \in Commands, ClientSends(c) PROVE Paid'
    <2>1. Len(inbox') = Len(inbox) + 1
        BY <1>6, Appended DEF ClientSends
    <2>2. QED
        BY <1>6, <2>1 DEF ClientSends
<1>7. CASE CallReturns
    BY <1>7 DEF CallReturns
<1>8. CASE UNCHANGED <<call, sent, inbox, replies>>
    BY <1>8
<1>9. QED
    BY <1>1, <1>2, <1>3, <1>4, <1>5, <1>6, <1>7, <1>8
    DEF CNext, CallStep, FirstRecvFails, ListenerStep, ListenFails, CloseHalt,
        ClientStep, ClientEnds, ClientIsCutOff, RunStep, Run, cVars, cmdVars

\* Every step keeps the types of what Commander adds to Controller.
LEMMA CTypeStep ==
  CTypeOK /\ Paid /\ Paid' /\ TypeOK' /\ [CNext]_cVars => CTypeOK'
<1> SUFFICES ASSUME CTypeOK, Paid, Paid', TypeOK', [CNext]_cVars
             PROVE  CTypeOK'
    OBVIOUS
<1> DEFINE T == /\ call' \in {"recv", "running", "replied", "returned"}
                /\ listener' \in {"none", "listening", "closing", "ended"}
                /\ halted' \in BOOLEAN
                /\ stream' \in {"open", "ended", "broken"}
                /\ sent' \in 0..MaxCommands
           Q == inbox' \in Seq(Commands) /\ replies' \in Seq(Statuses)
<1>1. ASSUME T, Q PROVE CTypeOK'
    <2>1. Len(inbox') \in Nat /\ Len(replies') \in Nat /\ sent' \in Nat
        BY <1>1, LenProperties, CommanderAssumption DEF CommanderAssumption
    <2>2. Len(inbox') <= sent' /\ Len(replies') <= sent'
        BY <2>1 DEF Paid
    <2>3. QED
        BY <1>1, <2>2 DEF CTypeOK
<1>2. ASSUME NEW x \in Statuses, Send(x) PROVE replies' \in Seq(Statuses)
    BY <1>2, Appended DEF CTypeOK, Send
<1>3. ASSUME inbox # <<>>, inbox' = Tail(inbox) PROVE inbox' \in Seq(Commands)
    BY <1>3, Taken DEF CTypeOK
<1> USE DEF CTypeOK
<1>4. CASE RefuseCommand
    <2>1. Q
        BY <1>2, <1>3, <1>4 DEF RefuseCommand, Statuses
    <2>2. QED
        BY <1>1, <1>4, <2>1 DEF RefuseCommand
<1>5. CASE AcceptRun
    BY <1>1, <1>3, <1>5 DEF AcceptRun
<1>6. CASE Reply
    <2>1. PICK x \in Statuses : Send(x)
        BY <1>6 DEF Reply, Statuses
    <2>2. Q
        BY <1>2, <1>6, <2>1 DEF Reply
    <2>3. QED
        BY <1>1, <1>6, <2>2 DEF Reply
<1>7. CASE HaltReceived
    BY <1>1, <1>3, <1>7 DEF HaltReceived
<1>8. CASE OtherReceived
    <2>1. Q
        BY <1>2, <1>3, <1>8 DEF OtherReceived, Statuses
    <2>2. QED
        BY <1>1, <1>8, <2>1 DEF OtherReceived
<1>9. CASE ListenFails \/ CloseHalt \/ CallReturns
    BY <1>1, <1>9 DEF ListenFails, CloseHalt, CallReturns
<1>10. ASSUME NEW c \in Commands, ClientSends(c) PROVE CTypeOK'
    <2>1. inbox' \in Seq(Commands)
        BY <1>10, Appended DEF ClientSends
    <2>2. sent' \in 0..MaxCommands
        BY <1>10, CommanderAssumption DEF ClientSends, CommanderAssumption
    <2>3. QED
        BY <1>1, <1>10, <2>1, <2>2 DEF ClientSends
<1>11. CASE ClientEnds \/ ClientIsCutOff
    BY <1>1, <1>11 DEF ClientEnds, ClientIsCutOff
<1>12. CASE UNCHANGED cmdVars
    BY <1>1, <1>12 DEF cmdVars
<1>13. QED
    BY <1>4, <1>5, <1>6, <1>7, <1>8, <1>9, <1>10, <1>11, <1>12
    DEF CNext, CallStep, FirstRecvFails, ListenerStep, ClientStep, RunStep, Run, cVars

\* Every step keeps Listening: the listener closes halt when it ends, and it ends
\* for a Halt, or because the stream or the call has (executor_grpc_listener.go 114
\* to 142).
LEMMA ListeningStep ==
  IInv /\ CTypeOK /\ Listening /\ [CNext]_cVars => Listening'
<1> SUFFICES ASSUME IInv, CTypeOK, Listening, [CNext]_cVars
             PROVE  Listening'
    OBVIOUS
<1> USE DEF CTypeOK, Listening, vars, chanVars
<1>1. CASE FirstRecvFails
    BY <1>1 DEF FirstRecvFails, cmdVars
<1>2. CASE RefuseCommand
    BY <1>2 DEF RefuseCommand
<1>3. CASE AcceptRun
    BY <1>3 DEF AcceptRun
<1>4. CASE Reply \/ CallReturns
    BY <1>4 DEF Reply, CallReturns
<1>5. CASE HaltReceived
    BY <1>5 DEF HaltReceived
<1>6. CASE OtherReceived
    BY <1>6 DEF OtherReceived
<1>7. CASE ListenFails
    BY <1>7 DEF ListenFails, RecvFails
<1>8. CASE CloseHalt
    BY <1>8 DEF CloseHalt, Halt
<1>9. CASE ClientStep
    BY <1>9 DEF ClientStep, ClientSends, ClientEnds, ClientIsCutOff
<1>10. CASE RunStep
    <2>1. call # "recv" /\ UNCHANGED cmdVars
        BY <1>10 DEF RunStep, Run
    <2>2. QED
        BY <1>10, <2>1, RunGoesForward DEF cmdVars
<1>11. CASE UNCHANGED cVars
    BY <1>11 DEF cVars, cmdVars
<1>12. QED
    BY <1>1, <1>2, <1>3, <1>4, <1>5, <1>6, <1>7, <1>8, <1>9, <1>10, <1>11
    DEF CNext, CallStep, ListenerStep

\* Every step keeps Answering: after the verdict only the listener may still send a
\* status, and that is Invalid (executor_grpc_listener.go 94 to 111, 138).
LEMMA AnsweringStep ==
  CTypeOK /\ Listening /\ Answering /\ [CNext]_cVars => Answering'
<1> SUFFICES ASSUME CTypeOK, Listening, Answering, [CNext]_cVars
             PROVE  Answering'
    OBVIOUS
<1>a. replies \in Seq(Statuses)
    BY DEF CTypeOK
<1>1. CASE UNCHANGED <<call, listener, replies>>
    BY <1>1 DEF Answering
<1>2. CASE RefuseCommand
    BY <1>2 DEF RefuseCommand, Listening, Answering
<1>3. CASE AcceptRun
    BY <1>3 DEF AcceptRun, Answering
<1>4. CASE Reply
    <2>1. PICK x \in Statuses : Send(x)
        BY <1>4 DEF Reply, Statuses
    <2>2. replies' = replies \/ replies' = Append(replies, x)
        BY <2>1 DEF Send
    <2>3. \A i \in DOMAIN replies : replies[i] = "Invalid"
        BY <1>4 DEF Reply, Answering
    <2>4. \A i \in DOMAIN replies' : replies'[i] # "Invalid" => i = Len(replies) + 1
        <3>1. CASE replies' = replies
            BY <2>3, <3>1
        <3>2. CASE replies' = Append(replies, x)
            BY <1>a, <2>3, <3>2, Appended
        <3>3. QED
            BY <2>2, <3>1, <3>2
    <2>5. QED
        BY <1>4, <2>4 DEF Reply, Answering
<1>5. CASE HaltReceived \/ ListenFails \/ CloseHalt \/ CallReturns
    BY <1>5 DEF HaltReceived, ListenFails, CloseHalt, CallReturns, Answering, Listening
<1>6. CASE OtherReceived
    <2>1. UNCHANGED <<call, listener>> /\ listener = "listening" /\ Send("Invalid")
        BY <1>6 DEF OtherReceived
    <2>2. \A i \in DOMAIN replies' :
            replies'[i] # "Invalid" => i \in DOMAIN replies /\ replies[i] # "Invalid"
        <3>1. CASE replies' = replies
            BY <3>1
        <3>2. CASE replies' = Append(replies, "Invalid")
            <4>1. "Invalid" \in Statuses
                BY DEF Statuses
            <4>2. QED
                BY <1>a, <3>2, <4>1, Appended
        <3>3. QED
            BY <2>1, <3>1, <3>2 DEF Send
    <2>3. call # "recv"
        BY <2>1 DEF Listening
    <2>4. QED
        BY <2>1, <2>2, <2>3 DEF Answering
<1>7. QED
    BY <1>1, <1>2, <1>3, <1>4, <1>5, <1>6
    DEF CNext, CallStep, FirstRecvFails, ListenerStep, ClientStep, ClientSends,
        ClientEnds, ClientIsCutOff, RunStep, Run, cVars, cmdVars

\* Every step keeps StatusTellsWhy: OK is sent when neither an error nor the flag of
\* the listener says otherwise (executor_grpc_listener.go 96 to 111), and a listener
\* that has closed halt reads no command any more (114 to 122).
LEMMA StatusStep ==
  /\ IInv /\ CTypeOK /\ Ending /\ Listening /\ StatusTellsWhy /\ [CNext]_cVars
  => StatusTellsWhy'
<1> DEFINE GivenUp == listener = "ended" /\ ~halted /\ stream # "open"
<1> SUFFICES ASSUME IInv, CTypeOK, Ending, Listening, StatusTellsWhy, [CNext]_cVars,
                    Replied("OK")'
             PROVE  done' \/ GivenUp'
    BY DEF StatusTellsWhy
<1>a. replies \in Seq(Statuses)
    BY DEF CTypeOK
<1>1. (done => done') /\ (GivenUp => GivenUp')
    <2>1. CASE RunStep
        BY <2>1, RunGoesForward DEF RunStep, Run, cmdVars
    <2>2. CASE CloseHalt
        BY <2>2 DEF CloseHalt, Halt
    <2>3. QED
        BY <2>1, <2>2
        DEF CNext, CallStep, FirstRecvFails, RefuseCommand, AcceptRun, Reply,
            CallReturns, ListenerStep, HaltReceived, OtherReceived, ListenFails,
            ClientStep, ClientSends, ClientEnds, ClientIsCutOff, cVars, cmdVars,
            vars, chanVars, Listening
<1>2. ASSUME NEW x \in Statuses, Send(x), x # "OK" PROVE Replied("OK")
    <2>1. CASE replies' = replies
        BY <2>1 DEF Replied
    <2>2. CASE replies' = Append(replies, x)
        <3>1. PICK i \in DOMAIN replies' : replies'[i] = "OK"
            BY DEF Replied
        <3>2. i \in 1..(Len(replies) + 1) /\ Len(replies) \in Nat /\ i # Len(replies) + 1
            BY <1>a, <1>2, <2>2, <3>1, Appended
        <3>3. i \in DOMAIN replies /\ replies[i] = "OK"
            BY <1>a, <2>2, <3>1, <3>2, Appended
        <3>4. QED
            BY <3>3 DEF Replied
    <2>3. QED
        BY <1>2, <2>1, <2>2 DEF Send
<1>3. CASE Replied("OK")
    BY <1>1, <1>3 DEF StatusTellsWhy
<1>4. CASE RefuseCommand \/ OtherReceived
    BY <1>2, <1>3, <1>4 DEF RefuseCommand, OtherReceived, Statuses
<1>5. CASE Reply
    <2>1. CASE outcome = "ok" /\ ~ halted
        <3>1. done \/ halt
            BY <1>5, <2>1 DEF Reply, Ending
        <3>2. halt => GivenUp
            BY <1>5, <2>1 DEF Reply, Listening
        <3>3. QED
            BY <1>1, <3>1, <3>2
    <2>2. CASE outcome # "ok" \/ halted
        <3>1. pc = "returned" /\ outcome # "none"
            BY <1>5 DEF Reply, Ending
        <3>2. PICK x \in Statuses : Send(x) /\ x # "OK"
            BY <1>5, <2>2, <3>1 DEF Reply, Statuses, IInv, TypeOK
        <3>3. QED
            BY <1>2, <1>3, <3>2
    <2>3. QED
        BY <2>1, <2>2
<1>6. CASE UNCHANGED replies
    BY <1>3, <1>6 DEF Replied
<1>7. QED
    BY <1>4, <1>5, <1>6
    DEF CNext, CallStep, FirstRecvFails, AcceptRun, CallReturns, ListenerStep,
        HaltReceived, ListenFails, CloseHalt, ClientStep, ClientSends, ClientEnds, ClientIsCutOff,
        RunStep, Run, cVars, cmdVars

-----------------------------------------------------------------------------
\* Initially nothing has been sent.
LEMMA CInitInv == CInit => CInv
<1> SUFFICES ASSUME CInit PROVE CInv
    OBVIOUS
<1>1. IInv
    BY InitIInv DEF CInit
<1>2. CTypeOK
    <2>1. Len(<<>>) = 0 /\ <<>> \in Seq(Commands) /\ <<>> \in Seq(Statuses)
        OBVIOUS
    <2>2. MaxCommands \in Nat
        BY CommanderAssumption DEF CommanderAssumption
    <2>3. sent \in 0..MaxCommands /\ sent = 0
        BY <2>2 DEF CInit
    <2>4. Len(inbox) <= sent /\ Len(replies) <= sent
        <3>1. Len(inbox) = 0 /\ Len(replies) = 0
            BY <2>1, Zenon DEF CInit
        <3>2. QED
            BY <3>1, <2>3
    <2>5. inbox \in Seq(Commands) /\ replies \in Seq(Statuses)
        BY <2>1, Zenon DEF CInit
    <2>6. TypeOK
        BY <1>1 DEF IInv
    <2>7. QED
        BY <2>3, <2>4, <2>5, <2>6, Zenon DEF CInit, CTypeOK
<1>3. Ending
    BY ControllerAssumption DEF CInit, Init, Ending, Senders, ControllerAssumption
<1>4. Listening
    BY DEF CInit, Init, Listening
<1>5. Answering /\ Paid /\ StatusTellsWhy
    <2>1. Len(<<>>) = 0 /\ DOMAIN <<>> = {}
        OBVIOUS
    <2>2. QED
        BY <2>1 DEF CInit, Answering, Paid, StatusTellsWhy, Replied
<1>6. QED
    BY <1>1, <1>2, <1>3, <1>4, <1>5 DEF CInv

\* Every step keeps the inductive invariant.
LEMMA CStepInv == CInv /\ [CNext]_cVars => CInv'
<1> SUFFICES ASSUME CInv, [CNext]_cVars PROVE CInv'
    OBVIOUS
<1>1. IInv' /\ Ending'
    BY RunKept DEF CInv
<1>2. Paid'
    BY PaidStep DEF CInv
<1>3. CTypeOK'
    BY <1>1, <1>2, CTypeStep DEF CInv, IInv
<1>4. Listening'
    BY ListeningStep DEF CInv
<1>5. Answering'
    BY AnsweringStep DEF CInv
<1>6. StatusTellsWhy'
    BY StatusStep DEF CInv
<1>7. QED
    BY <1>1, <1>2, <1>3, <1>4, <1>5, <1>6 DEF CInv

\* The inductive invariant holds in every state of a call of ExecuteCommand.
THEOREM CInvariance == CSpec => []CInv
  BY CInitInv, CStepInv, PTL DEF CSpec

\* Every variable keeps the type of the Go value it stands for, and a call never
\* sends more statuses than it was sent commands.
THEOREM CTypeCorrect == CSpec => []CTypeOK
<1>1. CInv => CTypeOK
    BY DEF CInv
<1>2. QED
    BY CInvariance, <1>1, PTL

\* OK never means that a Halt has cut the run short: it means that the run time is
\* over or that the listener has met the end of the stream (executor_grpc_listener.go
\* 96 to 111).
THEOREM OKTellsWhy == CSpec => []StatusTellsWhy
<1>1. CInv => StatusTellsWhy
    BY DEF CInv
<1>2. QED
    BY CInvariance, <1>1, PTL

\* A call that runs its command sends one status besides the answers to commands
\* out of place, and sends it when the run has returned and its gatherers are empty
\* (executor_grpc_listener.go 94 to 111, controller.go 55 and 166).
THEOREM VerdictIsUnique == CSpec => []OneVerdict
<1>1. CInv => OneVerdict
    <2> SUFFICES ASSUME CInv, NEW i \in DOMAIN replies,
                        replies[i] # "Invalid", listener # "none"
                 PROVE  /\ \A j \in DOMAIN replies : replies[j] # "Invalid" => j = i
                        /\ pc = "returned"
                        /\ outcome # "invalid" => \A w \in Workers : gatherer[w] = {}
        BY DEF OneVerdict
    <2>1. \A j \in DOMAIN replies : replies[j] # "Invalid" => j = i
        BY DEF CInv, Answering
    <2>2. call \in {"replied", "returned"}
        BY DEF CInv, CTypeOK, Answering, Listening
    <2>3. pc = "returned"
        BY <2>2 DEF CInv, Listening
    <2>4. outcome # "invalid" => \A w \in Workers : gatherer[w] = {}
        BY <2>3 DEF CInv, Ending, IInv, LastBatchComplete
    <2>5. QED
        BY <2>1, <2>3, <2>4
<1>2. QED
    BY CInvariance, <1>1, PTL

\* What Controller promises of its points (controller.go 147 to 201) holds under
\* the command server too, whatever the client does to the stream.
THEOREM NoPointLostUnderCommand == CSpec => [](PointsAccounted /\ QuietAfterStop)
<1>1. CInv => PointsAccounted /\ QuietAfterStop
    BY DEF CInv, IInv
<1>2. QED
    BY CInvariance, <1>1, PTL

\* A point is reported only in a run.
LEMMA UnreportedUnderCommand ==
  CInv /\ Unreported /\ [CNext]_cVars => Unreported'
<1> SUFFICES ASSUME CInv, Unreported, [CNext]_cVars PROVE Unreported'
    OBVIOUS
<1>1. CASE FirstRecvFails
    BY <1>1 DEF FirstRecvFails, Unreported
<1>2. CASE [Next]_vars
    BY <1>2, UnreportedStep DEF CInv
<1>3. QED
    BY <1>1, <1>2, StepOfRun DEF CInv

\* The run that a command starts keeps the promise of Delivery whatever the client
\* does to the stream: a call that dies of its first Recv
\* (executor_grpc_listener.go 72 to 78) has reported nothing.
THEOREM DeliversUnderCommand == CSpec => KeepsDelivery
<1>1. CInit => D!Init /\ Unreported
    BY StartDelivers DEF CInit
<1>2. CInv /\ Unreported /\ Places /\ Places' /\ [CNext]_cVars => [D!Next]_D!dVars
    <2> SUFFICES ASSUME CInv, Unreported, Places, Places', [CNext]_cVars
                 PROVE  [D!Next]_D!dVars
        OBVIOUS
    <2>1. CASE FirstRecvFails
        <3>1. pc = "start" /\ pc' = "panicked"
            BY <2>1 DEF FirstRecvFails, Alive, CInv, Listening
        <3>2. UNCHANGED [p \in Points |-> WhereIs(p)]
            BY <2>1, SamePlace DEF FirstRecvFails, workVars, sendVars
        <3>3. D!Die
            BY <3>1, <3>2 DEF PhaseOfRun, D!Die
        <3>4. QED
            BY <3>3 DEF D!Next
    <2>2. CASE [Next]_vars
        BY <2>2, StepDelivers DEF CInv
    <2>3. QED
        BY <2>1, <2>2, StepOfRun
<1>3. CInv => Places
    BY PlacesHold DEF CInv
<1>4. QED
    BY CInvariance, UnreportedUnderCommand, <1>1, <1>2, <1>3, PTL
    DEF CSpec, KeepsDelivery, D!Spec

=============================================================================
