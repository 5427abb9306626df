----------------------------- MODULE Commander ------------------------------
(***************************************************************************)
(* The command server of an executor: one call of ExecuteCommand           *)
(* (executor/controller/executor_grpc_listener.go), composed with the run  *)
(* it starts, Controller.                                                  *)
(*                                                                         *)
(* The call reads one command from its stream.  If that is a Run it        *)
(* accepts, it starts listenForHalt, which goes on reading the stream and  *)
(* closes halt when it ends, and calls RunInstructions.  What the run      *)
(* returns, and the flag halted of the listener, decide its status.        *)
(*                                                                         *)
(* The client is external.  It sends commands, ends its side of the        *)
(* stream, or is cut off: its context is cancelled or its connection lost. *)
(* Status messages keep their first word; the text of an error is left     *)
(* out.                                                                    *)
(***************************************************************************)
EXTENDS Controller, Sequences

CONSTANT MaxCommands  \* bound: commands the client sends

ASSUME CommanderAssumption == MaxCommands \in Nat

VARIABLES
  call,      \* where ExecuteCommand is
  listener,  \* where listenForHalt is
  halted,    \* the flag the two of them share
  stream,    \* the client's side: "open", "ended" or "broken"
  sent,      \* number of commands the client has sent
  inbox,     \* commands on their way
  replies    \* statuses the client can receive

cmdVars == <<call, listener, halted, stream, sent, inbox, replies>>
cVars   == <<vars, cmdVars>>

Commands == {"Run", "Halt", "Other"}

\* "Verdict" marks the status of a refused or failed command, "Invalid: ...", and
\* tells it from the "Invalid" that answers a command out of place.
Statuses == {"OK", "Halted", "Verdict", "Invalid"}

CInit ==
  /\ Init
  /\ call = "recv"
  /\ listener = "none"
  /\ halted = FALSE
  /\ stream = "open"
  /\ sent = 0
  /\ inbox = <<>>
  /\ replies = <<>>

-----------------------------------------------------------------------------
(***************************************************************************)
(* The stream.                                                             *)
(***************************************************************************)

\* Recv fails once the call has returned, when the client is cut off, and at the
\* end of what an ended client has sent.
RecvFails ==
  \/ call = "returned"
  \/ stream = "broken"
  \/ stream = "ended" /\ inbox = <<>>

\* A status reaches the client if the call and the connection are still there.
Send(s) ==
  replies' = IF stream = "broken" \/ call = "returned" THEN replies
                                                       ELSE Append(replies, s)

ClientSends(c) ==
  /\ stream = "open"
  /\ sent < MaxCommands                               \* bound
  /\ sent' = sent + 1
  /\ inbox' = Append(inbox, c)
  /\ UNCHANGED <<vars, call, listener, halted, stream, replies>>

ClientEnds ==
  /\ stream = "open"
  /\ stream' = "ended"
  /\ UNCHANGED <<vars, call, listener, halted, sent, inbox, replies>>

ClientIsCutOff ==
  /\ stream # "broken"
  /\ stream' = "broken"
  /\ UNCHANGED <<vars, call, listener, halted, sent, inbox, replies>>

-----------------------------------------------------------------------------
(***************************************************************************)
(* ExecuteCommand.                                                         *)
(***************************************************************************)

\* The error of the first Recv is logged, and the message, nil, is read: the
\* process dies.
FirstRecvFails ==
  /\ Alive
  /\ call = "recv"
  /\ RecvFails
  /\ pc' = "panicked"
  /\ UNCHANGED <<outcome, rateVars, chanVars, wg, workVars, sendVars, cmdVars>>

\* The first command is not Run, or verifyCommand refuses it.
RefuseCommand ==
  /\ Alive
  /\ call = "recv"
  /\ inbox # <<>>
  /\ \/ Head(inbox) # "Run" /\ Send("Invalid")
     \/ Head(inbox) = "Run" /\ Send("Verdict")
  /\ inbox' = Tail(inbox)
  /\ call' = "returned"
  /\ UNCHANGED <<vars, listener, halted, stream, sent>>

AcceptRun ==
  /\ Alive
  /\ call = "recv"
  /\ inbox # <<>>
  /\ Head(inbox) = "Run"
  /\ inbox' = Tail(inbox)
  /\ call' = "running"
  /\ listener' = "listening"
  /\ UNCHANGED <<vars, halted, stream, sent, replies>>

\* Seeded fault: the flag is not looked at.
ReplyIgnoresHalt ==
  /\ call = "running"
  /\ pc = "returned"
  /\ Send(IF outcome = "ok" THEN "OK" ELSE "Verdict")
  /\ call' = "replied"
  /\ UNCHANGED <<vars, listener, halted, stream, sent, inbox>>

\* Seeded fault: the call does not return after the status of a failed run.
ReplyFallsThrough ==
  /\ call = "running"
  /\ pc = "returned"
  /\ LET failed == IF outcome = "ok" THEN <<>> ELSE <<"Verdict">>
         last   == IF halted THEN "Halted" ELSE "OK"
     IN  replies' = IF stream = "broken" THEN replies
                                         ELSE replies \o Append(failed, last)
  /\ call' = "replied"
  /\ UNCHANGED <<vars, listener, halted, stream, sent, inbox>>

\* RunInstructions has returned, and its status is sent.  serverErr is never set: in
\* listenForHalt the name is declared anew.
Reply ==
  /\ call = "running"
  /\ pc = "returned"
  /\ Send(CASE outcome \in {"invalid", "error"} -> "Verdict"
            [] outcome = "ok" /\ halted         -> "Halted"
            [] OTHER                            -> "OK")
  /\ call' = "replied"
  /\ UNCHANGED <<vars, listener, halted, stream, sent, inbox>>

\* The call ends after its status.  The listener may have read a command in between.
CallReturns ==
  /\ call = "replied"
  /\ call' = "returned"
  /\ UNCHANGED <<vars, listener, halted, stream, sent, inbox, replies>>

-----------------------------------------------------------------------------
(***************************************************************************)
(* listenForHalt.                                                          *)
(***************************************************************************)

\* Seeded fault: the listener reports the halt itself.
HaltReported ==
  /\ Alive
  /\ listener = "listening"
  /\ inbox # <<>> /\ Head(inbox) = "Halt"
  /\ inbox' = Tail(inbox)
  /\ halted' = TRUE
  /\ Send("Halted")
  /\ listener' = "closing"
  /\ UNCHANGED <<vars, call, stream, sent>>

HaltReceived ==
  /\ Alive
  /\ listener = "listening"
  /\ inbox # <<>> /\ Head(inbox) = "Halt"
  /\ inbox' = Tail(inbox)
  /\ halted' = TRUE
  /\ listener' = "closing"
  /\ UNCHANGED <<vars, call, stream, sent, replies>>

\* Any other command is turned down, and the listener goes on.
OtherReceived ==
  /\ Alive
  /\ listener = "listening"
  /\ inbox # <<>> /\ Head(inbox) # "Halt"
  /\ inbox' = Tail(inbox)
  /\ Send("Invalid")
  /\ UNCHANGED <<vars, call, listener, halted, stream, sent>>

\* Seeded fault: the listener goes back to Recv after an error.
ErrorIgnored ==
  /\ listener = "listening"
  /\ FALSE
  /\ UNCHANGED cVars

\* Recv fails, or panics, which is recovered: the run is to stop all the same.
ListenFails ==
  /\ Alive
  /\ listener = "listening"
  /\ RecvFails
  /\ listener' = "closing"
  /\ UNCHANGED <<vars, call, halted, stream, sent, inbox, replies>>

\* The deferred close of halt: the step Halt of Controller.
CloseHalt ==
  /\ listener = "closing"
  /\ Halt
  /\ listener' = "ended"
  /\ UNCHANGED <<call, halted, stream, sent, inbox, replies>>

-----------------------------------------------------------------------------
CallStep == FirstRecvFails \/ RefuseCommand \/ AcceptRun \/ Reply \/ CallReturns

ListenerStep == HaltReceived \/ OtherReceived \/ ListenFails \/ CloseHalt

ClientStep == (\E c \in Commands : ClientSends(c)) \/ ClientEnds \/ ClientIsCutOff

\* RunInstructions begins when the command is accepted.  What it has started goes
\* on after it has returned.
Run(A) == call # "recv" /\ listener # "none" /\ A /\ UNCHANGED cmdVars

RunStep ==
  \/ Run(DispatcherStep)
  \/ Run(TimeUp)
  \/ \E w \in Workers : Run(WorkerStep(w))
  \/ \E s \in Senders : Run(SenderStep(s))

CNext == CallStep \/ ListenerStep \/ ClientStep \/ RunStep

CSpec == CInit /\ [][CNext]_cVars

(***************************************************************************)
(* As in Controller, but nothing makes the run time pass: a run that is    *)
(* told to stop must not need it.                                          *)
(***************************************************************************)
CFairness ==
  /\ WF_cVars(CallStep)
  /\ WF_cVars(ListenerStep)
  /\ WF_cVars(Run(Reject \/ Start))
  /\ WF_cVars(Run(SendJob \/ BreakSelect \/ EndTick))
  /\ SF_cVars(Run(Stop))
  /\ WF_cVars(Run(CloseDone \/ Wait \/ Resume))
  /\ \A w \in Workers :
       /\ WF_cVars(Run(WorkerStarts(w) \/ SeesEnd(w) \/ TakesJob(w) \/ LooksAtDone(w)))
       /\ WF_cVars(Run(JobEnds(w) \/ WorkerQuits(w)))
  /\ \A s \in Senders : WF_cVars(Run(SenderStep(s)))

CFairSpec == CSpec /\ CFairness

-----------------------------------------------------------------------------
(***************************************************************************)
(* Properties.                                                             *)
(***************************************************************************)

\* Every variable has the type of the Go value it stands for, and the call is
\* answered at most once for every command.
CTypeOK ==
  /\ TypeOK
  /\ call \in {"recv", "running", "replied", "returned"}
  /\ listener \in {"none", "listening", "closing", "ended"}
  /\ halted \in BOOLEAN
  /\ stream \in {"open", "ended", "broken"}
  /\ sent \in 0..MaxCommands
  /\ inbox \in Seq(Commands) /\ Len(inbox) <= sent
  /\ replies \in Seq(Statuses) /\ Len(replies) <= sent

HaltOnItsWay == halted \/ \E i \in DOMAIN inbox : inbox[i] = "Halt"

Replied(s) == \E i \in DOMAIN replies : replies[i] = s

\* The status of a run (executor_grpc_listener.go 95 to 111) tells a Halt from the end
\* of the run time: a run that a Halt has cut short is never answered OK.  Where OK
\* comes before the run time is over, the listener has met the end of the stream.
StatusTellsWhy ==
  Replied("OK") /\ ~done => listener = "ended" /\ ~halted /\ stream # "open"

\* "If the recv wait gave an error I want to return it, if possible"
\* (executor_grpc_listener.go 101): the error that has stopped a run before its time
\* is the answer to it, and not OK.
RecvErrorIsReturned == Replied("OK") => done

\* waitCompletion of the scheduler, which sends nothing but Run, takes the first
\* status it reads for the end of the execution (db.go 355).  So it is: but for the
\* answers to commands out of place (executor_grpc_listener.go 138), one of which
\* may even follow it, a call that runs its command sends one status
\* (94 to 111), and sends it when RunInstructions has returned and nothing is left
\* in a gatherer.
OneVerdict ==
  \A i \in DOMAIN replies :
    replies[i] # "Invalid" /\ listener # "none" =>
      /\ \A j \in DOMAIN replies : replies[j] # "Invalid" => j = i
      /\ pc = "returned"
      /\ outcome # "invalid" => \A w \in Workers : gatherer[w] = {}

\* A run comes to its end when its time is over, and without that when its client
\* halts it, ends its stream or is cut off (executor_grpc_listener.go 114 to 142,
\* controller.go 106 to 167), even if commands out of place come first, every
\* worker has given up and jobChannel is full.  The end may be a panic.
RunStops ==
  (call = "running" /\ (done \/ stream # "open" \/ HaltOnItsWay))
    ~> (call = "returned" \/ pc = "panicked")

=============================================================================
