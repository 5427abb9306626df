------------------------------- MODULE Engine -------------------------------
(***************************************************************************)
(* A script (executor/engine/lua.go, http_binding.go) from its check, by   *)
(* verifyScript of the scheduler and by RunInstructions of the executor,   *)
(* to one job of a worker (executor/controller/worker.go).                 *)
(*                                                                         *)
(* Both prepare a program of their own: they load the script and run it    *)
(* from top to bottom, which defines the steps.  The check ends there.  A  *)
(* job adds the configuration and executes the steps.  What the program    *)
(* does is reported to the gatherer of the worker; a check reports         *)
(* nothing.                                                                *)
(*                                                                         *)
(* The script is external: at the top and in every step it does whatever   *)
(* its bindings allow, and may do something else the next time.  Lua has   *)
(* no pcall here, no library being opened, so that an error ends the       *)
(* protected call that runs the script.                                    *)
(***************************************************************************)
EXTENDS Naturals, Sequences, FiniteSets

CONSTANTS
  Names,   \* names of steps
  MaxOps   \* bound: what a program does at the top and in its steps together

ASSUME EngineAssumption == MaxOps \in Nat

VARIABLES
  job,         \* FALSE in the check
  at,          \* where the program is: "load", "top", "config", "steps", "in", "end"
  end,         \* how it ended
  configured,
  table,       \* the names that have a value in the table of steps
  hooked,      \* the global step is still that table
  steps,       \* prgm.steps
  next,        \* index of the step to execute or in execution
  config,      \* the type of the values of the configuration
  setsStep,    \* the configuration has the key step
  report,      \* what the gatherer has been given, in order
  ops

progVars == <<configured, table, hooked, steps, next>>
vars     == <<job, at, end, progVars, config, setsStep, report, ops>>

\* What a configuration holds: "none" is no configuration, "malformed" is not JSON.
ConfigTypes ==
  {"none", "string", "float64", "bool", "nil", "array", "object", "malformed"}
Ends        == {"none", "invalid", "quit", "ok", "failed", "dead"}

Entry(kind, n) == [kind |-> kind, step |-> n]

Init ==
  /\ job = FALSE
  /\ at = "load"
  /\ end = "none"
  /\ configured = FALSE
  /\ table = {}
  /\ hooked = TRUE
  /\ steps = <<>>
  /\ next = 1
  /\ config \in ConfigTypes
  /\ setsStep \in (IF config = "none" THEN {FALSE} ELSE BOOLEAN)
  /\ report = <<>>
  /\ ops = 0

-----------------------------------------------------------------------------
(***************************************************************************)
(* Reports and errors.                                                     *)
(***************************************************************************)

Current == IF at = "in" THEN steps[next] ELSE "top"

\* The metrics of a check are nullMetric.
Reports(kinds) == IF job THEN [i \in DOMAIN kinds |-> Entry(kinds[i], Current)] ELSE <<>>

\* An error of the script, with what is reported on the way: at the top the program
\* is not prepared, and in a step runSteps reports the step and returns, upon which
\* the worker reports the error.
Raise(kinds) ==
  \/ /\ at = "top"
     /\ at' = "end"
     /\ end' = IF job THEN "quit" ELSE "invalid"
     /\ report' = report \o Reports(kinds)
  \/ /\ at = "in"
     /\ at' = "end"
     /\ end' = "failed"
     /\ report' = report \o Reports(kinds \o <<"stepError", "luaError">>)

\* The script does something that goes well.
Proceed(kinds) ==
  /\ report' = report \o Reports(kinds)
  /\ UNCHANGED <<at, end>>

\* The script is running.
Running == at \in {"top", "in"} /\ ops < MaxOps       \* bound

-----------------------------------------------------------------------------
(***************************************************************************)
(* Lua, Execute and the worker around them.                                *)
(***************************************************************************)

\* The script is compiled and set running.
Load ==
  /\ at = "load"
  /\ \/ at' = "top" /\ UNCHANGED end
     \/ ~job /\ at' = "end" /\ end' = "invalid"    \* a job's script has compiled before
  /\ UNCHANGED <<job, progVars, config, setsStep, report, ops>>

\* The top of the script ends, and the program is prepared.
Prepared ==
  /\ at = "top"
  /\ at' = "config"
  /\ configured' = TRUE
  /\ UNCHANGED <<job, end, table, hooked, steps, next, config, setsStep, report, ops>>

VerifyConfig(type) == type \in {"none", "string", "int", "float64", "bool", "nil"}

\* The check of the configuration ends the check; a job begins with a new program.
Checked ==
  /\ at = "config"
  /\ ~job
  /\ \/ /\ ~VerifyConfig(config)
        /\ at' = "end"
        /\ end' = "invalid"
        /\ UNCHANGED <<job, progVars, ops>>
     \/ /\ VerifyConfig(config)
        /\ at' = "load"
        /\ job' = TRUE
        /\ configured' = FALSE
        /\ table' = {}
        /\ hooked' = TRUE
        /\ steps' = <<>>
        /\ next' = 1
        /\ ops' = 0
        /\ UNCHANGED end
  /\ UNCHANGED <<config, setsStep, report>>

\* Seeded fault: a null is not added.
AddsNoNil(type) == type \in {"none", "string", "int", "float64", "bool"}

\* AddConfig sets globals; the types it has a case for.
Adds(type) == type \in {"none", "string", "int", "float64", "bool", "nil"}

\* The configuration is added and Execute begins.  The value of step is a string or
\* nil if the configuration has set it.
Execute ==
  /\ at = "config"
  /\ job
  /\ \/ /\ ~Adds(config)
        /\ at' = "end"
        /\ end' = "quit"
        /\ UNCHANGED <<hooked, report>>
     \/ /\ Adds(config)
        /\ at' = "steps"
        /\ hooked' = (hooked /\ ~setsStep)
        /\ report' = Append(report, Entry("script", "top"))
        /\ UNCHANGED end
  /\ UNCHANGED <<job, configured, table, steps, next, config, setsStep, ops>>

\* The next step is looked up and called.  Looking it up in something that is no
\* table is an error outside of any protected call: the process dies.  Execute has
\* put the table on the stack before the first step.
CallStep ==
  /\ at = "steps"
  /\ next <= Len(steps)
  /\ \/ /\ next = 1 /\ ~hooked
        /\ at' = "end"
        /\ end' = "dead"
        /\ UNCHANGED report
     \/ /\ next > 1 \/ hooked
        /\ steps[next] \in table
        /\ at' = "in"
        /\ UNCHANGED <<end, report>>
     \/ /\ next > 1 \/ hooked
        /\ steps[next] \notin table    \* a nil is called
        /\ at' = "end"
        /\ end' = "failed"
        /\ report' = report \o <<Entry("stepError", steps[next]),
                                 Entry("luaError", steps[next])>>
  /\ UNCHANGED <<job, progVars, config, setsStep, ops>>

\* Seeded fault: the index is advanced twice.
StepReturnsTwice ==
  /\ at = "in"
  /\ at' = "steps"
  /\ next' = next + 2
  /\ report' = report \o Reports(<<"step">>)
  /\ UNCHANGED <<job, end, configured, table, hooked, steps, config, setsStep, ops>>

\* Seeded fault: the execution of a step is not reported.
StepReturnsUnreported ==
  /\ at = "in"
  /\ at' = "steps"
  /\ next' = next + 1
  /\ UNCHANGED <<job, end, configured, table, hooked, steps, config, setsStep, report, ops>>

StepReturns ==
  /\ at = "in"
  /\ at' = "steps"
  /\ next' = next + 1
  /\ report' = report \o Reports(<<"step">>)
  /\ UNCHANGED <<job, end, configured, table, hooked, steps, config, setsStep, ops>>

AllStepsDone ==
  /\ at = "steps"
  /\ next > Len(steps)
  /\ at' = "end"
  /\ end' = "ok"
  /\ UNCHANGED <<job, progVars, config, setsStep, report, ops>>

-----------------------------------------------------------------------------
(***************************************************************************)
(* What a script may do.                                                   *)
(***************************************************************************)

\* Seeded fault: the value is set before the program is looked at.
SetFirst(n, value) ==
  /\ n \notin table
  /\ table' = IF value THEN table \cup {n} ELSE table
  /\ \/ configured /\ Raise(<<>>) /\ UNCHANGED steps
     \/ ~configured /\ steps' = Append(steps, n) /\ Proceed(<<>>)

\* The hook __newindex, called for a name that has no value in the table.
registerStep(n, value) ==
  /\ n \notin table
  /\ \/ /\ configured
        /\ Raise(<<>>)
        /\ UNCHANGED <<steps, table>>
     \/ /\ ~configured
        /\ steps' = Append(steps, n)
        /\ table' = IF value THEN table \cup {n} ELSE table
        /\ Proceed(<<>>)

\* step.n = f, or step.n = nil, perhaps through another name of the table.  The
\* hook is not called for a name that is there.
Assign(n, value) ==
  /\ Running
  /\ \/ registerStep(n, value)
     \/ /\ n \in table
        /\ table' = IF value THEN table ELSE table \ {n}
        /\ UNCHANGED steps
        /\ Proceed(<<>>)
  /\ ops' = ops + 1
  /\ UNCHANGED <<job, configured, hooked, next, config, setsStep>>

\* step = x, for an x that cannot be indexed.
ReplaceStep ==
  /\ Running
  /\ hooked' = FALSE
  /\ ops' = ops + 1
  /\ UNCHANGED <<job, at, end, configured, table, steps, next, config, setsStep, report>>

\* Seeded fault: the error of a request is reported and not raised.
RequestGoesOn == Proceed(<<"http">>) \/ Proceed(<<"httpError">>)

\* get and post.  A body that cannot be read is reported as an error and then, by the
\* deferred call, as a request.
Request ==
  \/ Proceed(<<"http">>)
  \/ Raise(<<"httpError">>)
  \/ Raise(<<"httpError", "http">>)

\* info and fatal, which report and then, at the top, panic.
Log ==
  \/ at = "in" /\ Proceed(<<"log">>)
  \/ at = "top" /\ Raise(<<"log">>)

\* A binding is called, or the script fails by itself.
Binding ==
  /\ Running
  /\ Request \/ Log \/ Raise(<<>>)
  /\ ops' = ops + 1
  /\ UNCHANGED <<job, progVars, config, setsStep>>

-----------------------------------------------------------------------------
Next ==
  \/ Load \/ Prepared \/ Checked \/ Execute \/ CallStep \/ StepReturns \/ AllStepsDone
  \/ \E n \in Names, value \in BOOLEAN : Assign(n, value)
  \/ ReplaceStep
  \/ Binding

Spec == Init /\ [][Next]_vars

-----------------------------------------------------------------------------
(***************************************************************************)
(* Properties.                                                             *)
(***************************************************************************)

Kinds == {"script", "step", "stepError", "luaError", "http", "httpError", "log"}

\* Every variable has the type of the Go value it stands for.
TypeOK ==
  /\ job \in BOOLEAN /\ configured \in BOOLEAN /\ hooked \in BOOLEAN
  /\ at \in {"load", "top", "config", "steps", "in", "end"}
  /\ end \in Ends
  /\ table \subseteq Names
  /\ steps \in Seq(Names) /\ next \in 1..(Len(steps) + 1)
  /\ config \in ConfigTypes /\ setsStep \in BOOLEAN
  /\ report \in Seq([kind : Kinds, step : Names \cup {"top"}])
  /\ ops \in 0..MaxOps

\* Where the first n entries of a report are of a kind, and how many there are.
Positions(r, kind, n) == {i \in 1..n : r[i].kind = kind}
Reported(kind)        == Cardinality(Positions(report, kind, Len(report)))

\* What is reported of a job (lua.go 165 to 208, worker.go 67 to 72) says how it went:
\* the steps reported are the steps of the script in their order, all of them if
\* the job went well; a job that failed has reported one step error, of the next
\* step, and one Lua error after it; one that was not prepared reports neither.
ReportMatchesJob ==
  end # "none" =>
    LET last == Len(report)
    IN  /\ \A i \in Positions(report, "step", last) :
             report[i].step = steps[Cardinality(Positions(report, "step", i))]
        /\ end = "ok" => Reported("step") = Len(steps) /\ Reported("stepError") = 0
        /\ end = "failed" =>
             /\ Reported("stepError") = 1 /\ Reported("luaError") = 1
             /\ report[last - 1] = Entry("stepError", steps[Reported("step") + 1])
             /\ report[last].kind = "luaError"
        /\ end \in {"quit", "invalid"} => Reported("step") = 0 /\ Reported("script") = 0
        /\ end = "dead" => Reported("step") = 0 /\ Reported("stepError") = 0

\* A request that fails ends its job (http_binding.go 30 to 34, 41 to 45): no script
\* can go on after it, so a job has at most one, and does not count as one that
\* went well.
FailedRequestEndsJob ==
  Reported("httpError") # 0 =>
    /\ end \in {"failed", "quit"}
    /\ Reported("httpError") = 1

\* A step that has a value is never skipped: whatever the script assigns and when,
\* every name in the table is in prgm.steps (lua.go 210 to 219).
DefinedStepsRun == \A n \in table : \E i \in DOMAIN steps : steps[i] = n

\* The configuration the check has accepted is added by every worker: "This should not
\* occur, it would have been checked in controller" (worker.go 58).  A worker gives
\* up only because the script fails at its top.
AcceptedConfigIsAdded ==
  end = "quit" => ~configured

=============================================================================
