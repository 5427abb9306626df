---------------------------- MODULE EngineProofs ----------------------------
(***************************************************************************)
(* Proofs about Engine, for every set of names of steps and every number   *)
(* of things a script does.                                                *)
(***************************************************************************)
EXTENDS Engine, TLAPS, FiniteSetTheorems, SequenceTheorems

\* Where the program is says what has been done: Execute (lua.go 165) runs prepared
\* programs of jobs only, whose configuration the check has accepted, and nothing is
\* reported of a check.
Staged ==
  /\ at = "end" <=> end # "none"
  /\ at \in {"load", "top"} => ~configured
  /\ at \in {"config", "steps", "in"} => configured
  /\ at \in {"steps", "in"} => job
  /\ at = "in" => next <= Len(steps)
  /\ end \in {"none", "invalid"} \/ job
  /\ job => VerifyConfig(config)
  /\ ~job => report = <<>>
  /\ at \in {"load", "top", "config"} \/ end \in {"quit", "invalid", "dead"} => next = 1
  /\ end = "ok" => next = Len(steps) + 1

\* The steps of a report are those of a program, in their order.
Ordered(r, list) ==
  \A i \in Positions(r, "step", Len(r)) :
    r[i].step = list[Cardinality(Positions(r, "step", i))]

\* The reports keep pace with the program at every moment (lua.go 165 to 208): a step
\* is reported when it has been executed, in the order of prgm.steps, and an error
\* when the job fails.
KeepsPace ==
  /\ Reported("step") = next - 1
  /\ Ordered(report, steps)
  /\ at \in {"load", "top", "config"} \/ end \in {"quit", "invalid"} => Reported("script") = 0
  /\ end # "failed" => Reported("stepError") = 0 /\ Reported("luaError") = 0
  /\ end = "failed" =>
       /\ Reported("stepError") = 1 /\ Reported("luaError") = 1
       /\ report[Len(report) - 1] = Entry("stepError", steps[next])
       /\ report[Len(report)].kind = "luaError"

\* The inductive invariant.
EInv ==
  TypeOK /\ Staged /\ KeepsPace /\ FailedRequestEndsJob /\ DefinedStepsRun
  /\ AcceptedConfigIsAdded

Entries == [kind : Kinds, step : Names \cup {"top"}]

-----------------------------------------------------------------------------
(***************************************************************************)
(* Counting the entries of a report.                                       *)
(***************************************************************************)

\* A report and what is added to it.
LEMMA Extended ==
  ASSUME NEW r \in Seq(Entries), NEW s \in Seq(Entries)
  PROVE  /\ r \o s \in Seq(Entries)
         /\ Len(r \o s) = Len(r) + Len(s)
         /\ \A i \in 1..Len(r) : (r \o s)[i] = r[i]
         /\ \A j \in 1..Len(s) : (r \o s)[Len(r) + j] = s[j]
<1>1. Len(r) \in Nat /\ Len(s) \in Nat
    OBVIOUS
<1>2. /\ r \o s \in Seq(Entries)
      /\ Len(r \o s) = Len(r) + Len(s)
      /\ \A i \in 1..(Len(r) + Len(s)) :
            (r \o s)[i] = IF i <= Len(r) THEN r[i] ELSE s[i - Len(r)]
    BY ConcatProperties
<1>3. ASSUME NEW i \in 1..Len(r) PROVE (r \o s)[i] = r[i]
    BY <1>1, <1>2
<1>4. ASSUME NEW j \in 1..Len(s) PROVE (r \o s)[Len(r) + j] = s[j]
    <2>1. Len(r) + j \in 1..(Len(r) + Len(s)) /\ ~(Len(r) + j <= Len(r)) /\ Len(r) + j - Len(r) = j
        BY <1>1
    <2>2. QED
        BY <1>2, <2>1
<1>5. QED
    BY <1>2, <1>3, <1>4

\* There are finitely many entries of a kind, and none in an empty report.
LEMMA PositionsFinite ==
  ASSUME NEW r, NEW kind, NEW n \in Nat
  PROVE  /\ IsFiniteSet(Positions(r, kind, n))
         /\ Cardinality(Positions(r, kind, n)) \in Nat
         /\ Cardinality(Positions(r, kind, n)) = 0 <=> Positions(r, kind, n) = {}
<1>1. IsFiniteSet(1..n)
    BY FS_Interval
<1>2. Positions(r, kind, n) \in SUBSET (1..n)
    BY DEF Positions
<1>3. IsFiniteSet(Positions(r, kind, n))
    BY <1>1, <1>2, FS_Subset
<1>4. QED
    BY <1>3, FS_CardinalityType, FS_EmptySet

\* Entries of other kinds leave the entries of a kind where they are.
LEMMA NoneAdded ==
  ASSUME NEW r \in Seq(Entries), NEW s \in Seq(Entries), NEW kind,
         \A j \in 1..Len(s) : s[j].kind # kind
  PROVE  Positions(r \o s, kind, Len(r \o s)) = Positions(r, kind, Len(r))
<1> DEFINE w == r \o s
<1>1. /\ Len(w) = Len(r) + Len(s)
      /\ \A i \in 1..Len(r) : w[i] = r[i]
      /\ \A j \in 1..Len(s) : w[Len(r) + j] = s[j]
    BY Extended
<1>2. Len(r) \in Nat /\ Len(s) \in Nat
    OBVIOUS
<1> HIDE DEF w
<1>3. ASSUME NEW i \in Positions(w, kind, Len(w)) PROVE i \in Positions(r, kind, Len(r))
    <2>1. i \in 1..(Len(r) + Len(s)) /\ w[i].kind = kind
        BY <1>1 DEF Positions
    <2>2. CASE i <= Len(r)
        BY <1>1, <1>2, <2>1, <2>2 DEF Positions
    <2>3. CASE i > Len(r)
        <3>1. i - Len(r) \in 1..Len(s) /\ Len(r) + (i - Len(r)) = i
            BY <1>2, <2>1, <2>3
        <3>2. w[i] = s[i - Len(r)]
            BY <1>1, <3>1
        <3>3. QED
            BY <2>1, <3>1, <3>2
    <2>4. QED
        BY <1>2, <2>1, <2>2, <2>3
<1>4. ASSUME NEW i \in Positions(r, kind, Len(r)) PROVE i \in Positions(w, kind, Len(w))
    BY <1>1, <1>2 DEF Positions
<1>5. QED
    BY <1>3, <1>4 DEF w

\* One entry of a kind is counted.
LEMMA OneAdded ==
  ASSUME NEW r \in Seq(Entries), NEW s \in Seq(Entries), NEW kind,
         NEW k \in 1..Len(s), s[k].kind = kind,
         \A j \in 1..Len(s) : s[j].kind = kind => j = k
  PROVE  Cardinality(Positions(r \o s, kind, Len(r \o s)))
           = Cardinality(Positions(r, kind, Len(r))) + 1
<1> DEFINE w == r \o s
           x == Len(r) + k
<1>1. /\ Len(w) = Len(r) + Len(s)
      /\ \A i \in 1..Len(r) : w[i] = r[i]
      /\ \A j \in 1..Len(s) : w[Len(r) + j] = s[j]
    BY Extended
<1>2. Len(r) \in Nat /\ Len(s) \in Nat /\ k \in Nat
    OBVIOUS
<1>3. x \in 1..(Len(r) + Len(s)) /\ x > Len(r) /\ w[x] = s[k]
    BY <1>1, <1>2
<1> HIDE DEF w
<1>4. Positions(w, kind, Len(w)) = Positions(r, kind, Len(r)) \cup {x}
    <2>1. ASSUME NEW i \in Positions(w, kind, Len(w))
          PROVE  i \in Positions(r, kind, Len(r)) \cup {x}
        <3>1. i \in 1..(Len(r) + Len(s)) /\ w[i].kind = kind
            BY <1>1 DEF Positions
        <3>2. CASE i <= Len(r)
            BY <1>1, <1>2, <3>1, <3>2 DEF Positions
        <3>3. CASE i > Len(r)
            <4>1. i - Len(r) \in 1..Len(s) /\ Len(r) + (i - Len(r)) = i
                BY <1>2, <3>1, <3>3
            <4>2. w[i] = s[i - Len(r)]
                BY <1>1, <4>1
            <4>3. i - Len(r) = k
                BY <3>1, <4>1, <4>2
            <4>4. QED
                BY <4>1, <4>3
        <3>4. QED
            BY <1>2, <3>1, <3>2, <3>3
    <2>2. ASSUME NEW i \in Positions(r, kind, Len(r)) PROVE i \in Positions(w, kind, Len(w))
        BY <1>1, <1>2 DEF Positions
    <2>3. x \in Positions(w, kind, Len(w))
        BY <1>1, <1>3 DEF Positions
    <2>4. QED
        BY <2>1, <2>2, <2>3
<1>5. x \notin Positions(r, kind, Len(r))
    BY <1>2, <1>3 DEF Positions
<1>6. IsFiniteSet(Positions(r, kind, Len(r)))
    BY <1>2, PositionsFinite
<1>7. QED
    BY <1>4, <1>5, <1>6, FS_AddElement DEF w

\* Up to an entry of the old report, nothing is new.
LEMMA SamePrefix ==
  ASSUME NEW r \in Seq(Entries), NEW s \in Seq(Entries), NEW kind, NEW i \in 1..Len(r)
  PROVE  Positions(r \o s, kind, i) = Positions(r, kind, i)
<1> DEFINE w == r \o s
<1>1. \A j \in 1..Len(r) : w[j] = r[j]
    BY Extended
<1>2. \A j \in 1..i : j \in 1..Len(r)
    OBVIOUS
<1> HIDE DEF w
<1>3. Positions(w, kind, i) = Positions(r, kind, i)
    BY <1>1, <1>2 DEF Positions
<1>4. QED
    BY <1>3 DEF w

\* What is no step does not change the order of the steps.
LEMMA OrderKept ==
  ASSUME NEW r \in Seq(Entries), NEW s \in Seq(Entries), NEW list, Ordered(r, list),
         \A j \in 1..Len(s) : s[j].kind # "step"
  PROVE  Ordered(r \o s, list)
<1> SUFFICES ASSUME NEW i \in Positions(r \o s, "step", Len(r \o s))
             PROVE  (r \o s)[i].step = list[Cardinality(Positions(r \o s, "step", i))]
    BY DEF Ordered
<1>1. i \in Positions(r, "step", Len(r))
    BY NoneAdded
<1>2. i \in 1..Len(r)
    BY <1>1 DEF Positions
<1>3. (r \o s)[i] = r[i]
    BY <1>2, Extended
<1>4. Positions(r \o s, "step", i) = Positions(r, "step", i)
    BY <1>2, SamePrefix
<1>5. r[i].step = list[Cardinality(Positions(r, "step", i))]
    BY <1>1 DEF Ordered
<1>6. QED
    BY <1>3, <1>4, <1>5

\* The step that is executed next is the next one in the report.
LEMMA OrderGrows ==
  ASSUME NEW r \in Seq(Entries), NEW s \in Seq(Entries), NEW list, Ordered(r, list),
         Len(s) = 1, s[1].kind = "step",
         s[1].step = list[Cardinality(Positions(r, "step", Len(r))) + 1]
  PROVE  Ordered(r \o s, list)
<1> SUFFICES ASSUME NEW i \in Positions(r \o s, "step", Len(r \o s))
             PROVE  (r \o s)[i].step = list[Cardinality(Positions(r \o s, "step", i))]
    BY DEF Ordered
<1>1. /\ Len(r \o s) = Len(r) + 1 /\ Len(r) \in Nat
      /\ (r \o s)[Len(r) + 1] = s[1]
    BY Extended
<1>2. i \in 1..(Len(r) + 1) /\ (r \o s)[i].kind = "step"
    BY <1>1 DEF Positions
<1>3. CASE i = Len(r) + 1
    <2>1. 1 \in 1..Len(s) /\ \A j \in 1..Len(s) : s[j].kind = "step" => j = 1
        OBVIOUS
    <2>2. Cardinality(Positions(r \o s, "step", Len(r \o s)))
            = Cardinality(Positions(r, "step", Len(r))) + 1
        BY <2>1, OneAdded
    <2>3. i = Len(r \o s)
        BY <1>1, <1>3
    <2>4. QED
        BY <1>1, <1>3, <2>2, <2>3
<1>4. CASE i # Len(r) + 1
    <2>1. i \in 1..Len(r)
        BY <1>1, <1>2, <1>4
    <2>2. (r \o s)[i] = r[i]
        BY <2>1, Extended
    <2>3. i \in Positions(r, "step", Len(r))
        BY <1>2, <2>1, <2>2 DEF Positions
    <2>4. Positions(r \o s, "step", i) = Positions(r, "step", i)
        BY <2>1, SamePrefix
    <2>5. r[i].step = list[Cardinality(Positions(r, "step", i))]
        BY <2>3 DEF Ordered
    <2>6. QED
        BY <2>2, <2>4, <2>5
<1>5. QED
    BY <1>3, <1>4

-----------------------------------------------------------------------------
(***************************************************************************)
(* What a step of the script reports.                                      *)
(***************************************************************************)

\* Kinds of entries that a binding reports.
ScriptKinds == {"http", "httpError", "log"}

\* The entries of a list of kinds: of a check there are none (nullMetric).
LEMMA ReportsOf ==
  ASSUME TypeOK, Staged, at # "end", NEW kinds \in Seq(Kinds)
  PROVE  /\ Reports(kinds) \in Seq(Entries)
         /\ job => /\ Len(Reports(kinds)) = Len(kinds)
                   /\ \A i \in 1..Len(kinds) :
                        /\ Reports(kinds)[i] = Entry(kinds[i], Current)
                        /\ Reports(kinds)[i].kind = kinds[i]
         /\ ~job => Reports(kinds) = <<>>
<1>1. Current \in Names \cup {"top"}
    BY DEF Current, TypeOK, Staged
<1>2. CASE job
    <2>1. Len(kinds) \in Nat /\ DOMAIN kinds = 1..Len(kinds)
        OBVIOUS
    <2>2. \A i \in 1..Len(kinds) : Entry(kinds[i], Current) \in Entries
        BY <1>1, <2>1 DEF Entry, Entries
    <2>3. Reports(kinds) = [i \in 1..Len(kinds) |-> Entry(kinds[i], Current)]
        BY <1>2, <2>1 DEF Reports
    <2>4. ASSUME NEW i \in 1..Len(kinds)
          PROVE  Reports(kinds)[i] = Entry(kinds[i], Current) /\ Entry(kinds[i], Current).kind = kinds[i]
        BY <2>3 DEF Entry
    <2> HIDE DEF Entries
    <2>5. QED
        BY <1>2, <2>1, <2>2, <2>3, <2>4
<1>3. CASE ~job
    BY <1>3 DEF Reports
<1>4. QED
    BY <1>2, <1>3 DEF TypeOK

\* The number of entries of a kind, after others.
LEMMA CountKept ==
  ASSUME NEW s \in Seq(Entries), report \in Seq(Entries), report' = report \o s, NEW kind,
         \A j \in 1..Len(s) : s[j].kind # kind
  PROVE  Reported(kind)' = Reported(kind)
BY NoneAdded DEF Reported

\* The number of entries of a kind, after one of them.
LEMMA CountGrows ==
  ASSUME NEW s \in Seq(Entries), report \in Seq(Entries), report' = report \o s, NEW kind,
         NEW k \in 1..Len(s), s[k].kind = kind,
         \A j \in 1..Len(s) : s[j].kind = kind => j = k
  PROVE  Reported(kind)' = Reported(kind) + 1
BY OneAdded DEF Reported

\* While the program runs no request has failed.
LEMMA NoErrorYet ==
  ASSUME TypeOK, Staged, FailedRequestEndsJob, at # "end"
  PROVE  Reported("httpError") = 0 /\ end = "none"
BY DEF Staged, FailedRequestEndsJob

\* What a script does that goes well is no step, no error and no script of its own.
LEMMA ProceedReports ==
  ASSUME TypeOK, Staged, KeepsPace, FailedRequestEndsJob, at \in {"top", "in"},
         NEW kinds \in Seq({"http", "log"}), Proceed(kinds), UNCHANGED <<job, next>>,
         Ordered(report, steps')
  PROVE  /\ report' \in Seq(Entries)
         /\ ~job => report' = <<>>
         /\ KeepsPace' /\ FailedRequestEndsJob'
<1> DEFINE s == Reports(kinds)
<1>1. kinds \in Seq(Kinds) /\ Len(kinds) \in Nat /\ \A i \in 1..Len(kinds) : kinds[i] \in {"http", "log"}
    BY DEF Kinds
<1>2. /\ s \in Seq(Entries)
      /\ job => /\ Len(s) = Len(kinds)
                /\ \A i \in 1..Len(kinds) : s[i].kind = kinds[i]
      /\ ~job => s = <<>>
    BY <1>1, ReportsOf
<1>3. report \in Seq(Entries) /\ report' = report \o s /\ UNCHANGED <<at, end>>
    BY DEF TypeOK, Proceed, Entries
<1> HIDE DEF s
<1>4. \A j \in 1..Len(s) : s[j].kind \in {"http", "log"}
    <2>1. CASE job
        BY <1>1, <1>2, <2>1
    <2>2. CASE ~job
        BY <1>2, <2>2
    <2>3. QED
        BY <2>1, <2>2
<1>5. report' \in Seq(Entries)
    BY <1>2, <1>3, Extended
<1>6. ASSUME ~job PROVE report' = <<>>
    BY <1>2, <1>3, <1>6, ConcatEmptySeq DEF Staged
<1>7. \A kind \in {"step", "script", "stepError", "luaError", "httpError"} :
        Reported(kind)' = Reported(kind)
    <2> TAKE kind \in {"step", "script", "stepError", "luaError", "httpError"}
    <2>1. \A j \in 1..Len(s) : s[j].kind # kind
        BY <1>4
    <2>2. QED
        BY <1>2, <1>3, <2>1, CountKept
<1>8. Ordered(report', steps')
    <2>1. \A j \in 1..Len(s) : s[j].kind # "step"
        BY <1>4
    <2>2. QED
        BY <1>2, <1>3, <2>1, OrderKept
<1>9. end = "none" /\ end' = "none" /\ at' = at /\ next' = next
    BY <1>3, NoErrorYet
<1>10. KeepsPace'
    BY <1>7, <1>8, <1>9 DEF KeepsPace
<1>11. FailedRequestEndsJob'
    BY <1>7, <1>9, NoErrorYet DEF FailedRequestEndsJob
<1>12. QED
    BY <1>5, <1>6, <1>10, <1>11

\* At most one of the entries that are added is of a failed request.
LEMMA OneHttpError ==
  ASSUME NEW s \in Seq(Entries), report \in Seq(Entries), report' = report \o s,
         Reported("httpError") = 0,
         \A i, j \in 1..Len(s) :
           s[i].kind = "httpError" /\ s[j].kind = "httpError" => i = j
  PROVE  Reported("httpError")' \in {0, 1}
<1>1. CASE \E k \in 1..Len(s) : s[k].kind = "httpError"
    <2>1. PICK k \in 1..Len(s) : s[k].kind = "httpError"
        BY <1>1
    <2>2. Reported("httpError")' = Reported("httpError") + 1
        BY <2>1, CountGrows
    <2>3. QED
        BY <2>2
<1>2. CASE \A k \in 1..Len(s) : s[k].kind # "httpError"
    BY <1>2, CountKept
<1>3. QED
    BY <1>1, <1>2

\* An error at the top of a script, before any of its steps.
LEMMA TopErrorReports ==
  ASSUME TypeOK, Staged, KeepsPace, FailedRequestEndsJob, at = "top",
         NEW kinds \in Seq(ScriptKinds),
         \A i, j \in 1..Len(kinds) : kinds[i] = "httpError" /\ kinds[j] = "httpError" => i = j,
         Raise(kinds), UNCHANGED <<job, next, steps>>
  PROVE  /\ report' \in Seq(Entries)
         /\ ~job => report' = <<>>
         /\ KeepsPace' /\ FailedRequestEndsJob'
<1> DEFINE s == Reports(kinds)
<1>1. kinds \in Seq(Kinds) /\ Len(kinds) \in Nat /\ \A i \in 1..Len(kinds) : kinds[i] \in ScriptKinds
    BY DEF Kinds, ScriptKinds
<1>2. /\ s \in Seq(Entries)
      /\ job => /\ Len(s) = Len(kinds)
                /\ \A i \in 1..Len(kinds) : s[i].kind = kinds[i]
      /\ ~job => s = <<>>
    BY <1>1, ReportsOf
<1>3. /\ report \in Seq(Entries) /\ report' = report \o s /\ at' = "end"
      /\ end' = IF job THEN "quit" ELSE "invalid"
    BY DEF TypeOK, Raise, Entries
<1> HIDE DEF s
<1>4. /\ \A j \in 1..Len(s) : s[j].kind \in ScriptKinds
      /\ \A i, j \in 1..Len(s) : s[i].kind = "httpError" /\ s[j].kind = "httpError" => i = j
    <2>1. CASE job
        BY <1>1, <1>2, <2>1
    <2>2. CASE ~job
        BY <1>2, <2>2
    <2>3. QED
        BY <2>1, <2>2
<1>5. report' \in Seq(Entries)
    BY <1>2, <1>3, Extended
<1>6. ASSUME ~job PROVE report' = <<>>
    BY <1>2, <1>3, <1>6, ConcatEmptySeq DEF Staged
<1>7. \A kind \in {"step", "script", "stepError", "luaError"} : Reported(kind)' = Reported(kind)
    <2> TAKE kind \in {"step", "script", "stepError", "luaError"}
    <2>1. \A j \in 1..Len(s) : s[j].kind # kind
        BY <1>4 DEF ScriptKinds
    <2>2. QED
        BY <1>2, <1>3, <2>1, CountKept
<1>8. Ordered(report', steps')
    <2>1. \A j \in 1..Len(s) : s[j].kind # "step"
        BY <1>4 DEF ScriptKinds
    <2>2. QED
        BY <1>2, <1>3, <2>1, OrderKept DEF KeepsPace
<1>9. end = "none" /\ next' = next /\ Reported("httpError") = 0
    BY NoErrorYet
<1>10. KeepsPace'
    BY <1>3, <1>7, <1>8, <1>9 DEF KeepsPace
<1>11. FailedRequestEndsJob'
    <2>1. Reported("httpError")' \in {0, 1}
        BY <1>2, <1>3, <1>4, <1>9, OneHttpError
    <2>2. CASE job
        BY <1>3, <2>1, <2>2 DEF FailedRequestEndsJob
    <2>3. CASE ~job
        <3>1. \A j \in 1..Len(s) : s[j].kind # "httpError"
            BY <1>2, <2>3
        <3>2. Reported("httpError")' = 0
            BY <1>2, <1>3, <1>9, <3>1, CountKept
        <3>3. QED
            BY <3>2 DEF FailedRequestEndsJob
    <2>4. QED
        BY <2>2, <2>3
<1>12. QED
    BY <1>5, <1>6, <1>10, <1>11

\* An error in a step, which runSteps reports and the worker after it.
LEMMA StepErrorReports ==
  ASSUME TypeOK, Staged, KeepsPace, FailedRequestEndsJob, at = "in",
         NEW kinds \in Seq(ScriptKinds),
         \A i, j \in 1..Len(kinds) : kinds[i] = "httpError" /\ kinds[j] = "httpError" => i = j,
         Raise(kinds), UNCHANGED <<job, next, steps>>
  PROVE  report' \in Seq(Entries) /\ KeepsPace' /\ FailedRequestEndsJob'
<1> DEFINE errs == <<"stepError", "luaError">>
           all  == kinds \o errs
           n    == Len(kinds)
           s    == Reports(all)
<1>1. kinds \in Seq(Kinds) /\ n \in Nat /\ \A i \in 1..n : kinds[i] \in ScriptKinds
    BY DEF Kinds, ScriptKinds
<1>2. errs \in Seq(Kinds) /\ Len(errs) = 2 /\ errs[1] = "stepError" /\ errs[2] = "luaError"
    BY DEF Kinds
<1> HIDE DEF errs
<1>3. /\ all \in Seq(Kinds) /\ Len(all) = n + 2
      /\ \A i \in 1..(n + 2) : all[i] = IF i <= n THEN kinds[i] ELSE errs[i - n]
    <2>1. /\ kinds \o errs \in Seq(Kinds) /\ Len(kinds \o errs) = Len(kinds) + Len(errs)
          /\ \A i \in 1..(Len(kinds) + Len(errs)) :
                (kinds \o errs)[i] = IF i <= Len(kinds) THEN kinds[i] ELSE errs[i - Len(kinds)]
        BY <1>1, <1>2, ConcatProperties
    <2>2. QED
        BY <1>2, <2>1, Zenon
<1>4. /\ \A i \in 1..n : all[i] = kinds[i]
      /\ all[n + 1] = "stepError" /\ all[n + 2] = "luaError"
    <2>1. \A i \in 1..n : i \in 1..(n + 2) /\ i <= n
        BY <1>1
    <2>2. /\ n + 1 \in 1..(n + 2) /\ ~(n + 1 <= n) /\ n + 1 - n = 1
          /\ n + 2 \in 1..(n + 2) /\ ~(n + 2 <= n) /\ n + 2 - n = 2
        BY <1>1
    <2>3. QED
        BY <1>2, <1>3, <2>1, <2>2
<1>5. job /\ Current = steps[next]
    BY DEF Staged, Current
<1>6. /\ report \in Seq(Entries) /\ report' = report \o s
      /\ at' = "end" /\ end' = "failed"
    BY DEF TypeOK, Raise, Entries, errs
<1> HIDE DEF all
<1>7. /\ s \in Seq(Entries) /\ Len(s) = n + 2
      /\ \A i \in 1..(n + 2) : s[i] = Entry(all[i], Current) /\ s[i].kind = all[i]
    BY <1>3, <1>5, ReportsOf
<1> HIDE DEF s, n
<1>8. /\ s[n + 1] = Entry("stepError", steps[next])
      /\ s[n + 1].kind = "stepError" /\ s[n + 2].kind = "luaError"
      /\ \A i \in 1..n : s[i].kind = kinds[i] /\ s[i].kind \in ScriptKinds
    BY <1>1, <1>4, <1>5, <1>7
<1>9. \A i \in 1..(n + 2) : i \in 1..n \/ i = n + 1 \/ i = n + 2
    BY <1>1
<1>10. report' \in Seq(Entries)
    BY <1>6, <1>7, Extended
<1>11. Reported("step")' = Reported("step")
    <2>1. \A j \in 1..Len(s) : s[j].kind # "step"
        BY <1>7, <1>8, <1>9 DEF ScriptKinds
    <2>2. QED
        BY <1>6, <1>7, <2>1, CountKept
<1>12. Ordered(report', steps')
    <2>1. \A j \in 1..Len(s) : s[j].kind # "step"
        BY <1>7, <1>8, <1>9 DEF ScriptKinds
    <2>2. QED
        BY <1>6, <1>7, <2>1, OrderKept DEF KeepsPace
<1>13. end = "none" /\ next' = next /\ Reported("httpError") = 0
    BY NoErrorYet
<1>14. Reported("stepError")' = 1
    <2>1. /\ n + 1 \in 1..Len(s)
          /\ \A j \in 1..Len(s) : s[j].kind = "stepError" => j = n + 1
        BY <1>1, <1>7, <1>8, <1>9 DEF ScriptKinds
    <2>2. Reported("stepError")' = Reported("stepError") + 1
        BY <1>6, <1>7, <1>8, <2>1, CountGrows
    <2>3. QED
        BY <1>13, <2>2 DEF KeepsPace
<1>15. Reported("luaError")' = 1
    <2>1. /\ n + 2 \in 1..Len(s)
          /\ \A j \in 1..Len(s) : s[j].kind = "luaError" => j = n + 2
        BY <1>1, <1>7, <1>8, <1>9 DEF ScriptKinds
    <2>2. Reported("luaError")' = Reported("luaError") + 1
        BY <1>6, <1>7, <1>8, <2>1, CountGrows
    <2>3. QED
        BY <1>13, <2>2 DEF KeepsPace
<1>16. Reported("httpError")' \in {0, 1}
    <2>1. \A i \in 1..(n + 2) : s[i].kind = "httpError" => i \in 1..n /\ kinds[i] = "httpError"
        BY <1>8, <1>9
    <2>2. \A i, j \in 1..Len(s) : s[i].kind = "httpError" /\ s[j].kind = "httpError" => i = j
        BY <1>7, <2>1 DEF n
    <2>3. QED
        BY <1>6, <1>7, <1>13, <2>2, OneHttpError
<1>17. /\ report'[Len(report') - 1] = Entry("stepError", steps[next])
       /\ report'[Len(report')].kind = "luaError"
    <2>1. /\ Len(report') = Len(report) + (n + 2) /\ Len(report) \in Nat
          /\ \A j \in 1..(n + 2) : report'[Len(report) + j] = s[j]
        <3>1. Len(report \o s) = Len(report) + Len(s)
            BY <1>6, <1>7, Extended
        <3>2. \A j \in 1..Len(s) : (report \o s)[Len(report) + j] = s[j]
            BY <1>6, <1>7, Extended
        <3>3. Len(report) \in Nat
            BY <1>6
        <3>4. QED
            BY <1>6, <1>7, <3>1, <3>2, <3>3, Zenon
    <2>2. /\ Len(report') - 1 = Len(report) + (n + 1) /\ n + 1 \in 1..(n + 2)
          /\ Len(report') = Len(report) + (n + 2) /\ n + 2 \in 1..(n + 2)
        BY <1>1, <2>1
    <2>3. QED
        BY <1>8, <2>1, <2>2
<1>18. KeepsPace'
    BY <1>6, <1>11, <1>12, <1>13, <1>14, <1>15, <1>17 DEF KeepsPace
<1>19. FailedRequestEndsJob'
    BY <1>6, <1>16 DEF FailedRequestEndsJob
<1>20. QED
    BY <1>10, <1>18, <1>19

\* A step that has been executed is the next one in the report.
LEMMA StepReturnsReports ==
  ASSUME TypeOK, Staged, KeepsPace, FailedRequestEndsJob, StepReturns
  PROVE  report' \in Seq(Entries) /\ KeepsPace' /\ FailedRequestEndsJob'
<1> DEFINE kinds == <<"step">>
           s     == Reports(kinds)
<1>1. kinds \in Seq(Kinds) /\ Len(kinds) = 1 /\ kinds[1] = "step"
    BY DEF Kinds
<1>2. job /\ Current = steps[next] /\ at = "in"
    BY DEF StepReturns, Staged, Current
<1>3. /\ report \in Seq(Entries) /\ report' = report \o s /\ UNCHANGED <<steps, end>>
      /\ at' = "steps" /\ next' = next + 1 /\ next \in Nat
    BY DEF TypeOK, StepReturns, Entries
<1> HIDE DEF kinds
<1>4. /\ s \in Seq(Entries) /\ Len(s) = 1
      /\ s[1] = Entry("step", steps[next]) /\ s[1].kind = "step"
    <2>1. /\ s \in Seq(Entries) /\ Len(s) = Len(kinds)
          /\ \A i \in 1..Len(kinds) : s[i] = Entry(kinds[i], Current) /\ s[i].kind = kinds[i]
        BY <1>1, <1>2, ReportsOf
    <2> HIDE DEF s
    <2>2. 1 \in 1..Len(kinds)
        BY <1>1
    <2>3. QED
        BY <1>1, <1>2, <2>1, <2>2
<1> HIDE DEF s
<1>5. s[1].step = steps[next]
    BY <1>4 DEF Entry
<1>6. 1 \in 1..Len(s) /\ \A j \in 1..Len(s) : j = 1
    BY <1>4
<1>7. report' \in Seq(Entries)
    BY <1>3, <1>4, Extended
<1>8. \A kind \in {"script", "stepError", "luaError", "httpError"} : Reported(kind)' = Reported(kind)
    <2> TAKE kind \in {"script", "stepError", "luaError", "httpError"}
    <2>1. \A j \in 1..Len(s) : s[j].kind # kind
        BY <1>4, <1>6
    <2>2. QED
        BY <1>3, <1>4, <2>1, CountKept
<1>9. Reported("step")' = Reported("step") + 1
    BY <1>3, <1>4, <1>6, CountGrows
<1>10. Reported("step") = next - 1
    BY DEF KeepsPace
<1>11. Ordered(report', steps')
    <2>1. s[1].step = steps[Cardinality(Positions(report, "step", Len(report))) + 1]
        <3>1. next = Reported("step") + 1
            BY <1>3, <1>10
        <3>2. QED
            BY <1>5, <3>1 DEF Reported
    <2>2. QED
        BY <1>3, <1>4, <2>1, OrderGrows DEF KeepsPace
<1>12. end = "none" /\ Reported("httpError") = 0
    BY <1>2, NoErrorYet
<1>13. KeepsPace'
    BY <1>3, <1>8, <1>9, <1>10, <1>11, <1>12 DEF KeepsPace
<1>14. FailedRequestEndsJob'
    BY <1>8, <1>12 DEF FailedRequestEndsJob
<1>15. QED
    BY <1>7, <1>13, <1>14

\* The execution of the script is reported when it begins.
LEMMA ExecuteReports ==
  ASSUME TypeOK, Staged, KeepsPace, FailedRequestEndsJob, Execute
  PROVE  report' \in Seq(Entries) /\ KeepsPace' /\ FailedRequestEndsJob'
<1> DEFINE e == Entry("script", "top")
           s == <<e>>
<1>1. e \in Entries /\ e.kind = "script"
    BY DEF Entry, Entries, Kinds
<1>2. s \in Seq(Entries) /\ Len(s) = 1 /\ s[1] = e
    BY <1>1
<1>3. report \in Seq(Entries) /\ UNCHANGED <<steps, next>> /\ at = "config"
    BY DEF TypeOK, Execute, Entries
<1>4. end = "none" /\ Reported("httpError") = 0
    BY <1>3, NoErrorYet
<1>5. CASE at' = "end" /\ end' = "quit" /\ UNCHANGED report
    BY <1>3, <1>4, <1>5 DEF KeepsPace, FailedRequestEndsJob, Reported
<1>6. CASE at' = "steps" /\ report' = Append(report, e) /\ UNCHANGED end
    <2>1. report' = report \o s
        BY <1>1, <1>3, <1>6, AppendIsConcat
    <2> HIDE DEF e, s
    <2>2. report' \in Seq(Entries)
        BY <1>2, <1>3, <2>1, Extended
    <2>3. \A kind \in {"step", "stepError", "luaError", "httpError"} : Reported(kind)' = Reported(kind)
        <3> TAKE kind \in {"step", "stepError", "luaError", "httpError"}
        <3>1. \A j \in 1..Len(s) : s[j].kind # kind
            BY <1>1, <1>2
        <3>2. QED
            BY <1>2, <1>3, <2>1, <3>1, CountKept
    <2>4. Ordered(report', steps')
        <3>1. \A j \in 1..Len(s) : s[j].kind # "step"
            BY <1>1, <1>2
        <3>2. QED
            BY <1>2, <1>3, <2>1, <3>1, OrderKept DEF KeepsPace
    <2>5. KeepsPace'
        BY <1>3, <1>4, <1>6, <2>3, <2>4 DEF KeepsPace
    <2>6. FailedRequestEndsJob'
        BY <1>4, <2>3 DEF FailedRequestEndsJob
    <2>7. QED
        BY <2>2, <2>5, <2>6
<1>7. QED
    BY <1>5, <1>6 DEF Execute

\* A step without a value fails like one that raises an error.
LEMMA CallStepReports ==
  ASSUME TypeOK, Staged, KeepsPace, FailedRequestEndsJob, CallStep
  PROVE  report' \in Seq(Entries) /\ KeepsPace' /\ FailedRequestEndsJob'
<1> DEFINE e == Entry("stepError", steps[next])
           f == Entry("luaError", steps[next])
           s == <<e, f>>
<1>1. report \in Seq(Entries) /\ UNCHANGED <<steps, next>> /\ at = "steps" /\ steps[next] \in Names
    BY DEF TypeOK, CallStep, Entries, progVars
<1>2. e \in Entries /\ e.kind = "stepError" /\ f \in Entries /\ f.kind = "luaError"
    BY <1>1 DEF Entry, Entries, Kinds
<1>3. s \in Seq(Entries) /\ Len(s) = 2 /\ s[1] = e /\ s[2] = f
    <2> HIDE DEF e, f, Entries
    <2> QED
        BY <1>2
<1>4. end = "none" /\ Reported("httpError") = 0
    BY <1>1, NoErrorYet
<1>5. CASE UNCHANGED report /\ end' # "failed" /\ at' \in {"in", "end"} /\ end' \in {"none", "dead"}
    BY <1>1, <1>4, <1>5 DEF KeepsPace, FailedRequestEndsJob, Reported
<1>6. CASE at' = "end" /\ end' = "failed" /\ report' = report \o s
    <2> HIDE DEF e, f, s
    <2>1. report' \in Seq(Entries)
        BY <1>1, <1>3, <1>6, Extended
    <2>2. \A j \in 1..Len(s) : j = 1 \/ j = 2
        BY <1>3
    <2>3. Reported("step")' = Reported("step") /\ Reported("httpError")' = Reported("httpError")
        <3>1. \A j \in 1..Len(s) : s[j].kind # "step" /\ s[j].kind # "httpError"
            BY <1>2, <1>3, <2>2
        <3>2. QED
            BY <1>1, <1>3, <1>6, <3>1, CountKept
    <2>4. Ordered(report', steps')
        <3>1. \A j \in 1..Len(s) : s[j].kind # "step"
            BY <1>2, <1>3, <2>2
        <3>2. QED
            BY <1>1, <1>3, <1>6, <3>1, OrderKept DEF KeepsPace
    <2>5. Reported("stepError")' = 1
        <3>1. /\ 1 \in 1..Len(s) /\ s[1].kind = "stepError"
              /\ \A j \in 1..Len(s) : s[j].kind = "stepError" => j = 1
            BY <1>2, <1>3, <2>2
        <3>2. Reported("stepError")' = Reported("stepError") + 1
            BY <1>1, <1>3, <1>6, <3>1, CountGrows
        <3>3. QED
            BY <1>4, <3>2 DEF KeepsPace
    <2>6. Reported("luaError")' = 1
        <3>1. /\ 2 \in 1..Len(s) /\ s[2].kind = "luaError"
              /\ \A j \in 1..Len(s) : s[j].kind = "luaError" => j = 2
            BY <1>2, <1>3, <2>2
        <3>2. Reported("luaError")' = Reported("luaError") + 1
            BY <1>1, <1>3, <1>6, <3>1, CountGrows
        <3>3. QED
            BY <1>4, <3>2 DEF KeepsPace
    <2>7. report'[Len(report') - 1] = e /\ report'[Len(report')] = f
        <3>1. Len(report') = Len(report) + Len(s)
            BY <1>1, <1>3, <1>6, Extended
        <3>2. \A j \in 1..Len(s) : report'[Len(report) + j] = s[j]
            BY <1>1, <1>3, <1>6, Extended
        <3>3. Len(report) \in Nat
            BY <1>1
        <3>4. /\ Len(report') - 1 = Len(report) + 1 /\ 1 \in 1..Len(s)
              /\ Len(report') = Len(report) + 2 /\ 2 \in 1..Len(s)
            BY <1>3, <3>1, <3>3
        <3>5. QED
            BY <1>3, <3>2, <3>4
    <2>8. KeepsPace'
        BY <1>1, <1>2, <1>6, <2>3, <2>4, <2>5, <2>6, <2>7 DEF KeepsPace, e
    <2>9. FailedRequestEndsJob'
        BY <1>4, <2>3 DEF FailedRequestEndsJob
    <2>10. QED
        BY <2>1, <2>8, <2>9
<1>7. QED
    BY <1>1, <1>4, <1>5, <1>6 DEF CallStep

\* Steps that report nothing.
LEMMA QuietReports ==
  ASSUME TypeOK, Staged, KeepsPace, FailedRequestEndsJob,
         Load \/ Prepared \/ Checked \/ AllStepsDone \/ ReplaceStep
  PROVE  /\ report' \in Seq(Entries)
         /\ ~job' => report' = <<>>
         /\ KeepsPace' /\ FailedRequestEndsJob'
<1>1. report' = report /\ report \in Seq(Entries) /\ at # "end"
    BY DEF Load, Prepared, Checked, AllStepsDone, ReplaceStep, Running, TypeOK, Entries
<1>2. end = "none" /\ Reported("httpError") = 0
    BY <1>1, NoErrorYet
<1>3. \A kind : Reported(kind)' = Reported(kind)
    BY <1>1 DEF Reported
<1>4. ~job' => report' = <<>>
    BY <1>1 DEF Staged, Load, Prepared, Checked, AllStepsDone, ReplaceStep
<1>5. FailedRequestEndsJob'
    BY <1>2, <1>3 DEF FailedRequestEndsJob
<1>6. next' - 1 = Reported("step") /\ Ordered(report', steps')
    <2>1. CASE UNCHANGED <<next, steps>>
        BY <1>1, <2>1 DEF KeepsPace
    <2>2. CASE Checked /\ next' = 1
        <3>1. report = <<>> /\ next = 1
            BY <2>2 DEF Checked, Staged
        <3>2. Reported("step") = 0
            BY <3>1 DEF KeepsPace
        <3>3. Len(report) \in Nat
            BY <1>1
        <3>4. Positions(report, "step", Len(report)) = {}
            BY <3>2, <3>3, PositionsFinite DEF Reported
        <3>5. QED
            BY <1>1, <2>2, <3>2, <3>4 DEF Ordered
    <2>3. QED
        BY <2>1, <2>2 DEF Load, Prepared, Checked, AllStepsDone, ReplaceStep, progVars
<1>7. KeepsPace'
    <2>1. end' # "failed"
        BY <1>2 DEF Load, Prepared, Checked, AllStepsDone, ReplaceStep
    <2>2. Reported("stepError") = 0 /\ Reported("luaError") = 0
        BY <1>2 DEF KeepsPace
    <2>3. at' \in {"load", "top", "config"} \/ end' \in {"quit", "invalid"} => Reported("script") = 0
        BY <1>2 DEF KeepsPace, Load, Prepared, Checked, AllStepsDone, ReplaceStep
    <2>4. QED
        BY <1>3, <1>6, <2>1, <2>2, <2>3 DEF KeepsPace
<1>8. QED
    BY <1>1, <1>4, <1>5, <1>7

\* An error of the script, at the top or in a step.
LEMMA RaiseReports ==
  ASSUME TypeOK, Staged, KeepsPace, FailedRequestEndsJob,
         NEW kinds \in Seq(ScriptKinds),
         \A i, j \in 1..Len(kinds) : kinds[i] = "httpError" /\ kinds[j] = "httpError" => i = j,
         Raise(kinds), UNCHANGED <<job, next, steps>>
  PROVE  /\ report' \in Seq(Entries)
         /\ ~job => report' = <<>>
         /\ KeepsPace' /\ FailedRequestEndsJob'
<1>1. CASE at = "top"
    BY <1>1, TopErrorReports
<1>2. CASE at = "in"
    <2>1. job
        BY <1>2 DEF Staged
    <2>2. QED
        BY <1>2, <2>1, StepErrorReports
<1>3. QED
    BY <1>1, <1>2 DEF Raise

\* What a binding reports.
LEMMA BindingReports ==
  ASSUME TypeOK, Staged, KeepsPace, FailedRequestEndsJob, Binding
  PROVE  /\ report' \in Seq(Entries)
         /\ ~job => report' = <<>>
         /\ KeepsPace' /\ FailedRequestEndsJob'
<1>1. at \in {"top", "in"} /\ UNCHANGED <<job, next, steps>> /\ Ordered(report, steps')
    BY DEF Binding, Running, progVars, KeepsPace
<1>2. <<"http">> \in Seq({"http", "log"}) /\ <<"log">> \in Seq({"http", "log"})
    OBVIOUS
<1>3. CASE Proceed(<<"http">>) \/ Proceed(<<"log">>)
    BY <1>1, <1>2, <1>3, ProceedReports
<1>4. CASE Raise(<<"httpError">>)
    <2>1. <<"httpError">> \in Seq(ScriptKinds) /\ Len(<<"httpError">>) = 1
        BY DEF ScriptKinds
    <2>2. \A i, j \in 1..Len(<<"httpError">>) : i = j
        BY <2>1
    <2>3. QED
        BY <1>1, <1>4, <2>1, <2>2, RaiseReports
<1>5. CASE Raise(<<"httpError", "http">>)
    <2> DEFINE kinds == <<"httpError", "http">>
    <2>1. kinds \in Seq(ScriptKinds) /\ Len(kinds) = 2 /\ kinds[1] = "httpError" /\ kinds[2] = "http"
        BY DEF ScriptKinds
    <2> HIDE DEF kinds
    <2>2. \A i, j \in 1..Len(kinds) : kinds[i] = "httpError" /\ kinds[j] = "httpError" => i = j
        <3>1. \A i \in 1..Len(kinds) : i = 1 \/ i = 2
            BY <2>1
        <3>2. QED
            BY <2>1, <3>1
    <2>3. Raise(kinds)
        BY <1>5 DEF kinds
    <2>4. QED
        BY <1>1, <2>1, <2>2, <2>3, RaiseReports
<1>6. CASE Raise(<<"log">>)
    <2>1. <<"log">> \in Seq(ScriptKinds) /\ Len(<<"log">>) = 1
        BY DEF ScriptKinds
    <2>2. \A i, j \in 1..Len(<<"log">>) : i = j
        BY <2>1
    <2>3. QED
        BY <1>1, <1>6, <2>1, <2>2, RaiseReports
<1>7. CASE Raise(<<>>)
    <2>1. <<>> \in Seq(ScriptKinds) /\ Len(<<>>) = 0
        OBVIOUS
    <2>2. \A i, j \in 1..Len(<<>>) : i = j
        BY <2>1
    <2>3. QED
        BY <1>1, <1>7, <2>1, <2>2, RaiseReports
<1>8. QED
    BY <1>3, <1>4, <1>5, <1>6, <1>7 DEF Binding, Request, Log

\* The list of steps grows only before any of them has been executed.
LEMMA AssignReports ==
  ASSUME TypeOK, Staged, KeepsPace, FailedRequestEndsJob,
         NEW n \in Names, NEW value \in BOOLEAN, Assign(n, value)
  PROVE  /\ report' \in Seq(Entries)
         /\ ~job => report' = <<>>
         /\ KeepsPace' /\ FailedRequestEndsJob'
<1>1. at \in {"top", "in"} /\ UNCHANGED <<job, next>>
    BY DEF Assign, Running
<1>2. <<>> \in Seq({"http", "log"}) /\ <<>> \in Seq(ScriptKinds) /\ Len(<<>>) = 0
    OBVIOUS
<1>3. CASE Raise(<<>>) /\ UNCHANGED steps
    <2>1. \A i, j \in 1..Len(<<>>) : i = j
        BY <1>2
    <2>2. QED
        BY <1>1, <1>2, <1>3, <2>1, RaiseReports
<1>4. CASE Proceed(<<>>) /\ UNCHANGED steps
    <2>1. Ordered(report, steps')
        BY <1>4 DEF KeepsPace
    <2>2. QED
        BY <1>1, <1>2, <1>4, <2>1, ProceedReports
<1>5. CASE Proceed(<<>>) /\ ~configured
    <2>1. next = 1
        BY <1>1, <1>5 DEF Staged
    <2>2. Reported("step") = 0
        BY <2>1 DEF KeepsPace
    <2>3. Len(report) \in Nat
        BY DEF TypeOK
    <2>4. Positions(report, "step", Len(report)) = {}
        BY <2>2, <2>3, PositionsFinite DEF Reported
    <2>5. Ordered(report, steps')
        BY <2>4 DEF Ordered
    <2>6. QED
        BY <1>1, <1>2, <1>5, <2>5, ProceedReports
<1>6. QED
    BY <1>3, <1>4, <1>5 DEF Assign, registerStep

\* No step gets the report out of pace with the program.
LEMMA ReportStep ==
  ASSUME TypeOK, Staged, KeepsPace, FailedRequestEndsJob, Next
  PROVE  /\ report' \in Seq(Entries)
         /\ ~job' => report' = <<>>
         /\ KeepsPace' /\ FailedRequestEndsJob'
<1>1. CASE Load \/ Prepared \/ Checked \/ AllStepsDone \/ ReplaceStep
    BY <1>1, QuietReports
<1>2. CASE Execute
    <2>1. job'
        BY <1>2 DEF Execute
    <2>2. QED
        BY <1>2, <2>1, ExecuteReports
<1>3. CASE CallStep
    <2>1. job'
        BY <1>3 DEF CallStep, Staged
    <2>2. QED
        BY <1>3, <2>1, CallStepReports
<1>4. CASE StepReturns
    <2>1. job'
        BY <1>4 DEF StepReturns, Staged
    <2>2. QED
        BY <1>4, <2>1, StepReturnsReports
<1>5. CASE Binding
    <2>1. job' = job
        BY <1>5 DEF Binding
    <2>2. QED
        BY <1>5, <2>1, BindingReports
<1>6. ASSUME NEW n \in Names, NEW value \in BOOLEAN, Assign(n, value)
      PROVE  /\ report' \in Seq(Entries)
             /\ ~job' => report' = <<>>
             /\ KeepsPace' /\ FailedRequestEndsJob'
    <2>1. job' = job
        BY <1>6 DEF Assign
    <2>2. QED
        BY <1>6, <2>1, AssignReports
<1>7. QED
    BY <1>1, <1>2, <1>3, <1>4, <1>5, <1>6 DEF Next

-----------------------------------------------------------------------------
(***************************************************************************)
(* The program.                                                            *)
(***************************************************************************)

\* An assignment to the table of steps: only the top of a script adds a name to the
\* list, and the name of every value is in it.
LEMMA AssignSteps ==
  ASSUME TypeOK, Staged, DefinedStepsRun, NEW n \in Names, NEW value \in BOOLEAN,
         Assign(n, value)
  PROVE  /\ table' \subseteq Names
         /\ steps' \in Seq(Names) /\ Len(steps') >= Len(steps)
         /\ configured => steps' = steps
         /\ DefinedStepsRun'
<1>1. steps \in Seq(Names) /\ table \subseteq Names
    BY DEF TypeOK
<1>2. CASE steps' = steps /\ table' \subseteq table
    BY <1>1, <1>2 DEF DefinedStepsRun
<1>3. CASE ~configured /\ steps' = Append(steps, n) /\ table' \subseteq table \cup {n}
    <2>1. /\ steps' \in Seq(Names) /\ Len(steps') = Len(steps) + 1 /\ Len(steps) \in Nat
          /\ \A i \in 1..Len(steps) : steps'[i] = steps[i]
          /\ steps'[Len(steps) + 1] = n
        BY <1>1, <1>3, AppendProperties
    <2>2. DOMAIN steps' = 1..(Len(steps) + 1) /\ DOMAIN steps = 1..Len(steps)
        BY <1>1, <2>1
    <2>3. ASSUME NEW m \in table' PROVE \E i \in DOMAIN steps' : steps'[i] = m
        <3>1. CASE m = n
            BY <2>1, <2>2, <3>1
        <3>2. CASE m \in table
            <4>1. PICK i \in DOMAIN steps : steps[i] = m
                BY <3>2 DEF DefinedStepsRun
            <4>2. i \in DOMAIN steps' /\ steps'[i] = m
                BY <2>1, <2>2, <4>1
            <4>3. QED
                BY <4>2
        <3>3. QED
            BY <1>3, <3>1, <3>2
    <2>4. QED
        BY <1>1, <1>3, <2>1, <2>3 DEF DefinedStepsRun
<1>4. QED
    BY <1>2, <1>3 DEF Assign, registerStep

\* Types.
LEMMA TypeStep ==
  ASSUME TypeOK, Staged, KeepsPace, FailedRequestEndsJob, DefinedStepsRun, Next
  PROVE  TypeOK'
<1>1. report' \in Seq([kind : Kinds, step : Names \cup {"top"}])
    BY ReportStep DEF Entries
<1>2. Len(steps) \in Nat /\ MaxOps \in Nat
    BY EngineAssumption DEF TypeOK, EngineAssumption
<1>3. CASE Load \/ Prepared \/ AllStepsDone
    BY <1>1, <1>3 DEF TypeOK, Ends, Load, Prepared, AllStepsDone, progVars
<1>4. CASE Execute \/ CallStep
    <2>1. at' \in {"end", "steps", "in"} /\ end' \in Ends /\ hooked' \in BOOLEAN
        BY <1>4 DEF TypeOK, Ends, Execute, CallStep, progVars
    <2>2. UNCHANGED <<job, configured, table, steps, next, config, setsStep, ops>>
        BY <1>4 DEF Execute, CallStep, progVars
    <2>3. QED
        BY <1>1, <1>2, <2>1, <2>2 DEF TypeOK
<1>5. CASE Checked
    <2>1. CASE at' = "end"
        BY <1>1, <1>5, <2>1 DEF TypeOK, Ends, Checked, progVars
    <2>2. CASE at' = "load"
        <3>1. <<>> \in Seq(Names) /\ Len(<<>>) = 0
            OBVIOUS
        <3>2. steps' = <<>> /\ next' = 1
            BY <1>5, <2>2 DEF Checked
        <3>3. steps' \in Seq(Names) /\ Len(steps') = 0
            BY <3>1, <3>2, Zenon
        <3>4. next' \in 1..(Len(steps') + 1)
            BY <3>2, <3>3
        <3>5. ops' \in 0..MaxOps
            BY <1>2, <1>5, <2>2 DEF Checked
        <3>6. /\ job' \in BOOLEAN /\ configured' \in BOOLEAN /\ hooked' \in BOOLEAN
              /\ table' \subseteq Names /\ UNCHANGED <<end, config, setsStep>>
            BY <1>5, <2>2 DEF Checked
        <3>7. QED
            BY <1>1, <2>2, <3>3, <3>4, <3>5, <3>6 DEF TypeOK
    <2>3. QED
        BY <1>5, <2>1, <2>2 DEF Checked
<1>6. CASE StepReturns
    <2>1. next \in 1..Len(steps)
        BY <1>2, <1>6 DEF StepReturns, Staged, TypeOK
    <2>2. next' \in 1..(Len(steps) + 1)
        BY <1>2, <1>6, <2>1 DEF StepReturns
    <2>3. QED
        BY <1>1, <1>6, <2>2 DEF StepReturns, TypeOK
<1>7. ops \in 0..MaxOps /\ ops < MaxOps => ops + 1 \in 0..MaxOps
    BY <1>2
<1>8. CASE ReplaceStep
    BY <1>1, <1>7, <1>8 DEF TypeOK, ReplaceStep, Running
<1>9. CASE Binding
    <2>1. at' \in {"top", "in", "end"} /\ end' \in Ends
        BY <1>9 DEF Binding, Request, Log, Raise, Proceed, Running, TypeOK, Ends
    <2>2. ops' \in 0..MaxOps /\ UNCHANGED <<job, progVars, config, setsStep>>
        BY <1>7, <1>9 DEF Binding, Running, TypeOK
    <2>3. QED
        BY <1>1, <2>1, <2>2 DEF TypeOK, progVars
<1>10. ASSUME NEW n \in Names, NEW value \in BOOLEAN, Assign(n, value) PROVE TypeOK'
    <2>1. at' \in {"top", "in", "end"} /\ end' \in Ends
        BY <1>10 DEF Assign, registerStep, Raise, Proceed, Running, TypeOK, Ends
    <2>2. ops' \in 0..MaxOps /\ UNCHANGED <<job, configured, hooked, next, config, setsStep>>
        BY <1>7, <1>10 DEF Assign, Running, TypeOK
    <2>3. table' \subseteq Names /\ steps' \in Seq(Names) /\ Len(steps') >= Len(steps)
        BY <1>10, AssignSteps
    <2>4. Len(steps') \in Nat
        BY <2>3
    <2>5. next' \in 1..(Len(steps') + 1)
        BY <1>2, <2>2, <2>3, <2>4 DEF TypeOK
    <2>6. QED
        BY <1>1, <2>1, <2>2, <2>3, <2>5 DEF TypeOK
<1>11. QED
    BY <1>3, <1>4, <1>5, <1>6, <1>8, <1>9, <1>10 DEF Next

\* Where the script goes on or ends.
LEMMA ScriptStep ==
  ASSUME TypeOK, Staged, at \in {"top", "in"}, UNCHANGED <<job, configured, next, config>>,
         ~job => report' = <<>>, Len(steps') >= Len(steps), Len(steps') \in Nat,
         \/ UNCHANGED <<at, end>>
         \/ at' = "end" /\ end' = IF at = "in" THEN "failed"
                                ELSE IF job THEN "quit" ELSE "invalid"
  PROVE  Staged'
<1>1. end = "none" /\ next \in Nat /\ Len(steps) \in Nat
    BY DEF Staged, TypeOK
<1>2. VerifyConfig(config)' <=> VerifyConfig(config)
    BY DEF VerifyConfig
<1>3. CASE UNCHANGED <<at, end>>
    BY <1>1, <1>2, <1>3 DEF Staged
<1>4. CASE at' = "end" /\ end' = IF at = "in" THEN "failed"
                                ELSE IF job THEN "quit" ELSE "invalid"
    BY <1>1, <1>2, <1>4 DEF Staged
<1>5. QED
    BY <1>3, <1>4

\* The order of the parts of a program.
LEMMA StagedStep ==
  ASSUME TypeOK, Staged, KeepsPace, FailedRequestEndsJob, DefinedStepsRun, Next
  PROVE  Staged'
<1>1. ~job' => report' = <<>>
    BY ReportStep
<1>2. VerifyConfig(config)' <=> VerifyConfig(config)
    BY DEF Next, Load, Prepared, Checked, Execute, CallStep, StepReturns, AllStepsDone,
           Assign, ReplaceStep, Binding, VerifyConfig
<1>3. Len(steps) \in Nat /\ next \in Nat /\ next <= Len(steps) + 1
    BY DEF TypeOK
<1>4. CASE Load \/ Prepared
    BY <1>1, <1>2, <1>4 DEF Staged, Load, Prepared, progVars
<1>5. CASE Checked
    <2>1. CASE at' = "end"
        BY <1>1, <1>2, <1>5, <2>1 DEF Staged, Checked, progVars
    <2>2. CASE at' = "load"
        BY <1>1, <1>2, <1>5, <2>2 DEF Staged, Checked
    <2>3. QED
        BY <1>5, <2>1, <2>2 DEF Checked
<1>6. CASE Execute
    BY <1>1, <1>2, <1>6 DEF Staged, Execute
<1>7. CASE CallStep
    BY <1>1, <1>2, <1>3, <1>7 DEF Staged, CallStep, progVars
<1>8. CASE StepReturns \/ AllStepsDone
    BY <1>1, <1>2, <1>3, <1>8 DEF Staged, StepReturns, AllStepsDone, progVars
<1>9. CASE ReplaceStep
    BY <1>1, <1>2, <1>9 DEF Staged, ReplaceStep
<1>10. CASE Binding
    <2>1. at \in {"top", "in"} /\ UNCHANGED <<job, configured, next, config, steps>>
        BY <1>10 DEF Binding, Running, progVars
    <2>2. \/ UNCHANGED <<at, end>>
          \/ at' = "end" /\ end' = IF at = "in" THEN "failed"
                                 ELSE IF job THEN "quit" ELSE "invalid"
        BY <1>10 DEF Binding, Request, Log, Raise, Proceed
    <2>3. Len(steps') >= Len(steps) /\ Len(steps') \in Nat
        BY <1>3, <2>1
    <2>4. QED
        BY <1>1, <2>1, <2>2, <2>3, ScriptStep
<1>11. ASSUME NEW n \in Names, NEW value \in BOOLEAN, Assign(n, value) PROVE Staged'
    <2>1. at \in {"top", "in"} /\ UNCHANGED <<job, configured, next, config>>
        BY <1>11 DEF Assign, Running
    <2>2. \/ UNCHANGED <<at, end>>
          \/ at' = "end" /\ end' = IF at = "in" THEN "failed"
                                 ELSE IF job THEN "quit" ELSE "invalid"
        BY <1>11 DEF Assign, registerStep, Raise, Proceed
    <2>3. Len(steps') >= Len(steps) /\ Len(steps') \in Nat
        BY <1>11, AssignSteps
    <2>4. QED
        BY <1>1, <2>1, <2>2, <2>3, ScriptStep
<1>12. QED
    BY <1>4, <1>5, <1>6, <1>7, <1>8, <1>9, <1>10, <1>11 DEF Next

\* A name gets a value only as it gets into the list, or later.
LEMMA DefinedStep ==
  ASSUME TypeOK, Staged, DefinedStepsRun, Next
  PROVE  DefinedStepsRun'
<1>1. CASE UNCHANGED <<table, steps>>
    BY <1>1 DEF DefinedStepsRun
<1>2. CASE table' = {}
    BY <1>2 DEF DefinedStepsRun
<1>3. ASSUME NEW n \in Names, NEW value \in BOOLEAN, Assign(n, value) PROVE DefinedStepsRun'
    BY <1>3, AssignSteps
<1>4. QED
    BY <1>1, <1>2, <1>3
    DEF Next, Load, Prepared, Checked, Execute, CallStep, StepReturns, AllStepsDone,
        ReplaceStep, Binding, progVars

\* A worker that adds a configuration adds one the check has accepted.
LEMMA ConfigStep ==
  ASSUME TypeOK, Staged, AcceptedConfigIsAdded, Next
  PROVE  AcceptedConfigIsAdded'
<1>1. at # "end" /\ end = "none"
    BY DEF Staged, Next, Load, Prepared, Checked, Execute, CallStep, StepReturns,
           AllStepsDone, Assign, ReplaceStep, Binding, Running
<1>2. CASE Execute
    <2>1. Adds(config)
        BY <1>2 DEF Execute, Staged, VerifyConfig, Adds
    <2>2. QED
        BY <1>1, <1>2, <2>1 DEF Execute, AcceptedConfigIsAdded
<1>3. ASSUME NEW kinds, Raise(kinds), configured' = configured PROVE AcceptedConfigIsAdded'
    BY <1>3 DEF Raise, Staged, AcceptedConfigIsAdded
<1>4. CASE end' # "quit"
    BY <1>4 DEF AcceptedConfigIsAdded
<1>5. CASE Binding
    <2>1. configured' = configured
        BY <1>5 DEF Binding, progVars
    <2>2. UNCHANGED end => end' # "quit"
        BY <1>1
    <2>3. QED
        BY <1>3, <1>4, <1>5, <2>1, <2>2 DEF Binding, Request, Log, Proceed
<1>6. ASSUME NEW n \in Names, NEW value \in BOOLEAN, Assign(n, value)
      PROVE  AcceptedConfigIsAdded'
    <2>1. configured' = configured
        BY <1>6 DEF Assign
    <2>2. UNCHANGED end => end' # "quit"
        BY <1>1
    <2>3. QED
        BY <1>3, <1>4, <1>6, <2>1, <2>2 DEF Assign, registerStep, Proceed
<1>7. CASE Load \/ Prepared \/ Checked \/ CallStep \/ StepReturns \/ AllStepsDone \/ ReplaceStep
    BY <1>1, <1>4, <1>7
    DEF Load, Prepared, Checked, CallStep, StepReturns, AllStepsDone, ReplaceStep
<1>8. QED
    BY <1>2, <1>5, <1>6, <1>7 DEF Next

-----------------------------------------------------------------------------
(***************************************************************************)
(* The theorems.                                                           *)
(***************************************************************************)

\* A program begins with an empty report.
LEMMA EInitInv == Init => EInv
<1> SUFFICES ASSUME Init PROVE EInv
    OBVIOUS
<1>1. Len(<<>>) = 0 /\ <<>> \in Seq(Names) /\ <<>> \in Seq(Entries)
    OBVIOUS
<1>2. /\ steps \in Seq(Names) /\ report \in Seq(Entries)
      /\ Len(steps) = 0 /\ Len(report) = 0
    BY <1>1, Zenon DEF Init
<1>3. TypeOK
    <2>1. next \in 1..(Len(steps) + 1) /\ ops \in 0..MaxOps
        BY <1>2, EngineAssumption DEF Init, EngineAssumption
    <2>2. report \in Seq([kind : Kinds, step : Names \cup {"top"}])
        BY <1>2 DEF Entries
    <2>3. setsStep \in BOOLEAN /\ config \in ConfigTypes
        BY DEF Init
    <2>4. QED
        BY <1>2, <2>1, <2>2, <2>3 DEF Init, TypeOK, Ends
<1>4. Staged
    BY DEF Init, Staged
<1>5. \A kind : Positions(report, kind, Len(report)) = {}
    BY <1>2 DEF Positions
<1>6. \A kind : Reported(kind) = 0
    BY <1>5, FS_EmptySet DEF Reported
<1>7. KeepsPace
    BY <1>5, <1>6 DEF Init, KeepsPace, Ordered
<1>8. FailedRequestEndsJob /\ DefinedStepsRun /\ AcceptedConfigIsAdded
    BY <1>6 DEF Init, FailedRequestEndsJob, DefinedStepsRun, AcceptedConfigIsAdded
<1>9. QED
    BY <1>3, <1>4, <1>7, <1>8 DEF EInv

\* The inductive invariant holds in every state of a check and of a job.
THEOREM EInvariance == Spec => []EInv
<1>1. EInv /\ [Next]_vars => EInv'
    <2> SUFFICES ASSUME EInv, [Next]_vars PROVE EInv'
        OBVIOUS
    <2>1. TypeOK /\ Staged /\ KeepsPace /\ FailedRequestEndsJob /\ DefinedStepsRun /\ AcceptedConfigIsAdded
        BY DEF EInv
    <2>2. CASE Next
        BY <2>1, <2>2, ReportStep, TypeStep, StagedStep, DefinedStep, ConfigStep DEF EInv
    <2>3. CASE UNCHANGED vars
        <3>1. TypeOK' /\ Staged'
            BY <2>1, <2>3 DEF TypeOK, Staged, VerifyConfig, vars, progVars
        <3>2. KeepsPace' /\ FailedRequestEndsJob'
            BY <2>1, <2>3 DEF KeepsPace, FailedRequestEndsJob, Reported, vars, progVars
        <3>3. DefinedStepsRun' /\ AcceptedConfigIsAdded'
            BY <2>1, <2>3 DEF DefinedStepsRun, AcceptedConfigIsAdded, vars, progVars
        <3>4. QED
            BY <3>1, <3>2, <3>3 DEF EInv
    <2>4. QED
        BY <2>2, <2>3
<1>2. QED
    BY EInitInv, <1>1, PTL DEF Spec

\* Every variable of a program has its type, the index of the next step (lua.go 176)
\* among them.
THEOREM ETypeCorrect == Spec => []TypeOK
<1>1. EInv => TypeOK
    BY DEF EInv
<1>2. QED
    BY EInvariance, <1>1, PTL

\* What a worker has reported of a job (lua.go 165 to 208, worker.go 67 to 72) says how
\* it went, whatever the script does.
THEOREM ReportsAreTrue == Spec => []ReportMatchesJob
<1>1. EInv => ReportMatchesJob
    <2> SUFFICES ASSUME EInv, end # "none" PROVE ReportMatchesJob
        BY DEF ReportMatchesJob
    <2>1. TypeOK /\ Staged /\ KeepsPace
        BY DEF EInv
    <2>2. next \in Nat /\ Len(steps) \in Nat /\ Reported("step") = next - 1
        BY <2>1 DEF TypeOK, KeepsPace
    <2>3. \A i \in Positions(report, "step", Len(report)) :
            report[i].step = steps[Cardinality(Positions(report, "step", i))]
        BY <2>1 DEF KeepsPace, Ordered
    <2>4. end = "ok" => Reported("step") = Len(steps) /\ Reported("stepError") = 0
        BY <2>1, <2>2 DEF Staged, KeepsPace
    <2>5. end = "failed" =>
            /\ Reported("stepError") = 1 /\ Reported("luaError") = 1
            /\ report[Len(report) - 1] = Entry("stepError", steps[Reported("step") + 1])
            /\ report[Len(report)].kind = "luaError"
        <3>1. Reported("step") + 1 = next
            BY <2>2
        <3>2. QED
            BY <2>1, <3>1 DEF KeepsPace
    <2>6. end \in {"quit", "invalid"} => Reported("step") = 0 /\ Reported("script") = 0
        BY <2>1, <2>2 DEF Staged, KeepsPace
    <2>7. end = "dead" => Reported("step") = 0 /\ Reported("stepError") = 0
        BY <2>1, <2>2 DEF Staged, KeepsPace
    <2>8. QED
        BY <2>3, <2>4, <2>5, <2>6, <2>7 DEF ReportMatchesJob
<1>2. QED
    BY EInvariance, <1>1, PTL

\* A request that fails ends its job (http_binding.go 30 to 34, 41 to 45).
THEOREM RequestsEndJobs == Spec => []FailedRequestEndsJob
<1>1. EInv => FailedRequestEndsJob
    BY DEF EInv
<1>2. QED
    BY EInvariance, <1>1, PTL

\* No step with a value is left out of prgm.steps (lua.go 210 to 219).
THEOREM NoStepIsSkipped == Spec => []DefinedStepsRun
<1>1. EInv => DefinedStepsRun
    BY DEF EInv
<1>2. QED
    BY EInvariance, <1>1, PTL

\* What the check has accepted every worker adds (worker.go 58).
THEOREM ConfigsAreAdded == Spec => []AcceptedConfigIsAdded
<1>1. EInv => AcceptedConfigIsAdded
    BY DEF EInv
<1>2. QED
    BY EInvariance, <1>1, PTL

=============================================================================
