---------------------------- MODULE RatesProofs -----------------------------
(***************************************************************************)
(* Proofs about Rates, for every setting of the scheduler, given or not,   *)
(* every width of an int and every rate, growth factor and time a client   *)
(* may ask for.                                                            *)
(***************************************************************************)
EXTENDS Rates, TLAPS

\* Admission has let the request pass: the executors needed are counted from the
\* maximum, there is one at least, and the starting rate is enough for all of them
\* (server.go 70 to 76).
Admitted ==
  stage \in {"launching", "commanding", "rejected", "panicked", "running", "stopped"} =>
    /\ needExecutors = Needed(req.max)
    /\ needExecutors >= 1
    /\ Quo(req.start, needExecutors) > 10

\* Some of the executors needed have joined, and no others (db.go 158 to 171).
SomeJoined ==
  stage \in {"commanding", "rejected", "panicked", "running", "stopped"} =>
    joined \in 1..needExecutors

\* The command is the request divided by the executors there are (db.go 308), and the
\* executor runs the commands it accepts.
Divided ==
  stage \in {"rejected", "panicked", "running", "stopped"} =>
    /\ params = [max |-> Quo(req.max, joined), start |-> Quo(req.start, joined)]
    /\ stage = "rejected" <=> ~verifyCommand(params.start, params.max)

\* Growth begins with the run.
NotGrown ==
  stage \notin {"running", "stopped"} => growths = 0 /\ growthActive

\* The rates of a request are ints.
RatesFit == req.max <= MaxInt /\ req.start <= MaxInt

\* The inductive invariant.
RInv ==
  /\ TypeOK /\ RatesFit /\ Admitted /\ SomeJoined /\ Divided /\ NotGrown
  /\ AdmittedIsAccepted /\ WithinLimit /\ RateInBounds /\ GrowsEachTime

-----------------------------------------------------------------------------
(***************************************************************************)
(* The settings and the quotients.                                         *)
(***************************************************************************)

\* A setting is an int, given or not.
LEMMA SettingsAreInts == Limit \in Int /\ MaxWorkers \in Int
BY RatesAssumption DEF RatesAssumption, Limit, MaxWorkers, Setting

\* The quotient of an int and a positive one is an int.
LEMMA QuoInt ==
  ASSUME NEW a \in Int, NEW b \in Nat \ {0}
  PROVE  Quo(a, b) \in Int
BY DEF Quo, Abs

\* For a dividend that is not negative it is the floor of the quotient.
LEMMA QuoOfNat ==
  ASSUME NEW a \in Nat, NEW b \in Nat \ {0}
  PROVE  /\ Quo(a, b) \in Nat
         /\ b * Quo(a, b) <= a
         /\ a < b * Quo(a, b) + b
         /\ Quo(a, b) <= a
<1>1. Quo(a, b) = a \div b
    BY DEF Quo, Abs
<1>2. a \div b \in Nat /\ b * (a \div b) <= a /\ a < b * (a \div b) + b
    OBVIOUS
<1>3. a \div b <= a
    <2> DEFINE q == a \div b
    <2>1. q \in Nat /\ b * q <= a
        BY <1>2
    <2> HIDE DEF q
    <2>2. 1 * q <= b * q
        BY <2>1
    <2>3. q <= a
        BY <2>1, <2>2
    <2> QED
        BY <2>3 DEF q
<1>4. QED
    BY <1>1, <1>2, <1>3

\* A dividend whose quotient is positive is positive.
LEMMA QuoSign ==
  ASSUME NEW a \in Int, NEW b \in Nat \ {0}, Quo(a, b) > 0
  PROVE  a \in Nat /\ a > 0
<1>1. CASE a <= 0
    <2> DEFINE q == (-a) \div b
    <2>1. q \in Nat
        BY <1>1
    <2>2. Quo(a, b) = q \/ Quo(a, b) = -q
        BY <1>1 DEF Quo, Abs
    <2>3. CASE a = 0
        BY <2>3 DEF Quo, Abs
    <2>4. CASE a < 0
        <3>1. Quo(a, b) = -q
            BY <2>4 DEF Quo, Abs
        <3>2. QED
            BY <2>1, <3>1
    <2>5. QED
        BY <1>1, <2>3, <2>4
<1>2. QED
    BY <1>1

\* The quotient does not shrink when the dividend grows or the divisor shrinks.
LEMMA QuoMonotone ==
  ASSUME NEW a \in Nat, NEW c \in Nat, NEW b \in Nat \ {0}, NEW d \in Nat \ {0},
         a <= c, d <= b
  PROVE  Quo(a, b) <= Quo(c, d)
<1> DEFINE p == Quo(a, b)
           q == Quo(c, d)
<1>1. p \in Nat /\ b * p <= a
    BY QuoOfNat
<1>2. q \in Nat /\ c < d * q + d
    BY QuoOfNat
<1> HIDE DEF p, q
<1>3. d * p <= b * p
    BY <1>1
<1>4. d * p < d * (q + 1)
    BY <1>1, <1>2, <1>3
<1>5. p < q + 1
    BY <1>1, <1>2, <1>4
<1>6. p <= q
    BY <1>1, <1>2, <1>5
<1>7. QED
    BY <1>6 DEF p, q

\* The least number of shares of at most b that cover a.
LEMMA CeilQuoCovers ==
  ASSUME NEW a \in Int, NEW b \in Nat \ {0}
  PROVE  /\ CeilQuo(a, b) \in Int
         /\ a <= b * CeilQuo(a, b)
         /\ b * (CeilQuo(a, b) - 1) < a
<1> DEFINE m == -a
           q == m \div b
<1>1. m \in Int /\ q \in Int /\ b * q <= m /\ m < b * q + b
    OBVIOUS
<1>2. CeilQuo(a, b) = -q
    BY DEF CeilQuo
<1>3. m = -a
    OBVIOUS
<1> HIDE DEF q, m
<1>4. -q \in Int /\ a <= b * (-q) /\ b * (-q - 1) < a
    BY <1>1, <1>3
<1>5. QED
    BY <1>2, <1>4

\* A negative number of shares is needed for what is positive, and the other way
\* round.
LEMMA CeilQuoOfNegative ==
  ASSUME NEW a \in Int, NEW b \in Int, b < 0
  PROVE  /\ CeilQuo(a, b) \in Int
         /\ CeilQuo(a, b) >= 1 => a < 0
<1> DEFINE c == -b
           q == a \div c
<1>1. c \in Nat \ {0}
    OBVIOUS
<1>2. CeilQuo(a, b) = -q
    BY DEF CeilQuo
<1> HIDE DEF c
<1>3. q \in Int /\ a < c * q + c
    BY <1>1
<1> HIDE DEF q
<1>4. ASSUME -q >= 1 PROVE a < 0
    <2>1. q + 1 <= 0 /\ q + 1 \in Int
        BY <1>3, <1>4
    <2>2. c * (q + 1) <= 0
        BY <1>1, <2>1
    <2>3. c * (q + 1) = c * q + c
        BY <1>1, <1>3
    <2>4. QED
        BY <1>1, <1>3, <2>2, <2>3
<1>5. QED
    BY <1>2, <1>3, <1>4

\* What a rate needs is a number: the least that covers it for a positive limit, and
\* a positive one for a negative limit only if the rate is negative too.
LEMMA NeededCovers ==
  ASSUME NEW a \in Int
  PROVE  /\ Needed(a) \in Int
         /\ Needed(a) >= 1 => Limit > 0 \/ a < 0
         /\ Limit > 0 => a <= Limit * Needed(a) /\ Limit * (Needed(a) - 1) < a
<1>1. Limit \in Int
    BY SettingsAreInts
<1>2. CASE Limit = 0
    BY <1>2 DEF Needed
<1>3. CASE Limit > 0
    <2>1. Needed(a) = CeilQuo(a, Limit) /\ Limit \in Nat \ {0}
        BY <1>1, <1>3 DEF Needed
    <2>2. /\ CeilQuo(a, Limit) \in Int
          /\ a <= Limit * CeilQuo(a, Limit)
          /\ Limit * (CeilQuo(a, Limit) - 1) < a
        BY <2>1, CeilQuoCovers
    <2>3. QED
        BY <1>3, <2>1, <2>2
<1>4. CASE Limit < 0
    BY <1>1, <1>4, CeilQuoOfNegative DEF Needed
<1>5. QED
    BY <1>1, <1>2, <1>3, <1>4

-----------------------------------------------------------------------------
(***************************************************************************)
(* The way of the request, one step at a time.                             *)
(***************************************************************************)

\* Requests are records of ints.
LEMMA RInitInv == Init => RInv
<1> SUFFICES ASSUME Init PROVE RInv
    OBVIOUS
<1>1. req \in Requests /\ req \in [max : Int, start : Int, growth : Nat, gap : Nat, runTime : Nat]
    <2>1. \A r \in Rates : r \in Int
        BY RatesAssumption DEF RatesAssumption
    <2>2. Growths \subseteq Nat /\ Gaps \subseteq Nat /\ RunTimes \subseteq Nat
        BY RatesAssumption DEF RatesAssumption
    <2>3. QED
        BY <2>1, <2>2 DEF Init, Requests
<1>2. RatesFit
    <2>1. req.max \in Rates /\ req.start \in Rates
        BY <1>1 DEF Requests
    <2>2. \A r \in Rates : r <= MaxInt
        BY RatesAssumption DEF RatesAssumption
    <2>3. QED
        BY <2>1, <2>2 DEF RatesFit
<1>3. TypeOK
    BY <1>1, RatesAssumption DEF Init, TypeOK, Stages, RatesAssumption
<1>4. QED
    BY <1>2, <1>3
    DEF Init, RInv, Admitted, SomeJoined, Divided, NotGrown, AdmittedIsAccepted,
        WithinLimit, RateInBounds, GrowsEachTime

\* What a client sends is a request.
LEMMA AskStep ==
  ASSUME RInv, Ctl \/ OtherClient
  PROVE  RInv'
<1>1. req' \in [max : Int, start : Int, growth : Nat, gap : Nat, runTime : Nat]
    <2>1. CASE Ctl
        <3> DEFINE growth == IF req.growth = 0 THEN 16 ELSE req.growth
                   gap    == IF req.gap = 0 THEN 10 ELSE req.gap
        <3>1. growth \in Nat /\ gap \in Nat
            BY DEF RInv, TypeOK
        <3>2. req' = [req EXCEPT !.start = req.max, !.growth = growth, !.gap = gap]
            BY <2>1 DEF Ctl
        <3> HIDE DEF growth, gap
        <3>3. QED
            BY <3>1, <3>2 DEF RInv, TypeOK
    <2>2. CASE OtherClient
        BY <2>2 DEF OtherClient, RInv, TypeOK
    <2>3. QED
        BY <2>1, <2>2
<1>2. RatesFit'
    BY DEF Ctl, OtherClient, RInv, TypeOK, RatesFit
<1>3. stage' = "admission" /\ UNCHANGED <<needExecutors, joined, params, rps, growthActive, growths, tick>>
    BY DEF Ctl, OtherClient
<1>4. TypeOK'
    BY <1>1, <1>3 DEF RInv, TypeOK, Stages
<1>5. NotGrown'
    BY <1>3 DEF Ctl, OtherClient, RInv, NotGrown
<1>6. QED
    BY <1>2, <1>3, <1>4, <1>5
    DEF RInv, Admitted, SomeJoined, Divided, AdmittedIsAccepted, WithinLimit,
        RateInBounds, GrowsEachTime

\* Admission crashes only when no executor is needed, or fewer.
LEMMA AdmitStep ==
  ASSUME RInv, Admit
  PROVE  RInv'
<1> DEFINE need == Needed(req.max)
<1>1. req.max \in Int /\ req.start \in Int /\ Limit \in Int
    BY SettingsAreInts DEF RInv, TypeOK
<1>2. need \in Int /\ (Limit > 0 => req.max <= Limit * need)
    BY <1>1, NeededCovers
<1>3. needExecutors' = need /\ req' = req /\ stage = "admission"
    BY DEF Admit
<1>4. stage' = IF need = 0 THEN "crashed"
               ELSE IF TooSlow(need) THEN "refused"
               ELSE IF need < 0 THEN "crashed" ELSE "launching"
    BY DEF Admit
<1> HIDE DEF need
<1>5. /\ stage' \in {"crashed", "refused", "launching"}
      /\ stage' = "crashed" => need <= 0
      /\ stage' = "launching" => need >= 1 /\ Quo(req.start, need) > 10
    <2>1. CASE need = 0
        BY <2>1, <1>4
    <2>2. CASE need > 0
        <3>1. Quo(req.start, need) \in Int
            BY <1>1, <1>2, <2>2, QuoInt
        <3>2. QED
            BY <1>2, <1>4, <2>2, <3>1 DEF TooSlow
    <2>3. CASE need < 0
        <3>1. TooSlow(need) \in BOOLEAN
            BY DEF TooSlow
        <3>2. QED
            BY <1>2, <1>4, <2>3, <3>1
    <2>4. QED
        BY <1>2, <2>1, <2>2, <2>3
<1>6. stage' = "crashed" => req.max <= 0 \/ Limit <= 0
    <2>1. ASSUME need <= 0, Limit > 0 PROVE Limit * need <= 0
        BY <1>1, <1>2, <2>1
    <2>2. QED
        BY <1>1, <1>2, <1>5, <2>1
<1>7. TypeOK'
    BY <1>2, <1>3, <1>5 DEF Admit, RInv, TypeOK, Stages
<1>8. Admitted'
    BY <1>3, <1>5 DEF Admitted, need
<1>9. AdmittedIsAccepted'
    BY <1>3, <1>5, <1>6 DEF AdmittedIsAccepted
<1>10. QED
    BY <1>3, <1>5, <1>7, <1>8, <1>9
    DEF Admit, RInv, RatesFit, SomeJoined, Divided, NotGrown, WithinLimit, RateInBounds,
        GrowsEachTime

\* At least one executor joins.
LEMMA LaunchStep ==
  ASSUME RInv, Launch
  PROVE  RInv'
<1>1. joined' \in Nat
    BY DEF Launch, RInv, TypeOK
<1>2. TypeOK'
    BY <1>1 DEF Launch, RInv, TypeOK, Stages
<1>3. Admitted'
    BY DEF Launch, RInv, Admitted
<1>4. QED
    BY <1>2, <1>3
    DEF Launch, RInv, RatesFit, SomeJoined, Divided, NotGrown, AdmittedIsAccepted,
        WithinLimit, RateInBounds, GrowsEachTime

\* The rates an executor is given, however many executors there are: the starting
\* rate is more than ten.  For a positive limit they miss less than one request per
\* second each between them, and the maximum is more than an executor is good for
\* only if one is missing.  With any other limit only a negative maximum comes so
\* far.
LEMMA Shares ==
  ASSUME TypeOK, Admitted, SomeJoined, stage \in {"commanding", "running"}
  PROVE  LET start == Quo(req.start, joined)
             max   == Quo(req.max, joined)
         IN  /\ start \in Nat /\ start > 10 /\ start <= req.start
             /\ max \in Int
             /\ Limit <= 0 => req.max < 0 /\ max <= 0
             /\ Limit > 0 =>
                  /\ req.max > 0
                  /\ max \in Nat /\ max <= req.max
                  /\ req.max - joined * max \in 0..(joined - 1)
                  /\ max > Limit => joined < needExecutors
                  /\ req.start <= req.max => start <= max
<1> DEFINE need  == needExecutors
           start == Quo(req.start, joined)
           max   == Quo(req.max, joined)
<1>1. /\ req.max \in Int /\ req.start \in Int /\ Limit \in Int
      /\ need \in Nat \ {0} /\ joined \in Nat \ {0} /\ joined <= need
    BY SettingsAreInts DEF TypeOK, Admitted, SomeJoined
<1>2. need = Needed(req.max) /\ Quo(req.start, need) > 10
    BY DEF Admitted
<1>3. req.start \in Nat
    <2>1. Quo(req.start, need) \in Int
        BY <1>1, QuoInt
    <2>2. QED
        BY <1>1, <1>2, <2>1, QuoSign
<1>4. start \in Nat /\ start <= req.start
    BY <1>1, <1>3, QuoOfNat
<1>5. start > 10
    <2>1. Quo(req.start, need) \in Nat
        BY <1>1, <1>3, QuoOfNat
    <2>2. Quo(req.start, need) <= start
        <3>1. req.start <= req.start
            BY <1>3
        <3>2. QED
            BY <1>1, <1>3, <3>1, QuoMonotone
    <2>3. QED
        BY <1>2, <1>4, <2>1, <2>2
<1>6. max \in Int
    BY <1>1, QuoInt
<1>7. ASSUME Limit <= 0 PROVE req.max < 0 /\ max <= 0
    <2>1. req.max < 0
        BY <1>1, <1>2, <1>7, NeededCovers
    <2>2. ~(max > 0)
        BY <1>1, <2>1, QuoSign
    <2>3. QED
        BY <1>6, <2>1, <2>2
<1>8. ASSUME Limit > 0
      PROVE  /\ req.max > 0
             /\ max \in Nat /\ max <= req.max
             /\ req.max - joined * max \in 0..(joined - 1)
             /\ max > Limit => joined < need
             /\ req.start <= req.max => start <= max
    <2>1. req.max <= Limit * need /\ Limit * (need - 1) < req.max
        BY <1>1, <1>2, <1>8, NeededCovers
    <2>2. req.max \in Nat /\ req.max > 0
        <3>1. Limit * (need - 1) >= 0
            BY <1>1, <1>8
        <3>2. QED
            BY <1>1, <2>1, <3>1
    <2>3. /\ max \in Nat /\ max <= req.max
          /\ joined * max <= req.max /\ req.max < joined * max + joined
        BY <1>1, <2>2, QuoOfNat
    <2>4. req.start <= req.max => start <= max
        BY <1>1, <2>2, <1>3, QuoMonotone
    <2> HIDE DEF start, max, need
    <2>5. max > Limit => joined < need
        <3> SUFFICES ASSUME max > Limit, joined = need PROVE FALSE
            BY <1>1
        <3>1. need * (Limit + 1) <= need * max
            BY <1>1, <2>3
        <3>2. need * max <= Limit * need
            BY <1>1, <2>1, <2>3
        <3>3. need * (Limit + 1) = Limit * need + need
            BY <1>1
        <3>4. need * max \in Int /\ Limit * need \in Int
            BY <1>1, <2>3
        <3>5. QED
            BY <1>1, <3>1, <3>2, <3>3, <3>4
    <2>6. req.max - joined * max \in 0..(joined - 1)
        BY <1>1, <2>2, <2>3
    <2>7. QED
        BY <2>2, <2>3, <2>4, <2>5, <2>6
<1> HIDE DEF start, max, need
<1>9. QED
    BY <1>4, <1>5, <1>6, <1>7, <1>8 DEF start, max, need

\* The command an executor is given, and whether it accepts it.
LEMMA CommandStep ==
  ASSUME RInv, Command
  PROVE  RInv'
<1> DEFINE start == Quo(req.start, joined)
           max   == Quo(req.max, joined)
<1>1. stage = "commanding" /\ TypeOK /\ Admitted /\ SomeJoined /\ RatesFit
    BY DEF Command, RInv
<1>2. /\ start \in Nat /\ start > 10 /\ start <= req.start
      /\ max \in Int /\ Limit \in Int /\ req.max \in Int /\ req.start \in Int
      /\ Limit <= 0 => req.max < 0 /\ max <= 0
      /\ Limit > 0 =>
           /\ req.max > 0
           /\ max \in Nat /\ max <= req.max
           /\ req.max - joined * max \in 0..(joined - 1)
           /\ max > Limit => joined < needExecutors
           /\ req.start <= req.max => start <= max
    BY <1>1, Shares, SettingsAreInts DEF TypeOK
<1>3. /\ params' = [max |-> max, start |-> start]
      /\ UNCHANGED <<req, needExecutors, joined, growthActive, growths, tick>>
      /\ \/ ~verifyCommand(start, max) /\ stage' = "rejected" /\ rps' = rps
         \/ verifyCommand(start, max) /\ stage' \in {"panicked", "running"} /\ rps' = start
    BY DEF Command
<1>4. params'.max = max /\ params'.start = start
    BY <1>3
<1>5. max = Quo(req'.max, joined') /\ start = Quo(req'.start, joined')
    BY <1>3
<1>6. verifyCommand(params.start, params.max)' <=> verifyCommand(start, max)
    BY <1>3, <1>4 DEF verifyCommand
<1> HIDE DEF start, max
<1>7. TypeOK'
    <2>1. rps' \in (-MaxInt - 1)..MaxInt
        BY <1>1, <1>2, <1>3, RatesAssumption DEF TypeOK, RatesFit, RatesAssumption
    <2>2. params' \in [max : Int, start : Int]
        BY <1>2, <1>3
    <2>3. stage' \in Stages
        BY <1>3 DEF Stages
    <2>4. QED
        BY <1>1, <1>3, <2>1, <2>2, <2>3 DEF TypeOK
<1>8. Admitted' /\ SomeJoined' /\ RatesFit'
    BY <1>1, <1>3 DEF Admitted, SomeJoined, RatesFit
<1>9. Divided'
    BY <1>3, <1>5, <1>6 DEF Divided
<1>10. AdmittedIsAccepted'
    <2>1. ASSUME stage' = "rejected", WellFormed' PROVE FALSE
        <3>1. Limit > 0
            BY <1>2, <1>3, <2>1 DEF WellFormed
        <3>2. max >= start /\ max >= 1
            BY <1>2, <1>3, <2>1, <3>1 DEF WellFormed
        <3>3. verifyCommand(start, max)
            BY <1>2, <1>3, <2>1, <3>2 DEF WellFormed, verifyCommand
        <3>4. QED
            BY <1>3, <2>1, <3>3
    <2>2. stage' # "crashed"
        BY <1>3
    <2>3. QED
        BY <2>1, <2>2 DEF AdmittedIsAccepted
<1>11. WithinLimit'
    BY <1>2, <1>3, <1>4 DEF WithinLimit
<1>12. RateInBounds'
    <2>1. verifyCommand(start, max) => start <= max
        BY <1>2 DEF verifyCommand
    <2>2. QED
        BY <1>2, <1>3, <1>4, <2>1 DEF RateInBounds
<1>13. growths = 0 /\ growthActive
    BY <1>1 DEF RInv, NotGrown
<1>14. NotGrown' /\ GrowsEachTime'
    <2>1. ASSUME stage' = "running" PROVE GrowsEachTime'
        <3>1. rps' = params'.start /\ rps' >= params'.start + growths'
            BY <1>2, <1>3, <1>4, <1>13, <2>1
        <3>2. growthActive'
            BY <1>3, <1>13
        <3>3. QED
            BY <3>1, <3>2 DEF GrowsEachTime
    <2>2. QED
        BY <1>3, <1>13, <2>1 DEF NotGrown, GrowsEachTime
<1>15. QED
    BY <1>7, <1>8, <1>9, <1>10, <1>11, <1>12, <1>14 DEF RInv

\* A rate that grows without overflow does not fall, rises if the factor adds a
\* request per second to the starting rate, and stops at the maximum.
LEMMA GrowStep ==
  ASSUME RInv, Grow
  PROVE  RInv'
<1> DEFINE product == rps * req.growth
           q       == Quo(product, 16)
           grown   == ToInt(q)
<1>1. stage = "running" /\ TypeOK /\ Admitted /\ SomeJoined /\ RatesFit /\ Divided
    BY DEF Grow, RInv
<1>2. /\ rps \in Int /\ params.max \in Int /\ params.start \in Int
      /\ req.growth \in Nat /\ MaxInt \in Nat /\ req.max \in Int
      /\ growths \in Nat /\ MaxGrowths \in Nat
    BY <1>1, RatesAssumption DEF TypeOK, RatesAssumption
<1>3. req.growth >= 16 /\ params.start > 10 /\ params.max >= params.start
    BY <1>1 DEF Divided, verifyCommand
<1>4. params.max <= MaxInt /\ params.max >= 0
    <2>1. params.max = Quo(req.max, joined)
        BY <1>1 DEF Divided
    <2>2. Limit > 0
        BY <1>1, <1>2, <1>3, <2>1, Shares, SettingsAreInts
    <2>3. Quo(req.max, joined) \in Nat /\ Quo(req.max, joined) <= req.max
        BY <1>1, <2>2, Shares
    <2>4. QED
        BY <1>1, <1>2, <2>1, <2>3 DEF RatesFit
<1>5. rps <= params.max /\ (rps >= params.start \/ Overflows)
    BY <1>1 DEF RInv, RateInBounds
<1>6. /\ rps' = IF grown > params.max THEN params.max ELSE grown
      /\ growthActive' = (grown <= params.max)
      /\ growths < MaxGrowths /\ growths' = growths + 1
      /\ tick' = -1
      /\ UNCHANGED <<stage, req, needExecutors, joined, params>>
    BY DEF Grow
<1>7. product \in Int /\ q \in Int
    <2>1. product \in Int
        BY <1>2
    <2>2. QED
        BY <2>1, QuoInt
<1>8. grown \in (-MaxInt - 1)..MaxInt
    BY <1>2, <1>7 DEF ToInt
<1>9. ASSUME ~Overflows
      PROVE  /\ rps \in Nat /\ rps >= params.start
             /\ grown = q
             /\ q \in Nat /\ 16 * q <= product /\ product < 16 * q + 16
             /\ q >= rps
    <2>1. rps \in Nat /\ rps >= params.start
        BY <1>2, <1>3, <1>5, <1>9
    <2>2. product <= params.max * req.growth /\ 16 * rps <= product /\ product \in Nat
        BY <1>2, <1>3, <1>5, <2>1
    <2>3. params.max * req.growth < 16 * (MaxInt + 1)
        BY <1>2, <1>9 DEF Overflows
    <2>4. q \in Nat /\ 16 * q <= product /\ product < 16 * q + 16
        BY <2>2, QuoOfNat
    <2>5. params.max * req.growth \in Int
        BY <1>2
    <2> HIDE DEF q, product
    <2>6. q <= MaxInt /\ q >= rps
        BY <1>2, <2>1, <2>2, <2>3, <2>4, <2>5
    <2>7. grown = q
        BY <1>2, <2>4, <2>6 DEF ToInt
    <2>8. QED
        BY <2>1, <2>4, <2>6, <2>7
<1>10. (Overflows' <=> Overflows) /\ (TooLittle' <=> TooLittle)
    BY <1>6 DEF Overflows, TooLittle
<1>11. ASSUME ~Overflows, TooLittle, rps = params.start PROVE grown = params.start
    <2>1. product = params.start * (req.growth - 16) + 16 * params.start
        BY <1>2, <1>11
    <2>2. params.start * (req.growth - 16) < 16 /\ params.start * (req.growth - 16) \in Int
        BY <1>2, <1>11 DEF TooLittle
    <2> HIDE DEF q, product
    <2>3. 16 * q < 16 * (params.start + 1)
        BY <1>2, <1>7, <1>9, <1>11, <2>1, <2>2
    <2>4. QED
        BY <1>2, <1>9, <1>11, <2>3
<1>12. ASSUME ~Overflows, ~TooLittle PROVE grown >= rps + 1
    <2>1. product = rps * (req.growth - 16) + 16 * rps
        BY <1>2
    <2>2. params.start * (req.growth - 16) >= 16 /\ req.growth - 16 \in Nat
        BY <1>2, <1>3, <1>12 DEF TooLittle
    <2>3. rps * (req.growth - 16) >= params.start * (req.growth - 16)
        BY <1>2, <1>9, <1>12, <2>2
    <2>4. params.start * (req.growth - 16) \in Int /\ rps * (req.growth - 16) \in Int
        BY <1>2, <2>2
    <2> HIDE DEF q, product
    <2>5. product >= 16 * (rps + 1)
        BY <1>2, <1>7, <2>1, <2>2, <2>3, <2>4
    <2>6. 16 * (rps + 1) < 16 * (q + 1)
        BY <1>2, <1>7, <1>9, <1>12, <2>5
    <2>7. QED
        BY <1>2, <1>9, <1>12, <2>6
<1> HIDE DEF q, product, grown
<1>13. TypeOK'
    <2>1. rps' \in (-MaxInt - 1)..MaxInt
        BY <1>2, <1>4, <1>6, <1>8
    <2>2. growthActive' \in BOOLEAN /\ tick' \in Nat \cup {-1} /\ growths' \in 0..MaxGrowths
        BY <1>2, <1>6
    <2>3. QED
        BY <1>1, <1>6, <2>1, <2>2 DEF TypeOK
<1>14. RateInBounds'
    BY <1>2, <1>3, <1>6, <1>8, <1>9, <1>10 DEF RateInBounds
<1>15. GrowsEachTime'
    <2>1. \/ rps' = params'.max
          \/ rps' = grown /\ grown <= params.max /\ growthActive'
        <3>1. CASE grown > params.max
            BY <1>6, <3>1
        <3>2. CASE ~(grown > params.max)
            <4>1. rps' = grown /\ grown <= params.max
                BY <1>2, <1>6, <1>8, <3>2
            <4>2. growthActive'
                BY <1>6, <4>1, Zenon
            <4>3. QED
                BY <4>1, <4>2
        <3>3. QED
            BY <3>1, <3>2
    <2>2. CASE rps' = params'.max
        BY <2>2 DEF GrowsEachTime
    <2>3. CASE rps' = grown /\ grown <= params.max /\ growthActive' /\ rps' # params'.max
        <3>1. CASE Overflows
            BY <1>10, <2>3, <3>1 DEF GrowsEachTime
        <3>2. CASE ~Overflows /\ rps = params.max
            BY <1>2, <1>6, <1>9, <2>3, <3>2
        <3>3. CASE ~Overflows /\ TooLittle /\ rps = params.start
            BY <1>6, <1>10, <1>11, <2>3, <3>3 DEF GrowsEachTime
        <3>4. CASE ~Overflows /\ ~TooLittle /\ rps >= params.start + growths
            <4>1. grown \in Int /\ grown >= rps + 1
                BY <1>9, <1>12, <3>4
            <4>2. rps' >= params'.start + growths'
                BY <1>2, <1>6, <2>3, <3>4, <4>1
            <4>3. QED
                BY <1>10, <2>3, <3>4, <4>2 DEF GrowsEachTime
        <3>5. QED
            BY <1>1, <3>1, <3>2, <3>3, <3>4 DEF RInv, GrowsEachTime
    <2>4. QED
        BY <2>1, <2>2, <2>3
<1>16. Admitted' /\ SomeJoined' /\ RatesFit' /\ NotGrown'
    BY <1>1, <1>6 DEF Admitted, SomeJoined, RatesFit, NotGrown
<1>17. Divided'
    BY <1>1, <1>6 DEF Divided, verifyCommand
<1>18. AdmittedIsAccepted' /\ WithinLimit'
    BY <1>1, <1>6 DEF RInv, AdmittedIsAccepted, WithinLimit
<1>19. QED
    BY <1>13, <1>14, <1>15, <1>16, <1>17, <1>18 DEF RInv

\* A tick does not change the rate.
LEMMA TickStep ==
  ASSUME RInv, Tick
  PROVE  RInv'
<1>1. TypeOK /\ stage = "running"
    BY DEF RInv, Tick
<1>2. rps \in Int
    BY <1>1, RatesAssumption DEF TypeOK, RatesAssumption
<1>3. tick' \in Nat
    <2>1. getNumberOfIterations(rps) \in Int
        BY <1>2, QuoInt DEF getNumberOfIterations
    <2>2. QED
        BY <2>1 DEF Tick
<1>4. UNCHANGED <<stage, req, needExecutors, joined, params, rps, growthActive, growths>>
    BY DEF Tick
<1>5. TypeOK'
    BY <1>1, <1>3, <1>4 DEF TypeOK
<1>6. Admitted' /\ SomeJoined' /\ RatesFit' /\ NotGrown'
    BY <1>4 DEF RInv, Admitted, SomeJoined, RatesFit, NotGrown
<1>7. Divided'
    BY <1>4 DEF RInv, Divided, verifyCommand
<1>8. AdmittedIsAccepted' /\ WithinLimit'
    BY <1>1, <1>4 DEF RInv, AdmittedIsAccepted, WithinLimit
<1>9. RateInBounds' /\ GrowsEachTime'
    BY <1>4 DEF RInv, RateInBounds, GrowsEachTime, TooLittle, Overflows
<1>10. QED
    BY <1>5, <1>6, <1>7, <1>8, <1>9 DEF RInv

\* The end of the run leaves its rate where it is.
LEMMA StopStep ==
  ASSUME RInv, StopRun
  PROVE  RInv'
<1>1. /\ stage = "running" /\ stage' = "stopped"
      /\ UNCHANGED <<req, needExecutors, joined, params, rps, growthActive, growths, tick>>
    BY DEF StopRun
<1>2. TypeOK'
    BY <1>1 DEF RInv, TypeOK, Stages
<1>3. Admitted' /\ SomeJoined' /\ RatesFit' /\ NotGrown'
    BY <1>1 DEF RInv, Admitted, SomeJoined, RatesFit, NotGrown
<1>4. Divided'
    BY <1>1 DEF RInv, Divided, verifyCommand
<1>5. AdmittedIsAccepted' /\ WithinLimit'
    BY <1>1 DEF RInv, AdmittedIsAccepted, WithinLimit
<1>6. RateInBounds' /\ GrowsEachTime'
    BY <1>1 DEF RInv, RateInBounds, GrowsEachTime, TooLittle, Overflows
<1>7. QED
    BY <1>2, <1>3, <1>4, <1>5, <1>6 DEF RInv

-----------------------------------------------------------------------------
(***************************************************************************)
(* The theorems.                                                           *)
(***************************************************************************)

\* The inductive invariant holds in every state a request reaches.
THEOREM RInvariance == Spec => []RInv
<1>1. Init => RInv
    BY RInitInv
<1>2. RInv /\ [Next]_vars => RInv'
    <2> SUFFICES ASSUME RInv, [Next]_vars PROVE RInv'
        OBVIOUS
    <2>1. CASE UNCHANGED vars
        <3>1. TypeOK' /\ RatesFit' /\ Admitted' /\ SomeJoined' /\ NotGrown'
            BY <2>1 DEF RInv, TypeOK, RatesFit, Admitted, SomeJoined, NotGrown, vars
        <3>2. Divided' /\ AdmittedIsAccepted'
            BY <2>1 DEF RInv, Divided, AdmittedIsAccepted, WellFormed, verifyCommand, vars
        <3>3. WithinLimit' /\ RateInBounds' /\ GrowsEachTime'
            BY <2>1 DEF RInv, WithinLimit, RateInBounds, GrowsEachTime, TooLittle, Overflows, vars
        <3>4. QED
            BY <3>1, <3>2, <3>3 DEF RInv
    <2>2. QED
        BY <2>1, AskStep, AdmitStep, LaunchStep, CommandStep, GrowStep, TickStep, StopStep
        DEF Next
<1>3. QED
    BY <1>1, <1>2, PTL DEF Spec

\* Every variable of the way of a request has its type (the ints of controller.go 131
\* to 141 among them, which a product of floats is converted to).
THEOREM RTypeCorrect == Spec => []TypeOK
<1>1. RInv => TypeOK
    BY DEF RInv
<1>2. QED
    BY RInvariance, <1>1, PTL

\* Whoever the scheduler admits (server.go 70 to 76) is accepted by every executor
\* (executor_grpc_listener.go 153 to 180), however few of them have joined and
\* whatever limit schedulerd has been given, zero and negative ones included; it
\* crashes for a rate or a limit that is not positive only.
THEOREM AdmissionIsSound == Spec => []AdmittedIsAccepted
<1>1. RInv => AdmittedIsAccepted
    BY DEF RInv
<1>2. QED
    BY RInvariance, <1>1, PTL

\* The executors are asked for what they are good for, unless one is missing, and
\* between them for what the client has asked for but for less than one request per
\* second each (db.go 308).
THEOREM SharesAreFair == Spec => []WithinLimit
<1>1. RInv => WithinLimit
    BY DEF RInv
<1>2. QED
    BY RInvariance, <1>1, PTL

\* The rate of a run stays between its start and its maximum (controller.go 131 to
\* 141) unless its product with the growth factor is no int.
THEOREM RateStaysInBounds == Spec => []RateInBounds
<1>1. RInv => RateInBounds
    BY DEF RInv
<1>2. QED
    BY RInvariance, <1>1, PTL

\* Each growth step a run lives to see (controller.go 131 to 141) adds a request per
\* second at least, until the maximum is reached, unless the factor adds less than
\* one to the starting rate or the product is no int.
THEOREM EachStepGrows == Spec => []GrowsEachTime
<1>1. RInv => GrowsEachTime
    BY DEF RInv
<1>2. QED
    BY RInvariance, <1>1, PTL

-----------------------------------------------------------------------------
(***************************************************************************)
(* What is sent, and what comes of the defaults.                           *)
(***************************************************************************)

\* The jobs of the last tick are those of the rate as it is (controller.go 86 to 120):
\* whenever the rate changes, they are counted anew.
Counted ==
  /\ stage \notin {"running", "stopped"} => tick = -1
  /\ tick >= 0 =>
       tick = IF getNumberOfIterations(rps) > 1 THEN getNumberOfIterations(rps) - 1 ELSE 0

\* Every step keeps Counted: only a tick counts jobs, and growth (controller.go 131 to
\* 141) forgets what was counted.
LEMMA CountedStep == Counted /\ [Next]_vars => Counted'
<1> SUFFICES ASSUME Counted, [Next]_vars PROVE Counted'
    OBVIOUS
<1> USE DEF Counted
<1>1. CASE Ctl \/ OtherClient \/ Admit \/ Launch
    <2>1. stage \notin {"running", "stopped"} /\ UNCHANGED tick
        BY <1>1 DEF Ctl, OtherClient, Admit, Launch
    <2>2. QED
        BY <2>1
<1>2. CASE Command
    <2>1. stage \notin {"running", "stopped"} /\ UNCHANGED tick
        BY <1>2 DEF Command
    <2>2. QED
        BY <2>1
<1>3. CASE Grow
    <2>1. stage' = "running" /\ tick' = -1
        BY <1>3 DEF Grow
    <2>2. QED
        BY <2>1
<1>4. CASE Tick
    BY <1>4 DEF Tick
<1>5. CASE StopRun \/ UNCHANGED vars
    BY <1>5 DEF StopRun, vars
<1>6. QED
    BY <1>1, <1>2, <1>3, <1>4, <1>5 DEF Next

\* However many executors share a rate, at the full rate each of them stays behind its
\* share by ten jobs a second at least, and all of them together by less than twenty
\* for each (db.go 308, controller.go 118 and 203).
THEOREM ShortfallIsBounded == Spec => []FallsShort
<1>1. Init => Counted
    BY DEF Init, Counted
<1>2. RInv /\ Counted => FallsShort
    <2> SUFFICES ASSUME RInv, Counted, stage \in {"running", "stopped"}, tick >= 0,
                        rps = params.max
                 PROVE  req.max - 10 * joined * tick \in (10 * joined)..(20 * joined - 1)
        BY DEF FallsShort
    <2> DEFINE max == params.max
               n   == getNumberOfIterations(max)
    <2>1. /\ max \in Int /\ params.start \in Int /\ req.max \in Int
          /\ joined \in Nat \ {0} /\ tick \in Nat
        <3>1. joined \in 1..needExecutors /\ needExecutors \in Int
            BY DEF RInv, TypeOK, SomeJoined
        <3>2. QED
            BY <3>1 DEF RInv, TypeOK
    <2>2. max > 10 /\ max = Quo(req.max, joined)
        <3>1. verifyCommand(params.start, params.max)
            BY DEF RInv, Divided
        <3>2. params.start > 10 /\ max >= params.start
            BY <3>1 DEF verifyCommand
        <3>3. max = Quo(req.max, joined)
            BY DEF RInv, Divided
        <3>4. QED
            BY <2>1, <3>2, <3>3
    <2>3. req.max - joined * max \in 0..(joined - 1)
        <3>1. Quo(req.max, joined) > 0
            BY <2>1, <2>2
        <3>2. req.max > 0
            BY <2>1, <3>1, QuoSign
        <3>3. QED
            BY <3>2 DEF RInv, WithinLimit
    <2>4. n \in Nat /\ 10 * n <= max /\ max < 10 * n + 10
        BY <2>1, <2>2, QuoOfNat DEF getNumberOfIterations
    <2>5. tick = IF n > 1 THEN n - 1 ELSE 0
        BY DEF Counted
    <2> HIDE DEF max, n
    <2>6. n >= 1
        BY <2>1, <2>2, <2>4
    <2>7. tick = n - 1
        BY <2>4, <2>5, <2>6
    <2> DEFINE gap  == max - 10 * tick
               lost == req.max - joined * max
    <2>8. gap \in Nat /\ gap >= 10 /\ gap <= 19
        BY <2>1, <2>4, <2>7
    <2>9. req.max - 10 * joined * tick = lost + joined * gap
        BY <2>1
    <2>10. lost \in Nat /\ lost <= joined - 1
        BY <2>1, <2>3
    <2> HIDE DEF gap, lost
    <2>11. joined * 10 <= joined * gap /\ joined * gap <= joined * 19
        BY <2>1, <2>8
    <2>12. joined * gap \in Int
        BY <2>1, <2>8
    <2>13. QED
        BY <2>1, <2>9, <2>10, <2>11, <2>12
<1>3. QED
    BY <1>1, <1>2, CountedStep, RInvariance, PTL DEF Spec

\* The flag max.rps.per.executor is declared with the default 500 (schedulerd/main.go
\* 35), and envflag.IntVar stores zero in its variable (51): a scheduler that is
\* given neither the flag nor MAX_RPS_PER_EXECUTOR dies of every request it has to
\* admit (server.go 70 to 76), whatever the rate.
THEOREM NoTestByDefault ==
  ASSUME LimitFlag = NotGiven, LimitEnv = NotGiven
  PROVE  Spec => [](stage \in {"ask", "admission", "crashed"})
<1> DEFINE Q == stage \in {"ask", "admission", "crashed"}
<1>1. Limit = 0
    BY DEF Limit, Setting
<1>2. Init => Q
    BY DEF Init
<1>3. Q /\ [Next]_vars => Q'
    <2> SUFFICES ASSUME Q, [Next]_vars PROVE Q'
        OBVIOUS
    <2>1. CASE Admit
        BY <1>1, <2>1 DEF Admit, Needed
    <2>2. CASE Ctl \/ OtherClient
        BY <2>2 DEF Ctl, OtherClient
    <2>3. CASE UNCHANGED vars
        BY <2>3 DEF vars
    <2>4. QED
        BY <2>1, <2>2, <2>3 DEF Next, Launch, Command, Grow, Tick, StopRun
<1>4. QED
    BY <1>2, <1>3, PTL DEF Spec

=============================================================================
