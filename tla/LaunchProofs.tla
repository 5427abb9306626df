---------------------------- MODULE LaunchProofs ----------------------------
(***************************************************************************)
(* Proofs about Launch, for every number of load tests and launchers.      *)
(*                                                                         *)
(* The inductive invariant is IInv.  Its parts say where droplets come     *)
(* from (Origin), what becomes of a launcher's result (Results), how the   *)
(* starts of executord account for the ports in flight (Ports), and what a *)
(* restart has still to clean up (Survivors).                              *)
(***************************************************************************)
EXTENDS Launch, FiniteSetTheorems, TLAPS

\* A droplet, or a request for one, exists only once its launcher has made the
\* request, and executord starts only on a droplet that exists.
Origin ==
  /\ \A g \in Launchers : call[TestOf[g]] = "idle" => pc[g] = "idle"
  /\ \A g \in cloud \cup pending : pc[g] \notin {"idle", "spawned"}
  /\ cloud \cap pending = {}
  /\ \A g \in Launchers :
       g \in pending \/ pc[g] \in {"idle", "spawned"} => boots[g] = 0

\* A launcher that is through has delivered its executor or left a trace.
Results ==
  /\ \A t \in Tests : exec[t] \cup executorc[t] \subseteq LaunchersOf(t)
  /\ \A t \in Tests :
       closed[t] => /\ call[t] # "idle"
                    /\ \A g \in LaunchersOf(t) : pc[g] = "done"
  /\ \A t \in Tests : call[t] = "ok" => closed[t] /\ executorc[t] = {}
  /\ \A g \in Launchers :
       pc[g] \in {"removing", "done"} =>
         \/ g \in exec[TestOf[g]] \cup executorc[TestOf[g]]
         \/ ctxDone[TestOf[g]]
         \/ errc[TestOf[g]] > 0
         \/ call[TestOf[g]] = "failed"

One(b) == IF b THEN 1 ELSE 0

\* Every start of executord is one call of RegisterExecutorUp: it waits for the
\* lock, is blocked, has its port in the channel, or has been received.
Ports ==
  \A d \in Launchers :
    /\ regs[d] + One(portc[d]) + One(d \in blocked) + One(pc[d] = "getting")
         <= boots[d]
    /\ d \in blocked => boots[d] >= 2

\* The droplets of an earlier life that have started are those NewDB has yet to
\* delete, and while the scheduler serves those about to be destroyed.
Survivors ==
  \A d \in cloud :
    pc[d] = "dead" =>
      /\ up = "cleaning" => boots[d] = 0 \/ d \in page
      /\ up = "serving" => boots[d] = 0 \/ regs[d] > 0

\* What NewDB needs: the droplets fit in one page, and no delete request fails.
PageHoldsAll ==
  /\ IsFiniteSet(Launchers)
  /\ Cardinality(Launchers) <= PageSize
  /\ "delete" \notin Faults

IInv == TypeOK /\ RegistryConsistent /\ Origin /\ Results /\ Ports

-----------------------------------------------------------------------------
\* Every step keeps the types (scheduler/db.go 51 to 203).
LEMMA TypeStep ==
  TypeOK /\ [Next]_vars => TypeOK'
<1> SUFFICES ASSUME TypeOK, [Next]_vars
             PROVE  TypeOK'
    OBVIOUS
<1> USE LaunchAssumption DEF vars, callVars, dbVars, regVars, serverVars, cloudVars
<1>1. ASSUME ProcessDies PROVE TypeOK'
    <2>1. /\ call' \in [Tests -> Calls]
          /\ ctxDone' \in [Tests -> BOOLEAN]
          /\ exec' \in [Tests -> SUBSET Launchers]
          /\ executorc' \in [Tests -> SUBSET Launchers]
          /\ closed' \in [Tests -> BOOLEAN]
          /\ errc' \in [Tests -> Nat]
        BY <1>1 DEF ProcessDies, TypeOK, Calls
    <2>2. /\ pc' \in [Launchers -> PCs]
          /\ portc' \in [Launchers -> BOOLEAN]
          /\ regs' \in [Launchers -> Nat]
          /\ boots' \in [Launchers -> Nat]
        BY <1>1 DEF ProcessDies, TypeOK, PCs
    <2>3. /\ locked' \in BOOLEAN
          /\ waitDroplets' \subseteq Launchers
          /\ blocked' \subseteq Launchers
          /\ up' \in {"down", "cleaning", "serving"}
          /\ page' \subseteq Launchers
          /\ pending' \subseteq Launchers
          /\ cloud' \subseteq Launchers
        BY <1>1 DEF ProcessDies, TypeOK
    <2>4. crashes' \in Nat
        BY <1>1 DEF ProcessDies, TypeOK
    <2>5. QED
        BY <2>1, <2>2, <2>3, <2>4 DEF TypeOK
<1>2. ASSUME NEW t \in Tests, Request(t) PROVE TypeOK'
    BY <1>2 DEF Request, TypeOK, Calls, PCs
<1>3. ASSUME NEW t \in Tests, CloseExecutorc(t) PROVE TypeOK'
    BY <1>3 DEF CloseExecutorc, TypeOK
<1>4. ASSUME NEW t \in Tests, CollectExecutor(t) PROVE TypeOK'
    BY <1>4 DEF CollectExecutor, TypeOK
<1>5. ASSUME NEW t \in Tests, CollectClosed(t) PROVE TypeOK'
    BY <1>5 DEF CollectClosed, TypeOK, Calls
<1>6. ASSUME NEW t \in Tests, CollectError(t) PROVE TypeOK'
    BY <1>6 DEF CollectError, TypeOK, Calls
<1>7. ASSUME NEW t \in Tests, CollectCtxDone(t) PROVE TypeOK'
    BY <1>7 DEF CollectCtxDone, TypeOK, Calls
<1>8. ASSUME NEW t \in Tests, HandlerReturns(t) PROVE TypeOK'
    BY <1>8 DEF HandlerReturns, TypeOK
<1>9. ASSUME NEW t \in Tests, ClientCancels(t) PROVE TypeOK'
    BY <1>9 DEF ClientCancels, TypeOK
<1>10. ASSUME NEW g \in Launchers, LockAndCreate(g) PROVE TypeOK'
    BY <1>10 DEF LockAndCreate, TypeOK, PCs
<1>11. ASSUME NEW g \in Launchers, CreateReturns(g) PROVE TypeOK'
    BY <1>11 DEF CreateReturns, TypeOK, PCs
<1>12. ASSUME NEW g \in Launchers, CreateFails(g) PROVE TypeOK'
    <2>1. TestOf[g] \in Tests
        BY DEF LaunchAssumption
    <2>2. errc' \in [Tests -> Nat] /\ pc' \in [Launchers -> PCs]
        BY <1>12, <2>1 DEF CreateFails, TypeOK, PCs
    <2>3. pending' \subseteq Launchers
        BY <1>12 DEF CreateFails, TypeOK
    <2>4. QED
        BY <1>12, <2>2, <2>3 DEF CreateFails, TypeOK
<1>13. ASSUME NEW g \in Launchers, ReceivePort(g) PROVE TypeOK'
    BY <1>13 DEF ReceivePort, TypeOK, PCs
<1>14. ASSUME NEW g \in Launchers, WaitCtxDone(g) PROVE TypeOK'
    BY <1>14 DEF WaitCtxDone, TypeOK, PCs
<1>15. ASSUME NEW g \in Launchers, Join(g) PROVE TypeOK'
    BY <1>15 DEF Join, TypeOK, PCs, LaunchAssumption
<1>16. ASSUME NEW g \in Launchers, NoAddress(g) PROVE TypeOK'
    BY <1>16 DEF NoAddress, TypeOK, PCs, LaunchAssumption
<1>17. ASSUME NEW g \in Launchers, GetFails(g) PROVE TypeOK'
    BY <1>1, <1>17 DEF GetFails
<1>18. ASSUME NEW g \in Launchers, Remove(g) PROVE TypeOK'
    BY <1>18 DEF Remove, TypeOK, PCs
<1>19. ASSUME NEW d \in Launchers, Boot(d) PROVE TypeOK'
    BY <1>19 DEF Boot, TypeOK
<1>20. ASSUME NEW d \in Launchers, RegisterAwaited(d) PROVE TypeOK'
    BY <1>20 DEF RegisterAwaited, TypeOK
<1>21. ASSUME NEW d \in Launchers, RegisterBlocks(d) PROVE TypeOK'
    BY <1>21 DEF RegisterBlocks, TypeOK
<1>22. ASSUME NEW d \in Launchers, RegisterUnblocks(d) PROVE TypeOK'
    BY <1>22 DEF RegisterUnblocks, TypeOK
<1>23. ASSUME NEW d \in Launchers, RegisterUnexpected(d) PROVE TypeOK'
    BY <1>23 DEF RegisterUnexpected, TypeOK
<1>24. ASSUME NEW d \in Launchers, CloudCreates(d) PROVE TypeOK'
    BY <1>24 DEF CloudCreates, TypeOK
<1>25. ASSUME NEW d \in Launchers, CleanupDeletes(d) PROVE TypeOK'
    BY <1>25 DEF CleanupDeletes, TypeOK
<1>26. CASE Crash
    BY <1>1, <1>26 DEF Crash
<1>27. CASE ListDroplets
    BY <1>27 DEF ListDroplets, TypeOK
<1>28. CASE CleanupFails
    BY <1>28 DEF CleanupFails, TypeOK
<1>29. CASE Serve
    BY <1>29 DEF Serve, TypeOK
<1>30. CASE UNCHANGED vars
    BY <1>30 DEF TypeOK
<1>31. QED
    BY <1>2, <1>3, <1>4, <1>5, <1>6, <1>7, <1>8, <1>9, <1>10, <1>11, <1>12,
       <1>13, <1>14, <1>15, <1>16, <1>17, <1>18, <1>19, <1>20, <1>21, <1>22,
       <1>23, <1>24, <1>25, <1>26, <1>27, <1>28, <1>29, <1>30
    DEF Next, CallStep, Collect, LauncherStep, DropletStep, Register

\* Every step keeps Origin: a create request precedes its droplet (db.go 100 to
\* 101), and a droplet precedes the starts of executord on it.
LEMMA OriginStep ==
  TypeOK /\ Origin /\ [Next]_vars => Origin'
<1> SUFFICES ASSUME TypeOK, Origin, [Next]_vars
             PROVE  Origin'
    OBVIOUS
<1> USE LaunchAssumption DEF vars, callVars, dbVars, regVars, serverVars, cloudVars
<1>1. ASSUME ProcessDies PROVE Origin'
    BY <1>1 DEF ProcessDies, TypeOK, Origin
<1>2. ASSUME NEW t \in Tests, Request(t) PROVE Origin'
    BY <1>2 DEF Request, TypeOK, Origin, LaunchAssumption
<1>3. ASSUME NEW t \in Tests, CloseExecutorc(t) PROVE Origin'
    BY <1>3 DEF CloseExecutorc, TypeOK, Origin
<1>4. ASSUME NEW t \in Tests, CollectExecutor(t) PROVE Origin'
    BY <1>4 DEF CollectExecutor, TypeOK, Origin
<1>5. ASSUME NEW t \in Tests, CollectClosed(t) PROVE Origin'
    BY <1>5 DEF CollectClosed, TypeOK, Origin
<1>6. ASSUME NEW t \in Tests, CollectError(t) PROVE Origin'
    BY <1>6 DEF CollectError, TypeOK, Origin
<1>7. ASSUME NEW t \in Tests, CollectCtxDone(t) PROVE Origin'
    BY <1>7 DEF CollectCtxDone, TypeOK, Origin
<1>8. ASSUME NEW t \in Tests, HandlerReturns(t) PROVE Origin'
    BY <1>8 DEF HandlerReturns, TypeOK, Origin
<1>9. ASSUME NEW t \in Tests, ClientCancels(t) PROVE Origin'
    BY <1>9 DEF ClientCancels, TypeOK, Origin
<1>10. ASSUME NEW g \in Launchers, LockAndCreate(g) PROVE Origin'
    BY <1>10 DEF LockAndCreate, TypeOK, Origin
<1>11. ASSUME NEW g \in Launchers, CreateReturns(g) PROVE Origin'
    BY <1>11 DEF CreateReturns, TypeOK, Origin
<1>12. ASSUME NEW g \in Launchers, CreateFails(g) PROVE Origin'
    BY <1>12 DEF CreateFails, TypeOK, Origin
<1>13. ASSUME NEW g \in Launchers, ReceivePort(g) PROVE Origin'
    BY <1>13 DEF ReceivePort, TypeOK, Origin
<1>14. ASSUME NEW g \in Launchers, WaitCtxDone(g) PROVE Origin'
    BY <1>14 DEF WaitCtxDone, TypeOK, Origin
<1>15. ASSUME NEW g \in Launchers, Join(g) PROVE Origin'
    BY <1>15 DEF Join, TypeOK, Origin
<1>16. ASSUME NEW g \in Launchers, NoAddress(g) PROVE Origin'
    BY <1>16 DEF NoAddress, TypeOK, Origin
<1>17. ASSUME NEW g \in Launchers, GetFails(g) PROVE Origin'
    BY <1>1, <1>17 DEF GetFails
<1>18. ASSUME NEW g \in Launchers, Remove(g) PROVE Origin'
    BY <1>18 DEF Remove, TypeOK, Origin
<1>19. ASSUME NEW d \in Launchers, Boot(d) PROVE Origin'
    BY <1>19 DEF Boot, TypeOK, Origin
<1>20. ASSUME NEW d \in Launchers, RegisterAwaited(d) PROVE Origin'
    BY <1>20 DEF RegisterAwaited, TypeOK, Origin
<1>21. ASSUME NEW d \in Launchers, RegisterBlocks(d) PROVE Origin'
    BY <1>21 DEF RegisterBlocks, TypeOK, Origin
<1>22. ASSUME NEW d \in Launchers, RegisterUnblocks(d) PROVE Origin'
    BY <1>22 DEF RegisterUnblocks, TypeOK, Origin
<1>23. ASSUME NEW d \in Launchers, RegisterUnexpected(d) PROVE Origin'
    BY <1>23 DEF RegisterUnexpected, TypeOK, Origin
<1>24. ASSUME NEW d \in Launchers, CloudCreates(d) PROVE Origin'
    BY <1>24 DEF CloudCreates, TypeOK, Origin
<1>25. ASSUME NEW d \in Launchers, CleanupDeletes(d) PROVE Origin'
    BY <1>25 DEF CleanupDeletes, TypeOK, Origin
<1>26. CASE Crash
    BY <1>1, <1>26 DEF Crash
<1>27. CASE ListDroplets
    BY <1>27 DEF ListDroplets, TypeOK, Origin
<1>28. CASE CleanupFails
    BY <1>28 DEF CleanupFails, TypeOK, Origin
<1>29. CASE Serve
    BY <1>29 DEF Serve, TypeOK, Origin
<1>30. CASE UNCHANGED vars
    BY <1>30 DEF TypeOK, Origin
<1>31. QED
    BY <1>2, <1>3, <1>4, <1>5, <1>6, <1>7, <1>8, <1>9, <1>10, <1>11, <1>12,
       <1>13, <1>14, <1>15, <1>16, <1>17, <1>18, <1>19, <1>20, <1>21, <1>22,
       <1>23, <1>24, <1>25, <1>26, <1>27, <1>28, <1>29, <1>30
    DEF Next, CallStep, Collect, LauncherStep, DropletStep, Register

\* Every step keeps waitDroplets and db.lock consistent with the launchers (db.go
\* 100 to 114 and 188 to 201).
LEMMA RegistryStep ==
  TypeOK /\ Origin /\ RegistryConsistent /\ [Next]_vars => RegistryConsistent'
<1> SUFFICES ASSUME TypeOK, Origin, RegistryConsistent, [Next]_vars
             PROVE  RegistryConsistent'
    OBVIOUS
<1> USE LaunchAssumption DEF vars, callVars, dbVars, regVars, serverVars, cloudVars
<1>1. ASSUME ProcessDies PROVE RegistryConsistent'
    BY <1>1 DEF ProcessDies, TypeOK, RegistryConsistent
<1>2. ASSUME NEW t \in Tests, Request(t) PROVE RegistryConsistent'
    BY <1>2 DEF Request, TypeOK, RegistryConsistent, Origin
<1>3. ASSUME NEW t \in Tests, CloseExecutorc(t) PROVE RegistryConsistent'
    BY <1>3 DEF CloseExecutorc, TypeOK, RegistryConsistent
<1>4. ASSUME NEW t \in Tests, CollectExecutor(t) PROVE RegistryConsistent'
    BY <1>4 DEF CollectExecutor, TypeOK, RegistryConsistent
<1>5. ASSUME NEW t \in Tests, CollectClosed(t) PROVE RegistryConsistent'
    BY <1>5 DEF CollectClosed, TypeOK, RegistryConsistent
<1>6. ASSUME NEW t \in Tests, CollectError(t) PROVE RegistryConsistent'
    BY <1>6 DEF CollectError, TypeOK, RegistryConsistent
<1>7. ASSUME NEW t \in Tests, CollectCtxDone(t) PROVE RegistryConsistent'
    BY <1>7 DEF CollectCtxDone, TypeOK, RegistryConsistent
<1>8. ASSUME NEW t \in Tests, HandlerReturns(t) PROVE RegistryConsistent'
    BY <1>8 DEF HandlerReturns, TypeOK, RegistryConsistent
<1>9. ASSUME NEW t \in Tests, ClientCancels(t) PROVE RegistryConsistent'
    BY <1>9 DEF ClientCancels, TypeOK, RegistryConsistent
<1>10. ASSUME NEW g \in Launchers, LockAndCreate(g) PROVE RegistryConsistent'
    BY <1>10 DEF LockAndCreate, TypeOK, RegistryConsistent
<1>11. ASSUME NEW g \in Launchers, CreateReturns(g) PROVE RegistryConsistent'
    BY <1>11 DEF CreateReturns, TypeOK, RegistryConsistent
<1>12. ASSUME NEW g \in Launchers, CreateFails(g) PROVE RegistryConsistent'
    BY <1>12 DEF CreateFails, TypeOK, RegistryConsistent
<1>13. ASSUME NEW g \in Launchers, ReceivePort(g) PROVE RegistryConsistent'
    BY <1>13 DEF ReceivePort, TypeOK, RegistryConsistent
<1>14. ASSUME NEW g \in Launchers, WaitCtxDone(g) PROVE RegistryConsistent'
    BY <1>14 DEF WaitCtxDone, TypeOK, RegistryConsistent
<1>15. ASSUME NEW g \in Launchers, Join(g) PROVE RegistryConsistent'
    BY <1>15 DEF Join, TypeOK, RegistryConsistent
<1>16. ASSUME NEW g \in Launchers, NoAddress(g) PROVE RegistryConsistent'
    BY <1>16 DEF NoAddress, TypeOK, RegistryConsistent
<1>17. ASSUME NEW g \in Launchers, GetFails(g) PROVE RegistryConsistent'
    BY <1>1, <1>17 DEF GetFails
<1>18. ASSUME NEW g \in Launchers, Remove(g) PROVE RegistryConsistent'
    BY <1>18 DEF Remove, TypeOK, RegistryConsistent
<1>19. ASSUME NEW d \in Launchers, Boot(d) PROVE RegistryConsistent'
    BY <1>19 DEF Boot, TypeOK, RegistryConsistent
<1>20. ASSUME NEW d \in Launchers, RegisterAwaited(d) PROVE RegistryConsistent'
    BY <1>20 DEF RegisterAwaited, TypeOK, RegistryConsistent
<1>21. ASSUME NEW d \in Launchers, RegisterBlocks(d) PROVE RegistryConsistent'
    BY <1>21 DEF RegisterBlocks, TypeOK, RegistryConsistent
<1>22. ASSUME NEW d \in Launchers, RegisterUnblocks(d) PROVE RegistryConsistent'
    BY <1>22 DEF RegisterUnblocks, TypeOK, RegistryConsistent
<1>23. ASSUME NEW d \in Launchers, RegisterUnexpected(d) PROVE RegistryConsistent'
    BY <1>23 DEF RegisterUnexpected, TypeOK, RegistryConsistent
<1>24. ASSUME NEW d \in Launchers, CloudCreates(d) PROVE RegistryConsistent'
    BY <1>24 DEF CloudCreates, TypeOK, RegistryConsistent
<1>25. ASSUME NEW d \in Launchers, CleanupDeletes(d) PROVE RegistryConsistent'
    BY <1>25 DEF CleanupDeletes, TypeOK, RegistryConsistent
<1>26. CASE Crash
    BY <1>1, <1>26 DEF Crash
<1>27. CASE ListDroplets
    BY <1>27 DEF ListDroplets, TypeOK, RegistryConsistent
<1>28. CASE CleanupFails
    BY <1>28 DEF CleanupFails, TypeOK, RegistryConsistent
<1>29. CASE Serve
    BY <1>29 DEF Serve, TypeOK, RegistryConsistent
<1>30. CASE UNCHANGED vars
    BY <1>30 DEF TypeOK, RegistryConsistent
<1>31. QED
    BY <1>2, <1>3, <1>4, <1>5, <1>6, <1>7, <1>8, <1>9, <1>10, <1>11, <1>12,
       <1>13, <1>14, <1>15, <1>16, <1>17, <1>18, <1>19, <1>20, <1>21, <1>22,
       <1>23, <1>24, <1>25, <1>26, <1>27, <1>28, <1>29, <1>30
    DEF Next, CallStep, Collect, LauncherStep, DropletStep, Register

\* Every step keeps Results: what a launcher sends to executorc or errc (db.go 102
\* to 149) stays there until the collecting loop (158 to 171) takes it.
LEMMA ResultsStep ==
  TypeOK /\ Origin /\ Results /\ [Next]_vars => Results'
<1> SUFFICES ASSUME TypeOK, Origin, Results, [Next]_vars
             PROVE  Results'
    OBVIOUS
<1> USE LaunchAssumption DEF vars, callVars, dbVars, regVars, serverVars, cloudVars
<1>1. ASSUME ProcessDies PROVE Results'
    BY <1>1 DEF ProcessDies, TypeOK, Results, LaunchersOf, LaunchAssumption
<1>2. ASSUME NEW t \in Tests, Request(t) PROVE Results'
    BY <1>2
    DEF Request, TypeOK, Results, LaunchersOf, LaunchAssumption, Origin
<1>3. ASSUME NEW t \in Tests, CloseExecutorc(t) PROVE Results'
    BY <1>3 DEF CloseExecutorc, TypeOK, Results, LaunchersOf, LaunchAssumption
<1>4. ASSUME NEW t \in Tests, CollectExecutor(t) PROVE Results'
    BY <1>4
    DEF CollectExecutor, TypeOK, Results, LaunchersOf, LaunchAssumption
<1>5. ASSUME NEW t \in Tests, CollectClosed(t) PROVE Results'
    BY <1>5 DEF CollectClosed, TypeOK, Results, LaunchersOf, LaunchAssumption
<1>6. ASSUME NEW t \in Tests, CollectError(t) PROVE Results'
    BY <1>6 DEF CollectError, TypeOK, Results, LaunchersOf, LaunchAssumption
<1>7. ASSUME NEW t \in Tests, CollectCtxDone(t) PROVE Results'
    BY <1>7 DEF CollectCtxDone, TypeOK, Results, LaunchersOf, LaunchAssumption
<1>8. ASSUME NEW t \in Tests, HandlerReturns(t) PROVE Results'
    BY <1>8 DEF HandlerReturns, TypeOK, Results, LaunchersOf, LaunchAssumption
<1>9. ASSUME NEW t \in Tests, ClientCancels(t) PROVE Results'
    BY <1>9 DEF ClientCancels, TypeOK, Results, LaunchersOf, LaunchAssumption
<1>10. ASSUME NEW g \in Launchers, LockAndCreate(g) PROVE Results'
    BY <1>10 DEF LockAndCreate, TypeOK, Results, LaunchersOf, LaunchAssumption
<1>11. ASSUME NEW g \in Launchers, CreateReturns(g) PROVE Results'
    BY <1>11 DEF CreateReturns, TypeOK, Results, LaunchersOf, LaunchAssumption
<1>12. ASSUME NEW g \in Launchers, CreateFails(g) PROVE Results'
    BY <1>12 DEF CreateFails, TypeOK, Results, LaunchersOf, LaunchAssumption
<1>13. ASSUME NEW g \in Launchers, ReceivePort(g) PROVE Results'
    BY <1>13 DEF ReceivePort, TypeOK, Results, LaunchersOf, LaunchAssumption
<1>14. ASSUME NEW g \in Launchers, WaitCtxDone(g) PROVE Results'
    BY <1>14 DEF WaitCtxDone, TypeOK, Results, LaunchersOf, LaunchAssumption
<1>15. ASSUME NEW g \in Launchers, Join(g) PROVE Results'
    BY <1>15 DEF Join, TypeOK, Results, LaunchersOf, LaunchAssumption
<1>16. ASSUME NEW g \in Launchers, NoAddress(g) PROVE Results'
    BY <1>16 DEF NoAddress, TypeOK, Results, LaunchersOf, LaunchAssumption
<1>17. ASSUME NEW g \in Launchers, GetFails(g) PROVE Results'
    BY <1>1, <1>17 DEF GetFails
<1>18. ASSUME NEW g \in Launchers, Remove(g) PROVE Results'
    BY <1>18 DEF Remove, TypeOK, Results, LaunchersOf, LaunchAssumption
<1>19. ASSUME NEW d \in Launchers, Boot(d) PROVE Results'
    BY <1>19 DEF Boot, TypeOK, Results, LaunchersOf, LaunchAssumption
<1>20. ASSUME NEW d \in Launchers, RegisterAwaited(d) PROVE Results'
    BY <1>20
    DEF RegisterAwaited, TypeOK, Results, LaunchersOf, LaunchAssumption
<1>21. ASSUME NEW d \in Launchers, RegisterBlocks(d) PROVE Results'
    BY <1>21
    DEF RegisterBlocks, TypeOK, Results, LaunchersOf, LaunchAssumption
<1>22. ASSUME NEW d \in Launchers, RegisterUnblocks(d) PROVE Results'
    BY <1>22
    DEF RegisterUnblocks, TypeOK, Results, LaunchersOf, LaunchAssumption
<1>23. ASSUME NEW d \in Launchers, RegisterUnexpected(d) PROVE Results'
    BY <1>23
    DEF RegisterUnexpected, TypeOK, Results, LaunchersOf, LaunchAssumption
<1>24. ASSUME NEW d \in Launchers, CloudCreates(d) PROVE Results'
    BY <1>24 DEF CloudCreates, TypeOK, Results, LaunchersOf, LaunchAssumption
<1>25. ASSUME NEW d \in Launchers, CleanupDeletes(d) PROVE Results'
    BY <1>25
    DEF CleanupDeletes, TypeOK, Results, LaunchersOf, LaunchAssumption
<1>26. CASE Crash
    BY <1>1, <1>26 DEF Crash
<1>27. CASE ListDroplets
    BY <1>27 DEF ListDroplets, TypeOK, Results, LaunchersOf, LaunchAssumption
<1>28. CASE CleanupFails
    BY <1>28 DEF CleanupFails, TypeOK, Results, LaunchersOf, LaunchAssumption
<1>29. CASE Serve
    BY <1>29 DEF Serve, TypeOK, Results, LaunchersOf, LaunchAssumption
<1>30. CASE UNCHANGED vars
    BY <1>30 DEF TypeOK, Results, LaunchersOf, LaunchAssumption
<1>31. QED
    BY <1>2, <1>3, <1>4, <1>5, <1>6, <1>7, <1>8, <1>9, <1>10, <1>11, <1>12,
       <1>13, <1>14, <1>15, <1>16, <1>17, <1>18, <1>19, <1>20, <1>21, <1>22,
       <1>23, <1>24, <1>25, <1>26, <1>27, <1>28, <1>29, <1>30
    DEF Next, CallStep, Collect, LauncherStep, DropletStep, Register

\* Every step keeps Ports: a call of RegisterExecutorUp (db.go 187 to 203) hands
\* over at most one port.
LEMMA PortsStep ==
  TypeOK /\ RegistryConsistent /\ Ports /\ [Next]_vars => Ports'
<1> SUFFICES ASSUME TypeOK, RegistryConsistent, Ports, [Next]_vars
             PROVE  Ports'
    OBVIOUS
<1> USE LaunchAssumption DEF vars, callVars, dbVars, regVars, serverVars, cloudVars
<1>1. ASSUME ProcessDies PROVE Ports'
    BY <1>1 DEF ProcessDies, TypeOK, Ports, One
<1>2. ASSUME NEW t \in Tests, Request(t) PROVE Ports'
    BY <1>2 DEF Request, TypeOK, Ports, One
<1>3. ASSUME NEW t \in Tests, CloseExecutorc(t) PROVE Ports'
    BY <1>3 DEF CloseExecutorc, TypeOK, Ports, One
<1>4. ASSUME NEW t \in Tests, CollectExecutor(t) PROVE Ports'
    BY <1>4 DEF CollectExecutor, TypeOK, Ports, One
<1>5. ASSUME NEW t \in Tests, CollectClosed(t) PROVE Ports'
    BY <1>5 DEF CollectClosed, TypeOK, Ports, One
<1>6. ASSUME NEW t \in Tests, CollectError(t) PROVE Ports'
    BY <1>6 DEF CollectError, TypeOK, Ports, One
<1>7. ASSUME NEW t \in Tests, CollectCtxDone(t) PROVE Ports'
    BY <1>7 DEF CollectCtxDone, TypeOK, Ports, One
<1>8. ASSUME NEW t \in Tests, HandlerReturns(t) PROVE Ports'
    BY <1>8 DEF HandlerReturns, TypeOK, Ports, One
<1>9. ASSUME NEW t \in Tests, ClientCancels(t) PROVE Ports'
    BY <1>9 DEF ClientCancels, TypeOK, Ports, One
<1>10. ASSUME NEW g \in Launchers, LockAndCreate(g) PROVE Ports'
    BY <1>10 DEF LockAndCreate, TypeOK, Ports, One
<1>11. ASSUME NEW g \in Launchers, CreateReturns(g) PROVE Ports'
    BY <1>11 DEF CreateReturns, TypeOK, Ports, One
<1>12. ASSUME NEW g \in Launchers, CreateFails(g) PROVE Ports'
    BY <1>12 DEF CreateFails, TypeOK, Ports, One
<1>13. ASSUME NEW g \in Launchers, ReceivePort(g) PROVE Ports'
    BY <1>13 DEF ReceivePort, TypeOK, Ports, One
<1>14. ASSUME NEW g \in Launchers, WaitCtxDone(g) PROVE Ports'
    BY <1>14 DEF WaitCtxDone, TypeOK, Ports, One
<1>15. ASSUME NEW g \in Launchers, Join(g) PROVE Ports'
    BY <1>15 DEF Join, TypeOK, Ports, One
<1>16. ASSUME NEW g \in Launchers, NoAddress(g) PROVE Ports'
    BY <1>16 DEF NoAddress, TypeOK, Ports, One
<1>17. ASSUME NEW g \in Launchers, GetFails(g) PROVE Ports'
    BY <1>1, <1>17 DEF GetFails
<1>18. ASSUME NEW g \in Launchers, Remove(g) PROVE Ports'
    BY <1>18 DEF Remove, TypeOK, Ports, One
<1>19. ASSUME NEW d \in Launchers, Boot(d) PROVE Ports'
    BY <1>19 DEF Boot, TypeOK, Ports, One
<1>20. ASSUME NEW d \in Launchers, RegisterAwaited(d) PROVE Ports'
    BY <1>20 DEF RegisterAwaited, TypeOK, Ports, One
<1>21. ASSUME NEW d \in Launchers, RegisterBlocks(d) PROVE Ports'
    BY <1>21 DEF RegisterBlocks, TypeOK, Ports, One
<1>22. ASSUME NEW d \in Launchers, RegisterUnblocks(d) PROVE Ports'
    BY <1>22 DEF RegisterUnblocks, TypeOK, Ports, One
<1>23. ASSUME NEW d \in Launchers, RegisterUnexpected(d) PROVE Ports'
    BY <1>23 DEF RegisterUnexpected, TypeOK, Ports, One
<1>24. ASSUME NEW d \in Launchers, CloudCreates(d) PROVE Ports'
    BY <1>24 DEF CloudCreates, TypeOK, Ports, One
<1>25. ASSUME NEW d \in Launchers, CleanupDeletes(d) PROVE Ports'
    BY <1>25 DEF CleanupDeletes, TypeOK, Ports, One
<1>26. CASE Crash
    BY <1>1, <1>26 DEF Crash
<1>27. CASE ListDroplets
    BY <1>27 DEF ListDroplets, TypeOK, Ports, One
<1>28. CASE CleanupFails
    BY <1>28 DEF CleanupFails, TypeOK, Ports, One
<1>29. CASE Serve
    BY <1>29 DEF Serve, TypeOK, Ports, One
<1>30. CASE UNCHANGED vars
    BY <1>30 DEF TypeOK, Ports, One
<1>31. QED
    BY <1>2, <1>3, <1>4, <1>5, <1>6, <1>7, <1>8, <1>9, <1>10, <1>11, <1>12,
       <1>13, <1>14, <1>15, <1>16, <1>17, <1>18, <1>19, <1>20, <1>21, <1>22,
       <1>23, <1>24, <1>25, <1>26, <1>27, <1>28, <1>29, <1>30
    DEF Next, CallStep, Collect, LauncherStep, DropletStep, Register

-----------------------------------------------------------------------------
\* The initial state satisfies the inductive invariant.
LEMMA InitIInv == Init => IInv
<1> SUFFICES ASSUME Init PROVE IInv
    OBVIOUS
<1> USE LaunchAssumption
<1>1. TypeOK
    BY DEF Init, TypeOK, Calls, PCs
<1>2. RegistryConsistent
    BY DEF Init, RegistryConsistent
<1>3. Origin
    BY DEF Init, Origin, LaunchAssumption
<1>4. Results
    BY DEF Init, Results, LaunchAssumption
<1>5. Ports
    BY DEF Init, Ports, One
<1>6. QED
    BY <1>1, <1>2, <1>3, <1>4, <1>5 DEF IInv

\* Every step keeps the inductive invariant.
LEMMA StepIInv == IInv /\ [Next]_vars => IInv'
  BY TypeStep, OriginStep, RegistryStep, ResultsStep, PortsStep DEF IInv

\* The inductive invariant holds in every state the scheduler reaches.
THEOREM Invariance == Spec => []IInv
  BY InitIInv, StepIInv, PTL DEF Spec

\* Every variable keeps the type of the Go value it stands for.
THEOREM TypeCorrect == Spec => []TypeOK
<1>1. IInv => TypeOK
    BY DEF IInv
<1>2. QED
    BY Invariance, <1>1, PTL

\* waitDroplets always holds exactly the droplets some launcher answers for, and
\* db.lock never has two holders (db.go 100 to 114, 188 to 201).
THEOREM RegistryCorrect == Spec => []RegistryConsistent
<1>1. IInv => RegistryConsistent
    BY DEF IInv
<1>2. QED
    BY Invariance, <1>1, PTL

\* RegisterExecutorUp never destroys the droplet of a launch in progress
\* (db.go 195 to 199), because the create call and the entry in waitDroplets are
\* made under one hold of db.lock (100 to 109).
THEOREM NeverDestroysAwaited == Spec => AwaitedNotDestroyed
<1> DEFINE A == \A d \in Launchers :
                  up = "serving" /\ d \in cloud /\ d \notin cloud'
                    => pc[d] \in {"done", "dead"}
<1>1. IInv /\ [Next]_vars => [A]_vars
    <2> SUFFICES ASSUME IInv, [Next]_vars, NEW e \in Launchers,
                        up = "serving", e \in cloud, e \notin cloud'
                 PROVE  pc[e] \in {"done", "dead"}
        OBVIOUS
    <2> USE DEF vars, callVars, dbVars, regVars, serverVars, cloudVars
    <2>1. RegisterUnexpected(e)
        BY DEF Next, CallStep, Collect, LauncherStep, DropletStep, Register,
               Request, CloseExecutorc, CollectExecutor, CollectClosed,
               CollectError, CollectCtxDone, HandlerReturns, ClientCancels,
               LockAndCreate, CreateReturns, CreateFails, ReceivePort,
               WaitCtxDone, Join, NoAddress, GetFails, Remove, ProcessDies,
               Boot, RegisterAwaited, RegisterBlocks, RegisterUnblocks,
               RegisterUnexpected, CloudCreates, CleanupDeletes, Crash,
               ListDroplets, CleanupFails, Serve
    <2>2. pc[e] \notin {"idle", "spawned"}
        BY DEF IInv, Origin
    <2>3. pc[e] \notin {"creating", "waiting", "getting", "removing"}
        BY <2>1 DEF RegisterUnexpected, IInv, RegistryConsistent
    <2>4. QED
        BY <2>2, <2>3 DEF IInv, TypeOK, PCs
<1>2. QED
    BY Invariance, <1>1, PTL DEF Spec, AwaitedNotDestroyed

\* LaunchExecutors loses no executor that has joined (db.go 139 to 165).
THEOREM LosesNoExecutor == Spec => []NoSilentShortfall
<1>1. IInv => NoSilentShortfall
    BY LaunchAssumption
    DEF IInv, TypeOK, Results, NoSilentShortfall, LaunchersOf, LaunchAssumption
<1>2. QED
    BY Invariance, <1>1, PTL

\* A call of RegisterExecutorUp that blocks under db.lock (db.go 201) is at least
\* the second on its droplet, and the third if the launcher cannot free it.
THEOREM OneStartNeverBlocks == Spec => []BlocksOnlyOnReboots
<1>1. IInv => BlocksOnlyOnReboots
    BY DEF IInv, TypeOK, Ports, One, BlocksOnlyOnReboots
<1>2. QED
    BY Invariance, <1>1, PTL

-----------------------------------------------------------------------------
\* Every step keeps Survivors: NewDB (db.go 54 to 66) deletes every droplet there
\* was, and a droplet created after the list is destroyed when it registers (198).
LEMMA SurvivorsStep ==
  PageHoldsAll /\ TypeOK /\ RegistryConsistent /\ Origin /\ Survivors /\ [Next]_vars => Survivors'
<1> SUFFICES ASSUME PageHoldsAll, TypeOK, RegistryConsistent, Origin, Survivors, [Next]_vars
             PROVE  Survivors'
    OBVIOUS
<1> USE LaunchAssumption DEF vars, callVars, dbVars, regVars, serverVars, cloudVars
<1>1. ASSUME ProcessDies PROVE Survivors'
    BY <1>1 DEF ProcessDies, TypeOK, Survivors
<1>2. ASSUME NEW t \in Tests, Request(t) PROVE Survivors'
    BY <1>2 DEF Request, TypeOK, Survivors, Origin, LaunchAssumption
<1>3. ASSUME NEW t \in Tests, CloseExecutorc(t) PROVE Survivors'
    BY <1>3 DEF CloseExecutorc, TypeOK, Survivors
<1>4. ASSUME NEW t \in Tests, CollectExecutor(t) PROVE Survivors'
    BY <1>4 DEF CollectExecutor, TypeOK, Survivors
<1>5. ASSUME NEW t \in Tests, CollectClosed(t) PROVE Survivors'
    BY <1>5 DEF CollectClosed, TypeOK, Survivors
<1>6. ASSUME NEW t \in Tests, CollectError(t) PROVE Survivors'
    BY <1>6 DEF CollectError, TypeOK, Survivors
<1>7. ASSUME NEW t \in Tests, CollectCtxDone(t) PROVE Survivors'
    BY <1>7 DEF CollectCtxDone, TypeOK, Survivors
<1>8. ASSUME NEW t \in Tests, HandlerReturns(t) PROVE Survivors'
    BY <1>8 DEF HandlerReturns, TypeOK, Survivors
<1>9. ASSUME NEW t \in Tests, ClientCancels(t) PROVE Survivors'
    BY <1>9 DEF ClientCancels, TypeOK, Survivors
<1>10. ASSUME NEW g \in Launchers, LockAndCreate(g) PROVE Survivors'
    BY <1>10 DEF LockAndCreate, TypeOK, Survivors
<1>11. ASSUME NEW g \in Launchers, CreateReturns(g) PROVE Survivors'
    BY <1>11 DEF CreateReturns, TypeOK, Survivors
<1>12. ASSUME NEW g \in Launchers, CreateFails(g) PROVE Survivors'
    BY <1>12 DEF CreateFails, TypeOK, Survivors
<1>13. ASSUME NEW g \in Launchers, ReceivePort(g) PROVE Survivors'
    BY <1>13 DEF ReceivePort, TypeOK, Survivors
<1>14. ASSUME NEW g \in Launchers, WaitCtxDone(g) PROVE Survivors'
    BY <1>14 DEF WaitCtxDone, TypeOK, Survivors
<1>15. ASSUME NEW g \in Launchers, Join(g) PROVE Survivors'
    BY <1>15 DEF Join, TypeOK, Survivors
<1>16. ASSUME NEW g \in Launchers, NoAddress(g) PROVE Survivors'
    BY <1>16 DEF NoAddress, TypeOK, Survivors
<1>17. ASSUME NEW g \in Launchers, GetFails(g) PROVE Survivors'
    BY <1>1, <1>17 DEF GetFails
<1>18. ASSUME NEW g \in Launchers, Remove(g) PROVE Survivors'
    BY <1>18 DEF Remove, TypeOK, Survivors
<1>19. ASSUME NEW d \in Launchers, Boot(d) PROVE Survivors'
    BY <1>19 DEF Boot, TypeOK, Survivors
<1>20. ASSUME NEW d \in Launchers, RegisterAwaited(d) PROVE Survivors'
    BY <1>20 DEF RegisterAwaited, TypeOK, Survivors, RegistryConsistent
<1>21. ASSUME NEW d \in Launchers, RegisterBlocks(d) PROVE Survivors'
    BY <1>21 DEF RegisterBlocks, TypeOK, Survivors, RegistryConsistent
<1>22. ASSUME NEW d \in Launchers, RegisterUnblocks(d) PROVE Survivors'
    BY <1>22 DEF RegisterUnblocks, TypeOK, Survivors
<1>23. ASSUME NEW d \in Launchers, RegisterUnexpected(d) PROVE Survivors'
    BY <1>23 DEF RegisterUnexpected, TypeOK, Survivors, PageHoldsAll
<1>24. ASSUME NEW d \in Launchers, CloudCreates(d) PROVE Survivors'
    BY <1>24 DEF CloudCreates, TypeOK, Survivors, Origin
<1>25. ASSUME NEW d \in Launchers, CleanupDeletes(d) PROVE Survivors'
    BY <1>25 DEF CleanupDeletes, TypeOK, Survivors
<1>26. CASE Crash
    BY <1>1, <1>26 DEF Crash
<1>27. CASE ListDroplets
    <2>1. IsFiniteSet(cloud) /\ Cardinality(cloud) <= Cardinality(Launchers)
        BY FS_Subset DEF TypeOK, PageHoldsAll
    <2>2. PICK P \in SUBSET cloud :
             /\ page' = P
             /\ Cardinality(P) <= PageSize
             /\ Cardinality(P) = PageSize \/ P = cloud
        BY <1>27 DEF ListDroplets
    <2>3. Cardinality(P) \in Nat /\ Cardinality(cloud) \in Nat /\ Cardinality(Launchers) \in Nat
        BY <2>1, FS_Subset, FS_CardinalityType DEF PageHoldsAll
    <2>4. P = cloud
        BY <2>1, <2>2, <2>3, FS_Subset DEF LaunchAssumption, PageHoldsAll
    <2>5. QED
        BY <1>27, <2>2, <2>4 DEF ListDroplets, Survivors, TypeOK
<1>28. CASE CleanupFails
    BY <1>28 DEF CleanupFails, TypeOK, Survivors
<1>29. CASE Serve
    BY <1>29 DEF Serve, TypeOK, Survivors
<1>30. CASE UNCHANGED vars
    BY <1>30 DEF TypeOK, Survivors
<1>31. QED
    BY <1>2, <1>3, <1>4, <1>5, <1>6, <1>7, <1>8, <1>9, <1>10, <1>11, <1>12,
       <1>13, <1>14, <1>15, <1>16, <1>17, <1>18, <1>19, <1>20, <1>21, <1>22,
       <1>23, <1>24, <1>25, <1>26, <1>27, <1>28, <1>29, <1>30
    DEF Next, CallStep, Collect, LauncherStep, DropletStep, Register

\* Provided the list of droplets fits in one page and a delete request is always
\* carried out, a restarted scheduler (db.go 51 to 69) faces no started droplet of
\* an earlier life that is not about to be destroyed.
THEOREM RestartLeavesNothing == PageHoldsAll => (Spec => []NothingSurvivesRestart)
<1> SUFFICES ASSUME PageHoldsAll PROVE Spec => []NothingSurvivesRestart
    OBVIOUS
<1>1. Init => Survivors
    BY DEF Init, Survivors
<1>2. IInv /\ Survivors /\ [Next]_vars => Survivors'
    BY SurvivorsStep DEF IInv
<1>3. IInv /\ Survivors => NothingSurvivesRestart
    BY DEF IInv, TypeOK, Survivors, NothingSurvivesRestart
<1>4. QED
    BY Invariance, <1>1, <1>2, <1>3, PTL DEF Spec

=============================================================================
