---------------------- MODULE SessionLifecycleProofs ----------------------
(***************************************************************************)
(* Proofs about SessionLifecycle, for any number of sessions, drivers and   *)
(* concurrent deletions and any set of faults:                             *)
(*                                                                         *)
(*   - its type invariant, ActiveIffRunning and FinishedOnGoodbye, from the *)
(*     inductive invariant LifecycleInv;                                   *)
(*   - that it implements the abstract table ApplicationTable;             *)
(*   - FailedOnEvidence and ServingListed, where a live driver can always  *)
(*     be reached, from EvidenceInv and ServingInv.                        *)
(*                                                                         *)
(* Each invariant has one lemma that a step preserves it, with one step of *)
(* the proof per action.                                                   *)
(***************************************************************************)
EXTENDS SessionLifecycle, TLAPS

\* NULL is not the address of a driver.
LEMMA NoAddressIsNone == NoAddress \notin Addresses
BY TableAssumption DEF NoAddress, Addresses

\* Every action assigns values of the declared types.  Remembered is needed
\* for CheckMark and DeleteUpdate, which write the row they remember,
\* LaunchOrder for DriverGoodbye.
LEMMA TypeStep ==
    ASSUME LifecycleInv, [Next]_vars
    PROVE  TypeOK'
<1> USE TableAssumption DEF LifecycleInv, TypeOK, Left, State, Addresses, NoAddress,
        tableVars, createVars, driverVars, netVars, delVars, chkVars, connVars
<1>1. ASSUME NEW a \in Apps, CreateInsert(a)
      PROVE  TypeOK'
  BY <1>1 DEF CreateInsert, SetRow
<1>2. ASSUME NEW a \in Apps, CreateLaunched(a)
      PROVE  TypeOK'
  BY <1>2 DEF CreateLaunched
<1>3. ASSUME NEW a \in Apps, CreateLaunchFailed(a)
      PROVE  TypeOK'
  BY <1>3 DEF CreateLaunchFailed
<1>4. ASSUME NEW a \in Apps, NEW ok \in DbOutcomes, CreateMarkFailed(a, ok)
      PROVE  TypeOK'
  BY <1>4 DEF CreateMarkFailed
<1>5. ASSUME NEW a \in Apps, CreateDropped(a)
      PROVE  TypeOK'
  BY <1>5 DEF CreateDropped
<1>6. ASSUME NEW a \in Apps, NEW code \in {"succeeded", "failed"},
             SubmitExit(a, code)
      PROVE  TypeOK'
  BY <1>6 DEF SubmitExit
<1>7. ASSUME NEW a \in Apps, MonitorWake(a)
      PROVE  TypeOK'
  BY <1>7 DEF MonitorWake
<1>8. ASSUME NEW a \in Apps, NEW ok \in DbOutcomes, MonitorMark(a, ok)
      PROVE  TypeOK'
  BY <1>8 DEF MonitorMark
<1>9. ASSUME NEW a \in Apps, DriverStart(a)
      PROVE  TypeOK'
  BY <1>9 DEF DriverStart
<1>10. ASSUME NEW a \in Apps, DriverRegistered(a)
      PROVE  TypeOK'
  BY <1>10 DEF DriverRegistered
<1>11. ASSUME NEW a \in Apps, DriverRejected(a)
      PROVE  TypeOK'
  BY <1>11 DEF DriverRejected
<1>12. ASSUME NEW a \in Apps, DriverIdle(a)
      PROVE  TypeOK'
  BY <1>12 DEF DriverIdle
<1>35. ASSUME NEW a \in Apps, DriverGoodbye(a)
      PROVE  TypeOK'
  BY <1>35 DEF DriverGoodbye, ListenerFree, LaunchOrder
<1>13. ASSUME NEW a \in Apps, DriverEnd(a)
      PROVE  TypeOK'
  BY <1>13 DEF DriverEnd, ListenerFree
<1>14. ASSUME NEW a \in Apps, DriverCrash(a)
      PROVE  TypeOK'
  BY <1>14 DEF DriverCrash
<1>15. ASSUME NEW a \in Apps, NEW k \in Addresses, NEW ok \in DbOutcomes,
             AppCallback(a, k, ok)
      PROVE  TypeOK'
  <2>1. posts' \in [Apps -> SUBSET Addresses]
    BY <1>15 DEF AppCallback
  <2>2. reply' \in [Apps -> {"none", "ok", "bad"}]
    BY <1>15 DEF AppCallback, Answer
  <2>3. CASE /\ SetRow(a, "RUNNING", k)
             /\ application_id' = [application_id EXCEPT ![a] = TRUE]
    BY <1>15, <2>1, <2>2, <2>3 DEF AppCallback, SetRow
  <2>4. CASE UNCHANGED <<tableVars, application_id>>
    BY <1>15, <2>1, <2>2, <2>4 DEF AppCallback
  <2> QED
    BY <1>15, <2>3, <2>4 DEF AppCallback
<1>16. ASSUME NEW a \in Apps, NEW k \in Addresses, NEW ok \in DbOutcomes,
             AppCallbackDelete(a, k, ok)
      PROVE  TypeOK'
  BY <1>16 DEF AppCallbackDelete, SetRow
<1>17. ASSUME NEW a \in Apps, NEW k \in Addresses, LosePost(a, k)
      PROVE  TypeOK'
  BY <1>17 DEF LosePost
<1>18. ASSUME NEW a \in Apps, NEW k \in Addresses, LoseGoodbye(a, k)
      PROVE  TypeOK'
  BY <1>18 DEF LoseGoodbye
<1>19. ASSUME NEW a \in Apps, ProxyResolve(a)
      PROVE  TypeOK'
  BY <1>19 DEF ProxyResolve
<1>20. ASSUME NEW a \in Apps, ProxyConnected(a)
      PROVE  TypeOK'
  BY <1>20 DEF ProxyConnected, ProxyEnds
<1>21. ASSUME NEW a \in Apps, NEW ok \in DbOutcomes, ProxyGaveUp(a, ok)
      PROVE  TypeOK'
  BY <1>21 DEF ProxyGaveUp, ProxyEnds, SetRow
<1>22. ASSUME NEW r \in Requests, NEW a \in Apps, DeleteRead(r, a)
      PROVE  TypeOK'
  BY <1>22 DEF DeleteRead
<1>23. ASSUME NEW r \in Requests, NEW ok \in DbOutcomes, DeleteUpdate(r, ok)
      PROVE  TypeOK'
  <2>1. /\ state' \in [Apps -> State \cup {"NONE", "PRUNED"}]
        /\ address' \in [Apps -> Addresses \cup {NoAddress}]
    <3>1. CASE SetRow(delApp[r], "FINISHED", NoAddress)
      BY <3>1 DEF SetRow
    <3>2. CASE UNCHANGED tableVars
      BY <3>2
    <3> QED
      BY <1>23, <3>1, <3>2 DEF DeleteUpdate
  <2>2. /\ delPc' \in [Requests -> {"idle", "update", "stop"}]
        /\ delApp' \in [Requests -> Apps \cup {0}]
        /\ delAddr' \in [Requests -> Addresses \cup {NoAddress}]
    BY <1>23 DEF DeleteUpdate, DeleteEnds
  <2> QED
    BY <1>23, <2>1, <2>2 DEF DeleteUpdate
<1>24. ASSUME NEW r \in Requests, DeleteStopped(r)
      PROVE  TypeOK'
  <2>1. CASE UNCHANGED driverVars
    BY <1>24, <2>1 DEF DeleteStopped, DeleteEnds
  <2>2. CASE InterceptStop(delApp[r], delAddr[r])
    BY <1>24, <2>2 DEF DeleteStopped, DeleteEnds, InterceptStop, Reachable
  <2> QED
    BY <1>24, <2>1, <2>2 DEF DeleteStopped
<1>25. ASSUME NEW r \in Requests, DeleteStopFailed(r)
      PROVE  TypeOK'
  <2>1. CASE UNCHANGED driverVars
    BY <1>25, <2>1 DEF DeleteStopFailed, DeleteEnds
  <2>2. CASE InterceptStop(delApp[r], delAddr[r])
    BY <1>25, <2>2 DEF DeleteStopFailed, DeleteEnds, InterceptStop, Reachable
  <2> QED
    BY <1>25, <2>1, <2>2 DEF DeleteStopFailed
<1>26. ASSUME NEW r \in Requests, DeleteDropped(r)
      PROVE  TypeOK'
  <2>1. CASE UNCHANGED driverVars
    BY <1>26, <2>1 DEF DeleteDropped, DeleteEnds
  <2>2. CASE InterceptStop(delApp[r], delAddr[r])
    BY <1>26, <2>2 DEF DeleteDropped, DeleteEnds, InterceptStop, Reachable
  <2> QED
    BY <1>26, <2>1, <2>2 DEF DeleteDropped
<1>27. CASE CheckRead
  BY <1>27 DEF CheckRead
<1>28. ASSUME NEW a \in Apps, CheckHealthy(a)
      PROVE  TypeOK'
  BY <1>28 DEF CheckHealthy
<1>29. ASSUME NEW a \in Apps, CheckUnhealthy(a)
      PROVE  TypeOK'
  BY <1>29 DEF CheckUnhealthy
<1>30. ASSUME NEW ok \in DbOutcomes, CheckMark(ok)
      PROVE  TypeOK'
  BY <1>30 DEF CheckMark, SetRow
<1>31. CASE CheckDone
  BY <1>31 DEF CheckDone
<1>32. ASSUME NEW cutoff \in Apps, Prune(cutoff)
      PROVE  TypeOK'
  BY <1>32 DEF Prune, Terminal
<1>33. CASE ServerCrash
  BY <1>33 DEF ServerCrash
<1>34. CASE UNCHANGED vars
  BY <1>34 DEF vars
<1> HIDE DEF LifecycleInv, TypeOK, State, Addresses, NoAddress, tableVars,
        createVars, driverVars, netVars, delVars, chkVars, connVars
<1> QED
  BY <1>1, <1>2, <1>3, <1>4, <1>5, <1>6, <1>7, <1>8, <1>9, <1>10, <1>11,
     <1>12, <1>13, <1>14, <1>15, <1>16, <1>17, <1>18, <1>19, <1>20, <1>21,
     <1>22, <1>23, <1>24, <1>25, <1>26, <1>27, <1>28, <1>29, <1>30, <1>31,
     <1>32, <1>33, <1>34, <1>35
  DEF Next, Create_App, Launch, Driver, Callback, Proxy, Delete, Check

\* Every action preserves the order of a launch, what handlers remember and
\* ActiveIffRunning.  The actions that matter are CreateMarkFailed and
\* MonitorMark, which write the state alone, by LaunchOrder, and those of the
\* driver: a goodbye in flight is of a driver that never serves again.
LEMMA InvStep ==
    ASSUME LifecycleInv, TypeOK', [Next]_vars
    PROVE  LaunchOrder' /\ Remembered' /\ ActiveIffRunning'
<1> USE TableAssumption, NoAddressIsNone DEF LifecycleInv, TypeOK, LaunchOrder, Left, Remembered,
        Addresses, NoAddress,
        ActiveIffRunning, Exists, State, tableVars,
        createVars, driverVars, netVars, delVars, chkVars, connVars
<1>1. ASSUME NEW a \in Apps, CreateInsert(a)
      PROVE  LaunchOrder' /\ Remembered' /\ ActiveIffRunning'
  BY <1>1 DEF CreateInsert, SetRow
<1>2. ASSUME NEW a \in Apps, CreateLaunched(a)
      PROVE  LaunchOrder' /\ Remembered' /\ ActiveIffRunning'
  BY <1>2 DEF CreateLaunched
<1>3. ASSUME NEW a \in Apps, CreateLaunchFailed(a)
      PROVE  LaunchOrder' /\ Remembered' /\ ActiveIffRunning'
  BY <1>3 DEF CreateLaunchFailed
<1>4. ASSUME NEW a \in Apps, NEW ok \in DbOutcomes, CreateMarkFailed(a, ok)
      PROVE  LaunchOrder' /\ Remembered' /\ ActiveIffRunning'
  BY <1>4 DEF CreateMarkFailed
<1>5. ASSUME NEW a \in Apps, CreateDropped(a)
      PROVE  LaunchOrder' /\ Remembered' /\ ActiveIffRunning'
  BY <1>5 DEF CreateDropped
<1>6. ASSUME NEW a \in Apps, NEW code \in {"succeeded", "failed"},
             SubmitExit(a, code)
      PROVE  LaunchOrder' /\ Remembered' /\ ActiveIffRunning'
  BY <1>6 DEF SubmitExit
<1>7. ASSUME NEW a \in Apps, MonitorWake(a)
      PROVE  LaunchOrder' /\ Remembered' /\ ActiveIffRunning'
  BY <1>7 DEF MonitorWake
<1>8. ASSUME NEW a \in Apps, NEW ok \in DbOutcomes, MonitorMark(a, ok)
      PROVE  LaunchOrder' /\ Remembered' /\ ActiveIffRunning'
  BY <1>8 DEF MonitorMark
<1>9. ASSUME NEW a \in Apps, DriverStart(a)
      PROVE  LaunchOrder' /\ Remembered' /\ ActiveIffRunning'
  BY <1>9 DEF DriverStart
<1>10. ASSUME NEW a \in Apps, DriverRegistered(a)
      PROVE  LaunchOrder' /\ Remembered' /\ ActiveIffRunning'
  BY <1>10 DEF DriverRegistered
<1>11. ASSUME NEW a \in Apps, DriverRejected(a)
      PROVE  LaunchOrder' /\ Remembered' /\ ActiveIffRunning'
  BY <1>11 DEF DriverRejected
<1>12. ASSUME NEW a \in Apps, DriverIdle(a)
      PROVE  LaunchOrder' /\ Remembered' /\ ActiveIffRunning'
  BY <1>12 DEF DriverIdle
<1>35. ASSUME NEW a \in Apps, DriverGoodbye(a)
      PROVE  LaunchOrder' /\ Remembered' /\ ActiveIffRunning'
  BY <1>35 DEF DriverGoodbye, ListenerFree
<1>13. ASSUME NEW a \in Apps, DriverEnd(a)
      PROVE  LaunchOrder' /\ Remembered' /\ ActiveIffRunning'
  BY <1>13 DEF DriverEnd, ListenerFree
<1>14. ASSUME NEW a \in Apps, DriverCrash(a)
      PROVE  LaunchOrder' /\ Remembered' /\ ActiveIffRunning'
  BY <1>14 DEF DriverCrash
<1>15. ASSUME NEW a \in Apps, NEW k \in Addresses, NEW ok \in DbOutcomes,
             AppCallback(a, k, ok)
      PROVE  LaunchOrder' /\ Remembered' /\ ActiveIffRunning'
  BY <1>15 DEF AppCallback, SetRow, Answer
<1>16. ASSUME NEW a \in Apps, NEW k \in Addresses, NEW ok \in DbOutcomes,
             AppCallbackDelete(a, k, ok)
      PROVE  LaunchOrder' /\ Remembered' /\ ActiveIffRunning'
  BY <1>16 DEF AppCallbackDelete, SetRow
<1>17. ASSUME NEW a \in Apps, NEW k \in Addresses, LosePost(a, k)
      PROVE  LaunchOrder' /\ Remembered' /\ ActiveIffRunning'
  BY <1>17 DEF LosePost
<1>18. ASSUME NEW a \in Apps, NEW k \in Addresses, LoseGoodbye(a, k)
      PROVE  LaunchOrder' /\ Remembered' /\ ActiveIffRunning'
  BY <1>18 DEF LoseGoodbye
<1>19. ASSUME NEW a \in Apps, ProxyResolve(a)
      PROVE  LaunchOrder' /\ Remembered' /\ ActiveIffRunning'
  BY <1>19 DEF ProxyResolve
<1>20. ASSUME NEW a \in Apps, ProxyConnected(a)
      PROVE  LaunchOrder' /\ Remembered' /\ ActiveIffRunning'
  BY <1>20 DEF ProxyConnected, ProxyEnds
<1>21. ASSUME NEW a \in Apps, NEW ok \in DbOutcomes, ProxyGaveUp(a, ok)
      PROVE  LaunchOrder' /\ Remembered' /\ ActiveIffRunning'
  BY <1>21 DEF ProxyGaveUp, ProxyEnds, SetRow
<1>22. ASSUME NEW r \in Requests, NEW a \in Apps, DeleteRead(r, a)
      PROVE  LaunchOrder' /\ Remembered' /\ ActiveIffRunning'
  BY <1>22 DEF DeleteRead
<1>23. ASSUME NEW r \in Requests, NEW ok \in DbOutcomes, DeleteUpdate(r, ok)
      PROVE  LaunchOrder' /\ Remembered' /\ ActiveIffRunning'
  BY <1>23 DEF DeleteUpdate, DeleteEnds, SetRow
<1>24. ASSUME NEW r \in Requests, DeleteStopped(r)
      PROVE  LaunchOrder' /\ Remembered' /\ ActiveIffRunning'
  <2>1. CASE UNCHANGED driverVars
    BY <1>24, <2>1 DEF DeleteStopped, DeleteEnds
  <2>2. CASE InterceptStop(delApp[r], delAddr[r])
    BY <1>24, <2>2 DEF DeleteStopped, DeleteEnds, InterceptStop, Reachable
  <2> QED
    BY <1>24, <2>1, <2>2 DEF DeleteStopped
<1>25. ASSUME NEW r \in Requests, DeleteStopFailed(r)
      PROVE  LaunchOrder' /\ Remembered' /\ ActiveIffRunning'
  <2>1. CASE UNCHANGED driverVars
    BY <1>25, <2>1 DEF DeleteStopFailed, DeleteEnds
  <2>2. CASE InterceptStop(delApp[r], delAddr[r])
    BY <1>25, <2>2 DEF DeleteStopFailed, DeleteEnds, InterceptStop, Reachable
  <2> QED
    BY <1>25, <2>1, <2>2 DEF DeleteStopFailed
<1>26. ASSUME NEW r \in Requests, DeleteDropped(r)
      PROVE  LaunchOrder' /\ Remembered' /\ ActiveIffRunning'
  <2>1. CASE UNCHANGED driverVars
    BY <1>26, <2>1 DEF DeleteDropped, DeleteEnds
  <2>2. CASE InterceptStop(delApp[r], delAddr[r])
    BY <1>26, <2>2 DEF DeleteDropped, DeleteEnds, InterceptStop, Reachable
  <2> QED
    BY <1>26, <2>1, <2>2 DEF DeleteDropped
<1>27. CASE CheckRead
  BY <1>27 DEF CheckRead
<1>28. ASSUME NEW a \in Apps, CheckHealthy(a)
      PROVE  LaunchOrder' /\ Remembered' /\ ActiveIffRunning'
  BY <1>28 DEF CheckHealthy
<1>29. ASSUME NEW a \in Apps, CheckUnhealthy(a)
      PROVE  LaunchOrder' /\ Remembered' /\ ActiveIffRunning'
  BY <1>29 DEF CheckUnhealthy
<1>30. ASSUME NEW ok \in DbOutcomes, CheckMark(ok)
      PROVE  LaunchOrder' /\ Remembered' /\ ActiveIffRunning'
  BY <1>30 DEF CheckMark, SetRow
<1>31. CASE CheckDone
  BY <1>31 DEF CheckDone
<1>32. ASSUME NEW cutoff \in Apps, Prune(cutoff)
      PROVE  LaunchOrder' /\ Remembered' /\ ActiveIffRunning'
  BY <1>32 DEF Prune, Terminal
<1>33. CASE ServerCrash
  BY <1>33 DEF ServerCrash
<1>34. CASE UNCHANGED vars
  BY <1>34 DEF vars
<1> HIDE DEF LifecycleInv, TypeOK, LaunchOrder, Remembered, ActiveIffRunning,
        Exists, State, tableVars, createVars, driverVars,
        netVars, delVars, chkVars, connVars
<1> QED
  BY <1>1, <1>2, <1>3, <1>4, <1>5, <1>6, <1>7, <1>8, <1>9, <1>10, <1>11,
     <1>12, <1>13, <1>14, <1>15, <1>16, <1>17, <1>18, <1>19, <1>20, <1>21,
     <1>22, <1>23, <1>24, <1>25, <1>26, <1>27, <1>28, <1>29, <1>30, <1>31,
     <1>32, <1>33, <1>34, <1>35
  DEF Next, Create_App, Launch, Driver, Callback, Proxy, Delete, Check

-----------------------------------------------------------------------------

\* The invariant holds of the empty table.
LEMMA LifecycleInvInit == Init => LifecycleInv
BY TableAssumption
DEF Init, TableInit, LifecycleInv, TypeOK, LaunchOrder, Remembered, ActiveIffRunning,
    State, NoAddress, Addresses

\* LifecycleInv is an invariant: whatever fails and in whatever order handlers,
\* tasks, commands and drivers take their steps.
THEOREM LifecycleInvariant == Spec => []LifecycleInv
<1>1. Init => LifecycleInv
  BY LifecycleInvInit
<1>2. LifecycleInv /\ [Next]_vars => LifecycleInv'
  <2> SUFFICES ASSUME LifecycleInv, [Next]_vars PROVE LifecycleInv'
    OBVIOUS
  <2>1. TypeOK'
    BY TypeStep
  <2>2. LaunchOrder' /\ Remembered' /\ ActiveIffRunning'
    BY <2>1, InvStep
  <2> QED
    BY <2>1, <2>2 DEF LifecycleInv
<1> QED
  BY <1>1, <1>2, PTL DEF Spec

\* Every variable keeps its type.
THEOREM TypeCorrectness == Spec => []TypeOK
<1>1. LifecycleInv => TypeOK
  BY DEF LifecycleInv
<1> QED
  BY <1>1, LifecycleInvariant, PTL

\* A row has an address exactly while it is RUNNING, though create_app and its
\* monitor write the state alone: the API's `active` and the proxy's address
\* lookup can rely on it.
THEOREM ActiveIffRunningAlways == Spec => []ActiveIffRunning
<1>1. LifecycleInv => ActiveIffRunning
  BY DEF LifecycleInv
<1> QED
  BY <1>1, LifecycleInvariant, PTL

\* A session is FINISHED only by its owner's deletion or by the goodbye of a
\* driver whose Connect service has ended: with any number of restarted drivers
\* and of goodbyes that arrive late.
THEOREM FinishedOnGoodbyeAlways == Spec => FinishedOnGoodbye
<1> DEFINE Word ==
      \A a \in Apps :
          state[a] # "FINISHED" /\ state'[a] = "FINISHED" =>
              \/ \E r \in Requests : delPc[r] = "update" /\ delApp[r] = a
              \/ \E k \in goodbye[a] \ goodbye'[a] :
                     k < attempt[a] \/ driver[a] \in Left
<1>1. LifecycleInv /\ [Next]_vars => [Word]_vars
  <2> SUFFICES ASSUME LifecycleInv, Next,
                      NEW b \in Apps, state[b] # "FINISHED", state'[b] = "FINISHED"
               PROVE  \/ \E r \in Requests : delPc[r] = "update" /\ delApp[r] = b
                      \/ \E k \in goodbye[b] \ goodbye'[b] :
                             k < attempt[b] \/ driver[b] \in Left
    OBVIOUS
  <2>1. ASSUME NEW r \in Requests, NEW ok \in DbOutcomes, DeleteUpdate(r, ok)
        PROVE  delPc[r] = "update" /\ delApp[r] = b
    BY <2>1 DEF DeleteUpdate, SetRow, tableVars, LifecycleInv, TypeOK
  <2>2. ASSUME NEW a \in Apps, NEW k \in Addresses, NEW ok \in DbOutcomes,
               AppCallbackDelete(a, k, ok)
        PROVE  \E g \in goodbye[b] \ goodbye'[b] : g < attempt[b] \/ driver[b] \in Left
    <3>1. a = b
      BY <2>2 DEF AppCallbackDelete, SetRow, tableVars, LifecycleInv, TypeOK
    <3>2. k \in goodbye[b] \ goodbye'[b]
      BY <2>2, <3>1 DEF AppCallbackDelete, LifecycleInv, TypeOK
    <3>3. k <= attempt[b] /\ (k = attempt[b] => driver[b] \in Left)
      BY <3>2 DEF LifecycleInv, LaunchOrder
    <3>4. k \in Nat /\ attempt[b] \in Nat
      BY TableAssumption DEF LifecycleInv, TypeOK, Addresses, NoAddress
    <3> QED
      BY <3>2, <3>3, <3>4
  <2>3. CASE \/ \E cutoff \in Apps : Prune(cutoff)
             \/ \E a \in Apps : CreateInsert(a)
             \/ \E a \in Apps, ok \in DbOutcomes :
                    CreateMarkFailed(a, ok) \/ MonitorMark(a, ok) \/ ProxyGaveUp(a, ok)
             \/ \E a \in Apps, k \in Addresses, ok \in DbOutcomes : AppCallback(a, k, ok)
             \/ \E ok \in DbOutcomes : CheckMark(ok)
    BY <2>3 DEF Prune, CreateInsert, CreateMarkFailed, MonitorMark, ProxyGaveUp,
                AppCallback, CheckMark, SetRow, tableVars, LifecycleInv, TypeOK
  <2>4. CASE UNCHANGED state
    BY <2>4
  <2> QED
    BY <2>1, <2>2, <2>3, <2>4
    DEF Next, Create_App, Launch, Driver, Callback, Proxy, Delete, Check, tableVars,
        CreateLaunched, CreateLaunchFailed, CreateDropped, SubmitExit, MonitorWake,
        DriverStart, DriverRegistered, DriverRejected, DriverIdle, DriverGoodbye,
        DriverEnd, DriverCrash, LosePost, LoseGoodbye, ProxyResolve, ProxyConnected,
        DeleteRead, DeleteStopped, DeleteStopFailed, DeleteDropped, CheckRead,
        CheckHealthy, CheckUnhealthy, CheckDone, ServerCrash
<1> QED
  BY <1>1, LifecycleInvariant, PTL DEF Spec, FinishedOnGoodbye

-----------------------------------------------------------------------------

\* Every step of the server, the commands and the cluster is a step of the
\* abstract table, or leaves it alone.
LEMMA TableStep ==
    ASSUME LifecycleInv, [Next]_vars
    PROVE  [TableNext]_tableVars
<1> USE DEF LifecycleInv, TypeOK, LaunchOrder, Remembered, ActiveIffRunning,
        Exists, State, tableVars, createVars, driverVars, netVars, delVars,
        chkVars, connVars
<1>1. ASSUME NEW a \in Apps, CreateInsert(a)
      PROVE  [TableNext]_tableVars
  BY <1>1 DEF CreateInsert, TableNext, Create, SetRow
<1>2. ASSUME NEW a \in Apps, CreateLaunched(a)
      PROVE  [TableNext]_tableVars
  BY <1>2 DEF CreateLaunched
<1>3. ASSUME NEW a \in Apps, CreateLaunchFailed(a)
      PROVE  [TableNext]_tableVars
  BY <1>3 DEF CreateLaunchFailed
<1>4. ASSUME NEW a \in Apps, NEW ok \in DbOutcomes, CreateMarkFailed(a, ok)
      PROVE  [TableNext]_tableVars
  <2>1. CASE state' = state
    BY <1>4, <2>1 DEF CreateMarkFailed
  <2>2. CASE Exists(a) /\ state' = [state EXCEPT ![a] = "FAILED"]
    <3>1. address' = [address EXCEPT ![a] = NoAddress]
      BY <1>4 DEF CreateMarkFailed
    <3> QED
      BY <2>2, <3>1 DEF TableNext, Fail, SetRow
  <2> QED
    BY <1>4, <2>1, <2>2 DEF CreateMarkFailed
<1>5. ASSUME NEW a \in Apps, CreateDropped(a)
      PROVE  [TableNext]_tableVars
  BY <1>5 DEF CreateDropped
<1>6. ASSUME NEW a \in Apps, NEW code \in {"succeeded", "failed"},
             SubmitExit(a, code)
      PROVE  [TableNext]_tableVars
  BY <1>6 DEF SubmitExit
<1>7. ASSUME NEW a \in Apps, MonitorWake(a)
      PROVE  [TableNext]_tableVars
  BY <1>7 DEF MonitorWake
<1>8. ASSUME NEW a \in Apps, NEW ok \in DbOutcomes, MonitorMark(a, ok)
      PROVE  [TableNext]_tableVars
  <2>1. CASE state' = state
    BY <1>8, <2>1 DEF MonitorMark
  <2>2. CASE state[a] = "LAUNCHING" /\ state' = [state EXCEPT ![a] = "FAILED"]
    <3>1. address' = [address EXCEPT ![a] = NoAddress]
      BY <1>8, <2>2 DEF MonitorMark
    <3> QED
      BY <2>2, <3>1 DEF TableNext, Fail, SetRow
  <2> QED
    BY <1>8, <2>1, <2>2 DEF MonitorMark
<1>9. ASSUME NEW a \in Apps, DriverStart(a)
      PROVE  [TableNext]_tableVars
  BY <1>9 DEF DriverStart
<1>10. ASSUME NEW a \in Apps, DriverRegistered(a)
      PROVE  [TableNext]_tableVars
  BY <1>10 DEF DriverRegistered
<1>11. ASSUME NEW a \in Apps, DriverRejected(a)
      PROVE  [TableNext]_tableVars
  BY <1>11 DEF DriverRejected
<1>12. ASSUME NEW a \in Apps, DriverIdle(a)
      PROVE  [TableNext]_tableVars
  BY <1>12 DEF DriverIdle
<1>35. ASSUME NEW a \in Apps, DriverGoodbye(a)
      PROVE  [TableNext]_tableVars
  BY <1>35 DEF DriverGoodbye, ListenerFree
<1>13. ASSUME NEW a \in Apps, DriverEnd(a)
      PROVE  [TableNext]_tableVars
  BY <1>13 DEF DriverEnd, ListenerFree
<1>14. ASSUME NEW a \in Apps, DriverCrash(a)
      PROVE  [TableNext]_tableVars
  BY <1>14 DEF DriverCrash
<1>15. ASSUME NEW a \in Apps, NEW k \in Addresses, NEW ok \in DbOutcomes,
             AppCallback(a, k, ok)
      PROVE  [TableNext]_tableVars
  BY <1>15 DEF AppCallback, TableNext, Register, SetRow
<1>16. ASSUME NEW a \in Apps, NEW k \in Addresses, NEW ok \in DbOutcomes,
             AppCallbackDelete(a, k, ok)
      PROVE  [TableNext]_tableVars
  BY <1>16 DEF AppCallbackDelete, TableNext, Finish, SetRow
<1>17. ASSUME NEW a \in Apps, NEW k \in Addresses, LosePost(a, k)
      PROVE  [TableNext]_tableVars
  BY <1>17 DEF LosePost
<1>18. ASSUME NEW a \in Apps, NEW k \in Addresses, LoseGoodbye(a, k)
      PROVE  [TableNext]_tableVars
  BY <1>18 DEF LoseGoodbye
<1>19. ASSUME NEW a \in Apps, ProxyResolve(a)
      PROVE  [TableNext]_tableVars
  BY <1>19 DEF ProxyResolve
<1>20. ASSUME NEW a \in Apps, ProxyConnected(a)
      PROVE  [TableNext]_tableVars
  BY <1>20 DEF ProxyConnected, ProxyEnds
<1>21. ASSUME NEW a \in Apps, NEW ok \in DbOutcomes, ProxyGaveUp(a, ok)
      PROVE  [TableNext]_tableVars
  BY <1>21 DEF ProxyGaveUp, TableNext, Fail, SetRow
<1>22. ASSUME NEW r \in Requests, NEW a \in Apps, DeleteRead(r, a)
      PROVE  [TableNext]_tableVars
  BY <1>22 DEF DeleteRead
<1>23. ASSUME NEW r \in Requests, NEW ok \in DbOutcomes, DeleteUpdate(r, ok)
      PROVE  [TableNext]_tableVars
  BY <1>23 DEF DeleteUpdate, TableNext, Finish, SetRow
<1>24. ASSUME NEW r \in Requests, DeleteStopped(r)
      PROVE  [TableNext]_tableVars
  BY <1>24 DEF DeleteStopped, DeleteEnds, InterceptStop, Reachable
<1>25. ASSUME NEW r \in Requests, DeleteStopFailed(r)
      PROVE  [TableNext]_tableVars
  BY <1>25 DEF DeleteStopFailed, DeleteEnds, InterceptStop, Reachable
<1>26. ASSUME NEW r \in Requests, DeleteDropped(r)
      PROVE  [TableNext]_tableVars
  BY <1>26 DEF DeleteDropped, DeleteEnds, InterceptStop, Reachable
<1>27. CASE CheckRead
  BY <1>27 DEF CheckRead
<1>28. ASSUME NEW a \in Apps, CheckHealthy(a)
      PROVE  [TableNext]_tableVars
  BY <1>28 DEF CheckHealthy
<1>29. ASSUME NEW a \in Apps, CheckUnhealthy(a)
      PROVE  [TableNext]_tableVars
  BY <1>29 DEF CheckUnhealthy
<1>30. ASSUME NEW ok \in DbOutcomes, CheckMark(ok)
      PROVE  [TableNext]_tableVars
  BY <1>30 DEF CheckMark, TableNext, Fail, SetRow
<1>31. CASE CheckDone
  BY <1>31 DEF CheckDone
<1>32. ASSUME NEW cutoff \in Apps, Prune(cutoff)
      PROVE  [TableNext]_tableVars
  BY <1>32 DEF Prune, TableNext, Remove
<1>33. CASE ServerCrash
  BY <1>33 DEF ServerCrash
<1>34. CASE UNCHANGED vars
  BY <1>34 DEF vars
<1> HIDE DEF LifecycleInv, TypeOK, LaunchOrder, Remembered, ActiveIffRunning,
        Exists, State, tableVars, createVars, driverVars, netVars, delVars,
        chkVars, connVars
<1> QED
  BY <1>1, <1>2, <1>3, <1>4, <1>5, <1>6, <1>7, <1>8, <1>9, <1>10, <1>11,
     <1>12, <1>13, <1>14, <1>15, <1>16, <1>17, <1>18, <1>19, <1>20, <1>21,
     <1>22, <1>23, <1>24, <1>25, <1>26, <1>27, <1>28, <1>29, <1>30, <1>31,
     <1>32, <1>33, <1>34, <1>35
  DEF Next, Create_App, Launch, Driver, Callback, Proxy, Delete, Check

\* The handlers, tasks and commands together implement the abstract table.
THEOREM ImplementsTable == Spec => TableSpec
<1>1. Init => TableInit
  BY DEF Init
<1>2. LifecycleInv /\ [Next]_vars => [TableNext]_tableVars
  BY TableStep
<1> QED
  BY <1>1, <1>2, LifecycleInvariant, PTL DEF Spec, TableSpec

-----------------------------------------------------------------------------

\* What a check found unreachable stays so: DriverStart is the only action
\* that makes a driver reachable, and it takes a new address.
LEMMA EvidenceStep ==
    ASSUME "flaky" \notin Faults, LifecycleInv, TypeOK', EvidenceInv,
           [Next]_vars
    PROVE  EvidenceInv'
<1> USE TableAssumption DEF LifecycleInv, TypeOK, Remembered, EvidenceInv,
        Reachable, MayFail, Addresses, NoAddress, Exists, tableVars,
        createVars, driverVars, netVars, delVars, chkVars, connVars
<1>1. ASSUME NEW a \in Apps, CreateInsert(a)
      PROVE  EvidenceInv'
  BY <1>1 DEF CreateInsert, SetRow
<1>2. ASSUME NEW a \in Apps, CreateLaunched(a)
      PROVE  EvidenceInv'
  BY <1>2 DEF CreateLaunched
<1>3. ASSUME NEW a \in Apps, CreateLaunchFailed(a)
      PROVE  EvidenceInv'
  BY <1>3 DEF CreateLaunchFailed
<1>4. ASSUME NEW a \in Apps, NEW ok \in DbOutcomes, CreateMarkFailed(a, ok)
      PROVE  EvidenceInv'
  BY <1>4 DEF CreateMarkFailed
<1>5. ASSUME NEW a \in Apps, CreateDropped(a)
      PROVE  EvidenceInv'
  BY <1>5 DEF CreateDropped
<1>6. ASSUME NEW a \in Apps, NEW code \in {"succeeded", "failed"},
             SubmitExit(a, code)
      PROVE  EvidenceInv'
  BY <1>6 DEF SubmitExit
<1>7. ASSUME NEW a \in Apps, MonitorWake(a)
      PROVE  EvidenceInv'
  BY <1>7 DEF MonitorWake
<1>8. ASSUME NEW a \in Apps, NEW ok \in DbOutcomes, MonitorMark(a, ok)
      PROVE  EvidenceInv'
  BY <1>8 DEF MonitorMark
<1>9. ASSUME NEW a \in Apps, DriverStart(a)
      PROVE  EvidenceInv'
  BY <1>9 DEF DriverStart
<1>10. ASSUME NEW a \in Apps, DriverRegistered(a)
      PROVE  EvidenceInv'
  BY <1>10 DEF DriverRegistered
<1>11. ASSUME NEW a \in Apps, DriverRejected(a)
      PROVE  EvidenceInv'
  BY <1>11 DEF DriverRejected
<1>12. ASSUME NEW a \in Apps, DriverIdle(a)
      PROVE  EvidenceInv'
  BY <1>12 DEF DriverIdle
<1>35. ASSUME NEW a \in Apps, DriverGoodbye(a)
      PROVE  EvidenceInv'
  BY <1>35 DEF DriverGoodbye, ListenerFree
<1>13. ASSUME NEW a \in Apps, DriverEnd(a)
      PROVE  EvidenceInv'
  BY <1>13 DEF DriverEnd, ListenerFree
<1>14. ASSUME NEW a \in Apps, DriverCrash(a)
      PROVE  EvidenceInv'
  BY <1>14 DEF DriverCrash
<1>15. ASSUME NEW a \in Apps, NEW k \in Addresses, NEW ok \in DbOutcomes,
             AppCallback(a, k, ok)
      PROVE  EvidenceInv'
  BY <1>15 DEF AppCallback, SetRow, Answer
<1>16. ASSUME NEW a \in Apps, NEW k \in Addresses, NEW ok \in DbOutcomes,
             AppCallbackDelete(a, k, ok)
      PROVE  EvidenceInv'
  BY <1>16 DEF AppCallbackDelete, SetRow
<1>17. ASSUME NEW a \in Apps, NEW k \in Addresses, LosePost(a, k)
      PROVE  EvidenceInv'
  BY <1>17 DEF LosePost
<1>18. ASSUME NEW a \in Apps, NEW k \in Addresses, LoseGoodbye(a, k)
      PROVE  EvidenceInv'
  BY <1>18 DEF LoseGoodbye
<1>19. ASSUME NEW a \in Apps, ProxyResolve(a)
      PROVE  EvidenceInv'
  BY <1>19 DEF ProxyResolve
<1>20. ASSUME NEW a \in Apps, ProxyConnected(a)
      PROVE  EvidenceInv'
  BY <1>20 DEF ProxyConnected, ProxyEnds
<1>21. ASSUME NEW a \in Apps, NEW ok \in DbOutcomes, ProxyGaveUp(a, ok)
      PROVE  EvidenceInv'
  BY <1>21 DEF ProxyGaveUp, ProxyEnds, SetRow
<1>22. ASSUME NEW r \in Requests, NEW a \in Apps, DeleteRead(r, a)
      PROVE  EvidenceInv'
  BY <1>22 DEF DeleteRead
<1>23. ASSUME NEW r \in Requests, NEW ok \in DbOutcomes, DeleteUpdate(r, ok)
      PROVE  EvidenceInv'
  BY <1>23 DEF DeleteUpdate, DeleteEnds, SetRow
<1>24. ASSUME NEW r \in Requests, DeleteStopped(r)
      PROVE  EvidenceInv'
  <2>1. CASE UNCHANGED driverVars
    BY <1>24, <2>1 DEF DeleteStopped, DeleteEnds
  <2>2. CASE InterceptStop(delApp[r], delAddr[r])
    BY <1>24, <2>2 DEF DeleteStopped, DeleteEnds, InterceptStop, Reachable
  <2> QED
    BY <1>24, <2>1, <2>2 DEF DeleteStopped
<1>25. ASSUME NEW r \in Requests, DeleteStopFailed(r)
      PROVE  EvidenceInv'
  <2>1. CASE UNCHANGED driverVars
    BY <1>25, <2>1 DEF DeleteStopFailed, DeleteEnds
  <2>2. CASE InterceptStop(delApp[r], delAddr[r])
    BY <1>25, <2>2 DEF DeleteStopFailed, DeleteEnds, InterceptStop, Reachable
  <2> QED
    BY <1>25, <2>1, <2>2 DEF DeleteStopFailed
<1>26. ASSUME NEW r \in Requests, DeleteDropped(r)
      PROVE  EvidenceInv'
  <2>1. CASE UNCHANGED driverVars
    BY <1>26, <2>1 DEF DeleteDropped, DeleteEnds
  <2>2. CASE InterceptStop(delApp[r], delAddr[r])
    BY <1>26, <2>2 DEF DeleteDropped, DeleteEnds, InterceptStop, Reachable
  <2> QED
    BY <1>26, <2>1, <2>2 DEF DeleteDropped
<1>27. CASE CheckRead
  BY <1>27 DEF CheckRead
<1>28. ASSUME NEW a \in Apps, CheckHealthy(a)
      PROVE  EvidenceInv'
  BY <1>28 DEF CheckHealthy
<1>29. ASSUME NEW a \in Apps, CheckUnhealthy(a)
      PROVE  EvidenceInv'
  BY <1>29 DEF CheckUnhealthy
<1>30. ASSUME NEW ok \in DbOutcomes, CheckMark(ok)
      PROVE  EvidenceInv'
  BY <1>30 DEF CheckMark, SetRow
<1>31. CASE CheckDone
  BY <1>31 DEF CheckDone
<1>32. ASSUME NEW cutoff \in Apps, Prune(cutoff)
      PROVE  EvidenceInv'
  BY <1>32 DEF Prune, Terminal
<1>33. CASE ServerCrash
  BY <1>33 DEF ServerCrash
<1>34. CASE UNCHANGED vars
  BY <1>34 DEF vars
<1> HIDE DEF LifecycleInv, TypeOK, Remembered, EvidenceInv, Reachable,
        MayFail, Addresses, NoAddress, Exists, tableVars, createVars,
        driverVars, netVars, delVars, chkVars, connVars
<1> QED
  BY <1>1, <1>2, <1>3, <1>4, <1>5, <1>6, <1>7, <1>8, <1>9, <1>10, <1>11,
     <1>12, <1>13, <1>14, <1>15, <1>16, <1>17, <1>18, <1>19, <1>20, <1>21,
     <1>22, <1>23, <1>24, <1>25, <1>26, <1>27, <1>28, <1>29, <1>30, <1>31,
     <1>32, <1>33, <1>34, <1>35
  DEF Next, Create_App, Launch, Driver, Callback, Proxy, Delete, Check

\* Where live drivers can be reached, nothing acts on an address newer than the
\* last driver, and what a check or a dispatcher found unreachable stays so
\* until it has written the row, whatever the callbacks do meanwhile.
THEOREM EvidenceInvariant ==
    ASSUME "flaky" \notin Faults
    PROVE  Spec => []EvidenceInv
<1>1. Init => EvidenceInv
  BY TableAssumption DEF Init, TableInit, EvidenceInv, NoAddress
<1>2. LifecycleInv /\ LifecycleInv' /\ EvidenceInv /\ [Next]_vars => EvidenceInv'
  BY EvidenceStep DEF LifecycleInv
<1> QED
  BY <1>1, <1>2, LifecycleInvariant, PTL DEF Spec

\* A RUNNING session is failed only on an address nobody listens on: neither
\* the launch monitor nor create_app can fail it, and a check or a dispatcher
\* only with an address that is dead when the row is written.
THEOREM FailedOnEvidenceAlways ==
    ASSUME "flaky" \notin Faults
    PROVE  Spec => FailedOnEvidence
<1> DEFINE Evidence ==
      \A a \in Apps :
          state[a] = "RUNNING" /\ state'[a] = "FAILED" =>
              \/ chkPc = "mark" /\ chkCur = a /\ ~ Reachable(a, chkAddr[a])
              \/ connPc[a] = "connecting" /\ ~ Reachable(a, connAddr[a])
<1>1. LifecycleInv /\ EvidenceInv /\ [Next]_vars => [Evidence]_vars
  <2> SUFFICES ASSUME LifecycleInv, EvidenceInv, Next,
                      NEW b \in Apps, state[b] = "RUNNING", state'[b] = "FAILED"
               PROVE  \/ chkPc = "mark" /\ chkCur = b /\ ~ Reachable(b, chkAddr[b])
                      \/ connPc[b] = "connecting" /\ ~ Reachable(b, connAddr[b])
    OBVIOUS
  <2> USE DEF LifecycleInv, TypeOK, LaunchOrder, ActiveIffRunning, EvidenceInv
  <2>1. ASSUME NEW a \in Apps, NEW ok \in DbOutcomes, ProxyGaveUp(a, ok)
        PROVE  connPc[b] = "connecting" /\ ~ Reachable(b, connAddr[b])
    BY <2>1 DEF ProxyGaveUp, SetRow, tableVars, MayFail
  <2>2. ASSUME NEW ok \in DbOutcomes, CheckMark(ok)
        PROVE  chkPc = "mark" /\ chkCur = b /\ ~ Reachable(b, chkAddr[b])
    BY <2>2 DEF CheckMark, SetRow, tableVars
  <2>3. ASSUME NEW a \in Apps, NEW ok \in DbOutcomes,
               CreateMarkFailed(a, ok) \/ MonitorMark(a, ok)
        PROVE  FALSE
    BY <2>3 DEF CreateMarkFailed, MonitorMark
  <2>4. CASE \/ \E cutoff \in Apps : Prune(cutoff)
             \/ \E a \in Apps : CreateInsert(a)
             \/ \E a \in Apps, k \in Addresses, ok \in DbOutcomes : AppCallback(a, k, ok)
             \/ \E a \in Apps, k \in Addresses, ok \in DbOutcomes : AppCallbackDelete(a, k, ok)
             \/ \E r \in Requests, ok \in DbOutcomes : DeleteUpdate(r, ok)
    BY <2>4 DEF Prune, CreateInsert, AppCallback, AppCallbackDelete, DeleteUpdate, SetRow,
                tableVars
  <2>5. CASE UNCHANGED state
    BY <2>5
  <2> QED
    BY <2>1, <2>2, <2>3, <2>4, <2>5
    DEF Next, Create_App, Launch, Driver, Callback, Proxy, Delete, Check, tableVars,
        CreateLaunched, CreateLaunchFailed, CreateDropped, SubmitExit, MonitorWake,
        DriverStart, DriverRegistered, DriverRejected, DriverIdle, DriverGoodbye, DriverEnd,
        DriverCrash,
        LosePost, LoseGoodbye, ProxyResolve, ProxyConnected, DeleteRead, DeleteStopped,
        DeleteStopFailed, DeleteDropped, CheckRead, CheckHealthy, CheckUnhealthy, CheckDone,
        ServerCrash
<1> QED
  BY <1>1, LifecycleInvariant, EvidenceInvariant, PTL DEF Spec, FailedOnEvidence

-----------------------------------------------------------------------------

\* With one driver per session, no writer of the table takes away the RUNNING
\* row of a registered driver that nobody asked to delete.
LEMMA ServingStep ==
    ASSUME MaxAttempts = 1, "flaky" \notin Faults, LifecycleInv,
           LifecycleInv', EvidenceInv, ServingInv, [Next]_vars
    PROVE  ServingInv'
<1> USE DEF LifecycleInv, TypeOK, LaunchOrder, Left, Remembered, ActiveIffRunning,
        EvidenceInv, ServingInv, ServingListed, Reachable, MayFail, Addresses,
        NoAddress, Exists, State, tableVars, createVars, driverVars, netVars,
        delVars, chkVars, connVars
<1>1. ASSUME NEW a \in Apps, CreateInsert(a)
      PROVE  ServingInv'
  BY <1>1 DEF CreateInsert, SetRow
<1>2. ASSUME NEW a \in Apps, CreateLaunched(a)
      PROVE  ServingInv'
  BY <1>2 DEF CreateLaunched
<1>3. ASSUME NEW a \in Apps, CreateLaunchFailed(a)
      PROVE  ServingInv'
  BY <1>3 DEF CreateLaunchFailed
<1>4. ASSUME NEW a \in Apps, NEW ok \in DbOutcomes, CreateMarkFailed(a, ok)
      PROVE  ServingInv'
  BY <1>4 DEF CreateMarkFailed
<1>5. ASSUME NEW a \in Apps, CreateDropped(a)
      PROVE  ServingInv'
  BY <1>5 DEF CreateDropped
<1>6. ASSUME NEW a \in Apps, NEW code \in {"succeeded", "failed"},
             SubmitExit(a, code)
      PROVE  ServingInv'
  BY <1>6 DEF SubmitExit
<1>7. ASSUME NEW a \in Apps, MonitorWake(a)
      PROVE  ServingInv'
  BY <1>7 DEF MonitorWake
<1>8. ASSUME NEW a \in Apps, NEW ok \in DbOutcomes, MonitorMark(a, ok)
      PROVE  ServingInv'
  BY <1>8 DEF MonitorMark
<1>9. ASSUME NEW a \in Apps, DriverStart(a)
      PROVE  ServingInv'
  BY <1>9 DEF DriverStart
<1>10. ASSUME NEW a \in Apps, DriverRegistered(a)
      PROVE  ServingInv'
  BY <1>10 DEF DriverRegistered
<1>11. ASSUME NEW a \in Apps, DriverRejected(a)
      PROVE  ServingInv'
  BY <1>11 DEF DriverRejected
<1>12. ASSUME NEW a \in Apps, DriverIdle(a)
      PROVE  ServingInv'
  BY <1>12 DEF DriverIdle
<1>35. ASSUME NEW a \in Apps, DriverGoodbye(a)
      PROVE  ServingInv'
  BY <1>35 DEF DriverGoodbye, ListenerFree
<1>13. ASSUME NEW a \in Apps, DriverEnd(a)
      PROVE  ServingInv'
  BY <1>13 DEF DriverEnd, ListenerFree
<1>14. ASSUME NEW a \in Apps, DriverCrash(a)
      PROVE  ServingInv'
  BY <1>14 DEF DriverCrash
<1>15. ASSUME NEW a \in Apps, NEW k \in Addresses, NEW ok \in DbOutcomes,
             AppCallback(a, k, ok)
      PROVE  ServingInv'
  BY <1>15 DEF AppCallback, SetRow, Answer
<1>16. ASSUME NEW a \in Apps, NEW k \in Addresses, NEW ok \in DbOutcomes,
             AppCallbackDelete(a, k, ok)
      PROVE  ServingInv'
  BY <1>16 DEF AppCallbackDelete, SetRow
<1>17. ASSUME NEW a \in Apps, NEW k \in Addresses, LosePost(a, k)
      PROVE  ServingInv'
  BY <1>17 DEF LosePost
<1>18. ASSUME NEW a \in Apps, NEW k \in Addresses, LoseGoodbye(a, k)
      PROVE  ServingInv'
  BY <1>18 DEF LoseGoodbye
<1>19. ASSUME NEW a \in Apps, ProxyResolve(a)
      PROVE  ServingInv'
  BY <1>19 DEF ProxyResolve
<1>20. ASSUME NEW a \in Apps, ProxyConnected(a)
      PROVE  ServingInv'
  BY <1>20 DEF ProxyConnected, ProxyEnds
<1>21. ASSUME NEW a \in Apps, NEW ok \in DbOutcomes, ProxyGaveUp(a, ok)
      PROVE  ServingInv'
  BY <1>21 DEF ProxyGaveUp, ProxyEnds, SetRow
<1>22. ASSUME NEW r \in Requests, NEW a \in Apps, DeleteRead(r, a)
      PROVE  ServingInv'
  BY <1>22 DEF DeleteRead
<1>23. ASSUME NEW r \in Requests, NEW ok \in DbOutcomes, DeleteUpdate(r, ok)
      PROVE  ServingInv'
  BY <1>23 DEF DeleteUpdate, DeleteEnds, SetRow
<1>24. ASSUME NEW r \in Requests, DeleteStopped(r)
      PROVE  ServingInv'
  <2>1. CASE UNCHANGED driverVars
    BY <1>24, <2>1 DEF DeleteStopped, DeleteEnds
  <2>2. CASE InterceptStop(delApp[r], delAddr[r])
    BY <1>24, <2>2 DEF DeleteStopped, DeleteEnds, InterceptStop, Reachable
  <2> QED
    BY <1>24, <2>1, <2>2 DEF DeleteStopped
<1>25. ASSUME NEW r \in Requests, DeleteStopFailed(r)
      PROVE  ServingInv'
  <2>1. CASE UNCHANGED driverVars
    BY <1>25, <2>1 DEF DeleteStopFailed, DeleteEnds
  <2>2. CASE InterceptStop(delApp[r], delAddr[r])
    BY <1>25, <2>2 DEF DeleteStopFailed, DeleteEnds, InterceptStop, Reachable
  <2> QED
    BY <1>25, <2>1, <2>2 DEF DeleteStopFailed
<1>26. ASSUME NEW r \in Requests, DeleteDropped(r)
      PROVE  ServingInv'
  <2>1. CASE UNCHANGED driverVars
    BY <1>26, <2>1 DEF DeleteDropped, DeleteEnds
  <2>2. CASE InterceptStop(delApp[r], delAddr[r])
    BY <1>26, <2>2 DEF DeleteDropped, DeleteEnds, InterceptStop, Reachable
  <2> QED
    BY <1>26, <2>1, <2>2 DEF DeleteDropped
<1>27. CASE CheckRead
  BY <1>27 DEF CheckRead
<1>28. ASSUME NEW a \in Apps, CheckHealthy(a)
      PROVE  ServingInv'
  BY <1>28 DEF CheckHealthy
<1>29. ASSUME NEW a \in Apps, CheckUnhealthy(a)
      PROVE  ServingInv'
  BY <1>29 DEF CheckUnhealthy
<1>30. ASSUME NEW ok \in DbOutcomes, CheckMark(ok)
      PROVE  ServingInv'
  BY <1>30 DEF CheckMark, SetRow
<1>31. CASE CheckDone
  BY <1>31 DEF CheckDone
<1>32. ASSUME NEW cutoff \in Apps, Prune(cutoff)
      PROVE  ServingInv'
  BY <1>32 DEF Prune, Terminal
<1>33. CASE ServerCrash
  BY <1>33 DEF ServerCrash
<1>34. CASE UNCHANGED vars
  BY <1>34 DEF vars
<1> HIDE DEF LifecycleInv, TypeOK, LaunchOrder, Remembered, ActiveIffRunning,
        EvidenceInv, ServingInv, ServingListed, Reachable, MayFail,
        Addresses, NoAddress, Exists, State, tableVars, createVars,
        driverVars, netVars, delVars, chkVars, connVars
<1> QED
  BY <1>1, <1>2, <1>3, <1>4, <1>5, <1>6, <1>7, <1>8, <1>9, <1>10, <1>11,
     <1>12, <1>13, <1>14, <1>15, <1>16, <1>17, <1>18, <1>19, <1>20, <1>21,
     <1>22, <1>23, <1>24, <1>25, <1>26, <1>27, <1>28, <1>29, <1>30, <1>31,
     <1>32, <1>33, <1>34, <1>35
  DEF Next, Create_App, Launch, Driver, Callback, Proxy, Delete, Check

\* With one driver per session and live drivers reachable, a driver whose
\* callback was answered 200 is already listed, and every address a check or a
\* dispatcher holds was that driver's, which is why none of them fails it.
THEOREM ServingInvariant ==
    ASSUME MaxAttempts = 1, "flaky" \notin Faults
    PROVE  Spec => []ServingInv
<1>1. Init => ServingInv
  BY DEF Init, TableInit, ServingInv, ServingListed
<1>2. LifecycleInv /\ LifecycleInv' /\ EvidenceInv /\ ServingInv /\ [Next]_vars
          => ServingInv'
  BY ServingStep
<1> QED
  BY <1>1, <1>2, LifecycleInvariant, EvidenceInvariant, PTL DEF Spec

\* With one driver per session and live drivers reachable, a registered driver
\* that nobody asked to delete is listed RUNNING at its address, whatever the
\* order of the launch timeout, the callback, checks and the proxy.
THEOREM ServingListedAlways ==
    ASSUME MaxAttempts = 1, "flaky" \notin Faults
    PROVE  Spec => []ServingListed
<1>1. ServingInv => ServingListed
  BY DEF ServingInv
<1> QED
  BY <1>1, ServingInvariant, PTL
=============================================================================
