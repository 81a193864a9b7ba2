------------------------- MODULE SessionLifecycle -------------------------
(***************************************************************************)
(* The life of a session: every process that writes the `application`      *)
(* table, step by step between its await points.                           *)
(*                                                                         *)
(*   create_app and the task that watches its launch     (server)          *)
(*   POST and DELETE /callback                           (server)          *)
(*   delete_app                                          (server)          *)
(*   resolve_upstream_connection, giving up              (server, proxy)   *)
(*   spark-plug check, spark-plug prune                  (other processes) *)
(*   the driver with its SparkPlugListener               (cluster)         *)
(*                                                                         *)
(* One SQL statement is one atomic step.  A handler that awaits between    *)
(* two statements is several steps, and anything may happen between them.  *)
(* Timeouts (launch_timeout, the 10 s of the callback, session_timeout)    *)
(* are steps that may happen at any moment.                                *)
(***************************************************************************)
EXTENDS ApplicationTable, FiniteSets

CONSTANTS
    Requests,   \* slots for concurrent DELETE /apps/{id} requests
    Faults      \* the faults this instance may suffer, a subset of FaultKinds

FaultKinds ==
    {"crash",         \* the server process dies and is started again
     "disconnect",    \* a client goes away, hyper drops its handler's future
     "db",            \* a statement fails with a DbErr
     "loss",          \* a callback of the driver is lost
     "slow",          \* a callback is answered after the driver's 10 s
     "flaky",         \* a live driver cannot be reached for a while
     "driver_crash"}  \* the driver dies without a word

ASSUME LifecycleAssumption == Faults \subseteq FaultKinds

VARIABLES
    application_id,  \* column `application_id`: has the driver told it?
    create,          \* create_app, per session: where its handler is
    monitor,         \* the task spawned by create_app, per session
    submit,          \* the spark-submit child, per session
    driver,          \* the driver, per session
    attempt,         \* how many drivers the cluster started; also the address
                     \* of the current one
    external,        \* Config.externalShutdown of the current driver
    posts,           \* POST /callback requests under way, by address
    reply,           \* the answer under way to the current driver's POST
    goodbye,         \* DELETE /callback requests under way, by sender
    delPc, delApp, delAddr,    \* delete_app, per request: step, app_id and
                               \* the address read in its first step
    deletion,        \* history: has delete_app been asked for, or returned Ok?
    chkPc, chkTodo, chkAddr, chkCur,  \* spark-plug check: step, rows still to
                               \* probe, addresses read, row being marked
    connPc, connAddr \* the upstream dispatcher of a session, when resolving

createVars == <<create, monitor, submit>>
driverVars == <<driver, attempt, external>>
netVars == <<posts, reply, goodbye>>
delVars == <<delPc, delApp, delAddr, deletion>>
chkVars == <<chkPc, chkTodo, chkAddr, chkCur>>
connVars == <<connPc, connAddr>>
vars == <<state, address, application_id, createVars, driverVars, netVars,
          delVars, chkVars, connVars>>

DbOutcomes == IF "db" \in Faults THEN BOOLEAN ELSE {TRUE}

\* The driver listening at address k answers gRPC requests.
Reachable(a, k) ==
    /\ k # NoAddress
    /\ attempt[a] = k
    /\ driver[a] \in {"registering", "serving"}

MayFail(a, k) == ~ Reachable(a, k) \/ "flaky" \in Faults

\* A driver in one of these never serves again, nor does its listener post.
Left == {"leaving", "dead", "crashed"}

-----------------------------------------------------------------------------
TypeOK ==
    /\ state \in [Apps -> State \cup {"NONE", "PRUNED"}]
    /\ address \in [Apps -> Addresses \cup {NoAddress}]
    /\ application_id \in [Apps -> BOOLEAN]
    /\ create \in [Apps -> {"idle", "launching", "failing", "returned", "dropped"}]
    /\ monitor \in [Apps -> {"none", "waiting", "woken", "done"}]
    /\ submit \in [Apps -> {"none", "running", "succeeded", "failed"}]
    /\ driver \in [Apps -> {"none", "registering", "serving", "stopped"} \cup Left]
    /\ attempt \in [Apps -> Addresses \cup {NoAddress}]
    /\ external \in [Apps -> BOOLEAN]
    /\ posts \in [Apps -> SUBSET Addresses]
    /\ reply \in [Apps -> {"none", "ok", "bad"}]
    /\ goodbye \in [Apps -> SUBSET Addresses]
    /\ delPc \in [Requests -> {"idle", "update", "stop"}]
    /\ delApp \in [Requests -> Apps \cup {0}]
    /\ delAddr \in [Requests -> Addresses \cup {NoAddress}]
    /\ deletion \in [Apps -> {"none", "asked", "done"}]
    /\ chkPc \in {"idle", "loop", "mark"}
    /\ chkTodo \in SUBSET Apps
    /\ chkAddr \in [Apps -> Addresses \cup {NoAddress}]
    /\ chkCur \in Apps \cup {0}
    /\ connPc \in [Apps -> {"idle", "connecting"}]
    /\ connAddr \in [Apps -> Addresses \cup {NoAddress}]

Init ==
    /\ TableInit
    /\ application_id = [a \in Apps |-> FALSE]
    /\ create = [a \in Apps |-> "idle"]
    /\ monitor = [a \in Apps |-> "none"]
    /\ submit = [a \in Apps |-> "none"]
    /\ driver = [a \in Apps |-> "none"]
    /\ attempt = [a \in Apps |-> NoAddress]
    /\ external = [a \in Apps |-> FALSE]
    /\ posts = [a \in Apps |-> {}]
    /\ reply = [a \in Apps |-> "none"]
    /\ goodbye = [a \in Apps |-> {}]
    /\ delPc = [r \in Requests |-> "idle"]
    /\ delApp = [r \in Requests |-> 0]
    /\ delAddr = [r \in Requests |-> NoAddress]
    /\ deletion = [a \in Apps |-> "none"]
    /\ chkPc = "idle"
    /\ chkTodo = {}
    /\ chkAddr = [a \in Apps |-> NoAddress]
    /\ chkCur = 0
    /\ connPc = [a \in Apps |-> "idle"]
    /\ connAddr = [a \in Apps |-> NoAddress]

-----------------------------------------------------------------------------
(* create_app and the launch monitor                                       *)

\* The row is inserted with a fresh key and token.  When the insert fails
\* the handler returns 500 and nothing has changed.
CreateInsert(a) ==
    /\ state[a] = "NONE"
    /\ \A b \in Apps : b < a => state[b] # "NONE"
    /\ SetRow(a, "LAUNCHING", NoAddress)
    /\ create' = [create EXCEPT ![a] = "launching"]
    /\ UNCHANGED <<application_id, monitor, submit, driverVars, netVars, delVars,
                   chkVars, connVars>>

\* Fault-seeded variant: the handler awaits, and may fail, after the spawn.
CreateLaunchedEarly(a) ==
    /\ create[a] = "launching"
    /\ submit[a] = "none"
    /\ submit' = [submit EXCEPT ![a] = "running"]
    /\ monitor' = [monitor EXCEPT ![a] = "waiting"]
    /\ UNCHANGED <<tableVars, application_id, create, driverVars, netVars, delVars,
                   chkVars, connVars>>

\* Launcher::launch spawned spark-submit: from there to the spawn of the
\* task that awaits track_launch there is no await.
CreateLaunched(a) ==
    /\ create[a] = "launching"
    /\ create' = [create EXCEPT ![a] = "returned"]
    /\ submit' = [submit EXCEPT ![a] = "running"]
    /\ monitor' = [monitor EXCEPT ![a] = "waiting"]
    /\ UNCHANGED <<tableVars, application_id, driverVars, netVars, delVars, chkVars, connVars>>

\* Launcher::launch failed: no such version, no virtual environment, a
\* rejected config, or spark-submit could not be spawned.
CreateLaunchFailed(a) ==
    /\ create[a] = "launching"
    /\ create' = [create EXCEPT ![a] = "failing"]
    /\ UNCHANGED <<tableVars, application_id, monitor, submit, driverVars, netVars,
                   delVars, chkVars, connVars>>

\* The failed launch is recorded by primary key, whatever the row says now.
\* The statement leaves the address alone; a DbErr (a removed row is one) is
\* only logged.
CreateMarkFailed(a, ok) ==
    /\ create[a] = "failing"
    /\ create' = [create EXCEPT ![a] = "returned"]
    /\ state' = IF ok /\ Exists(a) THEN [state EXCEPT ![a] = "FAILED"] ELSE state
    /\ UNCHANGED <<address, application_id, monitor, submit, driverVars, netVars,
                   delVars, chkVars, connVars>>

\* The client disconnects while the handler awaits the launcher or the
\* database: hyper drops the future and no later statement of it runs.
CreateDropped(a) ==
    /\ "disconnect" \in Faults
    /\ create[a] \in {"launching", "failing"}
    /\ create' = [create EXCEPT ![a] = "dropped"]
    /\ UNCHANGED <<tableVars, application_id, monitor, submit, driverVars, netVars,
                   delVars, chkVars, connVars>>

\* spark-submit ends (external).
SubmitExit(a, code) ==
    /\ submit[a] = "running"
    /\ submit' = [submit EXCEPT ![a] = code]
    /\ UNCHANGED <<tableVars, application_id, create, monitor, driverVars, netVars,
                   delVars, chkVars, connVars>>

\* Fault-seeded variant: the timeout branch of the select is missing.
MonitorWakeOnExitOnly(a) ==
    /\ monitor[a] = "waiting"
    /\ submit[a] = "failed"
    /\ monitor' = [monitor EXCEPT ![a] = "woken"]
    /\ UNCHANGED <<tableVars, application_id, create, submit, driverVars, netVars,
                   delVars, chkVars, connVars>>

\* track_launch completes when spark-submit did not succeed or when
\* launch_timeout expires; a successful exit disables the first branch of
\* the select and only the timeout is left.
MonitorWake(a) ==
    /\ monitor[a] = "waiting"
    /\ monitor' = [monitor EXCEPT ![a] = "woken"]
    /\ UNCHANGED <<tableVars, application_id, create, submit, driverVars, netVars,
                   delVars, chkVars, connVars>>

\* Fault-seeded variant: the filter on LAUNCHING is missing.
MonitorMarkUnfiltered(a, ok) ==
    /\ monitor[a] = "woken"
    /\ monitor' = [monitor EXCEPT ![a] = "done"]
    /\ state' = IF ok /\ Exists(a) THEN [state EXCEPT ![a] = "FAILED"] ELSE state
    /\ UNCHANGED <<address, application_id, create, submit, driverVars, netVars,
                   delVars, chkVars, connVars>>

\* The session is failed if it is still LAUNCHING.
MonitorMark(a, ok) ==
    /\ monitor[a] = "woken"
    /\ monitor' = [monitor EXCEPT ![a] = "done"]
    /\ state' = IF ok /\ state[a] = "LAUNCHING"
                THEN [state EXCEPT ![a] = "FAILED"] ELSE state
    /\ UNCHANGED <<address, application_id, create, submit, driverVars, netVars,
                   delVars, chkVars, connVars>>

-----------------------------------------------------------------------------
(* The driver and its SparkPlugListener                                    *)

\* The cluster starts a driver, or a new one after a crash (external); its
\* Connect service comes up and the listener posts the callback.
DriverStart(a) ==
    /\ submit[a] # "none"
    /\ driver[a] \in {"none", "crashed"}
    /\ attempt[a] < MaxAttempts
    /\ driver' = [driver EXCEPT ![a] = "registering"]
    /\ attempt' = [attempt EXCEPT ![a] = @ + 1]
    /\ external' = [external EXCEPT ![a] = FALSE]
    /\ posts' = [posts EXCEPT ![a] = @ \cup {attempt[a] + 1}]
    /\ reply' = [reply EXCEPT ![a] = "none"]
    /\ UNCHANGED <<tableVars, application_id, createVars, goodbye, delVars,
                   chkVars, connVars>>

\* The callback was answered 200.
DriverRegistered(a) ==
    /\ driver[a] = "registering"
    /\ reply[a] = "ok"
    /\ driver' = [driver EXCEPT ![a] = "serving"]
    /\ reply' = [reply EXCEPT ![a] = "none"]
    /\ UNCHANGED <<tableVars, application_id, createVars, attempt, external, posts,
                   goodbye, delVars, chkVars, connVars>>

\* The callback was answered with another status, or not within 10 s: the
\* listener stops the Connect service.  The request may still arrive.
DriverRejected(a) ==
    /\ driver[a] = "registering"
    /\ \/ reply[a] = "bad"
       \/ reply[a] = "none" /\ attempt[a] \notin posts[a]
       \/ "slow" \in Faults
    /\ driver' = [driver EXCEPT ![a] = "stopped"]
    /\ reply' = [reply EXCEPT ![a] = "none"]
    /\ UNCHANGED <<tableVars, application_id, createVars, attempt, external, posts,
                   goodbye, delVars, chkVars, connVars>>

\* The timeout thread stops the Connect service of an idle session.
DriverIdle(a) ==
    /\ driver[a] \in {"registering", "serving"}
    /\ driver' = [driver EXCEPT ![a] = "stopped"]
    /\ UNCHANGED <<tableVars, application_id, createVars, attempt, external, netVars,
                   delVars, chkVars, connVars>>

\* The listener handles one event at a time: its callback was answered or
\* timed out before.
ListenerFree(a) == attempt[a] \notin posts[a] \/ "slow" \in Faults

\* Fault-seeded variant: the goodbye is said before the service is stopped.
DriverGoodbyeEarly(a) ==
    /\ driver[a] \in {"serving", "stopped"}
    /\ ~ external[a]
    /\ ListenerFree(a)
    /\ driver' = [driver EXCEPT ![a] = IF @ = "stopped" THEN "leaving" ELSE @]
    /\ goodbye' = [goodbye EXCEPT ![a] = @ \cup {attempt[a]}]
    /\ UNCHANGED <<tableVars, application_id, createVars, attempt, external, posts,
                   reply, delVars, chkVars, connVars>>

\* The end of the Connect service is announced with DELETE /callback, unless
\* the proxy asked for it.  The driver lives on while it waits for the answer.
DriverGoodbye(a) ==
    /\ driver[a] = "stopped"
    /\ ~ external[a]
    /\ ListenerFree(a)
    /\ driver' = [driver EXCEPT ![a] = "leaving"]
    /\ goodbye' = [goodbye EXCEPT ![a] = @ \cup {attempt[a]}]
    /\ UNCHANGED <<tableVars, application_id, createVars, attempt, external, posts,
                   reply, delVars, chkVars, connVars>>

\* The driver exits, after its goodbye was answered, failed or timed out, or
\* without one.
DriverEnd(a) ==
    /\ \/ driver[a] = "stopped" /\ external[a] /\ ListenerFree(a)
       \/ /\ driver[a] = "leaving"
          /\ attempt[a] \notin goodbye[a] \/ "slow" \in Faults
    /\ driver' = [driver EXCEPT ![a] = "dead"]
    /\ UNCHANGED <<tableVars, application_id, createVars, attempt, external, netVars,
                   delVars, chkVars, connVars>>

\* The driver is killed (external), at any moment before its exit; what it
\* sent is still under way.
DriverCrash(a) ==
    /\ "driver_crash" \in Faults
    /\ driver[a] \in {"registering", "serving", "stopped", "leaving"}
    /\ driver' = [driver EXCEPT ![a] = "crashed"]
    /\ UNCHANGED <<tableVars, application_id, createVars, attempt, external, netVars,
                   delVars, chkVars, connVars>>

-----------------------------------------------------------------------------
(* The callback routes                                                     *)

\* The answer reaches the driver only if it is the one that asked.
Answer(a, k, status) ==
    reply' = IF k = attempt[a] /\ driver[a] = "registering"
             THEN [reply EXCEPT ![a] = status] ELSE reply

\* POST /callback: one statement, by token, whatever state the row is in.
AppCallback(a, k, ok) ==
    /\ k \in posts[a]
    /\ posts' = [posts EXCEPT ![a] = @ \ {k}]
    /\ \/ /\ ok /\ Exists(a)
          /\ SetRow(a, "RUNNING", k)
          /\ application_id' = [application_id EXCEPT ![a] = TRUE]
          /\ Answer(a, k, "ok")
       \/ /\ ~ (ok /\ Exists(a))
          /\ UNCHANGED <<tableVars, application_id>>
          /\ Answer(a, k, "bad")
    /\ UNCHANGED <<createVars, driverVars, goodbye, delVars, chkVars, connVars>>

\* DELETE /callback: one statement, by token, which every driver of the
\* session has: the goodbye of an earlier driver ends the row of a later one.
\* The driver does not act on the answer.
AppCallbackDelete(a, k, ok) ==
    /\ k \in goodbye[a]
    /\ goodbye' = [goodbye EXCEPT ![a] = @ \ {k}]
    /\ IF ok /\ Exists(a) THEN SetRow(a, "FINISHED", NoAddress) ELSE UNCHANGED tableVars
    /\ UNCHANGED <<application_id, createVars, driverVars, posts, reply, delVars,
                   chkVars, connVars>>

\* The driver's request fails: connection refused or reset, or the handler
\* is dropped before its statement because the driver stopped waiting.
LosePost(a, k) ==
    /\ Faults \cap {"loss", "slow", "crash"} # {}
    /\ k \in posts[a]
    /\ posts' = [posts EXCEPT ![a] = @ \ {k}]
    /\ UNCHANGED <<tableVars, application_id, createVars, driverVars, reply, goodbye,
                   delVars, chkVars, connVars>>

LoseGoodbye(a, k) ==
    /\ Faults \cap {"loss", "slow", "crash"} # {}
    /\ k \in goodbye[a]
    /\ goodbye' = [goodbye EXCEPT ![a] = @ \ {k}]
    /\ UNCHANGED <<tableVars, application_id, createVars, driverVars, posts, reply,
                   delVars, chkVars, connVars>>

-----------------------------------------------------------------------------
(* delete_app                                                              *)

\* The handler is over and its locals are gone.
DeleteEnds(r) ==
    /\ delPc' = [delPc EXCEPT ![r] = "idle"]
    /\ delApp' = [delApp EXCEPT ![r] = 0]
    /\ delAddr' = [delAddr EXCEPT ![r] = NoAddress]

\* The owner's row is read, with its address.  A request for a row that is
\* not there or not the user's is answered 404 and changes nothing.
DeleteRead(r, a) ==
    /\ delPc[r] = "idle"
    /\ Exists(a)
    /\ delPc' = [delPc EXCEPT ![r] = "update"]
    /\ delApp' = [delApp EXCEPT ![r] = a]
    /\ delAddr' = [delAddr EXCEPT ![r] = address[a]]
    /\ deletion' = [deletion EXCEPT ![a] = IF @ = "none" THEN "asked" ELSE @]
    /\ UNCHANGED <<tableVars, application_id, createVars, driverVars, netVars,
                   chkVars, connVars>>

\* Fault-seeded variant: the address is not cleared with the state.
DeleteUpdateKeepsAddress(r, ok) ==
    LET a == delApp[r] IN
    /\ delPc[r] = "update"
    /\ \/ ok /\ delPc' = [delPc EXCEPT ![r] = "stop"] /\ UNCHANGED <<delApp, delAddr>>
       \/ ~ ok /\ DeleteEnds(r)
    /\ IF ok /\ Exists(a) THEN SetRow(a, "FINISHED", address[a]) ELSE UNCHANGED tableVars
    /\ UNCHANGED <<application_id, createVars, driverVars, netVars, deletion,
                   chkVars, connVars>>

\* The row is FINISHED and its address cleared, if it is still there; a
\* DbErr ends the request with 500.
DeleteUpdate(r, ok) ==
    LET a == delApp[r] IN
    /\ delPc[r] = "update"
    /\ \/ ok /\ delPc' = [delPc EXCEPT ![r] = "stop"] /\ UNCHANGED <<delApp, delAddr>>
       \/ ~ ok /\ DeleteEnds(r)
    /\ IF ok /\ Exists(a) THEN SetRow(a, "FINISHED", NoAddress) ELSE UNCHANGED tableVars
    /\ UNCHANGED <<application_id, createVars, driverVars, netVars, deletion,
                   chkVars, connVars>>

\* The interceptor of the driver at address k gets "stop": it answers, sets
\* externalShutdown and stops the Connect service.
InterceptStop(a, k) ==
    /\ Reachable(a, k)
    /\ external' = [external EXCEPT ![a] = TRUE]
    /\ driver' = [driver EXCEPT ![a] = "stopped"]
    /\ UNCHANGED attempt

\* The stop message goes to the address read in the first step, if there was
\* one.
DeleteStopped(r) ==
    LET a == delApp[r] IN
    /\ delPc[r] = "stop"
    /\ \/ delAddr[r] = NoAddress /\ UNCHANGED driverVars
       \/ InterceptStop(a, delAddr[r])
    /\ DeleteEnds(r)
    /\ deletion' = [deletion EXCEPT ![a] = "done"]
    /\ UNCHANGED <<tableVars, application_id, createVars, netVars, chkVars, connVars>>

\* The driver cannot be reached, or its answer is lost: 500, after the row
\* was already FINISHED.
DeleteStopFailed(r) ==
    /\ delPc[r] = "stop"
    /\ delAddr[r] # NoAddress
    /\ \/ MayFail(delApp[r], delAddr[r]) /\ UNCHANGED driverVars
       \/ "loss" \in Faults /\ InterceptStop(delApp[r], delAddr[r])
    /\ DeleteEnds(r)
    /\ UNCHANGED <<tableVars, application_id, createVars, netVars, deletion,
                   chkVars, connVars>>

\* The client disconnects: the rest of the handler does not run; a stop
\* message under way may have been delivered.
DeleteDropped(r) ==
    /\ "disconnect" \in Faults
    /\ delPc[r] # "idle"
    /\ \/ UNCHANGED driverVars
       \/ delPc[r] = "stop" /\ InterceptStop(delApp[r], delAddr[r])
    /\ DeleteEnds(r)
    /\ UNCHANGED <<tableVars, application_id, createVars, netVars, deletion,
                   chkVars, connVars>>

-----------------------------------------------------------------------------
(* The proxy's dispatcher, as a writer of the table                        *)

\* A RUNNING row is read and its address remembered.
ProxyResolve(a) ==
    /\ connPc[a] = "idle"
    /\ state[a] = "RUNNING"
    /\ connPc' = [connPc EXCEPT ![a] = "connecting"]
    /\ connAddr' = [connAddr EXCEPT ![a] = address[a]]
    /\ UNCHANGED <<tableVars, application_id, createVars, driverVars, netVars, delVars, chkVars>>

\* The resolution is over, one way or the other.
ProxyEnds(a) ==
    /\ connPc' = [connPc EXCEPT ![a] = "idle"]
    /\ connAddr' = [connAddr EXCEPT ![a] = NoAddress]

\* One of the attempts succeeds.
ProxyConnected(a) ==
    /\ connPc[a] = "connecting"
    /\ Reachable(a, connAddr[a])
    /\ ProxyEnds(a)
    /\ UNCHANGED <<tableVars, application_id, createVars, driverVars, netVars, delVars, chkVars>>

\* All attempts failed: mark_application_failed, by token, whatever the row
\* says now.  An address that is gone stays gone, so the last attempt and the
\* statement are one step.
ProxyGaveUp(a, ok) ==
    /\ connPc[a] = "connecting"
    /\ MayFail(a, connAddr[a])
    /\ ProxyEnds(a)
    /\ IF ok /\ Exists(a) THEN SetRow(a, "FAILED", NoAddress) ELSE UNCHANGED tableVars
    /\ UNCHANGED <<application_id, createVars, driverVars, netVars, delVars, chkVars>>

-----------------------------------------------------------------------------
(* spark-plug check and spark-plug prune                                   *)

\* All RUNNING rows are read.  With none, the command has nothing to do.
CheckRead ==
    LET running == {a \in Apps : state[a] = "RUNNING"} IN
    /\ chkPc = "idle"
    /\ running # {}
    /\ chkPc' = "loop"
    /\ chkTodo' = running
    /\ chkAddr' = [a \in Apps |-> IF a \in running THEN address[a] ELSE NoAddress]
    /\ UNCHANGED <<tableVars, application_id, createVars, driverVars, netVars, delVars,
                   chkCur, connVars>>

\* One of the health probes is answered.
CheckHealthy(a) ==
    /\ chkPc = "loop"
    /\ a \in chkTodo
    /\ Reachable(a, chkAddr[a])
    /\ chkTodo' = chkTodo \ {a}
    /\ chkAddr' = [chkAddr EXCEPT ![a] = NoAddress]
    /\ UNCHANGED <<tableVars, application_id, createVars, driverVars, netVars, delVars,
                   chkPc, chkCur, connVars>>

\* Fault-seeded variant: a single failed probe of any kind is enough.
CheckUnhealthyHasty(a) ==
    /\ chkPc = "loop"
    /\ a \in chkTodo
    /\ chkPc' = "mark"
    /\ chkCur' = a
    /\ UNCHANGED <<tableVars, application_id, createVars, driverVars, netVars, delVars,
                   chkTodo, chkAddr, connVars>>

\* All health probes fail, or the row has no address to probe.
CheckUnhealthy(a) ==
    /\ chkPc = "loop"
    /\ a \in chkTodo
    /\ MayFail(a, chkAddr[a])
    /\ chkPc' = "mark"
    /\ chkCur' = a
    /\ UNCHANGED <<tableVars, application_id, createVars, driverVars, netVars, delVars,
                   chkTodo, chkAddr, connVars>>

\* Fault-seeded variant: the filter of the launch monitor is used here too.
CheckMarkIfLaunching(ok) ==
    /\ chkPc = "mark"
    /\ chkPc' = "loop"
    /\ chkTodo' = chkTodo \ {chkCur}
    /\ chkAddr' = [chkAddr EXCEPT ![chkCur] = NoAddress]
    /\ IF ok /\ state[chkCur] = "LAUNCHING"
       THEN SetRow(chkCur, "FAILED", NoAddress) ELSE UNCHANGED tableVars
    /\ chkCur' = 0
    /\ UNCHANGED <<application_id, createVars, driverVars, netVars, delVars, connVars>>

\* The row is failed by primary key, whatever it says now.  A DbErr (a row
\* removed in the meantime is one) ends the command: the rows after it are
\* not probed.
CheckMark(ok) ==
    /\ chkPc = "mark"
    /\ \/ /\ ok /\ Exists(chkCur)
          /\ SetRow(chkCur, "FAILED", NoAddress)
          /\ chkPc' = "loop"
          /\ chkTodo' = chkTodo \ {chkCur}
          /\ chkAddr' = [chkAddr EXCEPT ![chkCur] = NoAddress]
       \/ /\ ~ (ok /\ Exists(chkCur))
          /\ UNCHANGED tableVars
          /\ chkPc' = "idle"
          /\ chkTodo' = {}
          /\ chkAddr' = [a \in Apps |-> NoAddress]
    /\ chkCur' = 0
    /\ UNCHANGED <<application_id, createVars, driverVars, netVars, delVars, connVars>>

CheckDone ==
    /\ chkPc = "loop"
    /\ chkTodo = {}
    /\ chkPc' = "idle"
    /\ UNCHANGED <<tableVars, application_id, createVars, driverVars, netVars, delVars,
                   chkTodo, chkAddr, chkCur, connVars>>

\* Rows of ended sessions created up to the cutoff are deleted.  Keys are
\* allocated in the order of created_at.
Prune(cutoff) ==
    /\ \E a \in Apps : state[a] \in Terminal /\ a <= cutoff
    /\ state' = [a \in Apps |->
                   IF state[a] \in Terminal /\ a <= cutoff THEN "PRUNED" ELSE state[a]]
    /\ UNCHANGED <<address, application_id, createVars, driverVars, netVars, delVars,
                   chkVars, connVars>>

-----------------------------------------------------------------------------
\* The server dies and is started again on the same store: its handlers,
\* tasks and dispatchers are gone, spark-submit and the drivers are not.
ServerCrash ==
    /\ "crash" \in Faults
    /\ create' = [a \in Apps |->
                    IF create[a] \in {"launching", "failing"} THEN "dropped" ELSE create[a]]
    /\ monitor' = [a \in Apps |-> IF monitor[a] = "none" THEN "none" ELSE "done"]
    /\ reply' = [a \in Apps |-> "none"]
    /\ delPc' = [r \in Requests |-> "idle"]
    /\ delApp' = [r \in Requests |-> 0]
    /\ delAddr' = [r \in Requests |-> NoAddress]
    /\ connPc' = [a \in Apps |-> "idle"]
    /\ connAddr' = [a \in Apps |-> NoAddress]
    /\ UNCHANGED <<tableVars, application_id, submit, driverVars, posts, goodbye,
                   deletion, chkVars>>

Create_App(a) ==
    \/ CreateInsert(a)
    \/ CreateLaunched(a)
    \/ CreateLaunchFailed(a)
    \/ \E ok \in DbOutcomes : CreateMarkFailed(a, ok)
    \/ CreateDropped(a)

Launch(a) ==
    \/ \E code \in {"succeeded", "failed"} : SubmitExit(a, code)
    \/ MonitorWake(a)
    \/ \E ok \in DbOutcomes : MonitorMark(a, ok)

Driver(a) ==
    \/ DriverStart(a)
    \/ DriverRegistered(a)
    \/ DriverRejected(a)
    \/ DriverIdle(a)
    \/ DriverGoodbye(a)
    \/ DriverEnd(a)
    \/ DriverCrash(a)

Callback(a) ==
    \/ \E k \in Addresses, ok \in DbOutcomes : AppCallback(a, k, ok)
    \/ \E k \in Addresses, ok \in DbOutcomes : AppCallbackDelete(a, k, ok)
    \/ \E k \in Addresses : LosePost(a, k) \/ LoseGoodbye(a, k)

Delete(r) ==
    \/ \E a \in Apps : DeleteRead(r, a)
    \/ \E ok \in DbOutcomes : DeleteUpdate(r, ok)
    \/ DeleteStopped(r)
    \/ DeleteStopFailed(r)
    \/ DeleteDropped(r)

Proxy(a) ==
    \/ ProxyResolve(a)
    \/ ProxyConnected(a)
    \/ \E ok \in DbOutcomes : ProxyGaveUp(a, ok)

Check ==
    \/ CheckRead
    \/ \E a \in Apps : CheckHealthy(a) \/ CheckUnhealthy(a)
    \/ \E ok \in DbOutcomes : CheckMark(ok)
    \/ CheckDone

Next ==
    \/ \E a \in Apps : Create_App(a) \/ Launch(a) \/ Driver(a) \/ Callback(a) \/ Proxy(a)
    \/ \E r \in Requests : Delete(r)
    \/ Check
    \/ \E cutoff \in Apps : Prune(cutoff)
    \/ ServerCrash

Spec == Init /\ [][Next]_vars

-----------------------------------------------------------------------------
(* Safety                                                                  *)

\* The address column is set exactly in the RUNNING state, and a RUNNING row
\* has its application_id.  `active: address.is_some()` in the API, the
\* proxy's `address.ok_or(MissingApplicationAddress)` and the check's "RUNNING
\* but has no address" all lean on it, while create_app and its monitor write
\* the state column alone.
ActiveIffRunning ==
    \A a \in Apps :
        /\ address[a] # NoAddress <=> state[a] = "RUNNING"
        /\ state[a] = "RUNNING" => application_id[a]

\* A registered driver that nobody asked to delete is listed RUNNING at its
\* address, so that clients reach it and delete_app can stop it.  It needs
\* that the cluster does not restart drivers (MaxAttempts = 1) and that a
\* live driver can be reached; it holds for any order of the launch timeout,
\* the callback, the health check and the proxy's attempts.
ServingListed ==
    \A a \in Apps :
        driver[a] = "serving" /\ deletion[a] = "none"
            => state[a] = "RUNNING" /\ address[a] = attempt[a]

\* Without transient network failures, a RUNNING session is failed only by a
\* health check or a dispatcher that holds an address nobody listens on.
FailedOnEvidence ==
    [][\A a \in Apps :
          state[a] = "RUNNING" /\ state'[a] = "FAILED" =>
              \/ chkPc = "mark" /\ chkCur = a /\ ~ Reachable(a, chkAddr[a])
              \/ connPc[a] = "connecting" /\ ~ Reachable(a, connAddr[a])]_vars

\* A session is FINISHED only by its owner's delete_app, or on the word of one
\* of its drivers whose Connect service had ended: no retry, monitor or health
\* check reports the end of a session, and no driver its own while it serves.
\* A live driver whose row is ended this way is a later one than the driver
\* that said goodbye, which was killed with its DELETE /callback under way.
FinishedOnGoodbye ==
    [][\A a \in Apps :
          state[a] # "FINISHED" /\ state'[a] = "FINISHED" =>
              \/ \E r \in Requests : delPc[r] = "update" /\ delApp[r] = a
              \/ \E k \in goodbye[a] \ goodbye'[a] :
                     k < attempt[a] \/ driver[a] \in Left]_vars

-----------------------------------------------------------------------------
(* The inductive invariant behind ActiveIffRunning and FinishedOnGoodbye    *)

\* Nothing of a launch happens before its step: no row without create_app,
\* no monitor, driver or callback before spark-submit was spawned, and so no
\* address in a row whose launch failed; no goodbye of a driver that serves.
LaunchOrder ==
    \A a \in Apps :
        /\ state[a] = "NONE" => create[a] = "idle"
        /\ create[a] # "returned" => submit[a] = "none"
        /\ submit[a] = "none" =>
               /\ address[a] = NoAddress
               /\ posts[a] = {}
               /\ monitor[a] = "none"
               /\ driver[a] = "none"
        /\ driver[a] # "none" => attempt[a] # NoAddress
        /\ \A k \in goodbye[a] :
               k <= attempt[a] /\ (k = attempt[a] => driver[a] \in Left)

\* What a handler or command remembers between two steps names a session.
Remembered ==
    /\ \A r \in Requests : delPc[r] # "idle" =>
           delApp[r] \in Apps /\ deletion[delApp[r]] # "none"
    /\ chkPc = "mark" => chkCur \in chkTodo

\* TypeOK, LaunchOrder and Remembered make ActiveIffRunning inductive: a
\* failed create_app and its monitor may write the state alone because no
\* address can be in the row.  FinishedOnGoodbye follows from LaunchOrder: a
\* goodbye is the last word of its driver.
LifecycleInv ==
    TypeOK /\ LaunchOrder /\ Remembered /\ ActiveIffRunning

\* Behind FailedOnEvidence: an address is only known after a driver had it,
\* and drivers never get an old address again, so what a health check found
\* unreachable is so when the row is written.
EvidenceInv ==
    /\ \A a \in Apps :
           /\ \A k \in posts[a] : k <= attempt[a]
           /\ address[a] <= attempt[a]
           /\ chkAddr[a] <= attempt[a]
    /\ chkPc = "mark" => ~ Reachable(chkCur, chkAddr[chkCur])

\* Behind ServingListed, for one driver per session: a driver that was
\* answered 200 is already listed, and every address a check or a dispatcher
\* holds was a driver's.
ServingInv ==
    /\ \A a \in Apps :
           /\ attempt[a] = NoAddress <=> driver[a] = "none"
           /\ a \in chkTodo => chkAddr[a] # NoAddress
           /\ connPc[a] = "connecting" => connAddr[a] # NoAddress
           /\ driver[a] = "registering" /\ reply[a] = "ok" /\ deletion[a] = "none"
                  => state[a] = "RUNNING"
    /\ ServingListed

-----------------------------------------------------------------------------
(* Liveness                                                                *)

\* tokio polls every task that can make progress, and launch_timeout expires.
ServerFairness ==
    \A a \in Apps :
        /\ WF_vars(CreateLaunched(a) \/ CreateLaunchFailed(a))
        /\ WF_vars(\E ok \in DbOutcomes : CreateMarkFailed(a, ok))
        /\ WF_vars(MonitorWake(a))
        /\ WF_vars(\E ok \in DbOutcomes : MonitorMark(a, ok))

\* The operator runs `spark-plug check` again and again, and each run ends.
CheckFairness ==
    /\ WF_vars(CheckRead)
    /\ \A a \in Apps : WF_vars(CheckHealthy(a) \/ CheckUnhealthy(a))
    /\ WF_vars(\E ok \in DbOutcomes : CheckMark(ok))
    /\ WF_vars(CheckDone)

FairSpec == Spec /\ ServerFairness /\ CheckFairness

\* A launch does not stay LAUNCHING: the callback arrives or the launch is
\* recorded as failed (create_app's error branch, or the task it spawned).
LaunchSettles ==
    \A a \in Apps : state[a] = "LAUNCHING" ~> state[a] # "LAUNCHING"

\* No driver of the session will ever serve again.
Gone(a) ==
    \/ driver[a] = "dead"
    \/ driver[a] = "crashed" /\ attempt[a] = MaxAttempts

\* A session whose driver is gone does not stay RUNNING, whatever callback
\* was lost or came late.
DeadSessionSettles ==
    \A a \in Apps : Gone(a) /\ state[a] = "RUNNING" ~> state[a] # "RUNNING"

-----------------------------------------------------------------------------
(* What the repository says of the program and the code does not do         *)

\* routes.rs, test_delete_app_marks_finished: once DELETE /apps/{id} was
\* answered 200 the session is not active.
DeleteIsFinal ==
    \A a \in Apps : deletion[a] = "done" => address[a] = NoAddress

\* config.yaml, launch_timeout: "a launched application that has not received
\* its callback will be considered to have failed".
LaunchTimeoutHonoured ==
    \A a \in Apps :
        submit[a] # "none" /\ state[a] = "LAUNCHING" ~> state[a] # "LAUNCHING"
=============================================================================
