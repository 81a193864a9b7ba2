---------------------------- MODULE SessionIdle ----------------------------
(***************************************************************************)
(* The idle thread of SparkPlugListener, with its clock: every Period it   *)
(* looks for executions and then at Config.lastActive, which requests      *)
(* (SparkPlugInterceptor) and Spark's events (onOtherEvent) set.           *)
(* SessionLifecycle abstracts all of this to DriverIdle.                   *)
(*                                                                         *)
(* A call may take its time, and only some become executions: AnalyzePlan, *)
(* AddArtifacts or Config never are in listActiveExecutions.  The listener *)
(* bus delivers an event before time goes on.                              *)
(***************************************************************************)
EXTENDS Naturals

CONSTANTS
    Requests,   \* calls of clients, each made once
    Timeout,    \* spark.plug.idle.timeout, in ticks of the clock
    Period      \* the sleep between two checks

ASSUME IdleAssumption == Timeout \in Nat /\ Period \in Nat \ {0}

VARIABLES
    service,    \* is the Connect service up?
    call,       \* the calls
    event,      \* is an event on its way to onOtherEvent?
    idle,       \* now - lastActive, up to MaxIdle
    quiet,      \* history: the time since a call began or an execution was under way
    pc,         \* where the thread is
    sleep       \* the rest of its sleep

vars == <<service, call, event, idle, quiet, pc, sleep>>

MaxIdle == Timeout + 1
Active == {r \in Requests : call[r] \in {"called", "executing"}}
Executing == {r \in Requests : call[r] = "executing"}

Init ==
    /\ service = TRUE /\ event = FALSE
    /\ call = [r \in Requests |-> "none"]
    /\ idle = 0 /\ quiet = 0
    /\ pc = "sleep" /\ sleep = 0

\* SparkConnectService.stop()
StopService ==
    /\ service' = FALSE
    /\ call' = [r \in Requests |-> IF r \in Active THEN "cut" ELSE call[r]]

-----------------------------------------------------------------------------
(* Calls                                                                   *)

\* interceptCall without a message of the proxy.
InterceptCall(r) ==
    /\ service /\ call[r] = "none"
    /\ call' = [call EXCEPT ![r] = "called"]
    /\ idle' = 0 /\ quiet' = 0
    /\ UNCHANGED <<service, event, pc, sleep>>

\* The call is registered as an execution.
Execute(r) ==
    /\ call[r] = "called"
    /\ call' = [call EXCEPT ![r] = "executing"]
    /\ event' = TRUE
    /\ UNCHANGED <<service, idle, quiet, pc, sleep>>

Complete(r) ==
    /\ call[r] = "executing"
    /\ call' = [call EXCEPT ![r] = "done"]
    /\ event' = TRUE
    /\ UNCHANGED <<service, idle, quiet, pc, sleep>>

\* A call that was no execution returns.
Return(r) ==
    /\ call[r] = "called"
    /\ call' = [call EXCEPT ![r] = "done"]
    /\ UNCHANGED <<service, event, idle, quiet, pc, sleep>>

OnOtherEvent ==
    /\ event
    /\ event' = FALSE
    /\ idle' = 0
    /\ UNCHANGED <<service, call, quiet, pc, sleep>>

\* interceptCall with the message "stop".
InterceptStop ==
    /\ service
    /\ StopService
    /\ UNCHANGED <<event, idle, quiet, pc, sleep>>

-----------------------------------------------------------------------------
(* The thread                                                              *)

\* Fault-seeded variant: every check counts as activity.
LookRefreshing ==
    /\ service /\ pc = "sleep" /\ sleep = 0
    /\ idle' = 0
    /\ pc' = "compare"
    /\ UNCHANGED <<service, call, event, quiet, sleep>>

\* Fault-seeded variant: an execution that is found does not count.
LookNotRefreshing ==
    /\ service /\ pc = "sleep" /\ sleep = 0
    /\ \/ Executing # {} /\ sleep' = Period /\ UNCHANGED pc
       \/ Executing = {} /\ pc' = "compare" /\ UNCHANGED sleep
    /\ UNCHANGED <<service, call, event, idle, quiet>>

\* listActiveExecutions
Look ==
    /\ service /\ pc = "sleep" /\ sleep = 0
    /\ \/ Executing # {} /\ idle' = 0 /\ sleep' = Period /\ UNCHANGED pc
       \/ Executing = {} /\ pc' = "compare" /\ UNCHANGED <<idle, sleep>>
    /\ UNCHANGED <<service, call, event, quiet>>

Compare ==
    /\ service /\ pc = "compare"
    /\ \/ idle > Timeout /\ pc' = "stop" /\ UNCHANGED sleep
       \/ idle <= Timeout /\ pc' = "sleep" /\ sleep' = Period
    /\ UNCHANGED <<service, call, event, idle, quiet>>

Stop ==
    /\ service /\ pc = "stop"
    /\ StopService
    /\ pc' = "done"
    /\ UNCHANGED <<event, idle, quiet, sleep>>

AtMost(n) == IF n > MaxIdle THEN MaxIdle ELSE n

Tick ==
    /\ service /\ pc = "sleep" /\ sleep > 0
    /\ ~ event
    /\ sleep' = sleep - 1
    /\ idle' = AtMost(idle + 1)
    /\ quiet' = IF Executing = {} THEN AtMost(quiet + 1) ELSE 0
    /\ UNCHANGED <<service, call, event, pc>>

Next ==
    \/ \E r \in Requests : InterceptCall(r) \/ Execute(r) \/ Complete(r) \/ Return(r)
    \/ OnOtherEvent \/ InterceptStop \/ Look \/ Compare \/ Stop \/ Tick

Spec == Init /\ [][Next]_vars

\* The thread is scheduled, time goes on, and the driver delivers its events.
\* Nothing says that a call ever returns or an execution completes.
Fairness ==
    /\ WF_vars(Look) /\ WF_vars(Compare) /\ WF_vars(Stop) /\ WF_vars(Tick)
    /\ WF_vars(OnOtherEvent)

FairSpec == Spec /\ Fairness

-----------------------------------------------------------------------------
\* The thread decides to stop the service only if for longer than the timeout
\* no call has begun and no execution has been under way, however long the
\* executions ran and although the event of a completion may still be on its
\* way.  It takes a timeout of at least one Period (60 s): what refreshes
\* lastActive during a long execution is the check (timeoutThread,
\* interceptCall).  A call that is no execution counts when it begins only: one
\* that takes longer than the timeout is cut.
StopsOnlyWhenQuiet == [][pc # "stop" /\ pc' = "stop" => quiet > Timeout]_vars

\* A session that is left alone ends.
IdleSessionEnds == <>[](Active = {}) => <>(~ service)
=============================================================================
