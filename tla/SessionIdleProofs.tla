------------------------- MODULE SessionIdleProofs -------------------------
(***************************************************************************)
(* Proof that the idle thread of SparkPlugListener stops only a session    *)
(* in which for longer than the timeout no call has begun and no execution *)
(* been under way, for any number of calls of any length and any timeout   *)
(* of at least one Period.                                                 *)
(***************************************************************************)
EXTENDS SessionIdle, TLAPS

TypeOK ==
    /\ service \in BOOLEAN /\ event \in BOOLEAN
    /\ call \in [Requests -> {"none", "called", "executing", "done", "cut"}]
    /\ idle \in 0 .. MaxIdle /\ quiet \in 0 .. MaxIdle
    /\ pc \in {"sleep", "compare", "stop", "done"}
    /\ sleep \in 0 .. Period

\* The next check comes within a Period of lastActive: an execution that has
\* been announced is found before idle exceeds the Period.  A comparison that
\* is under way missed it, but then no time has passed since its event.
FoundInTime ==
    Executing # {} /\ ~ event =>
        /\ idle + sleep <= Period
        /\ pc = "compare" => idle = 0

\* lastActive is older than the last use only while an execution runs or the
\* event of its end is on its way, and then at most one Period old.
NeverTooOld ==
    idle > quiet => idle <= Period /\ (event \/ Executing # {})

IdleInv == TypeOK /\ (service => FoundInTime /\ NeverTooOld)

\* IdleInv is inductive: one step per action.
LEMMA IdleStep ==
    ASSUME IdleInv, [Next]_vars
    PROVE  IdleInv'
<1> USE IdleAssumption DEF IdleInv, TypeOK, FoundInTime, NeverTooOld, MaxIdle
<1>1. ASSUME NEW r \in Requests, InterceptCall(r)
      PROVE  IdleInv'
  BY <1>1 DEF InterceptCall, Executing
<1>2. ASSUME NEW r \in Requests, Execute(r)
      PROVE  IdleInv'
  BY <1>2 DEF Execute, Executing
<1>3. ASSUME NEW r \in Requests, Complete(r)
      PROVE  IdleInv'
  BY <1>3 DEF Complete, Executing
<1>4. ASSUME NEW r \in Requests, Return(r)
      PROVE  IdleInv'
  BY <1>4 DEF Return, Executing
<1>5. CASE OnOtherEvent
  <2>1. idle' = 0 /\ event' = FALSE /\ Executing' = Executing
    BY <1>5 DEF OnOtherEvent, Executing
  <2>2. UNCHANGED <<service, call, quiet, pc, sleep>>
    BY <1>5 DEF OnOtherEvent
  <2> HIDE DEF IdleInv
  <2>3. TypeOK'
    <3>1. event' \in BOOLEAN
      BY <2>1
    <3>2. idle' \in 0 .. MaxIdle
      BY <2>1
    <3> QED
      BY <2>2, <3>1, <3>2 DEF IdleInv
  <2>4. 0 <= Period /\ ~ 0 > quiet /\ 0 + sleep <= Period
    BY DEF IdleInv
  <2>5. FoundInTime' /\ NeverTooOld'
    <3>1. FoundInTime'
      BY <2>1, <2>2, <2>4
    <3>2. NeverTooOld'
      BY <2>1, <2>2, <2>4
    <3> QED
      BY <3>1, <3>2
  <2> QED
    BY <2>3, <2>5 DEF IdleInv
<1>6. CASE InterceptStop
  BY <1>6 DEF InterceptStop, StopService
<1>7. CASE Look
  BY <1>7 DEF Look, Executing
<1>8. CASE Compare
  BY <1>8 DEF Compare, Executing
<1>9. CASE Stop
  BY <1>9 DEF Stop, StopService
<1>10. CASE Tick
  BY <1>10 DEF Tick, AtMost, Executing
<1>11. CASE UNCHANGED vars
  BY <1>11 DEF vars, Executing
<1> QED
  BY <1>1, <1>2, <1>3, <1>4, <1>5, <1>6, <1>7, <1>8, <1>9, <1>10, <1>11 DEF Next

\* IdleInv is an invariant, whatever the timeout.
THEOREM IdleInvariant == Spec => []IdleInv
<1>1. Init => IdleInv
  <2> SUFFICES ASSUME Init
               PROVE  IdleInv
    OBVIOUS
  <2>1. Executing = {}
    BY DEF Init, Executing
  <2>2. TypeOK
    <3>1. service \in BOOLEAN /\ event \in BOOLEAN
      BY DEF Init
    <3>2. 0 \in 0 .. MaxIdle /\ 0 \in 0 .. Period
      BY IdleAssumption DEF MaxIdle
    <3> QED
      BY <3>1, <3>2 DEF Init, TypeOK
  <2>3. FoundInTime /\ NeverTooOld
    BY <2>1 DEF Init, FoundInTime, NeverTooOld
  <2> QED
    BY <2>2, <2>3 DEF IdleInv
<1>2. IdleInv /\ [Next]_vars => IdleInv'
  BY IdleStep
<1> QED
  BY <1>1, <1>2, PTL DEF Spec

\* With a timeout of at least one Period the thread decides to stop the service
\* only if no call has begun and no execution been under way for longer than the
\* timeout: no length of a call or an execution, no order of its end, its event
\* and the two statements of a check makes a session in use look idle
\* (timeoutThread, onOtherEvent).
THEOREM StopsOnlyWhenQuietAlways ==
    ASSUME Timeout >= Period
    PROVE  Spec => StopsOnlyWhenQuiet
<1> DEFINE Quiet == pc # "stop" /\ pc' = "stop" => quiet > Timeout
<1>1. IdleInv /\ [Next]_vars => [Quiet]_vars
  <2> SUFFICES ASSUME IdleInv, Next, pc # "stop", pc' = "stop"
               PROVE  quiet > Timeout
    OBVIOUS
  <2>1. CASE Compare
    BY <2>1, IdleAssumption DEF Compare, IdleInv, TypeOK, NeverTooOld, MaxIdle
  <2>2. CASE ~ Compare
    BY <2>2 DEF Next, InterceptCall, Execute, Complete, Return, OnOtherEvent, InterceptStop, Look,
                Stop, Tick
  <2> QED
    BY <2>1, <2>2
<1> QED
  BY <1>1, IdleInvariant, PTL DEF Spec, StopsOnlyWhenQuiet
=============================================================================
