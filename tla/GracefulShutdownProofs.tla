---------------------- MODULE GracefulShutdownProofs ----------------------
(***************************************************************************)
(* Theorems about GracefulShutdown, for any set of connections.            *)
(***************************************************************************)
EXTENDS GracefulShutdown, TLAPS

LEMMA InitInv == Init => ShutdownInv
  BY ShutdownAssumption DEF Init, ShutdownInv, TypeOK, Live

LEMMA NextInv == ShutdownInv /\ [Next]_vars => ShutdownInv'
<1> SUFFICES ASSUME ShutdownInv, [Next]_vars PROVE ShutdownInv'
  OBVIOUS
<1> USE ShutdownAssumption DEF ShutdownInv, TypeOK, Live
<1>1. CASE UNCHANGED vars
  BY <1>1 DEF vars
<1>2. ASSUME NEW c \in Conns, Accept(c) PROVE ShutdownInv'
  BY <1>2 DEF Accept, ServeConnection
<1>3. ASSUME NEW c \in Conns, Graceful(c) PROVE ShutdownInv'
  BY <1>3 DEF Graceful
<1>4. ASSUME NEW c \in Conns, TaskEnds(c) PROVE ShutdownInv'
  BY <1>4 DEF TaskEnds
<1>5. ASSUME NEW c \in Conns, RequestStart(c) PROVE ShutdownInv'
  BY <1>5 DEF RequestStart
<1>6. ASSUME NEW c \in Conns, RequestEnd(c) PROVE ShutdownInv'
  BY <1>6 DEF RequestEnd
<1>7. ASSUME NEW c \in Conns, Connect(c) PROVE ShutdownInv'
  BY <1>7 DEF Connect
<1>8. ASSUME NEW c \in Conns, ClientCloses(c) PROVE ShutdownInv'
  BY <1>8 DEF ClientCloses
<1>9. CASE HandshakeDone
  BY <1>9 DEF HandshakeDone, ServeConnection
<1>10. CASE Fails
  BY <1>10 DEF Fails
<1>11. CASE BreakLoop
  BY <1>11 DEF BreakLoop
<1>12. CASE Return
  BY <1>12 DEF Return
<1>13. CASE ShutdownSignal
  BY <1>13 DEF ShutdownSignal
<1> QED
  BY <1>1, <1>2, <1>3, <1>4, <1>5, <1>6, <1>7, <1>8, <1>9, <1>10, <1>11, <1>12, <1>13
     DEF Next

\* run() and serve_connection keep server, loop and connections consistent,
\* with or without failures.
THEOREM ShutdownInvariant == Spec => []ShutdownInv
  BY InitInv, NextInv, PTL DEF Spec

-----------------------------------------------------------------------------
\* A connection that is served for the first time is taken, and only while the
\* server is up.
LEMMA TakeStep ==
    ASSUME ShutdownInv, NEW c \in Conns, c \notin Live, server \notin {"returned", "failed"},
           server' \notin {"returned", "failed"}, task' = [task EXCEPT ![c] = "serving"]
    PROVE  Contract!Take(c)
  BY DEF Contract!Take, Status, ShutdownInv, TypeOK, Live

LEMMA FinishStep ==
    ASSUME ShutdownInv, NEW c \in Conns, c \in Live, server' = server,
           NEW over \in {"left", "ended"}, task' = [task EXCEPT ![c] = over]
    PROVE  Contract!Finish(c)
  BY DEF Contract!Finish, Status, ShutdownInv, TypeOK, Live

\* Every step of the server is one of its contract or changes nothing there.
LEMMA ContractStep ==
    ASSUME ShutdownInv, [Next]_vars
    PROVE  [Contract!Next]_<<Status, Live>>
<1> DEFINE Same == Status' = Status /\ Live' = Live
<1> USE DEF ShutdownInv, TypeOK, Status
<1>1. CASE UNCHANGED vars
  BY <1>1 DEF vars, Live
<1>2. ASSUME NEW c \in Conns, Accept(c) PROVE Same \/ Contract!Take(c)
  <2>1. CASE tls
    BY <1>2, <2>1 DEF Accept, Live
  <2>2. CASE ~ tls
    BY <1>2, <2>2, TakeStep DEF Accept, ServeConnection, Live
  <2> QED
    BY <2>1, <2>2
<1>3. ASSUME NEW c \in Conns, Graceful(c) PROVE Same
  BY <1>3 DEF Graceful, Live
<1>4. ASSUME NEW c \in Conns, TaskEnds(c) PROVE Contract!Finish(c)
  BY <1>4, FinishStep DEF TaskEnds, Live
<1>5. ASSUME NEW c \in Conns, RequestStart(c) PROVE Same
  BY <1>5 DEF RequestStart, Live
<1>6. ASSUME NEW c \in Conns, RequestEnd(c) PROVE Same
  BY <1>6 DEF RequestEnd, Live
<1>7. ASSUME NEW c \in Conns, Connect(c) PROVE Same
  BY <1>7 DEF Connect, Live
<1>8. ASSUME NEW c \in Conns, ClientCloses(c) PROVE Contract!Finish(c)
  BY <1>8, FinishStep DEF ClientCloses
<1>9. ASSUME HandshakeDone PROVE \E c \in Conns : Contract!Take(c)
  <2>1. PICK c \in Conns : c = cur
    BY <1>9 DEF HandshakeDone
  <2>2. c \notin Live /\ task' = [task EXCEPT ![c] = "serving"]
    BY <1>9, <2>1 DEF HandshakeDone, ServeConnection, Live
  <2>3. Contract!Take(c)
    BY <1>9, <2>2, TakeStep DEF HandshakeDone
  <2> QED
    BY <2>3
<1>10. ASSUME Fails PROVE Contract!Crash
  BY <1>10 DEF Fails, Contract!Crash, Live
<1>11. ASSUME BreakLoop PROVE Same
  BY <1>11 DEF BreakLoop, Live
<1>12. ASSUME Return PROVE Contract!GoDown
  BY <1>12 DEF Return, Contract!GoDown, Live
<1>13. ASSUME ShutdownSignal PROVE Same
  BY <1>13 DEF ShutdownSignal, Live
<1> QED
  BY <1>1, <1>2, <1>3, <1>4, <1>5, <1>6, <1>7, <1>8, <1>9, <1>10, <1>11, <1>12, <1>13
     DEF Next, Contract!Next

\* run() keeps the contract: the listener's loop, the two channels and the
\* tasks implement "take work while up, go down without any", and a failure is
\* a crash as a whole.
THEOREM ImplementsContract == Spec => KeepsContract
<1>1. Init => Contract!Init
  BY DEF Init, Contract!Init, Status, Live
<1> QED
  BY <1>1, ContractStep, ShutdownInvariant, PTL DEF Spec, KeepsContract, Contract!Spec
=============================================================================
