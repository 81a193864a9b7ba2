------------------------ MODULE UpstreamCacheProofs ------------------------
(***************************************************************************)
(* Proofs about UpstreamCache, for every number of sessions, addresses,    *)
(* requests, dispatchers and concurrent closers, every retry bound and     *)
(* every set of faults.  UpstreamInv is inductive: TypeStep, SenderStep,   *)
(* SendersStep, RoutedStep, FencedStep and ServiceStep show that each of   *)
(* its conjuncts is preserved, action by action.                           *)
(*                                                                         *)
(* RoutedStep and FencedStep rest on what a step does to what is already   *)
(* there (RequestsStay, CleanStays), shown once for every action.          *)
(***************************************************************************)
EXTENDS UpstreamCache, SequenceTheorems, TLAPS

\* An answer leaves requests well-typed.
LEMMA ReplyType ==
    ASSUME TypeOK, NEW q \in Requests, Reply(q)
    PROVE  /\ reqPc' \in [Requests -> {"idle", "lookup", "insert", "send", "wait", "done", "gone"}]
           /\ reqSender' \in [Requests -> Dispatchers \cup {0}]
<1>1. CASE reqPc[q] = "wait"
  BY <1>1 DEF Reply, TypeOK
<1>2. CASE reqPc[q] # "wait"
  BY <1>2 DEF Reply, TypeOK
<1> QED
  BY <1>1, <1>2

\* So does a refusal.
LEMMA RefuseType ==
    ASSUME TypeOK, NEW d \in Dispatchers, cur[d] \in Requests, Refuse(d)
    PROVE  /\ reqPc' \in [Requests -> {"idle", "lookup", "insert", "send", "wait", "done", "gone"}]
           /\ reqSender' \in [Requests -> Dispatchers \cup {0}]
           /\ dispPc' \in [Dispatchers -> {"none", "recv", "resolve", "connect", "mark",
                                          "forward", "exited"}]
           /\ cur' \in [Dispatchers -> Requests \cup {NoRequest}]
<1>1. Reply(cur[d])
  BY DEF Refuse
<1>2. /\ dispPc' = [dispPc EXCEPT ![d] = "recv"]
      /\ cur' = [cur EXCEPT ![d] = NoRequest]
  BY DEF Refuse
<1> QED
  BY <1>1, <1>2, ReplyType DEF TypeOK

\* TypeOK is preserved.
LEMMA TypeStep ==
    ASSUME TypeOK, Senders, RoutedMessages, [Next]_vars
    PROVE  TypeOK'
<1> USE DEF TypeOK, State, tableVars, reqVars, dispVars, driverVars, closeVars
<1>1. ASSUME NEW q \in Requests, NEW a \in Apps, RequestStart(q, a)
      PROVE  TypeOK'
  <2>1. cache[a] \in Dispatchers \cup {0} /\ closed[a] \in BOOLEAN
    OBVIOUS
  <2>2. late' \in [Requests -> BOOLEAN] /\ reqTok' \in [Requests -> Apps \cup {0}]
    BY <1>1, <2>1 DEF RequestStart
  <2>3. CASE /\ reqPc' = [reqPc EXCEPT ![q] = "send"]
             /\ reqSender' = [reqSender EXCEPT ![q] = cache[a]]
    BY <1>1, <2>1, <2>2, <2>3 DEF RequestStart
  <2>4. CASE reqPc' = [reqPc EXCEPT ![q] = "lookup"] /\ UNCHANGED reqSender
    BY <1>1, <2>2, <2>4 DEF RequestStart
  <2> QED
    BY <1>1, <2>3, <2>4 DEF RequestStart
<1>2. ASSUME NEW q \in Requests, NEW ok \in DbOutcomes, Lookup(q, ok)
      PROVE  TypeOK'
  BY <1>2 DEF Lookup
<1>3. ASSUME NEW q \in Requests, Insert(q)
      PROVE  TypeOK'
  <2>1. reqTok[q] \in Apps /\ reqPc' = [reqPc EXCEPT ![q] = "send"]
    BY <1>3 DEF Insert, RoutedMessages, Senders
  <2>2. CASE /\ reqSender' = [reqSender EXCEPT ![q] = cache[reqTok[q]]]
             /\ UNCHANGED <<cache, dispVars>>
    <3>1. cache[reqTok[q]] \in Dispatchers \cup {0}
      BY <2>1
    <3> QED
      BY <1>3, <2>1, <2>2, <3>1 DEF Insert
  <2>3. CASE \E d \in Dispatchers : Spawn(q, d)
    <3>1. PICK d \in Dispatchers : Spawn(q, d)
      BY <2>3
    <3> QED
      BY <1>3, <2>1, <3>1 DEF Insert, Spawn
  <2> QED
    BY <1>3, <2>2, <2>3 DEF Insert
<1>4. ASSUME NEW q \in Requests, Send(q)
      PROVE  TypeOK'
  <2>1. CASE ~ IsClosed(reqSender[q])
    <3>1. queue' \in [Dispatchers -> Seq(Requests)]
      <4>1. queue' = [queue EXCEPT ![reqSender[q]] = Append(queue[reqSender[q]], q)]
        BY <1>4, <2>1 DEF Send
      <4>2. reqSender[q] \in Dispatchers => Append(queue[reqSender[q]], q) \in Seq(Requests)
        BY AppendProperties
      <4> QED
        BY <4>1, <4>2
    <3>2. reqPc' = [reqPc EXCEPT ![q] = "wait"] /\ UNCHANGED <<cache, reqSender>>
      BY <1>4, <2>1 DEF Send
    <3> QED
      BY <1>4, <3>1, <3>2 DEF Send
  <2>2. CASE IsClosed(reqSender[q])
    <3>1. /\ reqPc' = [reqPc EXCEPT ![q] = "done"]
          /\ reqSender' = [reqSender EXCEPT ![q] = 0]
          /\ UNCHANGED queue
      BY <1>4, <2>2 DEF Send
    <3>2. cache' = cache \/ cache' = [cache EXCEPT ![reqTok[q]] = 0]
      BY <1>4, <2>2 DEF Send
    <3> QED
      BY <1>4, <3>1, <3>2 DEF Send
  <2> QED
    BY <2>1, <2>2
<1>5. ASSUME NEW q \in Requests, Disconnect(q)
      PROVE  TypeOK'
  BY <1>5 DEF Disconnect
<1>6. ASSUME NEW q \in Requests, Respond(q)
      PROVE  TypeOK'
  BY <1>6, ReplyType DEF Respond
<1>7. ASSUME NEW d \in Dispatchers, Recv(d)
      PROVE  TypeOK'
  <2>1. Head(queue[d]) \in Requests /\ Tail(queue[d]) \in Seq(Requests)
    BY <1>7, HeadTailProperties DEF Recv
  <2> QED
    BY <1>7, <2>1 DEF Recv
<1>8. ASSUME NEW d \in Dispatchers, Exit(d)
      PROVE  TypeOK'
  BY <1>8 DEF Exit
<1>9. ASSUME NEW d \in Dispatchers, NEW ok \in DbOutcomes, Resolve(d, ok)
      PROVE  TypeOK'
  <2>1. dispTok[d] \in Apps /\ cur[d] \in Requests
    BY <1>9 DEF Resolve, RoutedMessages, Senders
  <2>2. CASE Resolved(d)
    BY <1>9, <2>1, <2>2, UpstreamAssumption DEF Resolve, Resolved
  <2>3. CASE Refuse(d) /\ UNCHANGED <<upstream, tryAddr, tries>>
    BY <1>9, <2>1, <2>3, RefuseType DEF Resolve, Refuse
  <2> QED
    BY <1>9, <2>2, <2>3 DEF Resolve
<1>10. ASSUME NEW d \in Dispatchers, Connected(d)
      PROVE  TypeOK'
  BY <1>10, UpstreamAssumption DEF Connected
<1>11. ASSUME NEW d \in Dispatchers, ConnectFails(d)
      PROVE  TypeOK'
  <2>1. tries' \in [Dispatchers -> 0 .. ConnectRetries]
    <3>1. CASE /\ tries[d] < ConnectRetries
               /\ tries' = [tries EXCEPT ![d] = tries[d] + 1]
      <4>1. tries[d] + 1 \in 0 .. ConnectRetries
        BY <3>1, UpstreamAssumption
      <4> QED
        BY <3>1, <4>1
    <3>2. CASE tries' = [tries EXCEPT ![d] = 0]
      BY <3>2, UpstreamAssumption
    <3> QED
      BY <1>11, <3>1, <3>2 DEF ConnectFails
  <2>2. CASE UNCHANGED <<dispPc, tryAddr>>
    BY <1>11, <2>1, <2>2 DEF ConnectFails
  <2>3. CASE /\ tryAddr' = [tryAddr EXCEPT ![d] = NoAddress]
             /\ dispPc' = [dispPc EXCEPT ![d] = "mark"]
    BY <1>11, <2>1, <2>3 DEF ConnectFails
  <2> QED
    BY <1>11, <2>2, <2>3 DEF ConnectFails
<1>12. ASSUME NEW d \in Dispatchers, NEW ok \in DbOutcomes, MarkFailed(d, ok)
      PROVE  TypeOK'
  <2>1. cur[d] \in Requests
    BY <1>12 DEF MarkFailed, RoutedMessages, Senders
  <2>2. /\ state' \in [Apps -> State \cup {"NONE", "PRUNED"}]
        /\ address' \in [Apps -> Addresses \cup {NoAddress}]
    BY <1>12 DEF MarkFailed, Fail, SetRow
  <2>3. Refuse(d)
    BY <1>12 DEF MarkFailed
  <2> QED
    BY <1>12, <2>1, <2>2, <2>3, RefuseType DEF MarkFailed, Refuse
<1>13. ASSUME NEW d \in Dispatchers, Forward(d)
      PROVE  TypeOK'
  <2>1. cur[d] \in Requests
    BY <1>13 DEF Forward, RoutedMessages, Senders
  <2>2. CASE Listening(dispTok[d], upstream[d])
    BY <1>13, <2>1, <2>2 DEF Forward
  <2>3. CASE ~ Listening(dispTok[d], upstream[d])
    BY <1>13, <2>1, <2>3, RefuseType DEF Forward, Refuse
  <2> QED
    BY <2>2, <2>3
<1>14. ASSUME NEW c \in Closers, NEW a \in Apps, CloseUpdate(c, a)
      PROVE  TypeOK'
  BY <1>14 DEF CloseUpdate, Finish, SetRow, tableVars
<1>15. ASSUME NEW c \in Closers, CloseInvalidate(c)
      PROVE  TypeOK'
  BY <1>15 DEF CloseInvalidate
<1>16. ASSUME NEW c \in Closers, CloseDropped(c)
      PROVE  TypeOK'
  BY <1>16 DEF CloseDropped
<1>17. CASE TableChanges
  <2>1. ASSUME NEW a \in Apps, Create(a) PROVE TypeOK'
    BY <1>17, <2>1 DEF TableChanges, Create, SetRow
  <2>2. ASSUME NEW a \in Apps, Fail(a) PROVE TypeOK'
    BY <1>17, <2>2 DEF TableChanges, Fail, SetRow
  <2>3. ASSUME NEW cutoff \in Apps, Remove(cutoff) PROVE TypeOK'
    BY <1>17, <2>3 DEF TableChanges, Remove
  <2> QED
    BY <1>17, <2>1, <2>2, <2>3 DEF TableChanges
<1>18. ASSUME NEW a \in Apps, DriverListens(a)
      PROVE  TypeOK'
  <2>1. attempt[a] \in Nat /\ attempt[a] < MaxAttempts
    BY <1>18, TableAssumption DEF DriverListens, Addresses, NoAddress
  <2>2. attempt[a] + 1 \in Addresses
    BY <2>1, TableAssumption DEF Addresses
  <2> QED
    BY <1>18, <2>2 DEF DriverListens
<1>19. ASSUME NEW a \in Apps, DriverStops(a)
      PROVE  TypeOK'
  BY <1>19 DEF DriverStops
<1>20. ASSUME NEW a \in Apps, NEW k \in Addresses, DriverRegisters(a, k)
      PROVE  TypeOK'
  BY <1>20 DEF DriverRegisters, Register, SetRow
<1>21. CASE UNCHANGED vars
  BY <1>21 DEF vars
<1> QED
  BY <1>1, <1>2, <1>3, <1>4, <1>5, <1>6, <1>7, <1>8, <1>9, <1>10, <1>11,
     <1>12, <1>13, <1>14, <1>15, <1>16, <1>17, <1>18, <1>19, <1>20, <1>21
  DEF Next, RequestStep, DispatcherStep, Close, Environment

\* No channel loses its receiver while it has a sender.
LEMMA SenderStep ==
    ASSUME UpstreamInv, TypeOK', [Next]_vars
    PROVE  SenderOutlivesUse'
<1> USE DEF UpstreamInv, TypeOK, Senders, SenderOutlivesUse, HasSender,
        Exists, State, Dispatchers, tableVars, reqVars,
        dispVars, driverVars, closeVars
<1>1. ASSUME NEW q \in Requests, NEW a \in Apps, RequestStart(q, a)
      PROVE  SenderOutlivesUse'
  BY <1>1 DEF RequestStart, Open, IsClosed
<1>2. ASSUME NEW q \in Requests, NEW ok \in DbOutcomes, Lookup(q, ok)
      PROVE  SenderOutlivesUse'
  BY <1>2 DEF Lookup
<1>3. ASSUME NEW q \in Requests, Insert(q)
      PROVE  SenderOutlivesUse'
  BY <1>3 DEF Insert, Spawn, Open, IsClosed
<1>4. ASSUME NEW q \in Requests, Send(q)
      PROVE  SenderOutlivesUse'
  BY <1>4 DEF Send, IsClosed
<1>5. ASSUME NEW q \in Requests, Disconnect(q)
      PROVE  SenderOutlivesUse'
  BY <1>5 DEF Disconnect
<1>6. ASSUME NEW q \in Requests, Respond(q)
      PROVE  SenderOutlivesUse'
  BY <1>6 DEF Respond, Reply
<1>7. ASSUME NEW d \in Dispatchers, Recv(d)
      PROVE  SenderOutlivesUse'
  BY <1>7 DEF Recv
<1>8. ASSUME NEW d \in Dispatchers, Exit(d)
      PROVE  SenderOutlivesUse'
  BY <1>8 DEF Exit
<1>9. ASSUME NEW d \in Dispatchers, NEW ok \in DbOutcomes, Resolve(d, ok)
      PROVE  SenderOutlivesUse'
  BY <1>9 DEF Resolve, Resolved, Refuse, Reply
<1>10. ASSUME NEW d \in Dispatchers, Connected(d)
      PROVE  SenderOutlivesUse'
  BY <1>10 DEF Connected
<1>11. ASSUME NEW d \in Dispatchers, ConnectFails(d)
      PROVE  SenderOutlivesUse'
  BY <1>11 DEF ConnectFails
<1>12. ASSUME NEW d \in Dispatchers, NEW ok \in DbOutcomes, MarkFailed(d, ok)
      PROVE  SenderOutlivesUse'
  BY <1>12 DEF MarkFailed, Refuse, Reply, Fail, SetRow
<1>13. ASSUME NEW d \in Dispatchers, Forward(d)
      PROVE  SenderOutlivesUse'
  BY <1>13 DEF Forward, Refuse, Reply
<1>14. ASSUME NEW c \in Closers, NEW a \in Apps, CloseUpdate(c, a)
      PROVE  SenderOutlivesUse'
  BY <1>14 DEF CloseUpdate, Finish, SetRow, tableVars
<1>15. ASSUME NEW c \in Closers, CloseInvalidate(c)
      PROVE  SenderOutlivesUse'
  BY <1>15 DEF CloseInvalidate
<1>16. ASSUME NEW c \in Closers, CloseDropped(c)
      PROVE  SenderOutlivesUse'
  BY <1>16 DEF CloseDropped
<1>17. CASE TableChanges
  BY <1>17 DEF TableChanges, Create, Fail, Remove, SetRow, Terminal
<1>18. ASSUME NEW a \in Apps, DriverListens(a)
      PROVE  SenderOutlivesUse'
  BY <1>18 DEF DriverListens
<1>19. ASSUME NEW a \in Apps, DriverStops(a)
      PROVE  SenderOutlivesUse'
  BY <1>19 DEF DriverStops
<1>20. ASSUME NEW a \in Apps, NEW k \in Addresses, DriverRegisters(a, k)
      PROVE  SenderOutlivesUse'
  BY <1>20 DEF DriverRegisters, Register, SetRow
<1>21. CASE UNCHANGED vars
  BY <1>21 DEF vars
<1> QED
  BY <1>1, <1>2, <1>3, <1>4, <1>5, <1>6, <1>7, <1>8, <1>9, <1>10, <1>11,
     <1>12, <1>13, <1>14, <1>15, <1>16, <1>17, <1>18, <1>19, <1>20, <1>21
  DEF Next, RequestStep, DispatcherStep, Close, Environment

\* Senders is preserved: whose Sender it is never changes.
LEMMA SendersStep ==
    ASSUME UpstreamInv, TypeOK', [Next]_vars
    PROVE  Senders'
<1> USE DEF UpstreamInv, TypeOK, Senders, SenderOutlivesUse, HasSender,
        Exists, State, Dispatchers, tableVars, reqVars, dispVars, driverVars,
        closeVars
<1>1. ASSUME NEW q \in Requests, NEW a \in Apps, RequestStart(q, a)
      PROVE  Senders'
  BY <1>1 DEF RequestStart, Open, IsClosed
<1>2. ASSUME NEW q \in Requests, NEW ok \in DbOutcomes, Lookup(q, ok)
      PROVE  Senders'
  BY <1>2 DEF Lookup
<1>3. ASSUME NEW q \in Requests, Insert(q)
      PROVE  Senders'
  <2>1. reqTok[q] \in Apps
    BY <1>3 DEF Insert
  <2>2. CASE /\ cache[reqTok[q]] # 0
             /\ reqSender' = [reqSender EXCEPT ![q] = cache[reqTok[q]]]
             /\ UNCHANGED <<cache, dispVars>>
    BY <1>3, <2>1, <2>2 DEF Insert
  <2>3. CASE \E d \in Dispatchers : Spawn(q, d)
    <3>1. PICK d \in Dispatchers : Spawn(q, d)
      BY <2>3
    <3>2. ~ HasSender(d)
      BY <3>1 DEF Spawn
    <3>3. /\ cache' = [cache EXCEPT ![reqTok[q]] = d]
          /\ reqSender' = [reqSender EXCEPT ![q] = d]
          /\ dispTok' = [dispTok EXCEPT ![d] = reqTok[q]]
      BY <3>1 DEF Spawn
    <3>4. /\ reqPc' = [reqPc EXCEPT ![q] = "send"] /\ reqPc[q] = "insert"
          /\ UNCHANGED <<state, reqTok, late, fwd, closePc, closeTok>>
      BY <1>3 DEF Insert
    <3>5. \A a \in Apps : cache'[a] # 0 => dispTok'[cache'[a]] = a
      BY <2>1, <3>2, <3>3
    <3>6. \A p \in Requests : reqSender'[p] # 0 => dispTok'[reqSender'[p]] = reqTok'[p]
      BY <2>1, <3>2, <3>3, <3>4
    <3> QED
      BY <3>3, <3>4, <3>5, <3>6
  <2> QED
    BY <1>3, <2>2, <2>3 DEF Insert, Open
<1>4. ASSUME NEW q \in Requests, Send(q)
      PROVE  Senders'
  BY <1>4 DEF Send, IsClosed
<1>5. ASSUME NEW q \in Requests, Disconnect(q)
      PROVE  Senders'
  BY <1>5 DEF Disconnect
<1>6. ASSUME NEW q \in Requests, Respond(q)
      PROVE  Senders'
  BY <1>6 DEF Respond, Reply
<1>7. ASSUME NEW d \in Dispatchers, Recv(d)
      PROVE  Senders'
  BY <1>7 DEF Recv
<1>8. ASSUME NEW d \in Dispatchers, Exit(d)
      PROVE  Senders'
  BY <1>8 DEF Exit
<1>9. ASSUME NEW d \in Dispatchers, NEW ok \in DbOutcomes, Resolve(d, ok)
      PROVE  Senders'
  BY <1>9 DEF Resolve, Resolved, Refuse, Reply
<1>10. ASSUME NEW d \in Dispatchers, Connected(d)
      PROVE  Senders'
  BY <1>10 DEF Connected
<1>11. ASSUME NEW d \in Dispatchers, ConnectFails(d)
      PROVE  Senders'
  BY <1>11 DEF ConnectFails
<1>12. ASSUME NEW d \in Dispatchers, NEW ok \in DbOutcomes, MarkFailed(d, ok)
      PROVE  Senders'
  BY <1>12 DEF MarkFailed, Refuse, Reply, Fail, SetRow
<1>13. ASSUME NEW d \in Dispatchers, Forward(d)
      PROVE  Senders'
  <2>1. cur[d] \in Requests /\ reqPc[cur[d]] \in {"wait", "gone", "done"}
    BY <1>13 DEF Forward, RoutedMessages, Routed
  <2>2. CASE Listening(dispTok[d], upstream[d])
    BY <1>13, <2>1, <2>2 DEF Forward
  <2>3. CASE ~ Listening(dispTok[d], upstream[d])
    <3>1. CASE reqPc[cur[d]] = "wait"
      <4>1. /\ reqPc' = [reqPc EXCEPT ![cur[d]] = "done"]
            /\ reqSender' = [reqSender EXCEPT ![cur[d]] = 0]
            /\ UNCHANGED <<reqTok, late, fwd>>
        BY <1>13, <2>3, <3>1 DEF Forward, Refuse, Reply
      <4>2. UNCHANGED <<tableVars, cache, dispTok, closeVars>>
        BY <1>13, <2>3 DEF Forward, Refuse
      <4> QED
        BY <2>1, <4>1, <4>2
    <3>2. CASE reqPc[cur[d]] # "wait"
      BY <1>13, <2>1, <2>3, <3>2 DEF Forward, Refuse, Reply
    <3> QED
      BY <3>1, <3>2
  <2> QED
    BY <2>2, <2>3
<1>14. ASSUME NEW c \in Closers, NEW a \in Apps, CloseUpdate(c, a)
      PROVE  Senders'
  BY <1>14 DEF CloseUpdate, Finish, SetRow, tableVars
<1>15. ASSUME NEW c \in Closers, CloseInvalidate(c)
      PROVE  Senders'
  BY <1>15 DEF CloseInvalidate
<1>16. ASSUME NEW c \in Closers, CloseDropped(c)
      PROVE  Senders'
  BY <1>16 DEF CloseDropped
<1>17. CASE TableChanges
  BY <1>17 DEF TableChanges, Create, Fail, Remove, SetRow, Terminal
<1>18. ASSUME NEW a \in Apps, DriverListens(a)
      PROVE  Senders'
  BY <1>18 DEF DriverListens
<1>19. ASSUME NEW a \in Apps, DriverStops(a)
      PROVE  Senders'
  BY <1>19 DEF DriverStops
<1>20. ASSUME NEW a \in Apps, NEW k \in Addresses, DriverRegisters(a, k)
      PROVE  Senders'
  BY <1>20 DEF DriverRegisters, Register, SetRow
<1>21. CASE UNCHANGED vars
  BY <1>21 DEF vars
<1> QED
  BY <1>1, <1>2, <1>3, <1>4, <1>5, <1>6, <1>7, <1>8, <1>9, <1>10, <1>11,
     <1>12, <1>13, <1>14, <1>15, <1>16, <1>17, <1>18, <1>19, <1>20, <1>21
  DEF Next, RequestStep, DispatcherStep, Close, Environment

\* A request that was sent keeps its token, and its Sender until it ends.
RequestsStay ==
    \A p \in Requests : reqPc[p] \in {"wait", "gone", "done"} =>
        /\ reqTok'[p] = reqTok[p]
        /\ late'[p] => late[p]
        /\ \/ reqPc'[p] = reqPc[p] /\ reqSender'[p] = reqSender[p]
           \/ reqPc'[p] \in {"gone", "done"}

\* A dispatcher of an ended session that is clean stays so.
CleanStays ==
    \A e \in Dispatchers :
        dispPc[e] # "none" /\ closed[dispTok[e]] /\ Clean(e) => Clean(e)'

\* Every step satisfies RequestsStay.
LEMMA StayStep ==
    ASSUME UpstreamInv, [Next]_vars
    PROVE  RequestsStay
<1> USE DEF UpstreamInv, TypeOK, RequestsStay, tableVars, reqVars, dispVars,
        driverVars, closeVars
<1>1. ASSUME NEW q \in Requests, NEW a \in Apps, RequestStart(q, a)
      PROVE  RequestsStay
  BY <1>1 DEF RequestStart, Open, IsClosed
<1>2. ASSUME NEW q \in Requests, NEW ok \in DbOutcomes, Lookup(q, ok)
      PROVE  RequestsStay
  BY <1>2 DEF Lookup
<1>3. ASSUME NEW q \in Requests, Insert(q)
      PROVE  RequestsStay
  BY <1>3 DEF Insert, Spawn, Open, IsClosed
<1>4. ASSUME NEW q \in Requests, Send(q)
      PROVE  RequestsStay
  BY <1>4 DEF Send, IsClosed
<1>5. ASSUME NEW q \in Requests, Disconnect(q)
      PROVE  RequestsStay
  BY <1>5 DEF Disconnect
<1>6. ASSUME NEW q \in Requests, Respond(q)
      PROVE  RequestsStay
  BY <1>6 DEF Respond, Reply
<1>7. ASSUME NEW d \in Dispatchers, Recv(d)
      PROVE  RequestsStay
  BY <1>7 DEF Recv
<1>8. ASSUME NEW d \in Dispatchers, Exit(d)
      PROVE  RequestsStay
  BY <1>8 DEF Exit
<1>9. ASSUME NEW d \in Dispatchers, NEW ok \in DbOutcomes, Resolve(d, ok)
      PROVE  RequestsStay
  <2>1. UNCHANGED <<reqPc, reqTok, reqSender, late>> \/ (Reply(cur[d]) /\ UNCHANGED <<reqTok, late>>)
    BY <1>9 DEF Resolve, Resolved, Refuse
  <2> QED
    BY <2>1 DEF Reply
<1>10. ASSUME NEW d \in Dispatchers, Connected(d)
      PROVE  RequestsStay
  BY <1>10 DEF Connected
<1>11. ASSUME NEW d \in Dispatchers, ConnectFails(d)
      PROVE  RequestsStay
  BY <1>11 DEF ConnectFails
<1>12. ASSUME NEW d \in Dispatchers, NEW ok \in DbOutcomes, MarkFailed(d, ok)
      PROVE  RequestsStay
  <2>1. UNCHANGED <<reqPc, reqTok, reqSender, late>> \/ (Reply(cur[d]) /\ UNCHANGED <<reqTok, late>>)
    BY <1>12 DEF MarkFailed, Refuse
  <2> QED
    BY <2>1 DEF Reply
<1>13. ASSUME NEW d \in Dispatchers, Forward(d)
      PROVE  RequestsStay
  <2>1. UNCHANGED <<reqPc, reqTok, reqSender, late>> \/ (Reply(cur[d]) /\ UNCHANGED <<reqTok, late>>)
    BY <1>13 DEF Forward, Refuse
  <2> QED
    BY <2>1 DEF Reply
<1>14. ASSUME NEW c \in Closers, NEW a \in Apps, CloseUpdate(c, a)
      PROVE  RequestsStay
  BY <1>14 DEF CloseUpdate, Finish, SetRow, tableVars
<1>15. ASSUME NEW c \in Closers, CloseInvalidate(c)
      PROVE  RequestsStay
  BY <1>15 DEF CloseInvalidate
<1>16. ASSUME NEW c \in Closers, CloseDropped(c)
      PROVE  RequestsStay
  BY <1>16 DEF CloseDropped
<1>17. CASE TableChanges
  BY <1>17 DEF TableChanges, Create, Fail, Remove, SetRow, Terminal
<1>18. ASSUME NEW a \in Apps, DriverListens(a)
      PROVE  RequestsStay
  BY <1>18 DEF DriverListens
<1>19. ASSUME NEW a \in Apps, DriverStops(a)
      PROVE  RequestsStay
  BY <1>19 DEF DriverStops
<1>20. ASSUME NEW a \in Apps, NEW k \in Addresses, DriverRegisters(a, k)
      PROVE  RequestsStay
  BY <1>20 DEF DriverRegisters, Register, SetRow
<1>21. CASE UNCHANGED vars
  BY <1>21 DEF vars
<1> QED
  BY <1>1, <1>2, <1>3, <1>4, <1>5, <1>6, <1>7, <1>8, <1>9, <1>10, <1>11,
     <1>12, <1>13, <1>14, <1>15, <1>16, <1>17, <1>18, <1>19, <1>20, <1>21
  DEF Next, RequestStep, DispatcherStep, Close, Environment

\* Every step satisfies CleanStays: a dispatcher resolves an address only
\* while the row is RUNNING, and that of an ended session is not.
LEMMA CleanStep ==
    ASSUME UpstreamInv, [Next]_vars
    PROVE  CleanStays
<1> USE DEF UpstreamInv, TypeOK, Clean, CleanStays, tableVars, reqVars,
        dispVars, driverVars, closeVars
<1>1. ASSUME NEW q \in Requests, NEW a \in Apps, RequestStart(q, a)
      PROVE  CleanStays
  BY <1>1 DEF RequestStart, Open, IsClosed
<1>2. ASSUME NEW q \in Requests, NEW ok \in DbOutcomes, Lookup(q, ok)
      PROVE  CleanStays
  BY <1>2 DEF Lookup
<1>3. ASSUME NEW q \in Requests, Insert(q)
      PROVE  CleanStays
  BY <1>3 DEF Insert, Spawn, Open, IsClosed
<1>4. ASSUME NEW q \in Requests, Send(q)
      PROVE  CleanStays
  BY <1>4 DEF Send, IsClosed
<1>5. ASSUME NEW q \in Requests, Disconnect(q)
      PROVE  CleanStays
  BY <1>5 DEF Disconnect
<1>6. ASSUME NEW q \in Requests, Respond(q)
      PROVE  CleanStays
  BY <1>6 DEF Respond, Reply
<1>7. ASSUME NEW d \in Dispatchers, Recv(d)
      PROVE  CleanStays
  BY <1>7 DEF Recv
<1>8. ASSUME NEW d \in Dispatchers, Exit(d)
      PROVE  CleanStays
  BY <1>8 DEF Exit
<1>9. ASSUME NEW d \in Dispatchers, NEW ok \in DbOutcomes, Resolve(d, ok)
      PROVE  CleanStays
  <2>1. dispTok[d] \in Apps
    BY <1>9 DEF Resolve, RoutedMessages
  <2>2. CASE Resolved(d)
    BY <1>9, <2>1, <2>2 DEF Resolve, Resolved, Fenced
  <2>3. CASE Refuse(d) /\ UNCHANGED <<upstream, tryAddr, tries>>
    BY <1>9, <2>3 DEF Refuse
  <2> QED
    BY <1>9, <2>2, <2>3 DEF Resolve
<1>10. ASSUME NEW d \in Dispatchers, Connected(d)
      PROVE  CleanStays
  BY <1>10 DEF Connected
<1>11. ASSUME NEW d \in Dispatchers, ConnectFails(d)
      PROVE  CleanStays
  BY <1>11 DEF ConnectFails
<1>12. ASSUME NEW d \in Dispatchers, NEW ok \in DbOutcomes, MarkFailed(d, ok)
      PROVE  CleanStays
  BY <1>12 DEF MarkFailed, Refuse
<1>13. ASSUME NEW d \in Dispatchers, Forward(d)
      PROVE  CleanStays
  BY <1>13 DEF Forward, Refuse
<1>14. ASSUME NEW c \in Closers, NEW a \in Apps, CloseUpdate(c, a)
      PROVE  CleanStays
  BY <1>14 DEF CloseUpdate, Finish, SetRow, tableVars
<1>15. ASSUME NEW c \in Closers, CloseInvalidate(c)
      PROVE  CleanStays
  BY <1>15 DEF CloseInvalidate
<1>16. ASSUME NEW c \in Closers, CloseDropped(c)
      PROVE  CleanStays
  BY <1>16 DEF CloseDropped
<1>17. CASE TableChanges
  BY <1>17 DEF TableChanges, Create, Fail, Remove, SetRow, Terminal
<1>18. ASSUME NEW a \in Apps, DriverListens(a)
      PROVE  CleanStays
  BY <1>18 DEF DriverListens
<1>19. ASSUME NEW a \in Apps, DriverStops(a)
      PROVE  CleanStays
  BY <1>19 DEF DriverStops
<1>20. ASSUME NEW a \in Apps, NEW k \in Addresses, DriverRegisters(a, k)
      PROVE  CleanStays
  BY <1>20 DEF DriverRegisters, Register, SetRow
<1>21. CASE UNCHANGED vars
  BY <1>21 DEF vars
<1> QED
  BY <1>1, <1>2, <1>3, <1>4, <1>5, <1>6, <1>7, <1>8, <1>9, <1>10, <1>11,
     <1>12, <1>13, <1>14, <1>15, <1>16, <1>17, <1>18, <1>19, <1>20, <1>21
  DEF Next, RequestStep, DispatcherStep, Close, Environment

\* A send adds one message to a channel.
LEMMA MessagesAppend ==
    ASSUME NEW d, NEW q \in Requests,
           queue[d] \in Seq(Requests), queue'[d] = Append(queue[d], q)
    PROVE  Messages(d)' = Messages(d) \cup {q}
<1>1. /\ DOMAIN queue[d] = 1 .. Len(queue[d])
      /\ DOMAIN queue'[d] = 1 .. Len(queue[d]) + 1
      /\ Len(queue[d]) \in Nat
  BY AppendProperties
<1>2. \A n \in 1 .. Len(queue[d]) : queue'[d][n] = queue[d][n]
  BY AppendProperties
<1>3. queue'[d][Len(queue[d]) + 1] = q
  BY AppendProperties
<1> QED
  BY <1>1, <1>2, <1>3 DEF Messages

\* The messages left in a channel, and the one received, were in it.
LEMMA MessagesTail ==
    ASSUME NEW S, NEW s \in Seq(S), s # <<>>
    PROVE  /\ {Tail(s)[n] : n \in DOMAIN Tail(s)} \subseteq {s[n] : n \in DOMAIN s}
           /\ Head(s) \in {s[n] : n \in DOMAIN s}
<1>1. /\ DOMAIN s = 1 .. Len(s)
      /\ Len(s) \in Nat \ {0}
      /\ DOMAIN Tail(s) = 1 .. Len(s) - 1
  BY HeadTailProperties, EmptySeq
<1>2. \A n \in 1 .. Len(s) - 1 : Tail(s)[n] = s[n + 1]
  BY HeadTailProperties
<1>3. Head(s) = s[1]
  OBVIOUS
<1> QED
  BY <1>1, <1>2, <1>3

\* A message stays where it belongs.
LEMMA RoutedStays ==
    ASSUME UpstreamInv, RequestsStay, CleanStays,
           NEW e \in Dispatchers, NEW p \in Requests,
           dispPc[e] # "none", dispTok'[e] = dispTok[e], Routed(e, p)
    PROVE  Routed(e, p)'
<1>1. /\ reqTok'[p] = reqTok[p]
      /\ late'[p] => late[p]
      /\ \/ reqPc'[p] = reqPc[p] /\ reqSender'[p] = reqSender[p]
         \/ reqPc'[p] \in {"gone", "done"}
  BY DEF RequestsStay, Routed
<1>2. late[p] => closed[dispTok[e]] /\ Clean(e)
  BY DEF UpstreamInv, Fenced, Routed
<1>3. late[p] => Clean(e)'
  BY <1>2 DEF CleanStays
<1> QED
  BY <1>1, <1>3 DEF Routed

\* RoutedMessages is preserved when every message of a channel was in it
\* before, or at work there, or is put where it belongs.
LEMMA RoutedGrows ==
    ASSUME UpstreamInv, TypeOK', RequestsStay, CleanStays,
           \A e \in Dispatchers :
               /\ dispPc'[e] # "none" => dispTok'[e] \in Apps
               /\ dispPc[e] # "none" => dispTok'[e] = dispTok[e]
               /\ dispPc'[e] = "none" => /\ dispPc[e] = "none"
                                        /\ upstream'[e] = upstream[e]
                                        /\ Messages(e)' = Messages(e)
               /\ dispPc'[e] \in {"resolve", "connect", "mark", "forward"} =>
                      \/ /\ dispPc[e] \in {"resolve", "connect", "mark", "forward"}
                         /\ cur'[e] = cur[e]
                      \/ cur'[e] \in Messages(e)
               /\ \A p \in Messages(e)' : p \in Messages(e) \/ Routed(e, p)'
    PROVE  RoutedMessages'
<1> SUFFICES ASSUME NEW e \in Dispatchers
             PROVE  /\ dispPc'[e] # "none" => dispTok'[e] \in Apps
                    /\ dispPc'[e] = "none" => upstream'[e] = NoAddress /\ Messages(e)' = {}
                    /\ dispPc'[e] \in {"resolve", "connect", "mark", "forward"} =>
                           cur'[e] \in Requests /\ Routed(e, cur[e])'
                    /\ \A p \in Messages(e)' : Routed(e, p)'
  BY DEF RoutedMessages
<1>1. /\ dispPc[e] = "none" => upstream[e] = NoAddress /\ Messages(e) = {}
      /\ dispPc[e] \in {"resolve", "connect", "mark", "forward"} =>
             cur[e] \in Requests /\ Routed(e, cur[e])
      /\ \A p \in Messages(e) : Routed(e, p)
  BY DEF UpstreamInv, RoutedMessages
<1>2. Messages(e) \subseteq Requests
  BY DEF UpstreamInv, TypeOK, Messages
<1>3. \A p \in Messages(e) : dispPc[e] # "none" /\ Routed(e, p)'
  BY <1>1, <1>2, RoutedStays
<1>4. ASSUME dispPc'[e] \in {"resolve", "connect", "mark", "forward"}
      PROVE  cur'[e] \in Requests /\ Routed(e, cur[e])'
  <2>1. PICK p \in Requests : p = cur'[e] /\ Routed(e, p)'
    <3>1. CASE cur'[e] \in Messages(e)
      BY <1>2, <1>3, <3>1
    <3>2. CASE /\ dispPc[e] \in {"resolve", "connect", "mark", "forward"}
               /\ cur'[e] = cur[e]
      <4>1. PICK p \in Requests : p = cur[e] /\ Routed(e, p)
        BY <1>1, <3>2
      <4> QED
        BY <3>2, <4>1, RoutedStays
    <3> QED
      BY <1>4, <3>1, <3>2
  <2> QED
    BY <2>1 DEF Routed
<1>5. \A p \in Messages(e)' : Routed(e, p)'
  BY <1>3
<1> QED
  BY <1>1, <1>4, <1>5

\* In particular when no message arrives and none is received.
LEMMA RoutedFrame ==
    ASSUME UpstreamInv, TypeOK', RequestsStay, CleanStays,
           \A e \in Dispatchers :
               /\ Messages(e)' = Messages(e)
               /\ dispPc'[e] # "none" => dispTok'[e] \in Apps
               /\ dispPc[e] # "none" => dispTok'[e] = dispTok[e]
               /\ dispPc'[e] = "none" => dispPc[e] = "none" /\ upstream'[e] = upstream[e]
               /\ dispPc'[e] \in {"resolve", "connect", "mark", "forward"} =>
                      /\ dispPc[e] \in {"resolve", "connect", "mark", "forward"}
                      /\ cur'[e] = cur[e]
    PROVE  RoutedMessages'
<1> QED
  BY RoutedGrows

\* RoutedMessages is preserved.
LEMMA RoutedStep ==
    ASSUME UpstreamInv, TypeOK', RequestsStay, CleanStays, [Next]_vars
    PROVE  RoutedMessages'
<1> USE DEF UpstreamInv, TypeOK, tableVars, reqVars, dispVars, driverVars,
        closeVars
<1>1. ASSUME NEW q \in Requests, NEW a \in Apps, RequestStart(q, a)
      PROVE  RoutedMessages'
  <2>1. \A e \in Dispatchers : Messages(e)' = Messages(e)
    BY <1>1 DEF RequestStart, Messages
  <2>2. \A e \in Dispatchers : dispPc[e] # "none" => dispTok[e] \in Apps
    BY DEF RoutedMessages
  <2> QED
    BY <1>1, <2>1, <2>2, RoutedFrame DEF RequestStart
<1>2. ASSUME NEW q \in Requests, NEW ok \in DbOutcomes, Lookup(q, ok)
      PROVE  RoutedMessages'
  <2>1. \A e \in Dispatchers : Messages(e)' = Messages(e)
    BY <1>2 DEF Lookup, Messages
  <2>2. \A e \in Dispatchers : dispPc[e] # "none" => dispTok[e] \in Apps
    BY DEF RoutedMessages
  <2> QED
    BY <1>2, <2>1, <2>2, RoutedFrame DEF Lookup
<1>3. ASSUME NEW q \in Requests, Insert(q)
      PROVE  RoutedMessages'
  <2>1. \A e \in Dispatchers : Messages(e)' = Messages(e)
    BY <1>3 DEF Insert, Spawn, Messages
  <2>2. \A e \in Dispatchers : dispPc[e] # "none" => dispTok[e] \in Apps
    BY DEF RoutedMessages
  <2>3. reqTok[q] \in Apps
    BY <1>3 DEF Insert, Senders
  <2>4. CASE UNCHANGED dispVars
    BY <2>1, <2>2, <2>4, RoutedFrame
  <2>5. CASE \E d \in Dispatchers : Spawn(q, d)
    <3>1. PICK d \in Dispatchers : Spawn(q, d)
      BY <2>5
    <3> QED
      BY <2>1, <2>2, <2>3, <3>1, RoutedFrame DEF Spawn
  <2> QED
    BY <1>3, <2>4, <2>5 DEF Insert
<1>4. ASSUME NEW q \in Requests, Send(q)
      PROVE  RoutedMessages'
  <2>1. CASE IsClosed(reqSender[q])
    <3>1. UNCHANGED dispVars
      BY <1>4, <2>1 DEF Send
    <3>2. \A e \in Dispatchers : Messages(e)' = Messages(e)
      BY <3>1 DEF Messages
    <3>3. \A e \in Dispatchers : dispPc[e] # "none" => dispTok[e] \in Apps
      BY DEF RoutedMessages
    <3> QED
      BY <3>1, <3>2, <3>3, RoutedFrame
  <2>2. CASE ~ IsClosed(reqSender[q])
    <3>1. PICK d \in Dispatchers : d = reqSender[q] /\ d # 0
      BY <1>4 DEF Send, Senders
    <3>2. dispTok[d] = reqTok[q] /\ reqTok[q] \in Apps /\ dispPc[d] # "none"
      BY <1>4, <3>1 DEF Send, Senders, SenderOutlivesUse, HasSender
    <3>3. /\ queue' = [queue EXCEPT ![d] = Append(queue[d], q)]
          /\ reqPc' = [reqPc EXCEPT ![q] = "wait"]
          /\ UNCHANGED <<reqTok, reqSender, late, dispPc, dispTok, cur, upstream>>
      BY <1>4, <2>2, <3>1 DEF Send
    <3>4. \A e \in Dispatchers \ {d} : Messages(e)' = Messages(e)
      BY <3>3 DEF Messages
    <3>5. Messages(d)' = Messages(d) \cup {q}
      <4>1. queue[d] \in Seq(Requests) /\ queue'[d] = Append(queue[d], q)
        BY <3>3
      <4> HIDE DEF UpstreamInv, TypeOK
      <4> QED
        BY <4>1, MessagesAppend
    <3>6. Routed(d, q)'
      <4>1. late[q] => Clean(d)
        BY <3>1, Zenon DEF Fenced
      <4> QED
        BY <3>1, <3>2, <3>3, <4>1 DEF Routed, Clean
    <3>7. \A e \in Dispatchers : dispPc[e] # "none" => dispTok[e] \in Apps
      BY DEF RoutedMessages
    <3> QED
      BY <3>2, <3>3, <3>4, <3>5, <3>6, <3>7, RoutedGrows
  <2> QED
    BY <2>1, <2>2
<1>5. ASSUME NEW q \in Requests, Disconnect(q)
      PROVE  RoutedMessages'
  <2>1. \A e \in Dispatchers : Messages(e)' = Messages(e)
    BY <1>5 DEF Disconnect, Messages
  <2>2. \A e \in Dispatchers : dispPc[e] # "none" => dispTok[e] \in Apps
    BY DEF RoutedMessages
  <2> QED
    BY <1>5, <2>1, <2>2, RoutedFrame DEF Disconnect
<1>6. ASSUME NEW q \in Requests, Respond(q)
      PROVE  RoutedMessages'
  <2>1. \A e \in Dispatchers : Messages(e)' = Messages(e)
    BY <1>6 DEF Respond, Messages
  <2>2. \A e \in Dispatchers : dispPc[e] # "none" => dispTok[e] \in Apps
    BY DEF RoutedMessages
  <2> QED
    BY <1>6, <2>1, <2>2, RoutedFrame DEF Respond
<1>7. ASSUME NEW d \in Dispatchers, Recv(d)
      PROVE  RoutedMessages'
  <2>1. UNCHANGED <<reqTok, dispTok, upstream>> /\ dispPc[d] = "recv" /\ queue[d] # <<>>
    BY <1>7 DEF Recv
  <2>2. \A e \in Dispatchers \ {d} : /\ Messages(e)' = Messages(e)
                                     /\ dispPc'[e] = dispPc[e]
                                     /\ cur'[e] = cur[e]
    BY <1>7 DEF Recv, Messages
  <2>3. Messages(d)' \subseteq Messages(d)
    BY <1>7, MessagesTail DEF Recv, Messages
  <2>4. cur'[d] \in Messages(d) /\ dispPc'[d] # "none"
    BY <1>7, MessagesTail DEF Recv, Messages
  <2>5. \A e \in Dispatchers : dispPc[e] # "none" => dispTok[e] \in Apps
    BY DEF RoutedMessages
  <2> QED
    BY <2>1, <2>2, <2>3, <2>4, <2>5, RoutedGrows
<1>8. ASSUME NEW d \in Dispatchers, Exit(d)
      PROVE  RoutedMessages'
  <2>1. \A e \in Dispatchers : Messages(e)' = Messages(e)
    BY <1>8 DEF Exit, Messages
  <2>2. \A e \in Dispatchers : dispPc[e] # "none" => dispTok[e] \in Apps
    BY DEF RoutedMessages
  <2> QED
    BY <1>8, <2>1, <2>2, RoutedFrame DEF Exit
<1>9. ASSUME NEW d \in Dispatchers, NEW ok \in DbOutcomes, Resolve(d, ok)
      PROVE  RoutedMessages'
  <2>1. \A e \in Dispatchers : Messages(e)' = Messages(e)
    BY <1>9 DEF Resolve, Resolved, Refuse, Messages
  <2>2. \A e \in Dispatchers : dispPc[e] # "none" => dispTok[e] \in Apps
    BY DEF RoutedMessages
  <2>3. CASE Resolved(d)
    BY <1>9, <2>1, <2>2, <2>3, RoutedFrame DEF Resolve, Resolved
  <2>4. CASE Refuse(d) /\ UNCHANGED <<upstream, tryAddr, tries>>
    BY <1>9, <2>1, <2>2, <2>4, RoutedFrame DEF Resolve, Refuse
  <2> QED
    BY <1>9, <2>3, <2>4 DEF Resolve
<1>10. ASSUME NEW d \in Dispatchers, Connected(d)
      PROVE  RoutedMessages'
  <2>1. \A e \in Dispatchers : Messages(e)' = Messages(e)
    BY <1>10 DEF Connected, Messages
  <2>2. \A e \in Dispatchers : dispPc[e] # "none" => dispTok[e] \in Apps
    BY DEF RoutedMessages
  <2> QED
    BY <1>10, <2>1, <2>2, RoutedFrame DEF Connected
<1>11. ASSUME NEW d \in Dispatchers, ConnectFails(d)
      PROVE  RoutedMessages'
  <2>1. \A e \in Dispatchers : Messages(e)' = Messages(e)
    BY <1>11 DEF ConnectFails, Messages
  <2>2. \A e \in Dispatchers : dispPc[e] # "none" => dispTok[e] \in Apps
    BY DEF RoutedMessages
  <2> QED
    BY <1>11, <2>1, <2>2, RoutedFrame DEF ConnectFails
<1>12. ASSUME NEW d \in Dispatchers, NEW ok \in DbOutcomes, MarkFailed(d, ok)
      PROVE  RoutedMessages'
  <2>1. \A e \in Dispatchers : Messages(e)' = Messages(e)
    BY <1>12 DEF MarkFailed, Refuse, Messages
  <2>2. \A e \in Dispatchers : dispPc[e] # "none" => dispTok[e] \in Apps
    BY DEF RoutedMessages
  <2> QED
    BY <1>12, <2>1, <2>2, RoutedFrame DEF MarkFailed, Refuse
<1>13. ASSUME NEW d \in Dispatchers, Forward(d)
      PROVE  RoutedMessages'
  <2>1. \A e \in Dispatchers : Messages(e)' = Messages(e)
    BY <1>13 DEF Forward, Refuse, Messages
  <2>2. \A e \in Dispatchers : dispPc[e] # "none" => dispTok[e] \in Apps
    BY DEF RoutedMessages
  <2> QED
    BY <1>13, <2>1, <2>2, RoutedFrame DEF Forward, Refuse
<1>14. ASSUME NEW c \in Closers, NEW a \in Apps, CloseUpdate(c, a)
      PROVE  RoutedMessages'
  <2>1. \A e \in Dispatchers : Messages(e)' = Messages(e)
    BY <1>14 DEF CloseUpdate, Messages
  <2>2. \A e \in Dispatchers : dispPc[e] # "none" => dispTok[e] \in Apps
    BY DEF RoutedMessages
  <2> QED
    BY <1>14, <2>1, <2>2, RoutedFrame DEF CloseUpdate
<1>15. ASSUME NEW c \in Closers, CloseInvalidate(c)
      PROVE  RoutedMessages'
  <2>1. \A e \in Dispatchers : Messages(e)' = Messages(e)
    BY <1>15 DEF CloseInvalidate, Messages
  <2>2. \A e \in Dispatchers : dispPc[e] # "none" => dispTok[e] \in Apps
    BY DEF RoutedMessages
  <2> QED
    BY <1>15, <2>1, <2>2, RoutedFrame DEF CloseInvalidate
<1>16. ASSUME NEW c \in Closers, CloseDropped(c)
      PROVE  RoutedMessages'
  <2>1. \A e \in Dispatchers : Messages(e)' = Messages(e)
    BY <1>16 DEF CloseDropped, Messages
  <2>2. \A e \in Dispatchers : dispPc[e] # "none" => dispTok[e] \in Apps
    BY DEF RoutedMessages
  <2> QED
    BY <1>16, <2>1, <2>2, RoutedFrame DEF CloseDropped
<1>17. CASE TableChanges
  <2>1. \A e \in Dispatchers : Messages(e)' = Messages(e)
    BY <1>17 DEF TableChanges, Messages
  <2>2. \A e \in Dispatchers : dispPc[e] # "none" => dispTok[e] \in Apps
    BY DEF RoutedMessages
  <2> QED
    BY <1>17, <2>1, <2>2, RoutedFrame DEF TableChanges
<1>18. ASSUME NEW a \in Apps, DriverListens(a)
      PROVE  RoutedMessages'
  <2>1. \A e \in Dispatchers : Messages(e)' = Messages(e)
    BY <1>18 DEF DriverListens, Messages
  <2>2. \A e \in Dispatchers : dispPc[e] # "none" => dispTok[e] \in Apps
    BY DEF RoutedMessages
  <2> QED
    BY <1>18, <2>1, <2>2, RoutedFrame DEF DriverListens
<1>19. ASSUME NEW a \in Apps, DriverStops(a)
      PROVE  RoutedMessages'
  <2>1. \A e \in Dispatchers : Messages(e)' = Messages(e)
    BY <1>19 DEF DriverStops, Messages
  <2>2. \A e \in Dispatchers : dispPc[e] # "none" => dispTok[e] \in Apps
    BY DEF RoutedMessages
  <2> QED
    BY <1>19, <2>1, <2>2, RoutedFrame DEF DriverStops
<1>20. ASSUME NEW a \in Apps, NEW k \in Addresses, DriverRegisters(a, k)
      PROVE  RoutedMessages'
  <2>1. \A e \in Dispatchers : Messages(e)' = Messages(e)
    BY <1>20 DEF DriverRegisters, Messages
  <2>2. \A e \in Dispatchers : dispPc[e] # "none" => dispTok[e] \in Apps
    BY DEF RoutedMessages
  <2> QED
    BY <1>20, <2>1, <2>2, RoutedFrame DEF DriverRegisters
<1>21. CASE UNCHANGED vars
  <2>1. \A e \in Dispatchers : Messages(e)' = Messages(e)
    BY <1>21 DEF vars, Messages
  <2>2. \A e \in Dispatchers : dispPc[e] # "none" => dispTok[e] \in Apps
    BY DEF RoutedMessages
  <2> QED
    BY <1>21, <2>1, <2>2, RoutedFrame DEF vars
<1> QED
  BY <1>1, <1>2, <1>3, <1>4, <1>5, <1>6, <1>7, <1>8, <1>9, <1>10, <1>11,
     <1>12, <1>13, <1>14, <1>15, <1>16, <1>17, <1>18, <1>19, <1>20, <1>21
  DEF Next, RequestStep, DispatcherStep, Close, Environment

\* Fenced is preserved when every Sender in use was in use before and no
\* session comes back.
LEMMA FencedFrame ==
    ASSUME UpstreamInv, TypeOK', CleanStays,
           \A a \in Apps : /\ closed'[a] => closed[a]
                           /\ cache'[a] \in {0, cache[a]}
                           /\ closed'[a] => state'[a] \notin {"NONE", "LAUNCHING", "RUNNING"},
           \A q \in Requests : /\ late'[q] => late[q] /\ closed'[reqTok[q]]
                               /\ late'[q] => reqTok'[q] = reqTok[q]
                               /\ reqSender'[q] \in {0, reqSender[q]}
    PROVE  Fenced'
<1>1. ASSUME NEW a \in Apps, closed'[a], cache'[a] # 0
      PROVE  Clean(cache[a])'
  <2>1. closed[a] /\ cache[a] # 0 /\ cache'[a] = cache[a]
    BY <1>1
  <2>2. cache[a] \in Dispatchers /\ dispTok[cache[a]] = a /\ Clean(cache[a])
    BY <2>1 DEF UpstreamInv, TypeOK, Senders, Fenced
  <2>3. dispPc[cache[a]] # "none"
    BY <2>2 DEF Clean
  <2> QED
    BY <2>1, <2>2, <2>3 DEF CleanStays, Clean
<1>2. ASSUME NEW q \in Requests, late'[q], reqSender'[q] # 0
      PROVE  Clean(reqSender[q])'
  <2>1. late[q] /\ reqSender[q] # 0 /\ reqSender'[q] = reqSender[q]
    BY <1>2
  <2>2. /\ reqSender[q] \in Dispatchers
        /\ closed[dispTok[reqSender[q]]]
        /\ Clean(reqSender[q])
    BY <2>1 DEF UpstreamInv, TypeOK, Senders, Fenced
  <2>3. dispPc[reqSender[q]] # "none"
    BY <2>2 DEF Clean
  <2> QED
    BY <2>1, <2>2, <2>3 DEF CleanStays, Clean
<1> QED
  BY <1>1, <1>2 DEF Fenced

\* Fenced is preserved: a request that comes after the end gets a clean
\* dispatcher or spawns one.
LEMMA FencedStep ==
    ASSUME UpstreamInv, TypeOK', CleanStays, [Next]_vars
    PROVE  Fenced'
<1> USE DEF UpstreamInv, TypeOK, Fenced, tableVars, reqVars, dispVars,
        driverVars, closeVars
<1>1. ASSUME NEW q \in Requests, NEW a \in Apps, RequestStart(q, a)
      PROVE  Fenced'
  <2>1. \A e \in Dispatchers : Clean(e)' = Clean(e)
    BY <1>1 DEF RequestStart, Clean
  <2>2. closed[a] /\ cache[a] # 0 => Clean(cache[a])
    OBVIOUS
  <2>3. reqSender[q] = 0
    BY <1>1 DEF RequestStart, Senders
  <2>4. reqSender'[q] \in {0, cache[a]} /\ reqTok'[q] = a /\ late'[q] = closed[a]
    BY <1>1, <2>3 DEF RequestStart
  <2>5. \A p \in Requests \ {q} : /\ reqSender'[p] = reqSender[p]
                                   /\ reqTok'[p] = reqTok[p]
                                   /\ late'[p] = late[p]
    BY <1>1 DEF RequestStart
  <2>6. \A b \in Apps : closed'[b] = closed[b] /\ cache'[b] = cache[b] /\ state'[b] = state[b]
    BY <1>1 DEF RequestStart
  <2>7. \A b \in Apps : closed[b] /\ cache[b] # 0 => Clean(cache[b])'
    BY <2>1, <2>6 DEF Clean
  <2>8. UNCHANGED <<closed, dispPc, upstream, cache>>
    BY <1>1 DEF RequestStart
  <2>9. ASSUME NEW p \in Requests, late'[p]
        PROVE  closed'[reqTok'[p]] /\ (reqSender'[p] # 0 => Clean(reqSender[p])')
    <3>1. CASE p = q
      BY <2>2, <2>4, <2>7, <2>8, <2>9, <3>1 DEF Clean
    <3>2. CASE p # q
      <4>1. closed[reqTok[p]] /\ (reqSender[p] # 0 => Clean(reqSender[p]))
        BY <2>5, <2>9, <3>2
      <4> QED
        BY <1>1, <2>5, <2>8, <3>2, <4>1 DEF RequestStart, Clean
    <3> QED
      BY <3>1, <3>2
  <2> QED
    BY <2>6, <2>7, <2>9
<1>2. ASSUME NEW q \in Requests, NEW ok \in DbOutcomes, Lookup(q, ok)
      PROVE  Fenced'
  BY <1>2, FencedFrame DEF Lookup
<1>3. ASSUME NEW q \in Requests, Insert(q)
      PROVE  Fenced'
  <2>1. reqTok[q] \in Apps
    BY <1>3 DEF Insert, Senders
  <2>2. CASE /\ cache[reqTok[q]] # 0
             /\ reqSender' = [reqSender EXCEPT ![q] = cache[reqTok[q]]]
             /\ UNCHANGED <<cache, dispVars>>
    <3>1. \A e \in Dispatchers : Clean(e)' = Clean(e)
      BY <2>2 DEF Clean
    <3>2. UNCHANGED <<state, reqTok, late, closed, cache>>
      BY <1>3, <2>2 DEF Insert
    <3>3. ASSUME NEW p \in Requests, late'[p], reqSender'[p] # 0 PROVE Clean(reqSender[p])'
      BY <2>1, <2>2, <3>1, <3>2, <3>3
    <3>4. ASSUME NEW b \in Apps, closed'[b], cache'[b] # 0 PROVE Clean(cache[b])'
      BY <2>2, <3>1, <3>2, <3>4
    <3> QED
      BY <3>2, <3>3, <3>4
  <2>3. CASE \E d \in Dispatchers : Spawn(q, d)
    <3>1. PICK d \in Dispatchers : Spawn(q, d)
      BY <2>3
    <3>2. upstream[d] = NoAddress
      BY <3>1 DEF Spawn, RoutedMessages
    <3>3. Clean(d)'
      BY <3>1, <3>2 DEF Spawn, Clean
    <3>4. \A e \in Dispatchers : Clean(e) => Clean(e)'
      BY <3>1 DEF Spawn, Clean
    <3>5. UNCHANGED <<state, reqTok, late, closed>>
      BY <1>3 DEF Insert
    <3>6. /\ cache' = [cache EXCEPT ![reqTok[q]] = d]
          /\ reqSender' = [reqSender EXCEPT ![q] = d]
      BY <3>1 DEF Spawn
    <3>7. ASSUME NEW p \in Requests, late'[p], reqSender'[p] # 0 PROVE Clean(reqSender[p])'
      BY <3>3, <3>4, <3>5, <3>6, <3>7
    <3>8. ASSUME NEW b \in Apps, closed'[b], cache'[b] # 0 PROVE Clean(cache[b])'
      BY <2>1, <3>3, <3>4, <3>5, <3>6, <3>8
    <3> QED
      BY <3>5, <3>7, <3>8
  <2> QED
    BY <1>3, <2>2, <2>3 DEF Insert, Open
<1>4. ASSUME NEW q \in Requests, Send(q)
      PROVE  Fenced'
  BY <1>4, FencedFrame DEF Send, IsClosed
<1>5. ASSUME NEW q \in Requests, Disconnect(q)
      PROVE  Fenced'
  BY <1>5, FencedFrame DEF Disconnect
<1>6. ASSUME NEW q \in Requests, Respond(q)
      PROVE  Fenced'
  BY <1>6, FencedFrame DEF Respond, Reply
<1>7. ASSUME NEW d \in Dispatchers, Recv(d)
      PROVE  Fenced'
  BY <1>7, FencedFrame DEF Recv
<1>8. ASSUME NEW d \in Dispatchers, Exit(d)
      PROVE  Fenced'
  BY <1>8, FencedFrame DEF Exit
<1>9. ASSUME NEW d \in Dispatchers, NEW ok \in DbOutcomes, Resolve(d, ok)
      PROVE  Fenced'
  <2>1. UNCHANGED reqSender \/ Reply(cur[d])
    BY <1>9 DEF Resolve, Resolved, Refuse
  <2>2. \A p \in Requests : reqSender'[p] \in {0, reqSender[p]}
    BY <2>1 DEF Reply
  <2> QED
    BY <1>9, <2>2, FencedFrame DEF Resolve, Resolved, Refuse
<1>10. ASSUME NEW d \in Dispatchers, Connected(d)
      PROVE  Fenced'
  BY <1>10, FencedFrame DEF Connected
<1>11. ASSUME NEW d \in Dispatchers, ConnectFails(d)
      PROVE  Fenced'
  BY <1>11, FencedFrame DEF ConnectFails
<1>12. ASSUME NEW d \in Dispatchers, NEW ok \in DbOutcomes, MarkFailed(d, ok)
      PROVE  Fenced'
  <2>1. UNCHANGED reqSender \/ Reply(cur[d])
    BY <1>12 DEF MarkFailed, Refuse
  <2>2. \A p \in Requests : reqSender'[p] \in {0, reqSender[p]}
    BY <2>1 DEF Reply
  <2> QED
    BY <1>12, <2>2, FencedFrame DEF MarkFailed, Refuse, Fail, SetRow
<1>13. ASSUME NEW d \in Dispatchers, Forward(d)
      PROVE  Fenced'
  <2>1. UNCHANGED reqSender \/ Reply(cur[d])
    BY <1>13 DEF Forward, Refuse
  <2>2. \A p \in Requests : reqSender'[p] \in {0, reqSender[p]}
    BY <2>1 DEF Reply
  <2> QED
    BY <1>13, <2>2, FencedFrame DEF Forward, Refuse
<1>14. ASSUME NEW c \in Closers, NEW a \in Apps, CloseUpdate(c, a)
      PROVE  Fenced'
  BY <1>14, FencedFrame DEF CloseUpdate, Finish, SetRow, tableVars
<1>15. ASSUME NEW c \in Closers, CloseInvalidate(c)
      PROVE  Fenced'
  <2>1. closeTok[c] \in Apps /\ state[closeTok[c]] \notin {"NONE", "LAUNCHING"}
    BY <1>15 DEF CloseInvalidate, Senders
  <2>2. \A e \in Dispatchers : Clean(e)' = Clean(e)
    BY <1>15 DEF CloseInvalidate, Clean
  <2>3. UNCHANGED <<state, reqTok, reqSender, late>>
    BY <1>15 DEF CloseInvalidate
  <2>4. cache' = [cache EXCEPT ![closeTok[c]] = 0]
    BY <1>15 DEF CloseInvalidate
  <2>5. closed' = [closed EXCEPT ![closeTok[c]] = state[closeTok[c]] # "RUNNING"]
    BY <1>15 DEF CloseInvalidate
  <2>6. \A b \in Apps : closed[b] => closed'[b]
    BY <2>1, <2>5
  <2>7. ASSUME NEW b \in Apps, closed'[b]
        PROVE  /\ state'[b] \notin {"NONE", "LAUNCHING", "RUNNING"}
               /\ cache'[b] # 0 => Clean(cache[b])'
    <3>1. CASE b = closeTok[c]
      BY <2>1, <2>3, <2>4, <2>5, <2>7, <3>1
    <3>2. CASE b # closeTok[c]
      BY <2>1, <2>2, <2>3, <2>4, <2>5, <2>7, <3>2
    <3> QED
      BY <3>1, <3>2
  <2>8. ASSUME NEW p \in Requests, late'[p]
        PROVE  closed'[reqTok'[p]] /\ (reqSender'[p] # 0 => Clean(reqSender[p])')
    <3>1. reqTok[p] \in Apps
      BY <2>3, <2>8 DEF Senders
    <3> QED
      BY <2>2, <2>3, <2>6, <2>8, <3>1
  <2> QED
    BY <2>7, <2>8
<1>16. ASSUME NEW c \in Closers, CloseDropped(c)
      PROVE  Fenced'
  BY <1>16, FencedFrame DEF CloseDropped
<1>17. CASE TableChanges
  BY <1>17, FencedFrame DEF TableChanges, Create, Fail, Remove, SetRow, Terminal
<1>18. ASSUME NEW a \in Apps, DriverListens(a)
      PROVE  Fenced'
  BY <1>18, FencedFrame DEF DriverListens
<1>19. ASSUME NEW a \in Apps, DriverStops(a)
      PROVE  Fenced'
  BY <1>19, FencedFrame DEF DriverStops
<1>20. ASSUME NEW a \in Apps, NEW k \in Addresses, DriverRegisters(a, k)
      PROVE  Fenced'
  <2>1. \A q \in Requests : late'[q] => late[q] /\ reqTok[q] # a
    BY <1>20 DEF DriverRegisters
  <2>2. \A b \in Apps : closed'[b] => closed[b] /\ b # a
    BY <1>20 DEF DriverRegisters
  <2>3. \A b \in Apps : b # a => closed'[b] = closed[b] /\ state'[b] = state[b]
    BY <1>20 DEF DriverRegisters, Register, SetRow
  <2>4. \A q \in Requests : late[q] => reqTok[q] \in Apps
    BY DEF Senders
  <2> QED
    BY <1>20, <2>1, <2>2, <2>3, <2>4, FencedFrame DEF DriverRegisters
<1>21. CASE UNCHANGED vars
  BY <1>21, FencedFrame DEF vars, reqVars, closeVars
<1> QED
  BY <1>1, <1>2, <1>3, <1>4, <1>5, <1>6, <1>7, <1>8, <1>9, <1>10, <1>11,
     <1>12, <1>13, <1>14, <1>15, <1>16, <1>17, <1>18, <1>19, <1>20, <1>21
  DEF Next, RequestStep, DispatcherStep, Close, Environment

\* NoServiceAfterClose is preserved: a dispatcher with a connection works on
\* no late request.
LEMMA ServiceStep ==
    ASSUME UpstreamInv, [Next]_vars
    PROVE  NoServiceAfterClose'
<1> USE DEF UpstreamInv, TypeOK, NoServiceAfterClose, tableVars, reqVars,
        dispVars, driverVars, closeVars
<1>1. ASSUME NEW q \in Requests, NEW a \in Apps, RequestStart(q, a)
      PROVE  NoServiceAfterClose'
  BY <1>1 DEF RequestStart, Senders
<1>2. ASSUME NEW q \in Requests, NEW ok \in DbOutcomes, Lookup(q, ok)
      PROVE  NoServiceAfterClose'
  BY <1>2 DEF Lookup
<1>3. ASSUME NEW q \in Requests, Insert(q)
      PROVE  NoServiceAfterClose'
  BY <1>3 DEF Insert
<1>4. ASSUME NEW q \in Requests, Send(q)
      PROVE  NoServiceAfterClose'
  BY <1>4 DEF Send
<1>5. ASSUME NEW q \in Requests, Disconnect(q)
      PROVE  NoServiceAfterClose'
  BY <1>5 DEF Disconnect
<1>6. ASSUME NEW q \in Requests, Respond(q)
      PROVE  NoServiceAfterClose'
  BY <1>6 DEF Respond, Reply
<1>7. ASSUME NEW d \in Dispatchers, Recv(d)
      PROVE  NoServiceAfterClose'
  BY <1>7 DEF Recv
<1>8. ASSUME NEW d \in Dispatchers, Exit(d)
      PROVE  NoServiceAfterClose'
  BY <1>8 DEF Exit
<1>9. ASSUME NEW d \in Dispatchers, NEW ok \in DbOutcomes, Resolve(d, ok)
      PROVE  NoServiceAfterClose'
  BY <1>9 DEF Resolve, Resolved, Refuse
<1>10. ASSUME NEW d \in Dispatchers, Connected(d)
      PROVE  NoServiceAfterClose'
  BY <1>10 DEF Connected
<1>11. ASSUME NEW d \in Dispatchers, ConnectFails(d)
      PROVE  NoServiceAfterClose'
  BY <1>11 DEF ConnectFails
<1>12. ASSUME NEW d \in Dispatchers, NEW ok \in DbOutcomes, MarkFailed(d, ok)
      PROVE  NoServiceAfterClose'
  BY <1>12 DEF MarkFailed, Refuse
<1>13. ASSUME NEW d \in Dispatchers, Forward(d)
      PROVE  NoServiceAfterClose'
  <2>1. cur[d] \in Requests /\ ~ late[cur[d]]
    BY <1>13 DEF Forward, RoutedMessages, Routed, Clean
  <2> QED
    BY <1>13, <2>1 DEF Forward, Refuse
<1>14. ASSUME NEW c \in Closers, NEW a \in Apps, CloseUpdate(c, a)
      PROVE  NoServiceAfterClose'
  BY <1>14 DEF CloseUpdate, Finish, SetRow, tableVars
<1>15. ASSUME NEW c \in Closers, CloseInvalidate(c)
      PROVE  NoServiceAfterClose'
  BY <1>15 DEF CloseInvalidate
<1>16. ASSUME NEW c \in Closers, CloseDropped(c)
      PROVE  NoServiceAfterClose'
  BY <1>16 DEF CloseDropped
<1>17. CASE TableChanges
  BY <1>17 DEF TableChanges
<1>18. ASSUME NEW a \in Apps, DriverListens(a)
      PROVE  NoServiceAfterClose'
  BY <1>18 DEF DriverListens
<1>19. ASSUME NEW a \in Apps, DriverStops(a)
      PROVE  NoServiceAfterClose'
  BY <1>19 DEF DriverStops
<1>20. ASSUME NEW a \in Apps, NEW k \in Addresses, DriverRegisters(a, k)
      PROVE  NoServiceAfterClose'
  BY <1>20 DEF DriverRegisters, Register, SetRow
<1>21. CASE UNCHANGED vars
  BY <1>21 DEF vars
<1> QED
  BY <1>1, <1>2, <1>3, <1>4, <1>5, <1>6, <1>7, <1>8, <1>9, <1>10, <1>11,
     <1>12, <1>13, <1>14, <1>15, <1>16, <1>17, <1>18, <1>19, <1>20, <1>21
  DEF Next, RequestStep, DispatcherStep, Close, Environment

\* A cached dispatcher is not replaced by a step.
LEMMA ReplacedStep ==
    ASSUME UpstreamInv, [Next]_vars
    PROVE  \A b \in Apps : cache[b] # 0 /\ cache'[b] # cache[b] => cache'[b] = 0
<1> USE DEF UpstreamInv, TypeOK, tableVars, reqVars, dispVars, driverVars,
        closeVars
<1>1. ASSUME NEW q \in Requests, NEW a \in Apps, RequestStart(q, a)
      PROVE  \A b \in Apps : cache[b] # 0 /\ cache'[b] # cache[b] => cache'[b] = 0
  BY <1>1 DEF RequestStart
<1>2. ASSUME NEW q \in Requests, NEW ok \in DbOutcomes, Lookup(q, ok)
      PROVE  \A b \in Apps : cache[b] # 0 /\ cache'[b] # cache[b] => cache'[b] = 0
  BY <1>2 DEF Lookup
<1>3. ASSUME NEW q \in Requests, Insert(q)
      PROVE  \A b \in Apps : cache[b] # 0 /\ cache'[b] # cache[b] => cache'[b] = 0
  <2>1. CASE UNCHANGED cache
    BY <2>1
  <2>2. CASE ~ Open(reqTok[q]) /\ \E d \in Dispatchers : Spawn(q, d)
    <3>1. PICK d \in Dispatchers : Spawn(q, d)
      BY <2>2
    <3>2. cache[reqTok[q]] = 0
      BY <1>3, <2>2 DEF Insert, Open, IsClosed, SenderOutlivesUse, HasSender, Senders
    <3> QED
      BY <3>1, <3>2 DEF Spawn
  <2> QED
    BY <1>3, <2>1, <2>2 DEF Insert
<1>4. ASSUME NEW q \in Requests, Send(q)
      PROVE  \A b \in Apps : cache[b] # 0 /\ cache'[b] # cache[b] => cache'[b] = 0
  BY <1>4 DEF Send, IsClosed
<1>5. ASSUME NEW q \in Requests, Disconnect(q)
      PROVE  \A b \in Apps : cache[b] # 0 /\ cache'[b] # cache[b] => cache'[b] = 0
  BY <1>5 DEF Disconnect
<1>6. ASSUME NEW q \in Requests, Respond(q)
      PROVE  \A b \in Apps : cache[b] # 0 /\ cache'[b] # cache[b] => cache'[b] = 0
  BY <1>6 DEF Respond
<1>7. ASSUME NEW d \in Dispatchers, Recv(d)
      PROVE  \A b \in Apps : cache[b] # 0 /\ cache'[b] # cache[b] => cache'[b] = 0
  BY <1>7 DEF Recv
<1>8. ASSUME NEW d \in Dispatchers, Exit(d)
      PROVE  \A b \in Apps : cache[b] # 0 /\ cache'[b] # cache[b] => cache'[b] = 0
  BY <1>8 DEF Exit
<1>9. ASSUME NEW d \in Dispatchers, NEW ok \in DbOutcomes, Resolve(d, ok)
      PROVE  \A b \in Apps : cache[b] # 0 /\ cache'[b] # cache[b] => cache'[b] = 0
  BY <1>9 DEF Resolve
<1>10. ASSUME NEW d \in Dispatchers, Connected(d)
      PROVE  \A b \in Apps : cache[b] # 0 /\ cache'[b] # cache[b] => cache'[b] = 0
  BY <1>10 DEF Connected
<1>11. ASSUME NEW d \in Dispatchers, ConnectFails(d)
      PROVE  \A b \in Apps : cache[b] # 0 /\ cache'[b] # cache[b] => cache'[b] = 0
  BY <1>11 DEF ConnectFails
<1>12. ASSUME NEW d \in Dispatchers, NEW ok \in DbOutcomes, MarkFailed(d, ok)
      PROVE  \A b \in Apps : cache[b] # 0 /\ cache'[b] # cache[b] => cache'[b] = 0
  BY <1>12 DEF MarkFailed
<1>13. ASSUME NEW d \in Dispatchers, Forward(d)
      PROVE  \A b \in Apps : cache[b] # 0 /\ cache'[b] # cache[b] => cache'[b] = 0
  BY <1>13 DEF Forward
<1>14. ASSUME NEW c \in Closers, NEW a \in Apps, CloseUpdate(c, a)
      PROVE  \A b \in Apps : cache[b] # 0 /\ cache'[b] # cache[b] => cache'[b] = 0
  BY <1>14 DEF CloseUpdate, Finish, SetRow, tableVars
<1>15. ASSUME NEW c \in Closers, CloseInvalidate(c)
      PROVE  \A b \in Apps : cache[b] # 0 /\ cache'[b] # cache[b] => cache'[b] = 0
  BY <1>15 DEF CloseInvalidate
<1>16. ASSUME NEW c \in Closers, CloseDropped(c)
      PROVE  \A b \in Apps : cache[b] # 0 /\ cache'[b] # cache[b] => cache'[b] = 0
  BY <1>16 DEF CloseDropped
<1>17. CASE TableChanges
  BY <1>17 DEF TableChanges
<1>18. ASSUME NEW a \in Apps, DriverListens(a)
      PROVE  \A b \in Apps : cache[b] # 0 /\ cache'[b] # cache[b] => cache'[b] = 0
  BY <1>18 DEF DriverListens
<1>19. ASSUME NEW a \in Apps, DriverStops(a)
      PROVE  \A b \in Apps : cache[b] # 0 /\ cache'[b] # cache[b] => cache'[b] = 0
  BY <1>19 DEF DriverStops
<1>20. ASSUME NEW a \in Apps, NEW k \in Addresses, DriverRegisters(a, k)
      PROVE  \A b \in Apps : cache[b] # 0 /\ cache'[b] # cache[b] => cache'[b] = 0
  BY <1>20 DEF DriverRegisters, Register, SetRow
<1>21. CASE UNCHANGED vars
  BY <1>21 DEF vars
<1> QED
  BY <1>1, <1>2, <1>3, <1>4, <1>5, <1>6, <1>7, <1>8, <1>9, <1>10, <1>11,
     <1>12, <1>13, <1>14, <1>15, <1>16, <1>17, <1>18, <1>19, <1>20, <1>21
  DEF Next, RequestStep, DispatcherStep, Close, Environment

-----------------------------------------------------------------------------
\* The invariant holds initially.
LEMMA UpstreamInvInit ==
    ASSUME Init
    PROVE  UpstreamInv
<1> USE DEF Init, TableInit
<1>1. TypeOK
  BY TableAssumption, UpstreamAssumption
  DEF TypeOK, State, Addresses, NoAddress, Dispatchers
<1>2. Senders /\ Fenced /\ NoServiceAfterClose
  BY DEF Senders, Fenced, NoServiceAfterClose
<1>3. SenderOutlivesUse
  BY DEF SenderOutlivesUse, HasSender, Dispatchers
<1>4. RoutedMessages
  <2>1. \A d \in Dispatchers : Messages(d) = {}
    BY DEF Messages
  <2> QED
    BY <2>1 DEF RoutedMessages
<1> QED
  BY <1>1, <1>2, <1>3, <1>4 DEF UpstreamInv

\* The inductive invariant of the proxy: every Sender, message, request and
\* ended session is tied to the right dispatcher.
THEOREM UpstreamInvariant == Spec => []UpstreamInv
<1>1. Init => UpstreamInv
  BY UpstreamInvInit
<1>2. UpstreamInv /\ [Next]_vars => UpstreamInv'
  <2> SUFFICES ASSUME UpstreamInv, [Next]_vars
               PROVE  UpstreamInv'
    OBVIOUS
  <2>1. TypeOK /\ Senders /\ RoutedMessages
    BY DEF UpstreamInv
  <2>2. TypeOK'
    BY <2>1, TypeStep
  <2>3. RequestsStay /\ CleanStays
    BY StayStep, CleanStep
  <2>4. SenderOutlivesUse' /\ Senders'
    BY <2>2, SenderStep, SendersStep
  <2>5. RoutedMessages' /\ Fenced' /\ NoServiceAfterClose'
    BY <2>2, <2>3, RoutedStep, FencedStep, ServiceStep
  <2> QED
    BY <2>2, <2>4, <2>5 DEF UpstreamInv
<1> QED
  BY <1>1, <1>2, PTL DEF Spec

\* The cached sender and the clone of a request under way always have their
\* dispatcher: a Receiver is never dropped while somebody may send to it.
THEOREM SenderOutlivesUseAlways == Spec => []SenderOutlivesUse
<1>1. UpstreamInv => SenderOutlivesUse
  BY DEF UpstreamInv
<1> QED
  BY <1>1, UpstreamInvariant, PTL

\* Once delete_app or app_callback_delete has returned, no request that begins
\* later reaches a driver of the session, until one registers again.
THEOREM NoServiceAfterCloseAlways == Spec => []NoServiceAfterClose
<1>1. UpstreamInv => NoServiceAfterClose
  BY DEF UpstreamInv
<1> QED
  BY <1>1, UpstreamInvariant, PTL

\* The double-checked insert of sender_for never replaces a cached dispatcher.
THEOREM NeverReplacedAlways == Spec => NeverReplaced
<1>1. UpstreamInv /\ [Next]_vars =>
          [\A a \in Apps : cache[a] # 0 /\ cache'[a] # cache[a] => cache'[a] = 0]_vars
  BY ReplacedStep
<1> QED
  BY <1>1, UpstreamInvariant, PTL DEF Spec, NeverReplaced
=============================================================================
