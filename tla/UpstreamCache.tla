--------------------------- MODULE UpstreamCache ---------------------------
(***************************************************************************)
(* The proxy of one server process: UpstreamConnectionCache, the dispatcher *)
(* task of each cached token and the Spark Connect requests that go through *)
(* them.  The process is multi-threaded: a step is what happens under the  *)
(* mutex, one database statement, or one poll of a channel.                *)
(*                                                                         *)
(* The rest of the system is seen through the `application` table, which   *)
(* may change in any way ApplicationTable allows (SessionLifecycle is      *)
(* proved to implement it), and through the two handlers that end a        *)
(* session and invalidate its token, delete_app and app_callback_delete.   *)
(*                                                                         *)
(* A request is made once, with the token of session reqTok; before the    *)
(* session is created and after it is pruned, that is a token without a    *)
(* row.  A dispatcher stands for the task and for its mpsc channel.        *)
(***************************************************************************)
EXTENDS ApplicationTable, Sequences

CONSTANTS
    Requests,        \* Spark Connect requests, each made once
    NoRequest,       \* no request
    MaxDispatchers,  \* number of dispatcher tasks ever spawned
    Closers,         \* slots for concurrent delete_app / app_callback_delete
    ConnectRetries,  \* MAX_UPSTREAM_CONNECT_RETRIES
    ProxyFaults      \* a subset of ProxyFaultKinds

ProxyFaultKinds ==
    {"disconnect",   \* a client goes away and its future is dropped
     "db"}           \* a statement fails with a DbErr

Dispatchers == 1 .. MaxDispatchers

ASSUME UpstreamAssumption ==
    /\ NoRequest \notin Requests
    /\ MaxDispatchers \in Nat
    /\ ConnectRetries \in Nat
    /\ ProxyFaults \subseteq ProxyFaultKinds

VARIABLES
    cache,       \* connections: the dispatcher cached for each token, or 0
    reqPc,       \* dispatch_request: where each request is
    reqTok,      \* its token
    reqSender,   \* the Sender clone it holds, by dispatcher, or 0
    late,        \* history: the session had ended before the request began
                 \* and no driver registered since
    fwd,         \* history: the address the request was sent to, or 0
    dispPc,      \* upstream_connection: where each dispatcher is
    dispTok,     \* its token
    queue,       \* the messages in its channel
    cur,         \* the message it works on
    upstream,    \* its connection, by address, or 0
    tryAddr,     \* the address it tries to connect to
    tries,       \* attempts that failed
    attempt,     \* the address of the session's last driver
    alive,       \* does that driver accept connections?
    closePc, closeTok,   \* delete_app / app_callback_delete after its update
    closed       \* history: such a handler has completed, and no driver
                 \* registered since

reqVars == <<reqPc, reqTok, reqSender, late, fwd>>
dispVars == <<dispPc, dispTok, queue, cur, upstream, tryAddr, tries>>
driverVars == <<attempt, alive>>
closeVars == <<closePc, closeTok, closed>>
vars == <<state, address, cache, reqVars, dispVars, driverVars, closeVars>>

TypeOK ==
    /\ state \in [Apps -> State \cup {"NONE", "PRUNED"}]
    /\ address \in [Apps -> Addresses \cup {NoAddress}]
    /\ cache \in [Apps -> Dispatchers \cup {0}]
    /\ reqPc \in [Requests -> {"idle", "lookup", "insert", "send", "wait", "done", "gone"}]
    /\ reqTok \in [Requests -> Apps \cup {0}]
    /\ reqSender \in [Requests -> Dispatchers \cup {0}]
    /\ late \in [Requests -> BOOLEAN]
    /\ fwd \in [Requests -> Addresses \cup {NoAddress}]
    /\ dispPc \in [Dispatchers -> {"none", "recv", "resolve", "connect", "mark",
                                   "forward", "exited"}]
    /\ dispTok \in [Dispatchers -> Apps \cup {0}]
    /\ queue \in [Dispatchers -> Seq(Requests)]
    /\ cur \in [Dispatchers -> Requests \cup {NoRequest}]
    /\ upstream \in [Dispatchers -> Addresses \cup {NoAddress}]
    /\ tryAddr \in [Dispatchers -> Addresses \cup {NoAddress}]
    /\ tries \in [Dispatchers -> 0 .. ConnectRetries]
    /\ attempt \in [Apps -> Addresses \cup {NoAddress}]
    /\ alive \in [Apps -> BOOLEAN]
    /\ closePc \in [Closers -> {"idle", "invalidate"}]
    /\ closeTok \in [Closers -> Apps \cup {0}]
    /\ closed \in [Apps -> BOOLEAN]

Init ==
    /\ TableInit
    /\ cache = [a \in Apps |-> 0]
    /\ reqPc = [q \in Requests |-> "idle"]
    /\ reqTok = [q \in Requests |-> 0]
    /\ reqSender = [q \in Requests |-> 0]
    /\ late = [q \in Requests |-> FALSE]
    /\ fwd = [q \in Requests |-> NoAddress]
    /\ dispPc = [d \in Dispatchers |-> "none"]
    /\ dispTok = [d \in Dispatchers |-> 0]
    /\ queue = [d \in Dispatchers |-> <<>>]
    /\ cur = [d \in Dispatchers |-> NoRequest]
    /\ upstream = [d \in Dispatchers |-> NoAddress]
    /\ tryAddr = [d \in Dispatchers |-> NoAddress]
    /\ tries = [d \in Dispatchers |-> 0]
    /\ attempt = [a \in Apps |-> NoAddress]
    /\ alive = [a \in Apps |-> FALSE]
    /\ closePc = [c \in Closers |-> "idle"]
    /\ closeTok = [c \in Closers |-> 0]
    /\ closed = [a \in Apps |-> FALSE]

-----------------------------------------------------------------------------
(* Channels                                                                *)

\* Some Sender of dispatcher d's channel is left: the cached one, or the
\* clone of a request that has not returned.
HasSender(d) ==
    \/ \E a \in Apps : cache[a] = d
    \/ \E q \in Requests : reqSender[q] = d

\* sender.is_closed(): the Receiver is gone.
IsClosed(d) == dispPc[d] = "exited"

Listening(a, k) == alive[a] /\ attempt[a] = k

Open(a) == cache[a] # 0 /\ ~ IsClosed(cache[a])

-----------------------------------------------------------------------------
(* dispatch_request and sender_for                                         *)

\* First look into the cache, under the mutex: a hit clones the sender, a
\* miss goes on to the database.
RequestStart(q, a) ==
    /\ reqPc[q] = "idle"
    /\ reqTok' = [reqTok EXCEPT ![q] = a]
    /\ late' = [late EXCEPT ![q] = closed[a]]
    /\ \/ /\ Open(a)
          /\ reqPc' = [reqPc EXCEPT ![q] = "send"]
          /\ reqSender' = [reqSender EXCEPT ![q] = cache[a]]
       \/ /\ ~ Open(a)
          /\ reqPc' = [reqPc EXCEPT ![q] = "lookup"]
          /\ UNCHANGED reqSender
    /\ UNCHANGED <<tableVars, cache, fwd, dispVars, driverVars, closeVars>>

\* The row is looked up by token; without one the request is answered
\* ApplicationNotFound.
Lookup(q, ok) ==
    /\ reqPc[q] = "lookup"
    /\ reqPc' = [reqPc EXCEPT ![q] = IF ok /\ Exists(reqTok[q]) THEN "insert" ELSE "done"]
    /\ UNCHANGED <<tableVars, cache, reqTok, reqSender, late, fwd, dispVars,
                   driverVars, closeVars>>

\* A channel is made, its sender cached and cloned, its dispatcher spawned.
Spawn(q, d) ==
    /\ dispPc[d] = "none"
    /\ \A e \in Dispatchers : e < d => dispPc[e] # "none"
    /\ cache' = [cache EXCEPT ![reqTok[q]] = d]
    /\ reqSender' = [reqSender EXCEPT ![q] = d]
    /\ dispPc' = [dispPc EXCEPT ![d] = "recv"]
    /\ dispTok' = [dispTok EXCEPT ![d] = reqTok[q]]
    /\ UNCHANGED <<queue, cur, upstream, tryAddr, tries>>

\* Fault-seeded variant: the second look into the cache is missing.
InsertUnchecked(q) ==
    /\ reqPc[q] = "insert"
    /\ reqPc' = [reqPc EXCEPT ![q] = "send"]
    /\ \E d \in Dispatchers : Spawn(q, d)
    /\ UNCHANGED <<tableVars, reqTok, late, fwd, driverVars, closeVars>>

\* Second look, under the mutex taken again: another request may have
\* inserted a dispatcher in the meantime.
Insert(q) ==
    LET a == reqTok[q] IN
    /\ reqPc[q] = "insert"
    /\ reqPc' = [reqPc EXCEPT ![q] = "send"]
    /\ \/ /\ Open(a)
          /\ reqSender' = [reqSender EXCEPT ![q] = cache[a]]
          /\ UNCHANGED <<cache, dispVars>>
       \/ /\ ~ Open(a)
          /\ \E d \in Dispatchers : Spawn(q, d)
    /\ UNCHANGED <<tableVars, reqTok, late, fwd, driverVars, closeVars>>

\* The request goes into the channel.  When the receiver is gone the closed
\* entry is removed and the request fails.
Send(q) ==
    LET d == reqSender[q]
        a == reqTok[q] IN
    /\ reqPc[q] = "send"
    /\ \/ /\ ~ IsClosed(d)
          /\ queue' = [queue EXCEPT ![d] = Append(@, q)]
          /\ reqPc' = [reqPc EXCEPT ![q] = "wait"]
          /\ UNCHANGED <<cache, reqSender>>
       \/ /\ IsClosed(d)
          /\ cache' = IF cache[a] # 0 /\ IsClosed(cache[a])
                      THEN [cache EXCEPT ![a] = 0] ELSE cache
          /\ reqPc' = [reqPc EXCEPT ![q] = "done"]
          /\ reqSender' = [reqSender EXCEPT ![q] = 0]
          /\ UNCHANGED queue
    /\ UNCHANGED <<tableVars, reqTok, late, fwd, dispPc, dispTok, cur, upstream,
                   tryAddr, tries, driverVars, closeVars>>

\* The client goes away: the future of dispatch_request is dropped and with
\* it the Sender clone.  A message already in the channel stays there.
Disconnect(q) ==
    /\ "disconnect" \in ProxyFaults
    /\ reqPc[q] \in {"lookup", "insert", "send", "wait"}
    /\ reqPc' = [reqPc EXCEPT ![q] = "gone"]
    /\ reqSender' = [reqSender EXCEPT ![q] = 0]
    /\ UNCHANGED <<tableVars, cache, reqTok, late, fwd, dispVars, driverVars, closeVars>>

\* tx.send(..): the waiting request returns and drops its Sender; for one
\* that is gone the answer is discarded.
Reply(q) ==
    IF reqPc[q] = "wait"
    THEN /\ reqPc' = [reqPc EXCEPT ![q] = "done"]
         /\ reqSender' = [reqSender EXCEPT ![q] = 0]
    ELSE UNCHANGED <<reqPc, reqSender>>

-----------------------------------------------------------------------------
(* upstream_connection, the dispatcher task                                *)

\* rx.recv() returns a message; its token is the dispatcher's.
Recv(d) ==
    /\ dispPc[d] = "recv"
    /\ queue[d] # <<>>
    /\ cur' = [cur EXCEPT ![d] = Head(queue[d])]
    /\ queue' = [queue EXCEPT ![d] = Tail(@)]
    /\ dispPc' = [dispPc EXCEPT ![d] = IF upstream[d] = NoAddress THEN "resolve" ELSE "forward"]
    /\ UNCHANGED <<tableVars, cache, reqVars, dispTok, upstream, tryAddr, tries,
                   driverVars, closeVars>>

\* Fault-seeded variant: the task holds a Sender of its own channel.
ExitHoldingSender(d) ==
    /\ dispPc[d] = "recv"
    /\ queue[d] = <<>>
    /\ ~ HasSender(d) /\ dispTok[d] = 0
    /\ dispPc' = [dispPc EXCEPT ![d] = "exited"]
    /\ UNCHANGED <<tableVars, cache, reqVars, dispTok, queue, cur, upstream, tryAddr,
                   tries, driverVars, closeVars>>

\* rx.recv() returns None: no Sender is left and the channel is empty.
Exit(d) ==
    /\ dispPc[d] = "recv"
    /\ queue[d] = <<>>
    /\ ~ HasSender(d)
    /\ dispPc' = [dispPc EXCEPT ![d] = "exited"]
    /\ UNCHANGED <<tableVars, cache, reqVars, dispTok, queue, cur, upstream, tryAddr,
                   tries, driverVars, closeVars>>

\* The message is answered with an error and the loop continues.
Refuse(d) ==
    /\ Reply(cur[d])
    /\ dispPc' = [dispPc EXCEPT ![d] = "recv"]
    /\ cur' = [cur EXCEPT ![d] = NoRequest]
    /\ UNCHANGED <<reqTok, late, fwd, dispTok, queue>>

\* resolve_upstream_address read a RUNNING row with an address.
Resolved(d) ==
    /\ state[dispTok[d]] = "RUNNING" /\ address[dispTok[d]] # NoAddress
    /\ dispPc' = [dispPc EXCEPT ![d] = "connect"]
    /\ tryAddr' = [tryAddr EXCEPT ![d] = address[dispTok[d]]]
    /\ tries' = [tries EXCEPT ![d] = 0]
    /\ UNCHANGED <<reqVars, dispTok, queue, cur, upstream>>

\* Fault-seeded variant: every state but RUNNING is waited for.
ResolveWaits(d, ok) ==
    /\ dispPc[d] = "resolve"
    /\ \/ ok /\ HasSender(d) /\ Resolved(d)
       \/ /\ ~ ok \/ ~ HasSender(d) \/ ~ Exists(dispTok[d])
          /\ Refuse(d)
          /\ UNCHANGED <<upstream, tryAddr, tries>>
    /\ UNCHANGED <<tableVars, cache, driverVars, closeVars>>

\* One round of the loop of resolve_upstream_address.  It ends in an error
\* when no Sender is left, the row is gone or its state is terminal; while
\* the session is LAUNCHING it sleeps and tries again, which changes nothing.
Resolve(d, ok) ==
    /\ dispPc[d] = "resolve"
    /\ \/ ok /\ HasSender(d) /\ Resolved(d)
       \/ /\ \/ ~ ok
             \/ ~ HasSender(d)
             \/ state[dispTok[d]] \notin {"LAUNCHING", "RUNNING"}
             \/ state[dispTok[d]] = "RUNNING" /\ address[dispTok[d]] = NoAddress
          /\ Refuse(d)
          /\ UNCHANGED <<upstream, tryAddr, tries>>
    /\ UNCHANGED <<tableVars, cache, driverVars, closeVars>>

\* One attempt of connect_upstream succeeds, in time or after retries.
Connected(d) ==
    /\ dispPc[d] = "connect"
    /\ Listening(dispTok[d], tryAddr[d])
    /\ dispPc' = [dispPc EXCEPT ![d] = "forward"]
    /\ upstream' = [upstream EXCEPT ![d] = tryAddr[d]]
    /\ tryAddr' = [tryAddr EXCEPT ![d] = NoAddress]
    /\ tries' = [tries EXCEPT ![d] = 0]
    /\ UNCHANGED <<tableVars, cache, reqVars, dispTok, queue, cur, driverVars, closeVars>>

\* Fault-seeded variant: an attempt too many.
ConnectFailsOnceMore(d) ==
    /\ dispPc[d] = "connect"
    /\ \/ /\ tries[d] <= ConnectRetries
          /\ tries' = [tries EXCEPT ![d] = @ + 1]
          /\ UNCHANGED <<dispPc, tryAddr>>
       \/ /\ tries[d] > ConnectRetries
          /\ tries' = [tries EXCEPT ![d] = 0]
          /\ tryAddr' = [tryAddr EXCEPT ![d] = NoAddress]
          /\ dispPc' = [dispPc EXCEPT ![d] = "mark"]
    /\ UNCHANGED <<tableVars, cache, reqVars, dispTok, queue, cur, upstream, driverVars, closeVars>>

\* One attempt fails; after the last one the session is to be failed.
ConnectFails(d) ==
    /\ dispPc[d] = "connect"
    /\ \/ /\ tries[d] < ConnectRetries
          /\ tries' = [tries EXCEPT ![d] = @ + 1]
          /\ UNCHANGED <<dispPc, tryAddr>>
       \/ /\ tries[d] = ConnectRetries
          /\ tries' = [tries EXCEPT ![d] = 0]
          /\ tryAddr' = [tryAddr EXCEPT ![d] = NoAddress]
          /\ dispPc' = [dispPc EXCEPT ![d] = "mark"]
    /\ UNCHANGED <<tableVars, cache, reqVars, dispTok, queue, cur, upstream, driverVars, closeVars>>

\* Fault-seeded variant: the task ends with the session it failed.
MarkFailedAndExit(d, ok) ==
    /\ dispPc[d] = "mark"
    /\ IF ok /\ Exists(dispTok[d]) THEN Fail(dispTok[d]) ELSE UNCHANGED tableVars
    /\ Reply(cur[d])
    /\ dispPc' = [dispPc EXCEPT ![d] = "exited"]
    /\ cur' = [cur EXCEPT ![d] = NoRequest]
    /\ UNCHANGED <<cache, reqTok, late, fwd, dispTok, queue, upstream, tryAddr, tries,
                   driverVars, closeVars>>

\* mark_application_failed, then the message is answered with the last error.
MarkFailed(d, ok) ==
    /\ dispPc[d] = "mark"
    /\ IF ok /\ Exists(dispTok[d]) THEN Fail(dispTok[d]) ELSE UNCHANGED tableVars
    /\ Refuse(d)
    /\ UNCHANGED <<cache, upstream, tryAddr, tries, driverVars, closeVars>>

\* sender.ready() and send_request over the connection; its driver is still
\* there or the connection is closed, forgotten, and the message refused.
Forward(d) ==
    /\ dispPc[d] = "forward"
    /\ \/ /\ Listening(dispTok[d], upstream[d])
          /\ fwd' = [fwd EXCEPT ![cur[d]] = upstream[d]]
          /\ dispPc' = [dispPc EXCEPT ![d] = "recv"]
          /\ cur' = [cur EXCEPT ![d] = NoRequest]
          /\ UNCHANGED <<reqPc, reqTok, reqSender, late, dispTok, queue, upstream>>
       \/ /\ ~ Listening(dispTok[d], upstream[d])
          /\ upstream' = [upstream EXCEPT ![d] = NoAddress]
          /\ Refuse(d)
    /\ UNCHANGED <<tableVars, cache, tryAddr, tries, driverVars, closeVars>>

\* The spawned response task: the driver answers or the connection breaks.
Respond(q) ==
    /\ reqPc[q] = "wait"
    /\ fwd[q] # NoAddress
    /\ Reply(q)
    /\ UNCHANGED <<tableVars, cache, reqTok, late, fwd, dispVars, driverVars, closeVars>>

-----------------------------------------------------------------------------
(* delete_app and app_callback_delete, as far as the proxy sees them        *)

\* The update of the row.  delete_app found it in an earlier statement and
\* goes on if it has been pruned since.
CloseUpdate(c, a) ==
    /\ closePc[c] = "idle"
    /\ \/ Finish(a)
       \/ state[a] = "PRUNED" /\ UNCHANGED tableVars
    /\ closePc' = [closePc EXCEPT ![c] = "invalidate"]
    /\ closeTok' = [closeTok EXCEPT ![c] = a]
    /\ UNCHANGED <<cache, reqVars, dispVars, driverVars, closed>>

\* Fault-seeded variant: the token is not invalidated.
CloseKeepingEntry(c) ==
    /\ closePc[c] = "invalidate"
    /\ closed' = [closed EXCEPT ![closeTok[c]] = state[closeTok[c]] # "RUNNING"]
    /\ closePc' = [closePc EXCEPT ![c] = "idle"]
    /\ closeTok' = [closeTok EXCEPT ![c] = 0]
    /\ UNCHANGED <<tableVars, cache, reqVars, dispVars, driverVars>>

\* invalidate(token), after which the handler returns.  A driver may have
\* registered since the update; then the session is not over.
CloseInvalidate(c) ==
    /\ closePc[c] = "invalidate"
    /\ cache' = [cache EXCEPT ![closeTok[c]] = 0]
    /\ closed' = [closed EXCEPT ![closeTok[c]] = state[closeTok[c]] # "RUNNING"]
    /\ closePc' = [closePc EXCEPT ![c] = "idle"]
    /\ closeTok' = [closeTok EXCEPT ![c] = 0]
    /\ UNCHANGED <<tableVars, reqVars, dispVars, driverVars>>

\* The handler's future is dropped between the two.
CloseDropped(c) ==
    /\ "disconnect" \in ProxyFaults
    /\ closePc[c] = "invalidate"
    /\ closePc' = [closePc EXCEPT ![c] = "idle"]
    /\ closeTok' = [closeTok EXCEPT ![c] = 0]
    /\ UNCHANGED <<tableVars, cache, reqVars, dispVars, driverVars, closed>>

-----------------------------------------------------------------------------
(* The rest of the system                                                  *)

\* Sessions are created, failed and pruned.  Nothing makes sure that a launch
\* ends: a create_app that was dropped, a DbErr of its monitor or a restart of
\* the server leaves the row LAUNCHING.
TableChanges ==
    /\ \/ \E a \in Apps : Create(a) \/ Fail(a)
       \/ \E cutoff \in Apps : Remove(cutoff)
    /\ UNCHANGED <<cache, reqVars, dispVars, driverVars, closeVars>>

\* A driver registers, in time or late.
DriverRegisters(a, k) ==
    /\ k <= attempt[a]
    /\ Register(a, k)
    /\ closed' = [closed EXCEPT ![a] = FALSE]
    /\ late' = [q \in Requests |-> late[q] /\ reqTok[q] # a]
    /\ UNCHANGED <<cache, reqPc, reqTok, reqSender, fwd, dispVars, driverVars,
                   closePc, closeTok>>

\* A driver starts to listen at a new address, or stops for good; so does
\* every connection to it.
DriverListens(a) ==
    /\ ~ alive[a]
    /\ Exists(a)
    /\ attempt[a] < MaxAttempts
    /\ attempt' = [attempt EXCEPT ![a] = @ + 1]
    /\ alive' = [alive EXCEPT ![a] = TRUE]
    /\ UNCHANGED <<tableVars, cache, reqVars, dispVars, closeVars>>

DriverStops(a) ==
    /\ alive[a]
    /\ alive' = [alive EXCEPT ![a] = FALSE]
    /\ UNCHANGED <<tableVars, cache, reqVars, dispVars, attempt, closeVars>>

-----------------------------------------------------------------------------
DbOutcomes == IF "db" \in ProxyFaults THEN BOOLEAN ELSE {TRUE}

\* The steps of a request's own future, and of its response task.
RequestStep(q) ==
    \/ \E ok \in DbOutcomes : Lookup(q, ok)
    \/ Insert(q)
    \/ Send(q)
    \/ Respond(q)

DispatcherStep(d) ==
    \/ Recv(d)
    \/ Exit(d)
    \/ \E ok \in DbOutcomes : Resolve(d, ok) \/ MarkFailed(d, ok)
    \/ Connected(d)
    \/ ConnectFails(d)
    \/ Forward(d)

Close(c) ==
    \/ \E a \in Apps : CloseUpdate(c, a)
    \/ CloseInvalidate(c)
    \/ CloseDropped(c)

Environment ==
    \/ TableChanges
    \/ \E a \in Apps : DriverListens(a) \/ DriverStops(a)
    \/ \E a \in Apps, k \in Addresses : DriverRegisters(a, k)

Next ==
    \/ \E q \in Requests : (\E a \in Apps : RequestStart(q, a)) \/ RequestStep(q) \/ Disconnect(q)
    \/ \E d \in Dispatchers : DispatcherStep(d)
    \/ \E c \in Closers : Close(c)
    \/ Environment

Spec == Init /\ [][Next]_vars

-----------------------------------------------------------------------------
(* Safety                                                                  *)

\* The double-checked insert of sender_for never puts a second dispatcher in
\* the place of a live one: only an invalidation takes an entry away, so that
\* a token has one dispatcher, and one connection, at a time.
NeverReplaced ==
    [][\A a \in Apps : cache[a] # 0 /\ cache'[a] # cache[a] => cache'[a] = 0]_vars

\* A channel outlives everyone who may send to it: the cached sender and the
\* clone of a request under way always have their dispatcher.  The branches
\* for a closed sender (is_closed, remove_closed, "Upstream unexpectedly
\* closed") are never taken.
SenderOutlivesUse ==
    \A d \in Dispatchers : HasSender(d) => dispPc[d] \notin {"none", "exited"}

\* Once delete_app or app_callback_delete has returned, no request that begins
\* later reaches the session's driver, until a driver registers again: neither
\* over the connection of the dispatcher that was cached, nor through a
\* dispatcher that a concurrent request inserts in the meantime.
NoServiceAfterClose == \A q \in Requests : late[q] => fwd[q] = NoAddress

-----------------------------------------------------------------------------
(* The inductive invariant                                                 *)

\* A dispatcher that has no connection and does not try to get one.
Clean(d) == upstream[d] = NoAddress /\ dispPc[d] \in {"recv", "resolve", "exited"}

\* A request in dispatcher d's channel or at work has d's token, and holds a
\* Sender of d or is gone; if it began after its session ended, d is clean.
Routed(d, q) ==
    /\ reqTok[q] = dispTok[d]
    /\ \/ reqPc[q] = "wait" /\ reqSender[q] = d
       \/ reqPc[q] \in {"gone", "done"}
    /\ late[q] => Clean(d)

\* The messages in dispatcher d's channel.
Messages(d) == {queue[d][n] : n \in DOMAIN queue[d]}

\* Every message is where it belongs; a channel not made yet is empty.
RoutedMessages ==
    \A d \in Dispatchers :
        /\ dispPc[d] # "none" => dispTok[d] \in Apps
        /\ dispPc[d] = "none" => upstream[d] = NoAddress /\ Messages(d) = {}
        /\ dispPc[d] \in {"resolve", "connect", "mark", "forward"} =>
               cur[d] \in Requests /\ Routed(d, cur[d])
        /\ \A q \in Messages(d) : Routed(d, q)

\* Which Sender belongs to which request and token.
Senders ==
    /\ \A a \in Apps : cache[a] # 0 => dispTok[cache[a]] = a
    /\ \A q \in Requests :
           /\ reqPc[q] \in {"send", "wait"} <=> reqSender[q] # 0
           /\ reqSender[q] # 0 => dispTok[reqSender[q]] = reqTok[q]
           /\ reqPc[q] # "idle" => reqTok[q] \in Apps
           /\ reqPc[q] = "idle" => ~ late[q]
           /\ reqPc[q] \in {"idle", "lookup", "insert", "send"} => fwd[q] = NoAddress
    /\ \A c \in Closers : closePc[c] = "invalidate" =>
           closeTok[c] \in Apps /\ state[closeTok[c]] \notin {"NONE", "LAUNCHING"}

\* While a session is over, every dispatcher that new requests can get at is
\* clean: it was spawned after the row left RUNNING.
Fenced ==
    /\ \A a \in Apps : closed[a] =>
           /\ state[a] \notin {"NONE", "LAUNCHING", "RUNNING"}
           /\ cache[a] # 0 => Clean(cache[a])
    /\ \A q \in Requests : late[q] =>
           /\ closed[reqTok[q]]
           /\ reqSender[q] # 0 => Clean(reqSender[q])

\* Senders and RoutedMessages tie every Sender and message to its dispatcher,
\* which makes SenderOutlivesUse inductive; Fenced does so for
\* NoServiceAfterClose.
UpstreamInv ==
    /\ TypeOK
    /\ Senders
    /\ RoutedMessages
    /\ SenderOutlivesUse
    /\ Fenced
    /\ NoServiceAfterClose

-----------------------------------------------------------------------------
(* Liveness                                                                *)

\* tokio polls every future that can make progress; the driver answers a
\* request or its connection breaks.
Fairness ==
    /\ \A q \in Requests : WF_vars(RequestStep(q))
    /\ \A d \in Dispatchers : WF_vars(DispatcherStep(d))

FairSpec == Spec /\ Fairness

\* Every request is answered, even when it waits behind others for a session
\* that is LAUNCHING, whose driver dies, or that is ended under it, unless its
\* session stays LAUNCHING for ever: resolve_upstream_address has no timeout
\* of its own and waits as long as the row says so.
AllAnswered ==
    \A q \in Requests, a \in Apps :
        \/ <>[](state[a] = "LAUNCHING")
        \/ reqPc[q] # "idle" /\ reqTok[q] = a ~> reqPc[q] \in {"done", "gone"}

\* A dispatcher that was taken out of the cache ends, and with it its
\* connection: invalidated sessions leave no task behind.
InvalidatedExits ==
    \A d \in Dispatchers :
        dispPc[d] # "none" /\ (\A a \in Apps : cache[a] # d) ~> dispPc[d] = "exited"
=============================================================================
