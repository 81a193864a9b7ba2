------------------------- MODULE GracefulShutdown -------------------------
(***************************************************************************)
(* Server::run: the accept loop, the task of each connection and the two   *)
(* pairs of watch channels that stop them.                                 *)
(*                                                                         *)
(*   signal_*   the receiver is dropped when a signal arrives, which       *)
(*              completes signal_tx.closed() in the loop and in each task  *)
(*   close_*    every connection task holds a receiver; the server waits   *)
(*              until none is left                                         *)
(*                                                                         *)
(* hyper is seen through what it promises: a connection takes no new       *)
(* request after graceful_shutdown() and its future completes when the     *)
(* last one is answered.                                                   *)
(***************************************************************************)
CONSTANTS
    Conns,         \* client connections, each made once
    NoConn,
    ServerFaults   \* a subset of ServerFaultKinds

ServerFaultKinds ==
    {"accept",      \* listener.accept() fails
     "handshake",   \* a TLS handshake fails
     "stall"}       \* a client does not go on with its handshake

ASSUME ShutdownAssumption ==
    /\ NoConn \notin Conns
    /\ ServerFaults \subseteq ServerFaultKinds

VARIABLES
    tls,       \* is a TLS acceptor configured?
    server,    \* where run() is
    cur,       \* the connection run() does the handshake of
    signal,    \* has signal_rx been dropped?
    ownRx,     \* does run() hold its own close_rx?
    task,      \* the connection and, once it is served, its task
    busy       \* is a request of the connection being served?

vars == <<tls, server, cur, signal, ownRx, task, busy>>

\* Connections whose task holds a close_rx.
Live == {c \in Conns : task[c] \in {"serving", "graceful"}}

TypeOK ==
    /\ tls \in BOOLEAN
    /\ server \in {"accepting", "handshake", "draining", "returned", "failed"}
    /\ cur \in Conns \cup {NoConn}
    /\ signal \in BOOLEAN
    /\ ownRx \in BOOLEAN
    /\ task \in [Conns -> {"none", "backlog", "handshake", "serving", "graceful", "left", "ended", "cut"}]
    /\ busy \in [Conns -> BOOLEAN]

Init ==
    /\ tls \in BOOLEAN
    /\ server = "accepting"
    /\ cur = NoConn
    /\ signal = FALSE
    /\ ownRx = TRUE
    /\ task = [c \in Conns |-> "none"]
    /\ busy = [c \in Conns |-> FALSE]

-----------------------------------------------------------------------------
(* run                                                                     *)

\* The server spawns the task that serves a connection, with a clone of
\* signal_tx and of close_rx.
ServeConnection(c) == task' = [task EXCEPT ![c] = "serving"]

\* The accept branch of the select, which may be taken after the signal too.
Accept(c) ==
    /\ server = "accepting"
    /\ task[c] = "backlog"
    /\ \/ ~ tls /\ ServeConnection(c) /\ UNCHANGED <<server, cur>>
       \/ /\ tls
          /\ task' = [task EXCEPT ![c] = "handshake"]
          /\ server' = "handshake"
          /\ cur' = c
    /\ UNCHANGED <<tls, signal, ownRx, busy>>

\* acceptor.accept(stream).await, inside the loop.
HandshakeDone ==
    /\ server = "handshake"
    /\ ServeConnection(cur)
    /\ server' = "accepting"
    /\ cur' = NoConn
    /\ UNCHANGED <<tls, signal, ownRx, busy>>

\* run() ends at once, by `?` after a failed handshake or by unwrap() after a
\* failed accept: the runtime goes down and cuts every connection.
Fails ==
    /\ \/ "handshake" \in ServerFaults /\ server = "handshake"
       \/ "accept" \in ServerFaults /\ server = "accepting"
    /\ server' = "failed"
    /\ cur' = NoConn
    /\ task' = [c \in Conns |-> IF c \in Live THEN "cut" ELSE "ended"]
    /\ busy' = [c \in Conns |-> FALSE]
    /\ ownRx' = FALSE
    /\ UNCHANGED <<tls, signal>>

\* Fault-seeded variant: run() keeps its own close_rx and waits for itself.
BreakLoopHoldingRx ==
    /\ server = "accepting"
    /\ signal
    /\ server' = "draining"
    /\ task' = [c \in Conns |-> IF task[c] \in {"none", "backlog"} THEN "ended" ELSE task[c]]
    /\ UNCHANGED <<tls, cur, signal, ownRx, busy>>

\* The other branch of the select: the loop ends, run() drops its close_rx and
\* the listener, which resets the connections nobody accepted.
BreakLoop ==
    /\ server = "accepting"
    /\ signal
    /\ server' = "draining"
    /\ task' = [c \in Conns |-> IF task[c] \in {"none", "backlog"} THEN "ended" ELSE task[c]]
    /\ ownRx' = FALSE
    /\ UNCHANGED <<tls, cur, signal, busy>>

\* Fault-seeded variant: the server does not wait for close_tx.closed().
ReturnAtOnce ==
    /\ server = "draining"
    /\ server' = "returned"
    /\ UNCHANGED <<tls, cur, signal, ownRx, task, busy>>

\* close_tx.closed() completes: nobody holds a close_rx.
Return ==
    /\ server = "draining"
    /\ Live = {} /\ ~ ownRx
    /\ server' = "returned"
    /\ UNCHANGED <<tls, cur, signal, ownRx, task, busy>>

-----------------------------------------------------------------------------
(* serve_connection                                                        *)

\* The task learns of the signal.  The future is fused: it does so once.
Graceful(c) ==
    /\ task[c] = "serving" /\ signal
    /\ task' = [task EXCEPT ![c] = "graceful"]
    /\ UNCHANGED <<tls, server, cur, signal, ownRx, busy>>

\* The connection future completes and the task drops its close_rx.
TaskEnds(c) ==
    /\ task[c] = "graceful"
    /\ ~ busy[c]
    /\ task' = [task EXCEPT ![c] = "ended"]
    /\ UNCHANGED <<tls, server, cur, signal, ownRx, busy>>

RequestStart(c) ==
    /\ task[c] = "serving" /\ ~ busy[c]
    /\ busy' = [busy EXCEPT ![c] = TRUE]
    /\ UNCHANGED <<tls, server, cur, signal, ownRx, task>>

RequestEnd(c) ==
    /\ busy[c]
    /\ busy' = [busy EXCEPT ![c] = FALSE]
    /\ UNCHANGED <<tls, server, cur, signal, ownRx, task>>

-----------------------------------------------------------------------------
(* Clients and the operator                                                *)

\* The kernel takes connections while the listener is there.
Connect(c) ==
    /\ task[c] = "none" /\ server \in {"accepting", "handshake"}
    /\ task' = [task EXCEPT ![c] = "backlog"]
    /\ UNCHANGED <<tls, server, cur, signal, ownRx, busy>>

\* A client goes away, with or without a request under way.
ClientCloses(c) ==
    /\ c \in Live
    /\ task' = [task EXCEPT ![c] = "left"]
    /\ busy' = [busy EXCEPT ![c] = FALSE]
    /\ UNCHANGED <<tls, server, cur, signal, ownRx>>

\* SIGINT or SIGTERM arrives and the task that waits for it drops signal_rx.
ShutdownSignal ==
    /\ ~ signal
    /\ signal' = TRUE
    /\ UNCHANGED <<tls, server, cur, ownRx, task, busy>>

-----------------------------------------------------------------------------
Next ==
    \/ \E c \in Conns :
           \/ Accept(c) \/ Graceful(c) \/ TaskEnds(c)
           \/ RequestStart(c) \/ RequestEnd(c) \/ Connect(c) \/ ClientCloses(c)
    \/ HandshakeDone \/ Fails \/ BreakLoop \/ Return \/ ShutdownSignal

Spec == Init /\ [][Next]_vars

\* tokio polls every task; a handshake ends unless the client stalls; requests
\* are answered or their clients leave, which the server itself does not make
\* sure of (UpstreamCache!AllAnswered says when it does).  select! picks
\* a ready branch at random, so the signal is not passed over for ever.
Fairness ==
    /\ SF_vars(BreakLoop)
    /\ WF_vars(Return)
    /\ WF_vars(HandshakeDone /\ "stall" \notin ServerFaults)
    /\ \A c \in Conns : /\ WF_vars(Accept(c))
                        /\ WF_vars(Graceful(c))
                        /\ WF_vars(TaskEnds(c))
                        /\ WF_vars(RequestEnd(c))

FairSpec == Spec /\ Fairness

-----------------------------------------------------------------------------
Status == IF server = "returned" THEN "down" ELSE IF server = "failed" THEN "crashed" ELSE "up"

Contract == INSTANCE ServiceContract WITH
                Jobs <- Conns,
                status <- Status,
                work <- Live

\* The server keeps the contract: it goes down when the tasks of all
\* connections are over, those of connections that were accepted after the
\* signal included, and serves none afterwards; or it crashes.
KeepsContract == Contract!Spec

\* What the server is doing fits what the connections are: a server that is
\* down, in whichever way, serves nobody, a request has a task, and only the
\* connection in its handshake holds up the loop.
ShutdownInv ==
    /\ TypeOK
    /\ server \in {"returned", "failed"} => Live = {}
    /\ \A c \in Conns : busy[c] => c \in Live
    /\ server # "handshake" => cur = NoConn
    /\ server = "handshake" => cur \in Conns /\ task[cur] = "handshake"

\* After a signal the server comes down, in spite of connections that are idle
\* and would be kept alive, of its own clone of the channel it waits on and of
\* a signal during a handshake, as long as no client stalls in one and every
\* request is answered.
ShutdownCompletes == signal ~> server \in {"returned", "failed"}

\* lib.rs, run: the server waits, "letting all existing connections finish
\* their work before shutting down the server".
ExistingConnectionsFinish == \A c \in Conns : task[c] # "cut"
=============================================================================
