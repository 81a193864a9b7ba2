---------------------------- MODULE RequestPath ----------------------------
(***************************************************************************)
(* The way of a request into the server: Authorization composed with       *)
(* GrpcMessage, which answers what the proxy refuses and what goes wrong   *)
(* behind it (UpstreamCache).                                              *)
(***************************************************************************)
EXTENDS Authorization, GrpcMessage

vars == <<authVars, grpcVars>>

Init == AuthInit /\ GrpcInit

\* The errors of sender_for and of a dispatcher.  One whose token is not the
\* request's is never met (UpstreamCache!RoutedMessages).
DispatchErrors == Error \ (Unauthenticated \cup {"LAUNCHING", "RUNNING"})

\* extract_bearer_token refuses, or a request it let through fails later.
ProxyFails ==
    /\ route = "proxy" /\ answer # Pending
    /\ \/ answer.status # "ok" /\ ProxyError(answer.status)
       \/ answer.status = "ok" /\ \E e \in DispatchErrors : ProxyError(e)
    /\ UNCHANGED authVars

Next ==
    \/ AuthNext /\ UNCHANGED grpcVars
    \/ ProxyFails
    \/ (Encode \/ Respond) /\ UNCHANGED authVars

Spec == Init /\ [][Next]_vars

-----------------------------------------------------------------------------
\* A gRPC client is told UNAUTHENTICATED exactly when its header, read by its
\* grammar, holds no token: a client that has one is never sent to get another
\* (proxy.rs extract_bearer_token, proxy_error_response).
UnauthenticatedIffNoToken ==
    reply # <<>> =>
        (reply[1] = 16 <=>
            LET rest == SubSeq(request.auth, 3, Len(request.auth))
            IN  rest = <<>> \/ ~ TokenOf(request.auth, rest))
=============================================================================
