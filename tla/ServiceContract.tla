-------------------------- MODULE ServiceContract --------------------------
(***************************************************************************)
(* What a graceful shutdown promises: work is only taken on while the      *)
(* server is up, and the server goes down when no work is left.  A crash   *)
(* is something else: it takes the work with it.                           *)
(***************************************************************************)
CONSTANT Jobs

VARIABLES
    status,  \* of the server
    work     \* the jobs it has taken on and not finished

Init == status = "up" /\ work = {}

Take(j) == status = "up" /\ j \notin work /\ work' = work \cup {j} /\ UNCHANGED status

Finish(j) == status = "up" /\ j \in work /\ work' = work \ {j} /\ UNCHANGED status

GoDown == status = "up" /\ work = {} /\ status' = "down" /\ UNCHANGED work

Crash == status = "up" /\ status' = "crashed" /\ work' = {}

Next == (\E j \in Jobs : Take(j) \/ Finish(j)) \/ GoDown \/ Crash

Spec == Init /\ [][Next]_<<status, work>>
=============================================================================
