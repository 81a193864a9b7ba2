------------------------ MODULE MCSessionLifecycle ------------------------
(***************************************************************************)
(* SessionLifecycle for TLC.  Requests are interchangeable; sessions are   *)
(* not, because keys are allocated in order.                               *)
(***************************************************************************)
EXTENDS SessionLifecycle, TLC

RequestSymmetry == Permutations(Requests)
=============================================================================
