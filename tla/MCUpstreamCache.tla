-------------------------- MODULE MCUpstreamCache --------------------------
(***************************************************************************)
(* UpstreamCache for TLC.  Requests are interchangeable, and so are the    *)
(* handlers that end a session.                                            *)
(***************************************************************************)
EXTENDS UpstreamCache, TLC

Symmetry == Permutations(Requests) \cup Permutations(Closers)
=============================================================================
