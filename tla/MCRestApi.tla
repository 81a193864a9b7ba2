----------------------------- MODULE MCRestApi -----------------------------
(***************************************************************************)
(* RestApi for TLC: filters with no, blank, known and unknown items;       *)
(* users are alike.                                                        *)
(***************************************************************************)
EXTENDS RestApi, TLC

MCFilters == {{}, {Blank}, {"LAUNCHING", "FINISHED", Blank}, {"FAILED", Unknown}}
UserSymmetry == Permutations(Users)
=============================================================================
