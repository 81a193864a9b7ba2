---------------------------- MODULE PruneCutoff ----------------------------
(***************************************************************************)
(* The arithmetic of spark-plug prune: the cutoff is computed from an      *)
(* unsigned age of Width bits (64 in the code), cast to a signed one and   *)
(* subtracted with saturation, and must be a date chrono can hold.         *)
(***************************************************************************)
EXTENDS Integers

CONSTANTS
    Width,      \* of the integers
    MaxDate     \* chrono's dates lie between -MaxDate and MaxDate

ASSUME CutoffAssumption ==
    /\ Width \in Nat /\ Width > 1
    /\ MaxDate \in Nat /\ MaxDate < 2^(Width - 1)

\* `as i64`
AsSigned(n) == IF n >= 2^(Width - 1) THEN n - 2^Width ELSE n

\* i64::saturating_sub
SaturatingSub(a, b) ==
    LET d == a - b
    IN  IF d < -(2^(Width - 1)) THEN -(2^(Width - 1))
        ELSE IF d > 2^(Width - 1) - 1 THEN 2^(Width - 1) - 1 ELSE d

Cutoff(now, age) == SaturatingSub(AsSigned(now), AsSigned(age))

\* from_timestamp has no date for a cutoff out of range.
HasDate(cutoff) == -MaxDate <= cutoff /\ cutoff <= MaxDate
=============================================================================
