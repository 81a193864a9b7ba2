------------------------- MODULE ApplicationTable -------------------------
(***************************************************************************)
(* The abstract specification of the `application` table: what the rest    *)
(* of the system (the REST API, the proxy, the maintenance commands) may   *)
(* rely on whatever handler, task or command writes a row.                 *)
(*                                                                         *)
(* A row is one Spark session.  Its primary key is auto-incremented, so a  *)
(* key is used once: NONE is a key not yet allocated, PRUNED one whose row *)
(* was deleted.  The bearer token is drawn once per row and never changes, *)
(* so a row is named by its key throughout.                                *)
(***************************************************************************)
EXTENDS Naturals

CONSTANTS
    MaxApps,      \* number of sessions ever created
    MaxAttempts   \* number of driver addresses a session may register

ASSUME TableAssumption == MaxApps \in Nat /\ MaxAttempts \in Nat

VARIABLES
    state,        \* column `state`, with NONE and PRUNED for "no row"
    address       \* column `address`, with NoAddress for NULL

tableVars == <<state, address>>

Apps == 1 .. MaxApps
NoAddress == 0
Addresses == 1 .. MaxAttempts

State == {"LAUNCHING", "RUNNING", "FAILED", "FINISHED"}
Terminal == {"FAILED", "FINISHED"}

Exists(a) == state[a] \in State

TableInit ==
    /\ state = [a \in Apps |-> "NONE"]
    /\ address = [a \in Apps |-> NoAddress]

\* The row of session a takes state s and address k in one statement.
SetRow(a, s, k) ==
    /\ state' = [state EXCEPT ![a] = s]
    /\ address' = [address EXCEPT ![a] = k]

-----------------------------------------------------------------------------
\* A session is created LAUNCHING, without an address.
Create(a) ==
    /\ state[a] = "NONE"
    /\ \A b \in Apps : b < a => state[b] # "NONE"
    /\ SetRow(a, "LAUNCHING", NoAddress)

\* A driver announces itself: the session runs at address k.
Register(a, k) == Exists(a) /\ SetRow(a, "RUNNING", k)

\* The session ended on request, or its driver said goodbye.
Finish(a) == Exists(a) /\ SetRow(a, "FINISHED", NoAddress)

\* The session could not be launched or its driver could not be reached.
Fail(a) == Exists(a) /\ SetRow(a, "FAILED", NoAddress)

\* Only rows of ended sessions are removed, oldest first.
Remove(cutoff) ==
    /\ state' = [a \in Apps |->
                   IF state[a] \in Terminal /\ a <= cutoff THEN "PRUNED" ELSE state[a]]
    /\ UNCHANGED address

TableNext ==
    \/ \E a \in Apps : Create(a) \/ Finish(a) \/ Fail(a)
    \/ \E a \in Apps, k \in Addresses : Register(a, k)
    \/ \E cutoff \in Apps : Remove(cutoff)

TableSpec == TableInit /\ [][TableNext]_tableVars
=============================================================================
