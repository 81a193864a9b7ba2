------------------------------ MODULE RestApi ------------------------------
(***************************************************************************)
(* The REST API over the application table, with the owners of its rows:   *)
(* whose sessions a request sees and changes.  A user is what UserAuth     *)
(* lets through and a token what TokenAuth does (see Authorization); the   *)
(* token of a row is its key.  The monitor, check and the proxy write the  *)
(* same table, and prune removes rows by their age, as the store compares  *)
(* dates.  A handler that awaits between two statements is two actions.    *)
(***************************************************************************)
EXTENDS ApplicationTable, PruneCutoff

CONSTANTS
    Users,
    System,      \* the actor of everything that is no request
    Filters,     \* the `state` parameters of list_apps, as sets of items
    Dates,       \* the dates list_apps is asked for, in ticks
    TicksPerSecond,
    SecondsPerDay,
    FourDigits,  \* the last second of the year 9999
    MaxTime,     \* the clock of the instance ends here
    Ages         \* the --seconds prune is called with

\* The items of a filter that are no state: white space, and anything else.
Blank == "blank"
Unknown == "unknown"
NoApp == 0
NoDate == -1

ASSUME RestAssumption ==
    /\ System \notin Users
    /\ Filters \subseteq SUBSET (State \cup {Blank, Unknown})
    /\ TicksPerSecond \in Nat \ {0} /\ SecondsPerDay \in Nat \ {0}
    /\ FourDigits \in 0 .. MaxDate /\ MaxTime \in 0 .. FourDigits
    /\ Dates \subseteq 0 .. MaxTime
    /\ Ages \subseteq 0 .. 2^Width - 1

VARIABLES
    store,           \* the database: "sqlite", the default, or "postgres"
    now,             \* the clock, in ticks
    created_at,      \* column `created_at`, the database's clock at the insert
    username,        \* column `username`
    creating,        \* the session a user's create_app waits for, or NoApp
    deleting,        \* the session a user's delete_app has found, or NoApp
    actor,           \* whose credentials the last step was made with
    answer,          \* the answer it was given, if any
    told             \* history: the sessions create_app told a user about

clock == <<store, now>>
owners == <<created_at, username>>
rows == <<state, address, owners>>
vars == <<clock, rows, creating, deleting, actor, answer, told>>

\* An answer: its status, the sessions whose ApplicationInfo it carries, and
\* whether it is a list without any restriction.
Silence == [status |-> "none", infos |-> {}, all |-> FALSE]
Status(code) == [Silence EXCEPT !.status = code]
Ok(infos) == [Silence EXCEPT !.status = "200", !.infos = infos]

\* Fault-seeded variant: a row is looked for by its key alone.
OwnedByAnyone(u, a) == Exists(a)

\* The filter on username and id.
Owned(u, a) == Exists(a) /\ username[a] = u

Init ==
    /\ TableInit
    /\ store \in {"sqlite", "postgres"}
    /\ now = 0
    /\ created_at = [a \in Apps |-> 0]
    /\ username = [a \in Apps |-> System]
    /\ creating = [u \in Users |-> NoApp]
    /\ deleting = [u \in Users |-> NoApp]
    /\ actor = System
    /\ answer = Silence
    /\ told = [u \in Users |-> {}]

-----------------------------------------------------------------------------
(* Dates in the store                                                      *)

Second(t) == t \div TicksPerSecond
Day(t) == Second(t) \div SecondsPerDay

\* CURRENT_TIMESTAMP, the default of the column: Postgres keeps fractions of a
\* second, SQLite writes the text 'YYYY-MM-DD HH:MM:SS'.
CurrentTimestamp == IF store = "sqlite" THEN TicksPerSecond * Second(now) ELSE now

\* created_at <= date.  SQLite compares the column with the RFC 3339 text of
\* the date, which has a 'T' where the column has a space: on one day the
\* column comes first, whatever the hour.  A year after 9999 begins with a '+',
\* which comes before any digit.
NotAfter(a, date) ==
    IF store = "sqlite"
    THEN Day(created_at[a]) <= Day(date) /\ Second(date) <= FourDigits
    ELSE created_at[a] <= date

\* created_at >= date; no text of the one form equals one of the other.
NotBefore(a, date) ==
    IF store = "sqlite" THEN ~ NotAfter(a, date) ELSE created_at[a] >= date

-----------------------------------------------------------------------------
(* The routes of a user                                                    *)

CreateInsert(u) ==
    /\ creating[u] = NoApp
    /\ \E a \in Apps :
           /\ Create(a)
           /\ created_at' = [created_at EXCEPT ![a] = CurrentTimestamp]
           /\ username' = [username EXCEPT ![a] = u]
           /\ creating' = [creating EXCEPT ![u] = a]
    /\ actor' = u /\ answer' = Silence
    /\ UNCHANGED <<clock, deleting, told>>

\* launch() succeeds: the answer shows the session.
CreateAnswer(u) ==
    /\ creating[u] # NoApp
    /\ answer' = Ok({creating[u]})
    /\ told' = [told EXCEPT ![u] = @ \cup {creating[u]}]
    /\ creating' = [creating EXCEPT ![u] = NoApp]
    /\ actor' = u
    /\ UNCHANGED <<clock, rows, deleting>>

\* launch() fails: the row is FAILED, by its key, if it is still there.  The
\* state alone is written.
CreateFails(u) ==
    /\ creating[u] # NoApp
    /\ \/ Exists(creating[u]) /\ state' = [state EXCEPT ![creating[u]] = "FAILED"]
       \/ ~ Exists(creating[u]) /\ UNCHANGED state
    /\ UNCHANGED address
    /\ creating' = [creating EXCEPT ![u] = NoApp]
    /\ actor' = u /\ answer' = Status("500")
    /\ UNCHANGED <<clock, owners, deleting, told>>

GetApp(u, a) ==
    /\ answer' = IF Owned(u, a) THEN Ok({a}) ELSE Status("404")
    /\ actor' = u
    /\ UNCHANGED <<clock, rows, creating, deleting, told>>

\* Fault-seeded variant: a filter without states asks for none.
WantedStatesStrict(filter) == IF filter = {} THEN State ELSE filter \ {Blank}

\* The states a filter asks for: all of them if it names none.
WantedStates(filter) == IF filter \ {Blank} = {} THEN State ELSE filter \ {Blank}

\* list_apps with a state filter and the bounds on created_at, if any.
ListApps(u, filter, after, before) ==
    /\ answer' = IF Unknown \in filter THEN Status("400")
                 ELSE [status |-> "200",
                       infos |-> {a \in Apps :
                                     /\ Owned(u, a) /\ state[a] \in WantedStates(filter)
                                     /\ after = NoDate \/ NotBefore(a, after)
                                     /\ before = NoDate \/ NotAfter(a, before)},
                       all |-> filter \subseteq {Blank} /\ after = NoDate /\ before = NoDate]
    /\ actor' = u
    /\ UNCHANGED <<clock, rows, creating, deleting, told>>

ListVersions(u) ==
    /\ answer' = Ok({})
    /\ actor' = u
    /\ UNCHANGED <<clock, rows, creating, deleting, told>>

\* delete_app looks for the session.
DeleteRead(u, a) ==
    /\ deleting[u] = NoApp
    /\ \/ Owned(u, a) /\ deleting' = [deleting EXCEPT ![u] = a] /\ answer' = Silence
       \/ ~ Owned(u, a) /\ answer' = Status("404") /\ UNCHANGED deleting
    /\ actor' = u
    /\ UNCHANGED <<clock, rows, creating, told>>

\* ... and ends it, with the same filter again; its driver may not be reached.
DeleteUpdate(u) ==
    /\ deleting[u] # NoApp
    /\ \/ Owned(u, deleting[u]) /\ Finish(deleting[u])
       \/ ~ Owned(u, deleting[u]) /\ UNCHANGED tableVars
    /\ deleting' = [deleting EXCEPT ![u] = NoApp]
    /\ actor' = u /\ answer' \in {Ok({}), Status("500")}
    /\ UNCHANGED <<clock, owners, creating, told>>

-----------------------------------------------------------------------------
(* The routes of a driver, which has its token once it is launched         *)

Launched(t) == state[t] # "NONE" /\ \A u \in Users : creating[u] # t

AppCallback(t) ==
    /\ Launched(t)
    /\ \/ (\E k \in Addresses : Register(t, k)) /\ answer' = Ok({})
       \/ ~ Exists(t) /\ UNCHANGED tableVars /\ answer' = Status("404")
    /\ actor' = t
    /\ UNCHANGED <<clock, owners, creating, deleting, told>>

AppCallbackDelete(t) ==
    /\ Launched(t)
    /\ \/ Finish(t) /\ answer' = Ok({})
       \/ ~ Exists(t) /\ UNCHANGED tableVars /\ answer' = Status("404")
    /\ actor' = t
    /\ UNCHANGED <<clock, owners, creating, deleting, told>>

-----------------------------------------------------------------------------
(* Everything else that writes the table                                   *)

\* Fault-seeded variant: without the filter on the state.
MonitorUnfiltered ==
    /\ \E a \in Apps : /\ Launched(a) /\ Exists(a)
                       /\ state' = [state EXCEPT ![a] = "FAILED"]
    /\ actor' = System /\ answer' = Silence
    /\ UNCHANGED <<clock, address, owners, creating, deleting, told>>

\* The launch monitor fails a session that is still LAUNCHING when its
\* spark-submit has ended or timed out.  The state alone is written.
Monitor ==
    /\ \E a \in Apps : /\ Launched(a) /\ state[a] = "LAUNCHING"
                       /\ state' = [state EXCEPT ![a] = "FAILED"]
    /\ actor' = System /\ answer' = Silence
    /\ UNCHANGED <<clock, address, owners, creating, deleting, told>>

\* check and the proxy fail a session they did not reach, whatever its row is
\* by then.
Maintenance ==
    /\ \E a \in Apps : Launched(a) /\ Fail(a)
    /\ actor' = System /\ answer' = Silence
    /\ UNCHANGED <<clock, owners, creating, deleting, told>>

\* Fault-seeded variant: the bound is exclusive.
MatchesStrictly(a, date) ==
    state[a] \in Terminal /\ NotAfter(a, date) /\ created_at[a] # date

\* The filters of prune's DELETE.
Matches(a, date) == state[a] \in Terminal /\ NotAfter(a, date)

\* prune asks the clock for whole seconds.
Prune(age) ==
    /\ actor' = System
    /\ LET cutoff == Cutoff(Second(now), age)
       IN  \/ /\ HasDate(cutoff)
              /\ state' = [a \in Apps |-> IF Matches(a, TicksPerSecond * cutoff)
                                         THEN "PRUNED" ELSE state[a]]
              /\ answer' = Ok({})
           \/ /\ ~ HasDate(cutoff)
              /\ UNCHANGED state
              /\ answer' = Status("500")
    /\ UNCHANGED <<clock, address, owners, creating, deleting, told>>

Tick ==
    /\ now < MaxTime /\ now' = now + 1
    /\ actor' = System /\ answer' = Silence
    /\ UNCHANGED <<store, rows, creating, deleting, told>>

-----------------------------------------------------------------------------
Next ==
    \/ \E u \in Users :
           \/ CreateInsert(u) \/ CreateAnswer(u) \/ CreateFails(u)
           \/ ListVersions(u) \/ DeleteUpdate(u)
           \/ \E a \in Apps : GetApp(u, a) \/ DeleteRead(u, a)
           \/ \E f \in Filters, after, before \in Dates \cup {NoDate} :
                  ListApps(u, f, after, before)
    \/ \E t \in Apps : AppCallback(t) \/ AppCallbackDelete(t)
    \/ Monitor \/ Maintenance \/ Tick \/ \E age \in Ages : Prune(age)

Spec == Init /\ [][Next]_vars

-----------------------------------------------------------------------------
\* A user is shown own sessions only: an ApplicationInfo carries the token,
\* which is the key to the session (the username filters of get_app and
\* list_apps).
OwnSessionsOnly == \A a \in answer.infos : username[a] = actor

\* No request changes a row of somebody else: a user's requests those of the
\* user, a driver's its own, although delete_app acts on what it found in an
\* earlier statement (the filters of delete_app and of the callback routes).
RowsConfined ==
    [][\A a \in Apps :
           Exists(a) /\ <<state[a], address[a], username[a]>>'
                          # <<state[a], address[a], username[a]>>
               => actor' \in {System, username[a], a}]_vars

\* What create_app told a user about is in every list without a restriction
\* until it is pruned, whoever wrote it since (list_apps).
ToldIsListed ==
    answer.all => told[actor] \cap {a \in Apps : Exists(a)} \subseteq answer.infos

\* lib.rs, the help of prune: "Minimum application age in seconds for
\* deletion".  For an age that is no negative number once it is cast, what is
\* removed has ended and, in Postgres, is of that age; in SQLite, which compares
\* days, it can be too young by nearly a day, but by no more.  And what is older
\* than that by the fraction of a second the clock was cut by is removed, also
\* when the cutoff is no date and prune fails: then there is none.
PruneByAge ==
    [][\A age \in Ages : age < 2^(Width - 1) /\ Prune(age) =>
           \A a \in Apps : Exists(a) =>
               LET old   == now - created_at[a]
                   asked == TicksPerSecond * age
                   slack == IF store = "sqlite" THEN TicksPerSecond * SecondsPerDay - 1 ELSE 0
               IN  /\ state'[a] = "PRUNED" => state[a] \in Terminal /\ old >= asked - slack
                   /\ state[a] \in Terminal /\ old >= asked + (TicksPerSecond - 1)
                          => state'[a] = "PRUNED"]_vars
=============================================================================
