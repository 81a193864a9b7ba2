--------------------------- MODULE RestApiProofs ---------------------------
(***************************************************************************)
(* Proofs about RestApi, for any number of sessions and addresses, any set *)
(* of users and of filters, any clock, both stores and any width of        *)
(* prune's integers:                                                       *)
(*                                                                         *)
(*   - RestInv is an inductive invariant: a row belongs to whoever created *)
(*     it and is waited for or was told of only by that user, a session    *)
(*     that is being launched has no address, and keys are allocated in    *)
(*     the order of their dates;                                           *)
(*   - users see and change sessions of their own only and miss none;      *)
(*   - prune removes by age within the bounds of the store, and all the    *)
(*     handlers together implement the abstract table.                     *)
(***************************************************************************)
EXTENDS RestApi, LeastNumber

TypeOK ==
    /\ state \in [Apps -> State \cup {"NONE", "PRUNED"}]
    /\ address \in [Apps -> Addresses \cup {NoAddress}]
    /\ store \in {"sqlite", "postgres"}
    /\ now \in 0 .. MaxTime
    /\ created_at \in [Apps -> 0 .. MaxTime]
    /\ username \in [Apps -> Users \cup {System}]
    /\ creating \in [Users -> Apps \cup {NoApp}]
    /\ deleting \in [Users -> Apps \cup {NoApp}]
    /\ actor \in Users \cup Apps \cup {System}
    /\ answer.infos \subseteq Apps /\ answer.all \in BOOLEAN
    /\ told \in [Users -> SUBSET Apps]

\* Every writer of the table keeps the two columns in step.
AddressIffRunning == \A a \in Apps : address[a] # NoAddress <=> state[a] = "RUNNING"

\* A key is allocated after the smaller ones, and its row is not older.
KeysInOrder ==
    /\ \A a \in Apps : created_at[a] <= CurrentTimestamp
    /\ \A a, b \in Apps : a < b /\ state[b] # "NONE"
                              => state[a] # "NONE" /\ created_at[a] <= created_at[b]

\* What create_app waits for or has told of is a row it inserted for the user.
Ownership ==
    \A u \in Users : \A a \in Apps :
        creating[u] = a \/ a \in told[u] => state[a] # "NONE" /\ username[a] = u

\* No driver has announced itself before launch() returns.
NotLaunched == \A u \in Users : \A a \in Apps : creating[u] = a => address[a] = NoAddress

RestInv == TypeOK /\ AddressIffRunning /\ KeysInOrder /\ Ownership /\ NotLaunched

-----------------------------------------------------------------------------
(* Dates                                                                   *)

\* A quotient, times the divisor, falls short of the number by a remainder.
LEMMA DivBounds ==
    ASSUME NEW d \in Nat \ {0}, NEW n \in Int
    PROVE  /\ n \div d \in Int
           /\ d * (n \div d) \in Int
           /\ d * (n \div d) <= n
           /\ n <= d * (n \div d) + (d - 1)
OBVIOUS

\* Multiplying keeps the order.
LEMMA TimesMonotone ==
    ASSUME NEW d \in Nat \ {0}, NEW m \in Int, NEW n \in Int, m <= n
    PROVE  d * m <= d * n
OBVIOUS

\* So does dividing what is less up to a remainder.
LEMMA TimesLess ==
    ASSUME NEW d \in Nat \ {0}, NEW m \in Int, NEW n \in Int, d * m <= d * n + (d - 1)
    PROVE  m <= n
OBVIOUS

\* The earlier of two dates is not in the later second, nor on the later day.
LEMMA DivMonotone ==
    ASSUME NEW d \in Nat \ {0}, NEW m \in Int, NEW n \in Int, m <= n
    PROVE  m \div d <= n \div d
<1> DEFINE q == m \div d
           r == n \div d
<1>1. q \in Int /\ r \in Int /\ d * q <= m /\ n <= d * r + (d - 1)
  BY DivBounds
<1>2. d * q \in Int /\ d * r \in Int
  BY <1>1
<1> HIDE DEF q, r
<1>3. d * q <= d * r + (d - 1)
  BY <1>1, <1>2
<1>4. q <= r
  BY <1>1, <1>3, TimesLess
<1> QED
  BY <1>4 DEF q, r

\* A whole second is in the second of that number.
LEMMA DivOfTimes ==
    ASSUME NEW d \in Nat \ {0}, NEW n \in Int
    PROVE  (d * n) \div d = n
<1> DEFINE q == (d * n) \div d
<1>1. d * n \in Int
  OBVIOUS
<1>2. q \in Int /\ d * q <= d * n /\ d * n <= d * q + (d - 1)
  BY <1>1, DivBounds
<1> HIDE DEF q
<1>3. q <= n
  BY <1>2, TimesLess
<1>4. n <= q
  BY <1>2, TimesLess
<1>5. q = n
  BY <1>2, <1>3, <1>4
<1> QED
  BY <1>5 DEF q

\* The default of the column is a time of the instance, and not after now.
LEMMA TimestampType ==
    ASSUME TypeOK
    PROVE  /\ CurrentTimestamp \in 0 .. MaxTime /\ CurrentTimestamp <= now
           /\ Second(now) \in 0 .. MaxTime /\ Second(now) <= now
<1>1. now \in Int /\ 0 <= now /\ now <= MaxTime /\ MaxTime \in Int
  BY RestAssumption, CutoffAssumption DEF TypeOK
<1> DEFINE q == now \div TicksPerSecond
<1>2. /\ q \in Int /\ TicksPerSecond * q \in Int
      /\ TicksPerSecond * q <= now /\ now <= TicksPerSecond * q + (TicksPerSecond - 1)
  BY <1>1, RestAssumption, DivBounds
<1> HIDE DEF q
<1>3. 0 <= q
  <2>1. TicksPerSecond * 0 <= TicksPerSecond * q + (TicksPerSecond - 1)
    BY <1>1, <1>2, RestAssumption
  <2> QED
    BY <1>2, <2>1, RestAssumption, TimesLess
<1>4. 0 <= TicksPerSecond * q /\ q <= TicksPerSecond * q
  BY <1>2, <1>3, RestAssumption
<1> QED
  BY <1>1, <1>2, <1>3, <1>4 DEF CurrentTimestamp, Second, q

\* Time does not take the default of the column back.
LEMMA TimestampMonotone ==
    ASSUME TypeOK, UNCHANGED store, now' \in Int, now <= now'
    PROVE  CurrentTimestamp <= CurrentTimestamp'
<1>1. now \in Int
  BY RestAssumption, CutoffAssumption DEF TypeOK
<1>2. now \div TicksPerSecond <= now' \div TicksPerSecond
  BY <1>1, RestAssumption, DivMonotone
<1>3. now \div TicksPerSecond \in Int /\ now' \div TicksPerSecond \in Int
  BY <1>1, RestAssumption, DivBounds
<1>4. TicksPerSecond * (now \div TicksPerSecond) <= TicksPerSecond * (now' \div TicksPerSecond)
  BY <1>2, <1>3, RestAssumption, TimesMonotone
<1> QED
  BY <1>1, <1>4 DEF CurrentTimestamp, Second

\* If a date is not before one row, it is not before an older one, in either
\* store.
LEMMA OlderMatches ==
    ASSUME NEW a \in Apps, NEW b \in Apps, NEW date,
           created_at[a] \in Int, created_at[b] \in Int, date \in Int,
           created_at[a] <= created_at[b], NotAfter(b, date)
    PROVE  NotAfter(a, date)
<1>1. Second(created_at[a]) <= Second(created_at[b])
  BY RestAssumption, DivMonotone DEF Second
<1>2. Second(created_at[a]) \in Int /\ Second(created_at[b]) \in Int /\ Second(date) \in Int
  BY RestAssumption, DivBounds DEF Second
<1>3. Day(created_at[a]) <= Day(created_at[b])
  BY <1>1, <1>2, RestAssumption, DivMonotone DEF Day
<1>4. Day(created_at[a]) \in Int /\ Day(created_at[b]) \in Int /\ Day(date) \in Int
  BY <1>2, RestAssumption, DivBounds DEF Day
<1> HIDE DEF Day, Second
<1> QED
  BY <1>3, <1>4 DEF NotAfter

-----------------------------------------------------------------------------
\* NULL is not the address of a driver, and no session has the key NoApp.
LEMMA NoneApart == NoAddress \notin Addresses /\ NoApp \notin Apps
BY TableAssumption DEF NoAddress, Addresses, NoApp, Apps

\* The clock is a natural number.
LEMMA ClockNat == MaxTime \in Nat
BY RestAssumption, CutoffAssumption

\* Only an answer made with Ok or by list_apps shows sessions.
LEMMA AnswerParts ==
    /\ Silence.infos = {} /\ Silence.all = FALSE
    /\ \A code : Status(code).infos = {} /\ Status(code).all = FALSE
    /\ \A infos : Ok(infos).infos = infos /\ Ok(infos).all = FALSE
BY DEF Silence, Status, Ok

\* A statement that gives an existing row a state and the address that goes
\* with it, which is every UPDATE but prune's DELETE.
LEMMA RowWritten ==
    ASSUME RestInv, NEW b \in Apps, Exists(b), NEW s \in State,
           NEW k \in Addresses \cup {NoAddress}, k # NoAddress <=> s = "RUNNING",
           SetRow(b, s, k)
    PROVE  /\ state' \in [Apps -> State \cup {"NONE", "PRUNED"}]
           /\ address' \in [Apps -> Addresses \cup {NoAddress}]
           /\ AddressIffRunning'
           /\ \A a \in Apps : state'[a] = "NONE" <=> state[a] = "NONE"
           /\ \A a \in Apps \ {b} : state'[a] = state[a] /\ address'[a] = address[a]
BY DEF RestInv, TypeOK, AddressIffRunning, SetRow, Exists, State

\* The three writes of the table that the handlers make, as RowWritten sees them.
LEMMA TableWritten ==
    ASSUME RestInv, NEW b \in Apps,
           Fail(b) \/ Finish(b) \/ \E k \in Addresses : Register(b, k)
    PROVE  /\ state' \in [Apps -> State \cup {"NONE", "PRUNED"}]
           /\ address' \in [Apps -> Addresses \cup {NoAddress}]
           /\ AddressIffRunning'
           /\ \A a \in Apps : state'[a] = "NONE" <=> state[a] = "NONE"
           /\ \A a \in Apps \ {b} : state'[a] = state[a] /\ address'[a] = address[a]
<1>1. CASE Fail(b)
  BY <1>1, RowWritten DEF Fail, State
<1>2. CASE Finish(b)
  BY <1>2, RowWritten DEF Finish, State
<1>3. ASSUME NEW k \in Addresses, Register(b, k)
      PROVE  /\ state' \in [Apps -> State \cup {"NONE", "PRUNED"}]
             /\ address' \in [Apps -> Addresses \cup {NoAddress}]
             /\ AddressIffRunning'
             /\ \A a \in Apps : state'[a] = "NONE" <=> state[a] = "NONE"
             /\ \A a \in Apps \ {b} : state'[a] = state[a] /\ address'[a] = address[a]
  <2>1. k # NoAddress
    BY NoneApart
  <2> QED
    BY <1>3, <2>1, RowWritten DEF Register, State
<1> QED
  BY <1>1, <1>2, <1>3

\* Prune's DELETE removes rows that have no address.
LEMMA RowsPruned ==
    ASSUME RestInv, NEW cutoff, UNCHANGED address,
           state' = [a \in Apps |-> IF Matches(a, cutoff) THEN "PRUNED" ELSE state[a]]
    PROVE  /\ state' \in [Apps -> State \cup {"NONE", "PRUNED"}]
           /\ AddressIffRunning'
           /\ \A a \in Apps : state'[a] = "NONE" <=> state[a] = "NONE"
BY DEF RestInv, TypeOK, AddressIffRunning, Matches, Terminal, State

\* A statement that writes FAILED alone is a Fail of the abstract table where
\* the row has no address.
LEMMA StateFailed ==
    ASSUME RestInv, NEW b \in Apps, Exists(b), address[b] = NoAddress,
           state' = [state EXCEPT ![b] = "FAILED"], UNCHANGED address
    PROVE  Fail(b)
<1>1. address' = [address EXCEPT ![b] = NoAddress]
  BY DEF RestInv, TypeOK
<1> QED
  BY <1>1 DEF Fail, SetRow

\* The two that do so find such a row: nothing is announced of a session that
\* is being launched, nor of one that is LAUNCHING.
LEMMA CreateFailsRow ==
    ASSUME RestInv, NEW u \in Users, CreateFails(u)
    PROVE  creating[u] \in Apps /\ (Fail(creating[u]) \/ UNCHANGED tableVars)
<1>1. creating[u] \in Apps
  BY DEF CreateFails, RestInv, TypeOK
<1>2. address[creating[u]] = NoAddress
  BY <1>1 DEF RestInv, NotLaunched
<1>3. CASE Exists(creating[u]) /\ state' = [state EXCEPT ![creating[u]] = "FAILED"]
  BY <1>1, <1>2, <1>3, StateFailed DEF CreateFails
<1>4. CASE UNCHANGED state
  BY <1>1, <1>4 DEF CreateFails, tableVars
<1> QED
  BY <1>1, <1>3, <1>4 DEF CreateFails

LEMMA MonitorRow ==
    ASSUME RestInv, Monitor
    PROVE  \E a \in Apps : Launched(a) /\ Fail(a)
<1>1. PICK a \in Apps : /\ Launched(a) /\ state[a] = "LAUNCHING"
                       /\ state' = [state EXCEPT ![a] = "FAILED"]
  BY DEF Monitor
<1>2. Exists(a) /\ address[a] = NoAddress
  BY <1>1 DEF Exists, State, RestInv, AddressIffRunning
<1>3. Fail(a)
  BY <1>1, <1>2, StateFailed DEF Monitor
<1> QED
  BY <1>1, <1>3

\* A step that allocates no key, tells nobody of a session and announces none
\* that is being launched leaves keys in order and rows with their owners.
LEMMA RowsStay ==
    ASSUME RestInv, UNCHANGED <<clock, owners, told>>,
           \A u \in Users : creating'[u] \in {creating[u], NoApp},
           \A a \in Apps : state'[a] = "NONE" <=> state[a] = "NONE",
           \A a \in Apps : address'[a] \in {address[a], NoAddress} \/ Launched(a)
    PROVE  KeysInOrder' /\ Ownership' /\ NotLaunched'
<1>1. CurrentTimestamp' = CurrentTimestamp
  BY DEF clock, CurrentTimestamp, Second
<1>2. KeysInOrder'
  BY <1>1 DEF RestInv, KeysInOrder, owners
<1>3. Ownership'
  BY NoneApart DEF RestInv, Ownership, owners
<1>4. NotLaunched'
  BY NoneApart DEF RestInv, NotLaunched, Launched
<1> QED
  BY <1>2, <1>3, <1>4

\* One that writes no row at all, and answers with sessions that exist.
LEMMA RowsUnchanged ==
    ASSUME RestInv, UNCHANGED <<clock, rows, told>>,
           creating' \in [Users -> Apps \cup {NoApp}],
           \A u \in Users : creating'[u] \in {creating[u], NoApp},
           deleting' \in [Users -> Apps \cup {NoApp}],
           actor' \in Users \cup Apps \cup {System},
           answer'.infos \subseteq Apps, answer'.all \in BOOLEAN
    PROVE  RestInv'
<1>1. TypeOK' /\ AddressIffRunning'
  BY DEF RestInv, TypeOK, AddressIffRunning, clock, rows, owners
<1>2. KeysInOrder' /\ Ownership' /\ NotLaunched'
  BY RowsStay DEF rows, owners
<1> QED
  BY <1>1, <1>2 DEF RestInv

\* One that writes the state and the address of rows, as the lemmas above say.
LEMMA RowsWritten ==
    ASSUME RestInv, UNCHANGED <<clock, owners, told>>,
           state' \in [Apps -> State \cup {"NONE", "PRUNED"}],
           address' \in [Apps -> Addresses \cup {NoAddress}],
           AddressIffRunning',
           \A a \in Apps : state'[a] = "NONE" <=> state[a] = "NONE",
           \A a \in Apps : address'[a] \in {address[a], NoAddress} \/ Launched(a),
           creating' \in [Users -> Apps \cup {NoApp}],
           \A u \in Users : creating'[u] \in {creating[u], NoApp},
           deleting' \in [Users -> Apps \cup {NoApp}],
           actor' \in Users \cup Apps \cup {System},
           answer'.infos = {}, answer'.all = FALSE
    PROVE  RestInv'
<1>1. TypeOK'
  BY DEF RestInv, TypeOK, clock, owners
<1>2. KeysInOrder' /\ Ownership' /\ NotLaunched'
  BY RowsStay
<1> QED
  BY <1>1, <1>2 DEF RestInv

\* RestInv is inductive: one step per action.
LEMMA RestStep ==
    ASSUME RestInv, [Next]_vars
    PROVE  RestInv'
<1> USE TableAssumption, RestAssumption, NoneApart, AnswerParts
<1>0. /\ creating \in [Users -> Apps \cup {NoApp}] /\ deleting \in [Users -> Apps \cup {NoApp}]
      /\ \A a \in Apps : address[a] \in {address[a], NoAddress}
  BY DEF RestInv, TypeOK
<1>1. ASSUME NEW u \in Users, CreateInsert(u)
      PROVE  RestInv'
  <2>1. PICK a \in Apps : /\ Create(a)
                          /\ created_at' = [created_at EXCEPT ![a] = CurrentTimestamp]
                          /\ username' = [username EXCEPT ![a] = u]
                          /\ creating' = [creating EXCEPT ![u] = a]
    BY <1>1 DEF CreateInsert
  <2>2. CurrentTimestamp \in 0 .. MaxTime
    BY TimestampType DEF RestInv
  <2>3. CurrentTimestamp' = CurrentTimestamp
    BY <1>1 DEF CreateInsert, clock, CurrentTimestamp, Second
  <2>4. TypeOK'
    <3>1. created_at' \in [Apps -> 0 .. MaxTime]
      BY <2>1, <2>2 DEF RestInv, TypeOK
    <3> QED
      BY <1>1, <2>1, <3>1 DEF CreateInsert, Create, SetRow, RestInv, TypeOK, State, clock
  <2>5. AddressIffRunning'
    BY <2>1 DEF Create, SetRow, RestInv, TypeOK, AddressIffRunning
  <2>6. KeysInOrder'
    <3> HIDE DEF CurrentTimestamp
    <3>1. state' = [state EXCEPT ![a] = "LAUNCHING"] /\ \A b \in Apps : b < a => state[b] # "NONE"
      BY <2>1 DEF Create, SetRow
    <3>2. /\ \A b \in Apps : created_at[b] \in Int /\ created_at[b] <= CurrentTimestamp
          /\ CurrentTimestamp \in Int /\ \A b \in Apps : b \in Int
      BY <2>2, ClockNat DEF RestInv, TypeOK, KeysInOrder, Apps
    <3>3. \A b \in Apps : created_at'[b] = IF b = a THEN CurrentTimestamp ELSE created_at[b]
      BY <2>1 DEF RestInv, TypeOK
    <3>4. \A b \in Apps : state'[b] # "NONE" <=> state[b] # "NONE" \/ b = a
      BY <3>1 DEF RestInv, TypeOK
    <3>5. state[a] = "NONE"
      BY <2>1 DEF Create
    <3> QED
      BY <2>3, <3>1, <3>2, <3>3, <3>4, <3>5 DEF RestInv, KeysInOrder
  <2>7. Ownership'
    BY <1>1, <2>1 DEF CreateInsert, Create, SetRow, RestInv, TypeOK, Ownership
  <2>8. NotLaunched'
    BY <1>1, <2>1 DEF CreateInsert, Create, SetRow, RestInv, TypeOK, NotLaunched
  <2> QED
    BY <2>4, <2>5, <2>6, <2>7, <2>8 DEF RestInv
<1>2. ASSUME NEW u \in Users, CreateAnswer(u)
      PROVE  RestInv'
  <2>1. creating[u] \in Apps
    BY <1>2 DEF CreateAnswer, RestInv, TypeOK
  <2>2. TypeOK'
    <3>1. answer'.infos = {creating[u]} /\ answer'.all = FALSE
      BY <1>2 DEF CreateAnswer
    <3>2. creating' \in [Users -> Apps \cup {NoApp}] /\ told' \in [Users -> SUBSET Apps]
      BY <1>2, <2>1 DEF CreateAnswer, RestInv, TypeOK
    <3>3. actor' = u /\ UNCHANGED <<clock, rows, deleting>>
      BY <1>2 DEF CreateAnswer
    <3> QED
      BY <2>1, <3>1, <3>2, <3>3 DEF RestInv, TypeOK, rows, clock, owners
  <2>3. CurrentTimestamp' = CurrentTimestamp
    BY <1>2 DEF CreateAnswer, clock, CurrentTimestamp, Second
  <2>4. AddressIffRunning' /\ KeysInOrder'
    BY <1>2, <2>3 DEF CreateAnswer, RestInv, AddressIffRunning, KeysInOrder, rows, owners
  <2>5. Ownership' /\ NotLaunched'
    BY <1>2 DEF CreateAnswer, RestInv, TypeOK, Ownership, NotLaunched, rows, owners
  <2> QED
    BY <2>2, <2>4, <2>5 DEF RestInv
<1>3. ASSUME NEW u \in Users, CreateFails(u)
      PROVE  RestInv'
  <2>1. creating[u] \in Apps /\ (Fail(creating[u]) \/ UNCHANGED tableVars)
    BY <1>3, CreateFailsRow
  <2>2. /\ creating' \in [Users -> Apps \cup {NoApp}]
        /\ \A v \in Users : creating'[v] \in {creating[v], NoApp}
    BY <1>0, <1>3 DEF CreateFails
  <2>3. CASE Fail(creating[u])
    BY <1>0, <1>3, <2>1, <2>2, <2>3, TableWritten, RowsWritten DEF CreateFails, Fail, SetRow
  <2>4. CASE UNCHANGED tableVars
    BY <1>0, <1>3, <2>2, <2>4, RowsUnchanged DEF CreateFails, tableVars, rows
  <2> QED
    BY <2>1, <2>3, <2>4
<1>4. ASSUME NEW u \in Users, ListVersions(u)
      PROVE  RestInv'
  BY <1>0, <1>4, RowsUnchanged DEF ListVersions
<1>5. ASSUME NEW u \in Users, DeleteUpdate(u)
      PROVE  RestInv'
  <2>1. deleting[u] \in Apps /\ deleting' \in [Users -> Apps \cup {NoApp}]
    BY <1>0, <1>5 DEF DeleteUpdate
  <2>2. answer'.infos = {} /\ answer'.all = FALSE
    BY <1>5 DEF DeleteUpdate
  <2>3. CASE Finish(deleting[u])
    BY <1>0, <1>5, <2>1, <2>2, <2>3, TableWritten, RowsWritten DEF DeleteUpdate, Finish, SetRow
  <2>4. CASE UNCHANGED tableVars
    BY <1>0, <1>5, <2>1, <2>2, <2>4, RowsUnchanged DEF DeleteUpdate, tableVars, rows
  <2> QED
    BY <1>5, <2>3, <2>4 DEF DeleteUpdate
<1>6. ASSUME NEW u \in Users, NEW a \in Apps, GetApp(u, a)
      PROVE  RestInv'
  <2>1. answer'.infos \subseteq Apps /\ answer'.all \in BOOLEAN
    BY <1>6 DEF GetApp
  <2> QED
    BY <1>0, <1>6, <2>1, RowsUnchanged DEF GetApp
<1>7. ASSUME NEW u \in Users, NEW a \in Apps, DeleteRead(u, a)
      PROVE  RestInv'
  <2>1. answer'.infos \subseteq Apps /\ answer'.all \in BOOLEAN
    BY <1>7 DEF DeleteRead
  <2>2. deleting' \in [Users -> Apps \cup {NoApp}]
    BY <1>0, <1>7 DEF DeleteRead
  <2> QED
    BY <1>0, <1>7, <2>1, <2>2, RowsUnchanged DEF DeleteRead
<1>8. ASSUME NEW u \in Users, NEW f \in Filters, NEW after, NEW before,
             ListApps(u, f, after, before)
      PROVE  RestInv'
  <2>1. answer'.infos \subseteq Apps /\ answer'.all \in BOOLEAN
    <3>1. CASE Unknown \in f
      BY <1>8, <3>1 DEF ListApps
    <3>2. CASE Unknown \notin f
      BY <1>8, <3>2 DEF ListApps
    <3> QED
      BY <3>1, <3>2
  <2> QED
    BY <1>0, <1>8, <2>1, RowsUnchanged DEF ListApps
<1>9. ASSUME NEW t \in Apps, AppCallback(t)
      PROVE  RestInv'
  <2>1. answer'.infos = {} /\ answer'.all = FALSE
    BY <1>9 DEF AppCallback
  <2>2. CASE \E k \in Addresses : Register(t, k)
    <3>1. \A a \in Apps : address'[a] = address[a] \/ Launched(a)
      BY <1>9, <2>2, TableWritten DEF AppCallback
    <3> QED
      BY <1>0, <1>9, <2>1, <2>2, <3>1, TableWritten, RowsWritten DEF AppCallback
  <2>3. CASE UNCHANGED tableVars
    BY <1>0, <1>9, <2>1, <2>3, RowsUnchanged DEF AppCallback, tableVars, rows
  <2> QED
    BY <1>9, <2>2, <2>3 DEF AppCallback
<1>10. ASSUME NEW t \in Apps, AppCallbackDelete(t)
      PROVE  RestInv'
  <2>1. answer'.infos = {} /\ answer'.all = FALSE
    BY <1>10 DEF AppCallbackDelete
  <2>2. CASE Finish(t)
    <3>1. \A a \in Apps : address'[a] = address[a] \/ Launched(a)
      BY <1>10, <2>2, TableWritten DEF AppCallbackDelete
    <3> QED
      BY <1>0, <1>10, <2>1, <2>2, <3>1, TableWritten, RowsWritten DEF AppCallbackDelete
  <2>3. CASE UNCHANGED tableVars
    BY <1>0, <1>10, <2>1, <2>3, RowsUnchanged DEF AppCallbackDelete, tableVars, rows
  <2> QED
    BY <1>10, <2>2, <2>3 DEF AppCallbackDelete
<1>11. ASSUME Monitor \/ Maintenance
      PROVE  RestInv'
  <2>1. PICK a \in Apps : Launched(a) /\ Fail(a)
    BY <1>11, MonitorRow DEF Maintenance
  <2>2. \A b \in Apps : address'[b] = address[b] \/ Launched(b)
    BY <2>1, TableWritten
  <2>3. UNCHANGED <<clock, owners, told, creating, deleting>> /\ actor' = System /\ answer' = Silence
    BY <1>11 DEF Monitor, Maintenance
  <2> QED
    BY <1>0, <2>1, <2>2, <2>3, TableWritten, RowsWritten
<1>12. ASSUME Tick
      PROVE  RestInv'
  <2>1. TypeOK'
    <3>1. now' \in 0 .. MaxTime
      BY <1>12, ClockNat DEF Tick, RestInv, TypeOK
    <3> QED
      BY <1>12, <3>1 DEF Tick, RestInv, TypeOK, rows, owners
  <2>2. AddressIffRunning' /\ Ownership' /\ NotLaunched'
    BY <1>12 DEF Tick, RestInv, AddressIffRunning, Ownership, NotLaunched, rows, owners
  <2>3. KeysInOrder'
    <3>1. now' \in Int /\ now <= now'
      BY <1>12, ClockNat DEF Tick, RestInv, TypeOK
    <3>2. CurrentTimestamp <= CurrentTimestamp'
      BY <1>12, <3>1, TimestampMonotone DEF Tick, RestInv
    <3>3. CurrentTimestamp \in Int /\ CurrentTimestamp' \in Int
      <4>1. CurrentTimestamp \in 0 .. MaxTime
        BY TimestampType DEF RestInv
      <4>2. TicksPerSecond * (now' \div TicksPerSecond) \in Int
        BY <3>1, DivBounds
      <4> QED
        BY <3>1, <4>1, <4>2, ClockNat DEF CurrentTimestamp, Second
    <3>4. \A a \in Apps : created_at[a] \in Int
      BY ClockNat DEF RestInv, TypeOK
    <3> HIDE DEF CurrentTimestamp
    <3> QED
      BY <1>12, <3>2, <3>3, <3>4 DEF Tick, RestInv, KeysInOrder, rows, owners
  <2> QED
    BY <2>1, <2>2, <2>3 DEF RestInv
<1>13. ASSUME NEW age \in Ages, Prune(age)
      PROVE  RestInv'
  <2>1. answer'.infos = {} /\ answer'.all = FALSE
    BY <1>13 DEF Prune
  <2>2. CASE UNCHANGED state
    BY <1>0, <1>13, <2>1, <2>2, RowsUnchanged DEF Prune, rows
  <2>3. ASSUME NEW date,
               state' = [a \in Apps |-> IF Matches(a, date) THEN "PRUNED" ELSE state[a]]
        PROVE  RestInv'
    <3>1. address' \in [Apps -> Addresses \cup {NoAddress}]
      BY <1>13 DEF Prune, RestInv, TypeOK
    <3> QED
      BY <1>0, <1>13, <2>1, <2>3, <3>1, RowsPruned, RowsWritten DEF Prune
  <2> QED
    BY <1>13, <2>2, <2>3 DEF Prune
<1>14. ASSUME UNCHANGED vars
      PROVE  RestInv'
  <2>1. CurrentTimestamp' = CurrentTimestamp
    BY <1>14 DEF vars, clock, CurrentTimestamp, Second
  <2> QED
    BY <1>14, <2>1 DEF vars, clock, rows, owners, RestInv, TypeOK, AddressIffRunning, KeysInOrder,
                       Ownership, NotLaunched
<1> QED
  BY <1>1, <1>2, <1>3, <1>4, <1>5, <1>6, <1>7, <1>8, <1>9, <1>10, <1>11, <1>12, <1>13, <1>14 DEF Next

\* RestInv is an invariant.
THEOREM RestInvariant == Spec => []RestInv
<1>1. Init => RestInv
  <2> SUFFICES ASSUME Init
               PROVE  RestInv
    OBVIOUS
  <2> USE TableAssumption, RestAssumption, ClockNat, NoneApart, AnswerParts
  <2>1. TypeOK
    <3>1. now \in 0 .. MaxTime /\ created_at \in [Apps -> 0 .. MaxTime]
      BY DEF Init
    <3> QED
      BY <3>1 DEF Init, TableInit, TypeOK
  <2>2. AddressIffRunning /\ KeysInOrder /\ Ownership /\ NotLaunched
    <3>1. CurrentTimestamp \in 0 .. MaxTime
      BY <2>1, TimestampType
    <3> HIDE DEF CurrentTimestamp
    <3> QED
      BY <3>1
      DEF Init, TableInit, AddressIffRunning, KeysInOrder, Ownership, NotLaunched, Apps
  <2> QED
    BY <2>1, <2>2 DEF RestInv
<1>2. RestInv /\ [Next]_vars => RestInv'
  BY RestStep
<1> QED
  BY <1>1, <1>2, PTL DEF Spec

-----------------------------------------------------------------------------
(* What a user is shown                                                    *)

\* Three handlers answer with sessions.
LEMMA Shown ==
    ASSUME Next
    PROVE  \/ answer'.infos = {} /\ answer'.all = FALSE
           \/ \E u \in Users :
                  \/ CreateAnswer(u)
                  \/ \E a \in Apps : GetApp(u, a)
                  \/ \E f \in Filters, after, before \in Dates \cup {NoDate} :
                         ListApps(u, f, after, before)
<1> USE AnswerParts
<1>1. ASSUME NEW u \in Users,
             \/ CreateInsert(u) \/ CreateFails(u) \/ ListVersions(u) \/ DeleteUpdate(u)
             \/ \E a \in Apps : DeleteRead(u, a)
      PROVE  answer'.infos = {} /\ answer'.all = FALSE
  BY <1>1 DEF CreateInsert, CreateFails, ListVersions, DeleteUpdate, DeleteRead
<1>2. ASSUME NEW t \in Apps, AppCallback(t) \/ AppCallbackDelete(t)
      PROVE  answer'.infos = {} /\ answer'.all = FALSE
  BY <1>2 DEF AppCallback, AppCallbackDelete
<1>3. ASSUME Monitor \/ Maintenance \/ Tick \/ \E age \in Ages : Prune(age)
      PROVE  answer'.infos = {} /\ answer'.all = FALSE
  BY <1>3 DEF Monitor, Maintenance, Tick, Prune
<1> QED
  BY <1>1, <1>2, <1>3 DEF Next

\* What list_apps shows are rows of the user, and all that the filter wants.
LEMMA Listing ==
    ASSUME NEW u, NEW f, NEW after, NEW before, ListApps(u, f, after, before)
    PROVE  /\ \A a \in answer'.infos : Owned(u, a)
           /\ answer'.all # FALSE =>
                  /\ f \subseteq {Blank}
                  /\ \A a \in Apps : Owned(u, a) /\ state[a] \in WantedStates(f)
                                         => a \in answer'.infos
<1>1. CASE Unknown \in f
  BY <1>1, AnswerParts DEF ListApps
<1>2. CASE Unknown \notin f
  BY <1>2 DEF ListApps
<1> QED
  BY <1>1, <1>2

\* A user is shown own sessions only, in any order of the requests of all
\* users, drivers and commands: whatever get_app, list_apps and create_app
\* answer with was inserted for the user who asked.
THEOREM OwnSessionsOnlyAlways == Spec => []OwnSessionsOnly
<1>1. Init => OwnSessionsOnly
  BY AnswerParts DEF Init, OwnSessionsOnly
<1>2. RestInv /\ [Next]_vars /\ OwnSessionsOnly => OwnSessionsOnly'
  <2> SUFFICES ASSUME RestInv, [Next]_vars, OwnSessionsOnly
               PROVE  OwnSessionsOnly'
    OBVIOUS
  <2>1. CASE UNCHANGED vars
    BY <2>1 DEF vars, rows, owners, OwnSessionsOnly
  <2>2. CASE answer'.infos = {}
    BY <2>2 DEF OwnSessionsOnly
  <2>3. ASSUME NEW u \in Users, CreateAnswer(u)
        PROVE  OwnSessionsOnly'
    <3>1. username[creating[u]] = u
      BY <2>3 DEF CreateAnswer, RestInv, TypeOK, Ownership
    <3>2. \A a \in answer'.infos : a = creating[u]
      BY <2>3, AnswerParts DEF CreateAnswer
    <3> QED
      BY <2>3, <3>1, <3>2 DEF CreateAnswer, rows, owners, OwnSessionsOnly
  <2>4. ASSUME NEW u \in Users, NEW a \in Apps, GetApp(u, a), answer'.infos # {}
        PROVE  OwnSessionsOnly'
    <3>1. Owned(u, a) /\ answer'.infos = {a}
      BY <2>4, AnswerParts DEF GetApp
    <3> QED
      BY <2>4, <3>1 DEF GetApp, Owned, rows, owners, OwnSessionsOnly
  <2>5. ASSUME NEW u \in Users, NEW f \in Filters, NEW after, NEW before,
               ListApps(u, f, after, before)
        PROVE  OwnSessionsOnly'
    <3>1. \A a \in answer'.infos : username[a] = u
      BY <2>5, Listing DEF Owned
    <3> QED
      BY <2>5, <3>1 DEF ListApps, rows, owners, OwnSessionsOnly
  <2> QED
    BY <2>1, <2>2, <2>3, <2>4, <2>5, Shown
<1> QED
  BY <1>1, <1>2, RestInvariant, PTL DEF Spec

\* A list without a restriction misses no session that create_app told the user
\* about and that was not pruned, whoever wrote its row since and whatever its
\* state: the filters of list_apps leave out nothing.
THEOREM ToldIsListedAlways == Spec => []ToldIsListed
<1>1. Init => ToldIsListed
  BY AnswerParts DEF Init, ToldIsListed
<1>2. RestInv /\ [Next]_vars /\ ToldIsListed => ToldIsListed'
  <2> SUFFICES ASSUME RestInv, [Next]_vars, ToldIsListed
               PROVE  ToldIsListed'
    OBVIOUS
  <2>1. CASE UNCHANGED vars
    BY <2>1 DEF vars, rows, owners, ToldIsListed, Exists
  <2>2. CASE answer'.all = FALSE
    BY <2>2 DEF ToldIsListed
  <2>3. ASSUME NEW u \in Users, CreateAnswer(u) \/ \E a \in Apps : GetApp(u, a)
        PROVE  answer'.all = FALSE
    BY <2>3, AnswerParts DEF CreateAnswer, GetApp
  <2>4. ASSUME NEW u \in Users, NEW f \in Filters, NEW after, NEW before,
               ListApps(u, f, after, before), answer'.all # FALSE
        PROVE  ToldIsListed'
    <3>1. /\ f \subseteq {Blank}
          /\ \A a \in Apps : Owned(u, a) /\ state[a] \in WantedStates(f) => a \in answer'.infos
      BY <2>4, Listing
    <3>2. WantedStates(f) = State
      BY <3>1 DEF WantedStates
    <3>3. ASSUME NEW a \in told[u], a \in Apps, Exists(a)
          PROVE  a \in answer'.infos
      <4>1. Owned(u, a)
        BY <3>3 DEF RestInv, Ownership, Owned
      <4> QED
        BY <3>1, <3>2, <3>3, <4>1 DEF Exists
    <3>4. actor' = u /\ told' = told /\ state' = state
      BY <2>4 DEF ListApps, rows
    <3> QED
      BY <3>3, <3>4 DEF ToldIsListed, Exists
  <2> QED
    BY <2>1, <2>2, <2>3, <2>4, Shown DEF ToldIsListed
<1> QED
  BY <1>1, <1>2, RestInvariant, PTL DEF Spec

-----------------------------------------------------------------------------
(* Who changes a row                                                       *)

\* A request changes only rows of its user, and a driver's only the row of its
\* token.  delete_app may act on a key it found long ago and create_app on one
\* it inserted: the key is never given to somebody else's session.
THEOREM RowsConfinedAlways == Spec => RowsConfined
<1> DEFINE Row(a) == <<state[a], address[a], username[a]>>
           Confined == \A a \in Apps : Exists(a) /\ Row(a)' # Row(a)
                                           => actor' \in {System, username[a], a}
<1>1. RestInv /\ [Next]_vars => [Confined]_vars
  <2> SUFFICES ASSUME RestInv, Next, NEW a \in Apps, Exists(a), Row(a)' # Row(a)
               PROVE  actor' \in {System, username[a], a}
    OBVIOUS
  <2>1. ASSUME NEW u \in Users, CreateInsert(u)
        PROVE  FALSE
    BY <2>1 DEF CreateInsert, Create, SetRow, Exists, State, RestInv, TypeOK
  <2>2. ASSUME NEW u \in Users, CreateFails(u)
        PROVE  actor' = username[a]
    <3>1. creating[u] \in Apps /\ username[creating[u]] = u
      BY <2>2 DEF CreateFails, RestInv, TypeOK, Ownership
    <3>2. Fail(creating[u])
      BY <2>2, CreateFailsRow DEF CreateFails, tableVars, owners
    <3>3. a = creating[u]
      BY <2>2, <3>1, <3>2, TableWritten DEF CreateFails, owners
    <3> QED
      BY <2>2, <3>1, <3>3 DEF CreateFails
  <2>3. ASSUME NEW u \in Users, DeleteUpdate(u)
        PROVE  actor' = username[a]
    <3>1. deleting[u] \in Apps
      BY <2>3 DEF DeleteUpdate, RestInv, TypeOK
    <3>2. Owned(u, deleting[u]) /\ Finish(deleting[u])
      BY <2>3 DEF DeleteUpdate, tableVars, owners
    <3>3. a = deleting[u]
      BY <2>3, <3>1, <3>2, TableWritten DEF DeleteUpdate, owners
    <3> QED
      BY <2>3, <3>2, <3>3 DEF DeleteUpdate, Owned
  <2>4. ASSUME NEW t \in Apps, AppCallback(t)
        PROVE  actor' = a
    <3>1. \E k \in Addresses : Register(t, k)
      BY <2>4 DEF AppCallback, tableVars, owners
    <3>2. a = t
      BY <2>4, <3>1, TableWritten DEF AppCallback, owners
    <3> QED
      BY <2>4, <3>2 DEF AppCallback
  <2>5. ASSUME NEW t \in Apps, AppCallbackDelete(t)
        PROVE  actor' = a
    <3>1. Finish(t)
      BY <2>5 DEF AppCallbackDelete, tableVars, owners
    <3>2. a = t
      BY <2>5, <3>1, TableWritten DEF AppCallbackDelete, owners
    <3> QED
      BY <2>5, <3>2 DEF AppCallbackDelete
  <2>6. ASSUME Monitor \/ Maintenance \/ Tick \/ \E age \in Ages : Prune(age)
        PROVE  actor' = System
    BY <2>6 DEF Monitor, Maintenance, Tick, Prune
  <2>7. ASSUME NEW u \in Users,
               \/ CreateAnswer(u) \/ ListVersions(u)
               \/ \E b \in Apps : GetApp(u, b) \/ DeleteRead(u, b)
               \/ \E f \in Filters, after, before \in Dates \cup {NoDate} :
                      ListApps(u, f, after, before)
        PROVE  FALSE
    <3>1. UNCHANGED rows
      BY <2>7 DEF CreateAnswer, ListVersions, GetApp, DeleteRead, ListApps
    <3> QED
      BY <3>1 DEF rows, owners
  <2> QED
    BY <2>1, <2>2, <2>3, <2>4, <2>5, <2>6, <2>7 DEF Next
<1> QED
  BY <1>1, RestInvariant, PTL DEF Spec, RowsConfined

-----------------------------------------------------------------------------
(* What prune removes                                                      *)

\* The cutoff is an integer, whatever the cast makes of the age.
LEMMA CutoffType ==
    ASSUME NEW t \in 0 .. MaxTime, NEW age \in Ages
    PROVE  Cutoff(t, age) \in Int
<1> DEFINE half == 2^(Width - 1)
           full == 2^Width
<1>1. half \in Int /\ full \in Int
  BY CutoffAssumption
<1>2. t \in Int /\ age \in Int
  BY <1>1, ClockNat, RestAssumption
<1> HIDE DEF half, full
<1>3. AsSigned(t) \in Int /\ AsSigned(age) \in Int
  BY <1>1, <1>2 DEF AsSigned, half, full
<1> QED
  BY <1>1, <1>3 DEF Cutoff, SaturatingSub, half

\* An age that is no negative number once it is cast neither wraps around nor
\* saturates: the cutoff is that many seconds ago.
LEMMA CutoffExact ==
    ASSUME NEW t \in 0 .. MaxTime, NEW age \in Ages, age < 2^(Width - 1)
    PROVE  Cutoff(t, age) = t - age
<1> DEFINE half == 2^(Width - 1)
<1>1. half \in Int /\ MaxDate < half /\ age < half
  BY CutoffAssumption
<1>2. t \in Int /\ 0 <= t /\ t <= MaxDate /\ age \in Int /\ 0 <= age /\ MaxDate \in Nat
  BY ClockNat, RestAssumption, CutoffAssumption
<1> HIDE DEF half
<1>3. AsSigned(t) = t /\ AsSigned(age) = age
  BY <1>1, <1>2 DEF AsSigned, half
<1> QED
  BY <1>1, <1>2, <1>3 DEF Cutoff, SaturatingSub, half

\* Where the cutoff of a non-negative age lies: in Postgres a row is matched by
\* the date itself, in SQLite by its day, and whatever is not after the date is
\* matched in both.
LEMMA CutoffBounds ==
    ASSUME TypeOK, NEW a \in Apps, NEW age \in Ages, age < 2^(Width - 1)
    PROVE  LET date  == TicksPerSecond * (Second(now) - age)
               asked == TicksPerSecond * age
               day   == TicksPerSecond * SecondsPerDay
           IN  /\ date \in Int /\ asked \in Int /\ day \in Int
               /\ date <= now - asked /\ now - asked <= date + (TicksPerSecond - 1)
               /\ store = "postgres" => (NotAfter(a, date) <=> created_at[a] <= date)
               /\ store = "sqlite" /\ NotAfter(a, date) => created_at[a] <= date + (day - 1)
               /\ created_at[a] <= date => NotAfter(a, date)
<1> DEFINE s == Second(now)
           c == s - age
           date == TicksPerSecond * c
           asked == TicksPerSecond * age
           sc == Second(created_at[a])
           dc == Day(created_at[a])
           dd == c \div SecondsPerDay
<1>1. /\ now \in Int /\ created_at[a] \in Int /\ MaxTime \in Int
      /\ TicksPerSecond \in Nat \ {0} /\ SecondsPerDay \in Nat \ {0}
  BY ClockNat, RestAssumption DEF TypeOK
<1>2. age \in Int /\ 0 <= age
  <2>1. 2^Width \in Int
    BY CutoffAssumption
  <2> QED
    BY <2>1, RestAssumption
<1>3. /\ s \in Int /\ s <= MaxTime /\ TicksPerSecond * s \in Int
      /\ TicksPerSecond * s <= now /\ now <= TicksPerSecond * s + (TicksPerSecond - 1)
  BY <1>1, DivBounds, TimestampType DEF Second
<1>4. c \in Int /\ c <= MaxTime
  BY <1>1, <1>2, <1>3
<1>5. Second(date) = c /\ Day(date) = dd
  BY <1>1, <1>4, DivOfTimes DEF Second, Day
<1>6. /\ sc \in Int /\ dc \in Int /\ dd \in Int
      /\ created_at[a] <= TicksPerSecond * sc + (TicksPerSecond - 1)
      /\ sc <= SecondsPerDay * dc + (SecondsPerDay - 1)
      /\ SecondsPerDay * dd <= c
  BY <1>1, <1>4, DivBounds DEF Second, Day
<1>7. Second(date) <= FourDigits
  BY <1>1, <1>4, <1>5, RestAssumption
<1>8. NotAfter(a, date) <=> IF store = "sqlite" THEN dc <= dd ELSE created_at[a] <= date
  BY <1>5, <1>7 DEF NotAfter
<1>9. created_at[a] <= date => dc <= dd
  <2> SUFFICES ASSUME created_at[a] <= date
               PROVE  dc <= dd
    OBVIOUS
  <2>1. date \in Int
    BY <1>1, <1>4
  <2>2. sc <= Second(date)
    BY <1>1, <2>1, DivMonotone DEF Second
  <2>3. sc <= c
    BY <1>5, <2>2
  <2> QED
    BY <1>1, <1>4, <1>6, <2>3, DivMonotone DEF Day
<1> HIDE DEF s, sc, dc, dd
<1>10. /\ date = TicksPerSecond * s - asked /\ date \in Int /\ asked \in Int
       /\ TicksPerSecond * SecondsPerDay \in Int
  BY <1>1, <1>2, <1>3
<1>11. dc <= dd => created_at[a] <= date + (TicksPerSecond * SecondsPerDay - 1)
  <2> SUFFICES ASSUME dc <= dd
               PROVE  created_at[a] <= date + (TicksPerSecond * SecondsPerDay - 1)
    OBVIOUS
  <2>1. SecondsPerDay * dc <= SecondsPerDay * dd
    BY <1>1, <1>6, TimesMonotone
  <2>2. SecondsPerDay * dc \in Int /\ SecondsPerDay * dd \in Int
    BY <1>1, <1>6
  <2>3. sc <= c + (SecondsPerDay - 1)
    BY <1>1, <1>4, <1>6, <2>1, <2>2
  <2>4. TicksPerSecond * sc <= TicksPerSecond * (c + (SecondsPerDay - 1))
    BY <1>1, <1>4, <1>6, <2>3, TimesMonotone
  <2>5. TicksPerSecond * (c + (SecondsPerDay - 1)) =
            TicksPerSecond * c + TicksPerSecond * SecondsPerDay - TicksPerSecond
    BY <1>1, <1>4
  <2>6. TicksPerSecond * sc \in Int /\ TicksPerSecond * c \in Int
    BY <1>1, <1>4, <1>6
  <2> QED
    BY <1>1, <1>6, <1>10, <2>4, <2>5, <2>6
<1>12. date <= now - asked /\ now - asked <= date + (TicksPerSecond - 1)
  BY <1>1, <1>3, <1>10
<1> HIDE DEF c, date, asked
<1>13. /\ store = "postgres" => (NotAfter(a, date) <=> created_at[a] <= date)
       /\ store = "sqlite" /\ NotAfter(a, date) =>
              created_at[a] <= date + (TicksPerSecond * SecondsPerDay - 1)
       /\ created_at[a] <= date => NotAfter(a, date)
  BY <1>8, <1>9, <1>11
<1> QED
  BY <1>10, <1>12, <1>13 DEF date, asked, c, s

\* prune removes ended sessions only: in Postgres those of the age it is given,
\* less at most a fraction of a second, in SQLite some that are younger by less
\* than a day, for every age below 2^(Width - 1) and whatever chrono's dates: if
\* the cutoff is no date, no session is that old.
THEOREM PruneByAgeAlways == Spec => PruneByAge
<1> DEFINE ByAge ==
               \A age \in Ages : age < 2^(Width - 1) /\ Prune(age) =>
                   \A a \in Apps : Exists(a) =>
                       LET old   == now - created_at[a]
                           asked == TicksPerSecond * age
                           slack == IF store = "sqlite"
                                    THEN TicksPerSecond * SecondsPerDay - 1 ELSE 0
                       IN  /\ state'[a] = "PRUNED" =>
                                  state[a] \in Terminal /\ old >= asked - slack
                           /\ state[a] \in Terminal /\ old >= asked + (TicksPerSecond - 1)
                                  => state'[a] = "PRUNED"
<1>1. RestInv => ByAge
  <2> SUFFICES ASSUME RestInv, NEW age \in Ages, age < 2^(Width - 1), Prune(age),
                      NEW a \in Apps, Exists(a)
               PROVE  LET old   == now - created_at[a]
                          asked == TicksPerSecond * age
                          slack == IF store = "sqlite"
                                   THEN TicksPerSecond * SecondsPerDay - 1 ELSE 0
                      IN  /\ state'[a] = "PRUNED" =>
                                 state[a] \in Terminal /\ old >= asked - slack
                          /\ state[a] \in Terminal /\ old >= asked + (TicksPerSecond - 1)
                                 => state'[a] = "PRUNED"
    OBVIOUS
  <2> DEFINE cutoff == Second(now) - age
             date == TicksPerSecond * cutoff
             asked == TicksPerSecond * age
             day == TicksPerSecond * SecondsPerDay
  <2>1. TypeOK
    BY DEF RestInv
  <2>2. Cutoff(Second(now), age) = cutoff
    BY <2>1, TimestampType, CutoffExact
  <2>3. /\ date \in Int /\ asked \in Int /\ day \in Int
        /\ date <= now - asked /\ now - asked <= date + (TicksPerSecond - 1)
        /\ store = "postgres" => (NotAfter(a, date) <=> created_at[a] <= date)
        /\ store = "sqlite" /\ NotAfter(a, date) => created_at[a] <= date + (day - 1)
        /\ created_at[a] <= date => NotAfter(a, date)
    BY <2>1, CutoffBounds
  <2>4. /\ now \in Int /\ created_at[a] \in Int /\ 0 <= created_at[a]
        /\ TicksPerSecond \in Int /\ store \in {"sqlite", "postgres"}
    BY <2>1, ClockNat, RestAssumption DEF TypeOK
  <2>5. state[a] # "PRUNED"
    BY DEF Exists, State
  <2>6. CASE HasDate(cutoff)
    <3>1. state'[a] = IF Matches(a, date) THEN "PRUNED" ELSE state[a]
      BY <2>2, <2>6 DEF Prune
    <3> HIDE DEF date, asked, day, cutoff
    <3>2. state'[a] = "PRUNED" <=> state[a] \in Terminal /\ NotAfter(a, date)
      BY <2>5, <3>1 DEF Matches
    <3>3. NotAfter(a, date) =>
              now - created_at[a] >= asked - (IF store = "sqlite" THEN day - 1 ELSE 0)
      BY <2>3, <2>4
    <3>4. now - created_at[a] >= asked + (TicksPerSecond - 1) => NotAfter(a, date)
      BY <2>3, <2>4
    <3> QED
      BY <3>2, <3>3, <3>4 DEF asked, day
  <2>7. CASE ~ HasDate(cutoff)
    <3>1. state' = state
      BY <2>2, <2>7 DEF Prune
    <3>2. Second(now) \in Int /\ Second(now) <= MaxDate /\ age \in Int /\ 0 <= age
      <4>1. 2^Width \in Int
        BY CutoffAssumption
      <4> QED
        BY <2>1, <4>1, TimestampType, ClockNat, RestAssumption, CutoffAssumption
    <3>3. cutoff \in Int /\ cutoff <= -1
      BY <2>7, <3>2, CutoffAssumption DEF HasDate
    <3> HIDE DEF cutoff
    <3>4. date <= TicksPerSecond * (-1)
      BY <3>3, RestAssumption, TimesMonotone
    <3>5. date < 0
      BY <2>3, <3>4, RestAssumption
    <3> HIDE DEF date, asked, day
    <3>6. ~ (now - created_at[a] >= asked + (TicksPerSecond - 1))
      BY <2>3, <2>4, <3>5
    <3> QED
      BY <2>5, <3>1, <3>6 DEF asked
  <2> QED
    BY <2>6, <2>7
<1> QED
  BY <1>1, RestInvariant, PTL DEF Spec, PruneByAge

\* Keys are as old as their order: the rows a date matches are those up to a
\* key, so that prune is a Remove of the abstract table, or removes nothing.
LEMMA PruneIsRemove ==
    ASSUME RestInv, NEW age \in Ages, Prune(age)
    PROVE  (\E cutoff \in Apps : Remove(cutoff)) \/ UNCHANGED tableVars
<1> DEFINE cutoffSecond == Cutoff(Second(now), age)
           date == TicksPerSecond * cutoffSecond
           Old == {a \in Apps : state[a] # "NONE" /\ NotAfter(a, date)}
<1>1. date \in Int
  <2>1. cutoffSecond \in Int
    BY TimestampType, CutoffType DEF RestInv
  <2> HIDE DEF cutoffSecond
  <2> QED
    BY <2>1, RestAssumption
<1>2. \A a \in Apps : created_at[a] \in Int
  BY ClockNat DEF RestInv, TypeOK
<1> HIDE DEF cutoffSecond, date
<1>3. CASE HasDate(cutoffSecond)
  <2>1. state' = [a \in Apps |-> IF Matches(a, date) THEN "PRUNED" ELSE state[a]]
    BY <1>3 DEF Prune, date, cutoffSecond
  <2>2. UNCHANGED address
    BY DEF Prune
  <2>3. \A a \in Apps : Matches(a, date) => a \in Old
    BY DEF Matches, Terminal
  <2>4. CASE Old = {}
    <3>1. state' = state
      BY <2>1, <2>3, <2>4 DEF RestInv, TypeOK
    <3> QED
      BY <2>2, <3>1 DEF tableVars
  <2>5. CASE Old # {}
    <3>1. Old \subseteq 0 .. MaxApps
      BY TableAssumption DEF Apps
    <3>2. PICK cutoff \in Old : \A a \in Old : a <= cutoff
      <4> HIDE DEF Old
      <4> QED
        BY <2>5, <3>1, GreatestOf, TableAssumption
    <3>3. ASSUME NEW a \in Apps
          PROVE  Matches(a, date) <=> state[a] \in Terminal /\ a <= cutoff
      <4>1. ASSUME a < cutoff
            PROVE  created_at[a] <= created_at[cutoff]
        BY <4>1, <3>2 DEF RestInv, KeysInOrder
      <4>2. a \in Int /\ cutoff \in Int
        BY <3>2, TableAssumption DEF Apps
      <4>3. a <= cutoff => NotAfter(a, date)
        BY <1>1, <1>2, <3>2, <4>1, <4>2, OlderMatches
      <4> QED
        BY <2>3, <3>2, <4>3 DEF Matches
    <3>4. Remove(cutoff)
      BY <2>1, <2>2, <3>3 DEF Remove
    <3> QED
      BY <3>2, <3>4
  <2> QED
    BY <2>4, <2>5
<1>4. CASE ~ HasDate(cutoffSecond)
  BY <1>4 DEF Prune, cutoffSecond, tableVars
<1> QED
  BY <1>3, <1>4

\* The handlers of all users and drivers, the maintenance tasks and prune
\* implement the abstract table together.
THEOREM ImplementsTable == Spec => TableSpec
<1>1. Init => TableInit
  BY DEF Init
<1>2. RestInv /\ [Next]_vars => [TableNext]_tableVars
  <2> SUFFICES ASSUME RestInv, Next
               PROVE  TableNext \/ UNCHANGED tableVars
    BY DEF vars, rows, tableVars
  <2>1. ASSUME NEW u \in Users, CreateInsert(u)
        PROVE  TableNext
    BY <2>1 DEF CreateInsert, TableNext
  <2>2. ASSUME NEW u \in Users, CreateFails(u)
        PROVE  TableNext \/ UNCHANGED tableVars
    BY <2>2, CreateFailsRow DEF TableNext
  <2>3. ASSUME NEW u \in Users, DeleteUpdate(u)
        PROVE  TableNext \/ UNCHANGED tableVars
    BY <2>3 DEF DeleteUpdate, TableNext, RestInv, TypeOK
  <2>4. ASSUME NEW t \in Apps, AppCallback(t) \/ AppCallbackDelete(t)
        PROVE  TableNext \/ UNCHANGED tableVars
    BY <2>4 DEF AppCallback, AppCallbackDelete, TableNext, tableVars
  <2>5. CASE Monitor \/ Maintenance
    BY <2>5, MonitorRow DEF Maintenance, TableNext
  <2>6. ASSUME NEW age \in Ages, Prune(age)
        PROVE  TableNext \/ UNCHANGED tableVars
    BY <2>6, PruneIsRemove DEF TableNext
  <2>7. CASE UNCHANGED rows
    BY <2>7 DEF rows, tableVars
  <2> QED
    BY <2>1, <2>2, <2>3, <2>4, <2>5, <2>6, <2>7
    DEF Next, CreateAnswer, ListVersions, GetApp, DeleteRead, ListApps, Tick
<1> QED
  BY <1>1, <1>2, RestInvariant, PTL DEF Spec, TableSpec
=============================================================================
