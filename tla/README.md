# Spark Plug in TLA+

Spark Plug starts Spark Connect sessions in a cluster, remembers them in a
database and proxies gRPC requests to their drivers. This directory models the
parts of it that several processes share (the `application` table, everybody
who writes it, and the cache of upstream connections), the server around them
(accepting connections, authenticating requests, answering them, shutting
down), what a launch hands to `spark-submit`, and the clocks of `prune` and of
the driver's idle thread. The models are checked by TLC on small instances; the
theorems are proved by TLAPS for every value of the constants.

## The system

| Part | State | Operations | Talks to |
| --- | --- | --- | --- |
| `application` table (`entities/application.rs`, migrations) | one row per session: `state`, `address`, `application_id`, `token`, owner | single SQL statements | all others |
| REST API (`routes.rs`) | none between requests; locals across awaits | `create_app`, `delete_app`, `app_callback`, `app_callback_delete`, queries | table, launcher, driver, cache |
| launcher (`launcher.rs`) | the `spark-submit` child, a timer | `launch`, `track_launch`, building the command line | `spark-submit`, the launch task |
| proxy (`proxy.rs`) | token -> channel map under a mutex; one task and connection per token | `sender_for`, `dispatch_request`, `invalidate`, `upstream_connection` | table, driver |
| maintenance commands (`lib.rs`) | none; separate processes | `check`, `prune` | table, driver |
| driver plugin (`plugin/`) | `externalShutdown`, `lastActive` | callback, goodbye, stop, health, idle stop | REST API, proxy |
| server (`lib.rs`) | watch channels of the graceful shutdown | accept loop, `serve_connection` | proxy |
| authentication (`auth.rs`) | the list of methods, made at start-up | `UserAuth`, `TokenAuth` | REST API |
| configuration, kerberos, clients | no shared state | | |

What makes it hard: every handler is a future that can be dropped at any
`await`; no statement is in a transaction with another; the driver's callbacks
may be lost, late or repeated by a restarted driver; `check` and `prune` run in
processes of their own against rows that change under them; the launch timer
and the cache live in one process and die with it; `sender_for` gives up its
mutex for a database query.

What makes each part correct: the row of a session tells the truth about its
driver (never active without an address, FINISHED only by its owner or on the
word of a driver that stopped serving, RUNNING while the driver serves); launches and dead sessions
settle; a token has one dispatcher, which outlives its users and no longer;
no request is served after its session was ended; every request is answered
unless its session launches for ever;
a user sees and changes own sessions only; the readers of a bearer token agree;
the user's settings never replace what the administrator forced, and of the rest
of a request only its name and its environment do; `prune` removes what is old
enough, as far as the store can compare dates; a shutdown waits for the
connections and still comes to an end; an idle session stops, one with
executions does not.
The full list of what can go wrong, line by line, is under `hazards` in
PROJECT.json.

## Modules

| Module | Models |
| --- | --- |
| `ApplicationTable` | the abstract table: the five writes the system may make to a row (Create, Register, Finish, Fail, Remove) |
| `SessionLifecycle` | every writer of the table, between its await points, with the driver and its callbacks |
| `SessionLifecycleProofs` | theorems about it |
| `UpstreamCache` | the cache, the dispatchers and the requests of one server process, over the abstract table |
| `UpstreamCacheProofs` | theorems about it |
| `ServiceContract` | the abstract contract of a graceful shutdown: work is taken on while the server is up, and it goes down without any |
| `GracefulShutdown` | `Server::run` and `serve_connection`; implements `ServiceContract` |
| `GracefulShutdownProofs` | theorems about it |
| `RestApi` | all routes over the abstract table, with the owners and ages of rows, and `prune` with its clock |
| `PruneCutoff` | the integer arithmetic of `prune` |
| `Authorization` | `UserAuth` from its configuration to a username, `TokenAuth`, the proxy's reader of a bearer token |
| `GrpcMessage` | what the proxy answers when something goes wrong |
| `RequestPath` | the composition of the two: a request on its way in, and its refusal on its way out |
| `LaunchConfig` | `SparkLauncher::launch`: version, Python environment, layers of configuration |
| `SessionIdle` | the driver's idle thread, with its clock |
| `RestApiProofs`, `RequestPathProofs`, `LaunchConfigProofs`, `SessionIdleProofs` | theorems about these four |
| `LeastNumber` | the least-number principle as lemmas the provers can apply |
| `MC*` | constants and symmetry sets for TLC |

`SessionLifecycle` implements `ApplicationTable` (property `TableSpec`, theorem
`ImplementsTable`), and `UpstreamCache` takes the abstract table as its
environment: what is shown of the proxy holds for every behaviour of the other
writers, because it holds for every behaviour of the abstract table. The
properties of `UpstreamCache` do not depend on which of the five writes happen
when, only on the two handlers that invalidate a token, which are modelled
there step by step. `RestApi` writes the table through the same five
operations, but for two writes of the state alone, and is shown to implement it
as well; there `prune` removes rows by `created_at` and the refinement shows
that this is a removal by key, oldest first. `SessionIdle` is what `SessionLifecycle` abstracts to `DriverIdle`, and
`LaunchConfig` what it abstracts to the success or failure of a launch.

### ApplicationTable

A row is named by its primary key, which is auto-incremented and so used once;
`NONE` is a key not allocated yet and `PRUNED` one whose row was deleted. The
token is drawn once per row and never changes, so it is the key as well. An
address is the number of the driver that announced it: two drivers never share
one, so a port that is taken by another session's driver is not modelled (see
the hazard at `proxy.rs:218`). The owner and the age of a row are in `RestApi`.

### SessionLifecycle

One SQL statement is one step. A handler that awaits between two statements is
several actions, and its locals are variables:

| Code | Variables | Actions |
| --- | --- | --- |
| `create_app`, `launch` | `create` | `CreateInsert`, `CreateLaunched`, `CreateLaunchFailed`, `CreateMarkFailed`, `CreateDropped` |
| `track_launch` and the task of `create_app` | `monitor`, `submit` | `MonitorWake`, `MonitorMark`, `SubmitExit` (external) |
| `SparkPlugListener`, `SparkPlugInterceptor` | `driver`, `attempt`, `external`, `posts`, `reply`, `goodbye` | `DriverStart`, `DriverRegistered`, `DriverRejected`, `DriverIdle`, `DriverGoodbye`, `DriverEnd`, `InterceptStop`, `DriverCrash` (external) |
| `app_callback`, `app_callback_delete` | columns | `AppCallback`, `AppCallbackDelete` |
| `delete_app` | `delPc`, `delApp`, `delAddr` | `DeleteRead`, `DeleteUpdate`, `DeleteStopped`, `DeleteStopFailed`, `DeleteDropped` |
| `resolve_upstream_connection` as a writer | `connPc`, `connAddr` | `ProxyResolve`, `ProxyConnected`, `ProxyGaveUp` |
| `check` | `chkPc`, `chkTodo`, `chkAddr`, `chkCur` | `CheckRead`, `CheckHealthy`, `CheckUnhealthy`, `CheckMark`, `CheckDone` |
| `prune` | columns | `Prune` |
| a stop of the process | all of the server's | `ServerCrash` |

`deletion` is a history variable. Faults are a constant: `crash` (the server is
restarted on the same durable store), `disconnect` (a client goes away and its
handler's future is dropped), `db` (a statement fails), `loss` (a callback, or
the answer to a stop message, is lost), `slow` (the driver's 10 s expire before
the answer; the request may still be handled), `flaky` (a live driver cannot be
reached for a while) and `driver_crash`. Without a fault in the set the step is
not possible, so each run says what it tolerates.

Times are abstracted: `launch_timeout`, the 10 s of the callback and the idle
timeout are steps that may come at any moment. A series of attempts (four
health probes, four connection attempts) is one step that needs the address to
be unreachable, unless the network is `flaky`. The rows `check` read may be
visited in any order. The interceptor's answer, flag and stop are one step, as
they are for everybody outside the driver. `invalidate` is in `UpstreamCache`.

The goodbye of a driver is two steps: the listener sends `DELETE /callback` and
waits (`leaving`), and the driver exits once it has an answer, an error or a
timeout. It may be killed in between, and `goodbye` holds the requests under way
by sender, so one of them may be handled when the next driver is already up.

### UpstreamCache

A step is what happens under the mutex, one statement, or one poll of a
channel. A dispatcher is the task and its channel; the channel is closed for
the receiver when neither the cache nor a request that has not returned holds a
Sender (`HasSender`), and for senders when the task has ended (`IsClosed`). A
request holds its clone until `dispatch_request` returns. `late` and `closed`
are history variables that mark requests begun after a completed
`delete_app`/`app_callback_delete`. A request is made once; the bearer token of
a message always is its dispatcher's, since the channel is chosen by it, so the
mismatch branch of `upstream_connection` does not appear (`Senders` and
`RoutedMessages` state the fact it rests on). An address that does not parse as
a URI is not modelled: addresses are what the driver's listener builds.
`CloseUpdate` goes on to the invalidation when its row was pruned, as
`delete_app` does after its read.

### GracefulShutdown

`server` is where `run` is: in the select (`accepting`), awaiting a TLS
handshake inside the loop, waiting for `close_tx.closed()` (`draining`), or out
of it. `task` is a connection from the kernel's backlog to its end; `Live` are
the ones whose task holds a `close_rx`, and `ownRx` is the one of `run` itself,
which it has to drop before it waits. `signal` is the dropped `signal_rx`. The
select may take either branch when both are ready, so a connection may still be
accepted after the signal. `hyper` is external: it takes no request after
`graceful_shutdown()` and the future completes after the last answer. A failing
`accept` or handshake ends `run` by `?` or `unwrap` and cuts everything; the
refinement maps this to the contract's `Crash`. `Connect`, `RequestStart`,
`RequestEnd`, `ClientCloses` and `ShutdownSignal` are the environment.

### RestApi

`Owned` is the pair of filters on `username` and the key that `get_app`,
`list_apps` and `delete_app` use. `create_app` and `delete_app` are two steps
each, since they await between their statements. `actor` and `answer` record
whose credentials the last step used and what it was told. The driver's routes
are keyed by the token, which a driver has once it is launched. Of an
`ApplicationInfo` the model keeps which session it is of; its fields and the
rendered URLs are formatting. `CreateFails` and `Monitor` write the state alone,
as `create_app` and its task do. `Prune` computes its cutoff as the code does:
`as i64`, `saturating_sub`, and an error if `from_timestamp` has no such date,
with integers of `Width` bits.

Dates are compared as the store does it (`NotAfter`, `NotBefore`), with a clock
of `TicksPerSecond` and days of `SecondsPerDay`. `created_at` is the database's
`CURRENT_TIMESTAMP`. SQLite, the default, stores it as the text
`YYYY-MM-DD HH:MM:SS` and compares it with the RFC 3339 text of the bound date,
where a `T` stands for the space: on the same day the column is always the
smaller one, and a year after 9999 begins with a `+`, which is smaller than any
digit. Postgres compares instants, with fractions of a second in the column and
none in the cutoff. Dates before 1970 are negative days and compare as before.

### Authorization, GrpcMessage, RequestPath

A header is a sequence of symbols (`Bearer`, `Space`, tokens, and one that is
not ASCII), so `starts_with`, the slice at 7 and `split_once` can be told apart.
The server starts by creating its methods in order (`EnableMethod`), where a
wrong option panics, and then steps one request through the reader its path
leads to. Whether a key accepts a token is the library's decision: each key
accepts one token. An error of the proxy becomes a status and a
percent-encoded message, one byte per step. `RequestPath` joins them: what
`extract_bearer_token` refuses, or what goes wrong behind it, is what is
encoded.

### LaunchConfig

A configuration is a partial function; a value is the list of its
comma-separated items, and an item keeps the layer it came from, so that
properties can say whose value ended up where. `build_conf`,
`validate_file_configs` and `build_submit_command` are operators, the rest of
`launch` and `build_python_venv` are steps with their failures. The future may
be dropped while it waits for a program; the program is not killed
(`kill_on_drop` is not set), so it becomes the `orphan`, the removal of the
directory under it may fail, and what it writes when it ends is there to stay
(`OrphanEnds`). `Over` and `Insert` are the `extend` and `insert`
of a `HashMap`. `NothingLost` leaves out the workers' Python of a session with
packages, which the environment replaces whatever the layers say
(`launcher.rs:395`). `ForcedStands` names the three places where a request
changes a forced value: the name, this Python, and the archives. Master, deploy mode, class and environment
variables are passed through and left out.

### SessionIdle

`idle` is the age of `lastActive`, `quiet` the time since a call began or an
execution was under way, both up to one tick more than the timeout. The
thread's sleep, its look for executions, its comparison and its stop are
separate steps, and calls and events happen between them. A call may take any
time before it becomes an execution, and may return without ever being one, as
AnalyzePlan or AddArtifacts do. An event is delivered before the clock goes on.

## Runs

Passing runs:

| Run | Instance | Shows |
| --- | --- | --- |
| `session_races` | 1 session, 1 driver, 2 deletions, all faults but `flaky` | the safety properties of a session under every interleaving, the inductive invariants of the proofs, and the refinement |
| `session_liveness` | 1 session, 2 drivers, 1 deletion, `loss`, `slow`, `flaky`, `driver_crash` | launches and dead sessions settle; FINISHED only by a deletion or a driver that stopped serving |
| `proxy_safety` | 1 token, 3 requests, 3 dispatchers, 1 closer, 1 retry, `disconnect`, `db` | the cache and the inductive invariant |
| `proxy_liveness` | 1 token, 2 requests, 2 dispatchers, 1 closer, `disconnect` | every request is answered unless its session stays LAUNCHING, every invalidated dispatcher ends |
| `shutdown` | 3 connections, with and without TLS, failing accepts and handshakes | the shutdown implements its contract, a signal brings the server down |
| `launch_config` | 3 versions (two of one name), the name, the archives, the workers' Python and an internal property, 5 shapes of lists | what reaches `spark-submit`, and what a build leaves behind |
| `request_path` | lists of up to 2 of 8 method entries, headers of up to 3 of 4 symbols, messages of up to 2 of 6 bytes | who gets in and as whom, and what a refused client reads |
| `rest_api` | SQLite and Postgres, 2 users, 2 sessions, 4 filters, two seconds of 2 ticks, days of 2 seconds, ages 0, 1, 7, 12, 15 with 4-bit integers | isolation of users, complete lists, prune by age, the refinement |
| `session_idle` | 2 calls, executions or not, a timeout of one check period of 3 ticks | a session with executions is not stopped, an idle one is |

Two deletions and one driver are enough for every pair of handlers to overlap
at every await; a second driver is what an old address needs to be stale.
Tokens do not interact in the cache (each has its own entry, channel and task,
and the mutex is held for one look at one entry), so one token is checked, with
three requests: one that inserts, one that races it and one that comes after
the invalidation. In `proxy_liveness` there are as many dispatchers as
requests, because a request spawns at most one. What holds for several
sessions, restarted drivers, and more requests and closers is not checked by a
run of its own but proved: the safety properties of these two modules, and of
all others, are theorems for every value of the constants, with the
restrictions on `FailedOnEvidence`, `ServingListed` and `StopsOnlyWhenQuiet`
given under Proofs.

Three connections are one to be cut, one in its handshake and one in the
backlog. Two entries of `auth_methods` are enough for one to fail before
another succeeds, and three symbols for a scheme, its blank and a token. The
bytes are both sides of each boundary of the encoding and the percent sign. Four
bits give the cutoff every case of 64: an ordinary date, one before 1970, one
chrono does not have, and an age that becomes negative, with a cutoff before and
after the year 9999; the ages 0 and 1 with rows of age 0 and 1 are on both
sides of the inclusive bound, also by half a second, and the cutoff is on the
row's day or on the day before.
`launch_config` has every combination of layers for the properties a request
changes after `build_conf`; defaults and merged values exist for two of them. A timeout of exactly
one period is the smallest for which `StopsOnlyWhenQuiet` holds.

All runs switch deadlock checking off: sessions, requests and connections are
bounded, and the system may stop when all of them are over.

Runs that TLC must refute, each a disagreement between the code and what the
repository says of it (see `findings` in PROJECT.json):

| Run | Says | Code |
| --- | --- | --- |
| `delete_final` | a test: a deleted session is not active | a callback that arrives later makes it RUNNING again |
| `launch_timeout_crash` | `config.yaml`: a launch without callback is considered failed after `launch_timeout` | the timer dies with the process |
| `tls_failure` | `run`: existing connections finish their work before the server shuts down | one failed TLS handshake ends `run` at once |

### Other disagreements

Met while modelling, and recorded here without a run:

* The help text of `check` says unreachable apps are marked "as finished"; they
  are FAILED. It speaks of running apps; the update has no filter on the state,
  so a session that was FINISHED since the rows were read becomes FAILED
  (`lib.rs:233`).
* `sender_for` says only tokens that identify an application are cached
  (`proxy.rs:131`); the row may be pruned between the lookup and the insert, and
  nothing removes the entry then. No property is stated: the dispatcher of such
  an entry has no connection and answers with an error.
* `config.yaml:88` says override configs "cannot be overridden by users and will
  always be set to explicit values"; the name in a request replaces a forced
  `spark.app.name` (`launcher.rs:346`), and the packages of a request replace a
  forced `spark.sql.execution.pyspark.python` (`launcher.rs:395`) and add to
  forced archives. `ForcedStands` says that there is no fourth case.
* `lib.rs:61` calls the argument of `prune` the "Minimum application age in
  seconds for deletion". On SQLite every ended row of the cutoff's day is
  removed, up to a day too young (`lib.rs:200`), because the column and the
  bound date have different text forms; the dates of `list_apps` are compared
  the same way (`routes.rs:242`). The repository's tests insert `created_at` as
  a bound date, in the same form as the cutoff, and do not meet it.
  `PruneByAge` says how far off it can be.
* A request for a session that stays LAUNCHING (a dropped `create_app`, a failed
  statement of the launch task, a restart) is never answered:
  `resolve_upstream_address` has no limit of its own (`proxy.rs:300`).
  `AllAnswered` makes this exception.
* A goodbye that is handled after its driver was killed and replaced ends the
  row of the new driver (`routes.rs:371`): the token is all the route looks at.
  `FinishedOnGoodbye` allows it and nothing else.
* A client that goes away during the build of an environment leaves `uv` or
  `venv-pack` running without a parent that waits for it, and with them possibly
  the directory or a tarball (`launcher.rs:233`).
* An age of 2^63 or more for `prune` becomes negative, so the cutoff lies in the
  future and ended sessions younger than the "minimum application age" are
  removed (`lib.rs:189`). `PruneByAge` is about the ages below.
* The idle thread compares and stops in two steps, so a call that arrives in
  between is cut off although `config.yaml:28` speaks of sessions "with no
  activity". So is a call that is no execution, such as AddArtifacts, once it
  takes longer than the timeout: it counts when it begins only
  (`SparkPlugInterceptor.scala:33`). With a timeout below the 60 s of a check, the thread can also
  decide to stop right after a long execution, whose last event is still in the
  listener bus; `StopsOnlyWhenQuiet` needs a timeout of a period or more.
* The TLS handshake is awaited in the accept loop: while one client stalls in
  it nobody else is accepted and a signal is not noticed (`lib.rs:161`).
  `ShutdownCompletes` assumes that handshakes end.
* `README.md:12` says sessions are opened at the proxy with the token. The
  clients name no port if the URL has the scheme's own, which then means 15002
  (`clients/rust/src/lib.rs:57`), and the Python client puts a dollar sign
  before the token over https (`clients/python/spark_plug_client/__init__.py:71`).

### Fairness

`SessionLifecycle!FairSpec` assumes that tokio polls `create_app` and its task
until they are done and that the timer of `track_launch` expires (weak fairness
of their steps), and that an operator runs `check` again and again, which the
server does not do itself. Nothing is assumed of drivers, of clients, of
`delete_app` or of the network. `LaunchSettles` holds without `crash`,
`disconnect` and `db`, since each of them can end the only task that would
settle the launch; `launch_timeout_crash` shows it for `crash`.
`UpstreamCache!FairSpec` assumes that requests and dispatchers are polled, that
a request sent to a driver is answered or its connection breaks. Nothing is
assumed of a launch: a session may stay LAUNCHING.
`GracefulShutdown!FairSpec` assumes that tokio polls every task, that requests
are answered or their clients leave (`AllAnswered` says when the proxy does
so), that handshakes end, and strong fairness of the
signal's branch of the select: `tokio::select!` picks among ready branches at
random, and the branch is not enabled during a handshake.
`SessionIdle!FairSpec` assumes that the thread is scheduled and time goes on,
and that the listener bus delivers events; not that a call ever returns, becomes
an execution or completes.

## Proofs

`SessionLifecycleProofs`, from `TableAssumption` and `LifecycleAssumption`
(counts are natural numbers, faults are known):

* `LifecycleInvariant`: `LifecycleInv` is inductive. `ActiveIffRunning` alone is
  not: a failed `create_app` writes the state and leaves the address, which is
  right only because no driver can have registered (`LaunchOrder`).
  `FinishedOnGoodbye` needs that a goodbye under way is of an earlier driver or
  of one that no longer serves, also when it was killed and restarted meanwhile.
  `TypeCorrectness`, `ActiveIffRunningAlways` and `FinishedOnGoodbyeAlways`
  follow.
* `ImplementsTable`: every step of every writer is one of the five writes of
  the abstract table or leaves it unchanged. It needs the invariant: a write of
  the state alone is `Fail` only if the address was NULL.
* `EvidenceInvariant`, without `flaky`: addresses in use are not newer than the
  last driver, and what was found unreachable stays so. `FailedOnEvidenceAlways`
  follows.
* `ServingInvariant`, without `flaky` and with one driver per session: `check`
  and the proxy act on addresses a driver announced, and a driver whose callback
  was accepted already has a RUNNING row before it serves. With
  `EvidenceInvariant` it makes `ServingListed` inductive, and
  `ServingListedAlways` follows. With a second driver it is
  false, as a late `check` fails the row of the new one.

`UpstreamCacheProofs`, from `TableAssumption` and `UpstreamAssumption`:

* `UpstreamInvariant`: `UpstreamInv` is inductive. `SenderOutlivesUse` needs to
  know whose Sender each request holds (`Senders`) and that a message at work
  belongs to its dispatcher (`RoutedMessages`). `NoServiceAfterClose` needs
  `Fenced`: while a session is over, the dispatchers new requests can get have
  no connection and make none, since they were spawned after the row left
  RUNNING. The proof shows once that every step keeps sent requests
  (`RequestsStay`) and clean dispatchers (`CleanStays`) as they are and derives
  the rest from two frame lemmas.
* `SenderOutlivesUseAlways`, `NoServiceAfterCloseAlways` and
  `NeverReplacedAlways` follow. The branches of the
  code for a closed Sender (`is_closed`, `remove_closed`, "Upstream unexpectedly
  closed") are therefore never taken; the model has them all the same.

`GracefulShutdownProofs`, from `ShutdownAssumption`, for any set of connections:

* `ShutdownInvariant`: `ShutdownInv` is inductive.
* `ImplementsContract`: every step of the server is one of the contract or
  leaves status and work as they are. It needs the invariant: after `run` is
  over no task is left that could end, and the connection a handshake completes
  for is a new job.

`RestApiProofs`, from `TableAssumption`, `CutoffAssumption` and
`RestAssumption`, for any users, sessions, filters, dates, ages and width, and
any resolution of the clock and length of a day:

* `RestInvariant`: `RestInv` is inductive: types, `AddressIffRunning`,
  `NotLaunched` (a session `create_app` still waits for has no address, which is
  what makes its write of the state alone a `Fail`),
  `KeysInOrder` (a row with a smaller key is not younger, and keys are allocated
  without gaps) and `Ownership` (what `create_app` waits for or has told of is a
  row of its user).
* `OwnSessionsOnlyAlways` and `ToldIsListedAlways`: each is inductive over
  `RestInv`.
* `RowsConfinedAlways`: it needs `Ownership` for `create_app`, which writes the
  key of its insert without a filter on the user; `delete_app` repeats the
  filter.
* `PruneByAgeAlways`: from what the cast, `saturating_sub` and the check of the
  date compute for a non-negative age (lemmas about `PruneCutoff`,
  `CutoffBounds`), and from what division does to seconds and days
  (`DivBounds`, `DivMonotone`, `OlderMatches`).
* `ImplementsTable`: `prune` selects by `created_at`, the abstract `Remove` by
  key. The key it stands for is the greatest one created before the cutoff,
  which exists by `GreatestOf` and is right by `KeysInOrder`.

`SessionIdleProofs`, from `IdleAssumption`, for any calls, period and timeout:

* `IdleInvariant`: `IdleInv` is inductive. `lastActive` is older than `quiet`
  says only while an execution runs or its last event is on its way, and then
  it is at most a period old (`NeverTooOld`). This needs that an execution whose
  event has arrived is found by a check before a period has passed
  (`FoundInTime`). A call that is not an execution yet is in neither: it counts
  when it begins, for `lastActive` as for `quiet`.
* `StopsOnlyWhenQuietAlways`, with a timeout of at least a period: a comparison
  that finds more than the timeout is then not explained by `NeverTooOld`, so
  no call began and no execution was under way for as long.

`LaunchConfigProofs`, from `LaunchAssumption`, for any versions, properties and
lists:

* `LaunchInvariant`: `LaunchInv` says what a launch has at each `pc`, and that
  at `spark-submit` the user's lists were validated and the command is the one
  built from them. `NoDirectoryLeftAlways` follows.
* `NoLocalUserFileAlways`, `ForcedStandsAlways`, `EnvironmentShippedAlways` and
  `NothingLostAlways`: from `LaunchInv` and lemmas on the layers, which say for
  each property where the items of its value come from (`Origin`) and what
  joining two lists does to their content.

`RequestPathProofs`, from `AuthorizationAssumption` and `MessageAssumption`, for
headers, configurations and messages of any length:

* `TokenReads` and `ProxyReads` characterise the readers of a bearer token:
  `split_once` finds the scheme exactly in the headers that begin with it and a
  blank, and what follows is the same rest (`SplitFindsBearer`).
* `PathInvariant`: `PathInv` says that the methods made so far are those of the
  entries so far, that no method before `next` knows the user, and that an
  answer is what the next method or the reader of the route says.
  `EnabledAsConfiguredAlways`, `UserByFirstSuccessAlways`,
  `SubjectNeedsTokenAlways`, `TokenReadersAgreeAlways` and
  `UnauthenticatedIffNoTokenAlways` follow.
* `ClientReadsMessageAlways`: `Encoding` says of the bytes encoded so far where
  each byte of the message begins. Appending an encoded byte keeps these places
  (`BeginsAppend`), and a client reads the rest of the message from each of
  them (`DecodesEncoded`). The client is a recursive function; that it is
  defined (`ReaderExists`), and what it computes, is shown by minimal
  counterexample.

`LeastNumber` replaces induction, whose library theorems take an operator and
cannot be applied by the provers here: a set of numbers that is not empty has a
least element, and a bounded one a greatest. It follows from the library's
theorem that finite sets are well-founded by inclusion.

Only model-checked: the liveness properties (`LaunchSettles`,
`DeadSessionSettles`, those of `proxy_liveness`, `ShutdownCompletes` and
`IdleSessionEnds`), since fairness and ENABLED are out of the prover's reach.
Every invariant and every safety property of a passing run is a theorem.

## Not modelled

* Several servers on one store. The repository names high availability as a
  goal; a deletion on one server does not reach the cache of another
  (`proxy.rs:167`), and nothing says what should happen then. An address taken
  over by another session's driver (`proxy.rs:218`) is in the same position.
* Deserialisation of the configuration, loading of the certificate, and the
  kinit loop: no state is shared with the rest.
* Validation of a JWT, hyper, the database and the cluster: external, seen
  through how the code uses them.
* The clients: they keep no state and only call the API.
