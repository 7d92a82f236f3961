# Formal models of api-benchmark

TLA+ specifications of the parts of api-benchmark that keep state and may go
wrong in ways the repository's own checks do not reach:

* the **write path** of the three order services, from the request to the table;
* their **read requests** over the **connection pool**, and how a service starts;
* the **GraphQL executor** that the services' schema is generated into;
* the **session runner** that executes the measurement plans;
* the **verdict** the session summary gives each run.

Each is model-checked with TLC on small instances, and every safety property
that a passing run checks is proved with TLAPS for all sizes (some under a
hypothesis that section 4 names).

All paths below are relative to the repository (`src/`). Line numbers of every
definition are in `PROJECT.json` under `map`.

## 1. Inventory

| part | state | operations | who it talks to |
|---|---|---|---|
| Write path: `CreateOrder` handlers (REST, gRPC, GraphQL), `OrderRepo` | a bounded channel of 50000 orders per process; 10 worker goroutines | `CreateOrderTransaction` (non-blocking send), `asyncWorker`, `insertToDB` | PostgreSQL through `database/sql`; clients |
| Connection pool and start-up (`db.go`) | open and idle connections, waiting callers | `ConnectDB` (10 attempts), `SetMaxOpenConns`, `logPoolStats` | PostgreSQL; handlers and workers |
| Read endpoints | none | simple, paging, items, full details, slim | pool |
| Session runner (`experiments_de.sh`) | session directory: `manifest.csv`, run directories, `gate_rate.txt`, `h1_status.txt`, `session_settings.txt`; in memory: `current_pool`, `CLOCK_PREV_R`, `SWAPPINESS_ORIG` | `gate`, `all`, `sweep`, `prepare`, `verify-queries` | Docker (recreates services), k6, InfluxDB, the machine's clock and `vm.swappiness`, `summarize_de.py` |
| Session summary (`analysis/summarize_de.py`) | `gate_eligible.txt` and tables, rewritten on each call | verdict of a run, clock state, eligible architectures, hypothesis 1 | files of the session |
| First runner (`experiments.sh`), manual runner (`manage.sh`) | session directory | plan, export, patch, package | Docker, k6, InfluxDB |
| Load scripts (`bench_*.js`) | none between iterations | one iteration of a test case | services |
| Reports and tables (`analysis/make_*`, `paper_tables.py`, ...) | none | formatting | files |
| GraphQL executor (`graph/generated.go`, gqlgen runtime) | per request: the parts of the answer, counters of nulls, errors, goroutines | field functions, marshalers, executors of the object types | resolvers; the HTTP transport |
| Protobuf code, schema, containers | - | - | - |

How they meet: a k6 run sends create and read requests to one service; a
handler and the workers share the channel; workers and readers share the pool;
a GraphQL request runs its root fields in goroutines of their own;
the runner recreates the service containers for every pool setting, which
drops whatever the channels hold; the summary writes a file the runner reads
to decide what to run next; later invocations of the runner read what earlier
ones left.

### What is hard, and what makes it correct

* **Write path.** Concurrency (handlers against workers on one channel),
  acknowledgement before the insert, failure without retry, death of a process
  with a full channel, a lost COMMIT answer, `synchronous_commit=off`. It is
  correct when an error answer means the order was not taken; when no order is
  inserted by two workers; when every accepted order is somewhere, or its loss
  has a cause; when the loss is bounded; when clients are always answered and
  accepted orders settle.
* **Session runner.** A script of several hours, ended at any point and started
  again on its files; a manifest that is appended to, judged and edited in
  separate steps; files written by one phase and read by another; values in
  memory that an interruption forgets. It is correct when no line of the plan
  is measured twice or forgotten, a row was measured with its pool, what
  counts as done is complete, the gate's decision rests on the runs it names,
  and the machine is left as it was found.
* **Pool and start-up.** Callers wait for a connection without a deadline and
  are served in random order; PostgreSQL may stop at any time; start-up gives up
  after ten attempts. It is correct when the limits hold whatever the
  environment says, when no place leaks, when nobody waits beside a free place,
  and when everybody is served by a pool as small as one connection.
* **Reads.** A client asks for an order that is still queued; the three protocols
  treat `limit` and `offset` differently; one answer takes several statements
  without a transaction. It is correct when an answer is true of some moment of
  its request and the protocols, whose speed is compared, do equal work.
* **GraphQL executor.** Goroutines for fields and list elements, each with a
  share in counters that decide what becomes null; panics that are recovered;
  transports that ask the same handler again. It is correct when nulls are the
  ones the schema demands, when a client that sees no error has all its data,
  when every goroutine is joined before the answer, and when mutations run once
  and in turn.
* **Summaries.** Percentiles, episodes of collapse, windows: numeric edges.

`PROJECT.json` lists these as hazards, each at its line.

## 2. Modules

| module | what it is |
|---|---|
| `OrderPromise` | what the client of a create request is promised; no queues, workers or transactions |
| `OrderWrites` | the write path: handlers, channel, workers, transactions, PostgreSQL, deaths and restarts |
| `OrderWrites_proofs` | its invariants proved |
| `OrderPromise_proofs` | `OrderWrites` implements `OrderPromise`, proved |
| `ConnPool` | start-up of a service and its pool of database connections |
| `ConnPool_proofs` | its invariants proved |
| `OrderReads` | extends `ConnPool`: the read requests of a service and a worker, composed over the pool |
| `OrderReads_proofs` | the composition implements `ConnPool`; its invariants proved |
| `GraphQLSchema` | the tables of `generated.go`: types, arguments and executors of every field |
| `GraphQLExec` | execution of a GraphQL request over these tables |
| `GraphQLExec_proofs` | its invariants proved |
| `ExperimentsDE` | the session runner and the part of the summary it reads back |
| `ExperimentsDE_proofs` | its invariants proved |
| `SummarizeRun` | the loop of `collapse_episodes` and the verdict of `summarize_run` |
| `SummarizeRun_proofs` | the loop finds exactly the stretches that count, and the verdict meets its criterion, proved |
| `MCOrderWrites`, `MCOrderReads`, `MCGraphQLExec`, `MCExperimentsDE`, `MCSummarizeRun` | instances for TLC |

Operators named `Bug...` stand before the definition they mutate; no
specification uses them. They are the plausible bugs (`PROJECT.json`,
`mutants`) that each checked property is shown to catch.

### OrderWrites

One element of `Order` is a create request and the order it builds.

| model | code |
|---|---|
| `queue[a]`, `HasRoom`, `Sent`, `CreateOrderTransaction` | `orderQueue` and the `select` with `default` (`order_repo.go` 45-53) |
| `Receive`, `BadRequest`, `Answer` | the handler before, beside and after it (`rest/controller.go` 97-125, `grpc/server.go` 123-138, `schema.resolvers.go` 14-30) |
| `job[a][w]`, `Take`, `NextOrder`, `LogFailure` | the loop of `asyncWorker` (33-41) |
| `insertToDB` = `SendCommit`, `InsertOk`, `InsertError` | one transaction per order (58-75); an unknown customer violates the foreign key; a broken connection may lose the answer of a COMMIT that is carried out |
| `DbCommit`, `DbAbort`, `DbFlush`, `DbCrash`, `DbStart` | PostgreSQL, external; `flushed` is what is on disk under `synchronous_commit=off` |
| `ApiCrash`, `ApiStart` | a process that dies or is recreated by `apply_pool`; `main` |

`failed`, `orphaned` and `entered` are history variables: no action reads them.
An identifier is made by `GenerateOrderID` from 122 random bits; identifiers are
taken to be distinct.

### ConnPool

| model | code |
|---|---|
| `GetEnvInt`, `Connected`, `ConnectFailed`, `CountTry` | `ConnectDB`, `getEnvInt`, the settings of the pool (`db.go` 18-115); `main` exits when it fails |
| `Reuse`, `Dial`, `Queue` | a statement asks for a connection: an idle one, a new one, or the end of the line (`database/sql`, external) |
| `Retry`, `Cached`, `MaxBad` | `DB.retry`: a connection that turns out to be dead before anything was sent is closed and another one asked for; after two of them only a new one will do |
| `HandOver`, `Keep`, `CloseSurplus`, `Discard` | it gives the connection back: to a waiting client, to the idle ones, or closes it (bad, or past `SetConnMaxLifetime`) |
| `OpenedFor`, `FailedFor`, `OpenedForNobody`, `FailedForNobody`, `Redial` | `connectionOpener`, which replaces connections that were closed while somebody waits |
| `Expire` | `SetConnMaxLifetime`, `SetConnMaxIdleTime` of a connection that is not in use |
| `DbStop`, `DbStart` | PostgreSQL, external: every connection dies and the pool does not notice |

A stop changes what is true of connections and not the pool's books: idle
ones that died (`dead`) stay counted until somebody takes them, and one that dies
in use (`broken`) goes back to the pool like any other, since the driver does
not report it as bad. The client that takes a dead one retries, or meets an error
when it had sent something already. Who met two dead ones (`bad`) waits for a new
connection even beside idle ones, which `WaitOnlyWhenFull` says explicitly.

`surplus` is a history variable. A client of the pool is a goroutine that runs
one statement or transaction at a time; none passes a deadline.

### OrderReads

All requests are about one order, which belongs to the data set (`seeded`) or
waits in the channel for its insert. A request of user `u` runs in two lanes,
`<<u, 1>>` and `<<u, 2>>`: the goroutines of a GraphQL request with two root
fields; other requests use the first.

| model | code |
|---|---|
| `Receive`, `Begin`, `Offered`, `Expressible` | the routes, methods and root fields (`router.go`, `server.go`, `schema.resolvers.go`), and what each protocol can express in a number |
| `Statements` (`Details` 7 or 5, `Slim` 4 or 3) | the `Preload`s of `order_repo.go` 77-130 and `order_repo_slim.go`: one statement for the order and one per association with rows to load |
| `RestLimit`, `GrpcLimit`, `GraphqlLimit`, `Offset`, `PageLength` | the parsing and defaults of the three handlers; what GORM makes of zero and negative numbers |
| `Start`, `Finish`, `Fail`, `Served`, `Missing` | one statement each, on a connection of the pool; `ErrRecordNotFound` ends the query, any other error is `ErrDatabaseQuery` |
| `Insert` | the transaction of the worker (`order_repo.go` 58-75) |
| `Answer`, `Return` | all lanes through; 200, 404 or 500 and their counterparts |
| `Flush`, `Survives`, `Stop` | PostgreSQL under `synchronous_commit=off` (`docker-compose.yml` 5): a stop may lose an order that is stored and not yet flushed, as in `OrderWrites.DbCrash` |
| `Unseen` | the pool's own steps, retries among them |

`met[u]` is a history variable: what was true of the order and of the database at
some moment of the request, an outage also when the request was given a
connection that had died in one.

### GraphQLSchema, GraphQLExec

`generated.go` is one function per field, marshaler and object type, all of a few
shapes. `GraphQLSchema` holds what differs: the type each field function checks
and marshals (`FullOrder`, `__Type`, ...), the arguments it reads, and per object
type which fields raise `out.Invalids` and which are left to `Dispatch`
(`_Query`, `___Field`, ...). `GraphQLExec` holds the shapes:

| model | code |
|---|---|
| `Node`, `Parent`, `Below`, `On`, `Name` | a validated request as a constant tree: operation, fields, elements of lists |
| `Call`, `ReturnNull`, `ReturnValue`, `MayGive`, `ErrorsFor` | a field function: reads arguments, calls its resolver (which may fail or panic), checks nil |
| `Marshal`, `BecomesNull`, `Waited`, `Count` | list marshalers and executors: `wg.Wait`, the loop over elements, `atomic.AddUint32(&out.Invalids, 1)` |
| `Ready`, `Before`, `Together` | fields in order; those left to `Dispatch` together, when the others are done |
| `Exec`, `Respond`, `ExecAgain`, `NoMore` | the response handler and its variable `first` |

`Below[n]` is `n` and its descendants. It is a constant with an assumption that
says so, because its definition would be recursive.

### ExperimentsDE

`pc` names the script's position; `shell` is its memory and is reset when it
ends; everything else is a file, InfluxDB (`stored`), the service containers
(`applied`), or the machine (`swappiness`).

| model | code |
|---|---|
| `build_gate_plan`, `block_entries`, `build_plan`, `build_sweep_plan` | the functions of those names (105-160), a plan being the set of its lines |
| `NextLines`, `Block` | the order of a plan: repetitions in order, pools of a repetition in any order, lines of a pool in any order (the code shuffles with a seed) |
| `Start`, `OpenGate`, `OpenMain`, `OpenSweep`, `NextGateRate`, `EndGate` | `case COMMAND` (685-735) |
| `run_plan`, `Skip`, `Pick`, `PlanDone` | `run_plan` (599-634) |
| `ClockGoesOn`, `ClockStops`, `Measured` | `clock_check` (367-416) and the interval `clock_state` finds for a run |
| `apply_pool`, `apply_pool_fails` | `apply_pool` (168-195) |
| `StartRun`, `run_k6`, `AppendRow`, `KeepRun`, `MoveDir`, `RenameRow`, `Retry` | `run_one` (546-597), one action for each step that changes a file |
| `Passes` | `influx_completeness` compared by `awk` (495-512, 588): without requests the share is the string `nan`, which awk lets pass |
| `Eligible`, `SummarizeGate`, `SummarizeSession` | `summarize_de.py` 438-467, 504-523 |
| `Terminate`, `Kill` | a signal, for which bash runs the EXIT trap, and the death for which it does not |

A run's verdict is chosen freely for the base condition (pool, rate and light
the summary looks at) and does not matter elsewhere. A k6 run makes `Points`
units of requests, of which InfluxDB stores some or all; a later run under the
same run_id adds to them. A k6 that dies leaves no summary, and may have stored
points all the same. A directory that an interrupted attempt left may hold a
summary (`LeftBehind`), and `influx_completeness` reads it when the new k6 writes none.

### SummarizeRun

`collapse_episodes` (`summarize_de.py` 108-146) is one action per second:
`s` is the loop's second, `start` the beginning of the stretch it is in,
`episodes` what it has collected; position `Beyond` is the `None` the code
appends to close an open stretch. `summarize_run` (243-266) then gives the
verdict. The data is reduced to what the thresholds tell apart: a second is low
or not; a VU sample is missing, few or many; k6's and the cgroup's numbers are on
one side of their threshold or missing. `Loaded` follows Python's `max` over values
that may be NaN: a NaN in front stays, any other is ignored, and a stretch
whose first second has no VU sample near it counts whatever the later samples
say. `ExperimentsDE` leaves the verdict of a run open (`Verdicts`).

## 3. Runs

| run | instance | what it shows |
|---|---|---|
| `writes_faults` | two services, two workers each, one-slot channel, three orders, all faults | safety: `NoStoreAfterError`, `AtMostOneCustodian`, `Accounted`, `Ledger` |
| `writes_answered` | one service, one worker, one slot, four requests, only handlers fair | requests are answered while workers and database hang; a death loses at most channel + workers |
| `writes_settle` | one service, two workers, two slots, three orders, all faults, fair workers | orders leave in turn (`BoundedOvertaking`), settle, and implement `OrderPromise` with its fairness |
| `writes_created` | no faults | *violated*: "created" does not mean stored (unknown customer) |
| `reads` | a service of any protocol, one user with two lanes and a worker, two attempts to start; settings unset, -1 and 1, defaults 2 and 2; `limit` and `offset` unset, junk, -1, 0, 1 over a table of 3; PostgreSQL stops once, at any point, perhaps losing the order | `PoolBound`, `WaitOnlyWhenFull`, `NoChurnWhenEqual`, with dead connections left in the pool; answers are true (`Truthful`), a page has the length its protocol makes of `limit` and `offset` (`PageLengths`); inserts, requests and start-up end |
| `graphql` | five requests: the light request of the load scripts, details, a page, two mutations, introspection beside resolvers; every failure of a resolver, every order of the goroutines | `NullPropagation`, `NullHasError`, `Joined`, `InOrder`, `NeverTwice`, and that each is answered |
| `runner_resume` | `all`, two pools, killed or ended by a signal anywhere and started again, incomplete runs | `RunsUnderItsPool`, `PlanCovered`, `MeasuredOnce` |
| `runner_once` | one invocation of `gate`, `all` or `sweep`, two gate rates, light lines, incomplete runs, runs without requests or summary, failing services, drifting clock | `GateRateReproduced`, `SwappinessRestored`, `ClockMeasured`, `ResultsAreWhole`, and that it ends |
| `verdicts` | every pattern of low seconds and VU samples of a run of 7 s, threshold 2 s, every report of k6 | the loop collects exactly the maximal low stretches (`EpisodesExact`); the verdict is a collapse under the criterion of `environment.md` 10-5 and, where VU samples were stored, only then (`CollapseCriterion`); stable needs a reported p99 |
| `runner_gate_resumed` | `gate` then `all`, two gate rates | *violated*: `GateRateReproduced` |
| `runner_killed_row` | a signal, incomplete runs | *violated*: `ResultsAreWhole` |
| `runner_same_id` | two invocations, incomplete runs | *violated*: `OwnPointsStored` |

### Bounds

* `QueueCap` 1 or 2 stands for 50000 and `Worker` 1 or 2 for 10. What matters is
  a full channel, an empty one, a channel with an order behind another
  (`QueueCap` 2), and two workers at once. Three or four orders fill channel and
  workers and leave one to be refused. The safety theorems hold for every size.
* `MaxStarts` is 1 or 2: two invocations suffice for one to find what another
  left. `Points` is 1, and 2 where two runs' points add up.
* One or two gate rates, one repetition, one or two architectures, pools `p20`
  and the base pool `p500`. The theorems again hold for all settings.
* `Dur` 7 and `COLLAPSE_MIN_SECS` 2 stand for 180 and 5: five seconds hold two
  stretches that count, one at each end of the run, and shorter ones that do not.
* `reads`: a pool of one or two connections for three clients (two lanes, one
  worker) has every case of the pool: an idle connection, room for one more,
  nobody, one and two waiting, connections above the idle limit. 2, 2 and 2 stand
  for 500, 100 and 10 of `DefaultOpen`, `DefaultIdle` and `Attempts`; a default
  page of 2 is shorter than the table. The environment may lower the idle limit to
  1, so that it is met below the open one. `Asked` has every kind of request over
  REST, pages over all three protocols, and the two lanes over GraphQL: to the
  model the other kinds are alike in the three. `Pages` has every value of `limit`
  and every value of `offset`, not all pairs; the theorem has those. `MaxStops` 1: PostgreSQL stops while a
  service connects, dials, runs statements or waits.
* `graphql`: lists have one or two elements, so that two goroutines meet at a join;
  the five trees hold an object in an object, objects in lists, lists in objects,
  fields that are nullable and that are not. An introspection type is not
  followed further than one level.
* Runs are checked with `CHECK_DEADLOCK FALSE` (all but `verdicts`): with every
  request answered and settled, the last invocation ended, or a service that
  gave up, nothing more happens.
* `writes_faults` uses symmetry of the workers; it checks no liveness.

### Fairness

* `HandlerFairness`: a runnable handler goroutine is scheduled. Its send never
  waits, so nothing else is needed for an answer.
* `WorkerFairness`: a worker that can receive does, an insert that was started
  returns, and a running PostgreSQL carries out the COMMITs it was sent. The
  restarts `ApiStart`, `DbStart` are *not* fair: a broken connection makes an
  insert return with an error, and a dead process has lost its orders.
* `ReadsFairness`: `ConnectDB` and the handlers go on, dials and statements end,
  the opener runs. A client that waits is served under *strong* fairness
  (`Reached`): `database/sql` hands a connection to a waiting client picked at
  random, so whoever waits while others are served again and again is served,
  too. A connection that stays idle while somebody insists on a new one is closed
  in the end (`ConnMaxIdleTime`). That PostgreSQL starts again is *not* assumed: a
  statement on a broken connection ends with an error or is retried, at most
  twice, and a dial that is refused ends with an error.
* `Fairness` (`GraphQLExec`): goroutines are scheduled and resolvers return (what a
  resolver waits for is the subject of `OrderReads`). That somebody asks the
  handler again is not assumed.
* `WF_vars(Script)`: the script takes its next step. Each wait is bounded
  (health checks, `wait_until_quiet` with `QUIET_MAX`) and k6 runs for a fixed
  time.

## 4. Proofs

Every theorem is checked by `tlapm` without an unproved leaf. Assumptions on
constants are `ConstantsAssumption`, `WorkersAssumption` (`OrderWrites`),
`PoolAssumption` (`ConnPool`), `ReadsAssumption` (`OrderReads`), `TreeAssumption`,
`BelowAssumption`, `SelectionAssumption` (`GraphQLExec`), `SettingsAssumption` and
`EnvironmentAssumption` (`ExperimentsDE`), and `DurationAssumption` (`SummarizeRun`); TLC evaluates
them in every run.

**Write path** (`OrderWrites_proofs`). The inductive invariant is
`IInv == TypeOK /\ AtMostOneCustodian /\ Ledger /\ Accounted`. Custody alone is
not inductive: that an enqueued order is new to every channel needs `Ledger`
(only accepted orders are held); that a worker's COMMIT belongs to an order no
one else holds needs both. There is one lemma per group of steps
(`HandlerStep`, `TakeStep`, `SendCommitStep`, `InsertReturns`, `DatabaseStep`,
`ApiCrashStep`), resting on lemmas about the range and injectivity of `Append`
and `Tail`. From it: `TypeCorrect`, `Custody`, `NothingVanishes`,
`LedgerKept`, `ErrorMeansNotTaken`, and `LossBounded` (an injective channel and one
order per worker bound `Pending`). `OvertakingBounded` needs the line the orders
stand in: what a process accepted is what left its channel followed by what is
in it, in that order (`Line`), and when an order leaves, the worker that takes it
holds nothing else, so that earlier ones are in the hands of the others only.

Four more results. `NothingTakenBack` (answers, ended
transactions and rows on disk are final; the table shrinks only in a crash of
PostgreSQL) and `DeathConfined` (only the death of its own service loses an order
or breaks a request) are action properties under `IInv`. `UnknownNeverStored` and
`NothingLostWithoutFaults` are the two halves of what is left of "created": an
order of an unknown customer is never stored, and one of a known customer is, or
is on its way, if no fault happens (`Faults = {}`; the invariant `Clean`). With
faults that fails, as `writes_created` shows, and `Accounted` is what remains.

**Refinement** (`OrderPromise_proofs`). `Refinement == Spec => Promise!Spec`,
with `StageOf` as the mapping: under `IInv` every step is an abstract step or a
stutter. A crash of a process or of the database maps to one `Lose` of several
orders.

**Pool** (`ConnPool_proofs`). The inductive invariant is
`IInv == TypeOK /\ PoolBound /\ WaitOnlyWhenFull /\ NoChurnWhenEqual` with two
facts: a process that does not serve has no pool and no clients (`NotServing`),
and `ConnectDB` gives up at its last attempt (`Trying`). What makes it work is
counting: `numOpen` is the sum of idle connections, openers and holders, and each
step moves one client or two, which lemmas about cardinalities turn into plus
or minus one. From it: `TypeCorrect`,
`Bounded`, `NoIdleWait`, `NoChurn`, for any settings and any number of clients.
`WaitsForSomebody` combines the count with the limit: behind a waiting client all
places are held or being opened, and there is one, so that somebody's release is
always ahead. `PlacesHandedOn` is its action form: between two states in which
somebody waits the count stands still. A client that met two dead connections may
wait beside idle ones; both theorems say so. `DeadOnesDwindle` follows the dead
connections through reuse, retry, hand-over, return and expiry: but for a stop of
PostgreSQL their number never grows, so the errors they cause after it is back
come to an end.

**Reads** (`OrderReads_proofs`). `Composed == ReadsSpec => Spec`: every step of the
requests and the worker is a step of `ConnPool` or leaves it alone, so the pool's
theorems hold of the service (`ServiceBounded`). On top, `RInv` says that a lane is
busy only for a request that runs (`Busy`), that such a request has noticed what
is true now (`Noticed`), that a connection that died under it died with the
database (`Blamed`), and that each result has its reason (`Explained`); it gives
`ReadsTypeCorrect` and `AnswersTrue`. `PageLengthsKept` counts the rows of the page
that was asked for and compares them with what each protocol makes of `limit` and
`offset`, for any numbers, zero and negative ones included. It is about lengths:
which rows a page has is open, since the query has no ORDER BY.

`FoundUntilStop` and `DataSetNeverMissing` follow an order through all steps
(`OrderSteps` lists those that touch it). One that is flushed stays; one that is
only committed goes in no other step than a stop of PostgreSQL; while it is in the
table no request newly notices its absence. With `AnswersTrue`: a 404 after a
successful read means a stop before the flush, and for an order of the data set
there is none. `NoAnswerInOutage` needs that with the database down every idle
connection is dead and every one in use broken, dials being refused: whatever
statement ends then, ends with an error. `NoErrorWithoutOutage` has a premise about the behaviour,
`[]NoOutage` (PostgreSQL never stops), and the invariant `Calm`: then no `Fail` can
happen at all, so that load alone fails no request. `InsertKeepsPromise` maps the
waiting order to an open order of `OrderPromise` and shows each step to be one of
its steps or a stutter. Its behaviours begin after `Promise!Admit`, so this is a
refinement of steps, without the initial state.

**GraphQL** (`GraphQLExec_proofs`), for any requests over the schema. In the
invariant, the counter of a node is positive exactly when one of its children is
null and counted (`Counter`), a part that is not open has no goroutine below it
(`Quiet`), one with a value is done after everything in it (`Complete`), and each
failed call has one error, no other call any (`ErrorsExact`). From it:
`TypeCorrect`, `Propagated`, `Accounted`, `AllJoined`, `MutationsInOrder`, `CalledOnce`. That
no executor forgot a field is a finite comparison of the tables (`raises`
against the types).

`NullPropagation` relates a node to its children. `NullsExplained` carries it over
any distance: a value is null exactly when a call at or below it failed and
nothing on the way could hold the null (`Responsible`, with `Carried`). The induction
over the depth is again left to the run: a node becomes done after its children,
of which it is already known. For it `BelowAssumption` says of the trees of the
requests that two different children share nothing. With the errors that `IInv`
counts, and with what must have been entered (`Entered`, `LeavesNothing`), the answer
is determined: `ResponseDetermined` fixes what every call gives (`Follows(gives)`
always) and derives the calls made, the nulls and the errors from the request
alone, so that no order of goroutines shows. `OneFailsAllFail` is what this means
for the program's schema, whose root fields are all non-null: one failed
resolver drops the data of the others.

**Runner** (`ExperimentsDE_proofs`), for any settings, faults and number of
invocations:

* `TypeCorrect`, from `TInv`: the types, with the facts that past `Pick` there is
  a line and that the gate has its rate.
* `PoolsApplied` (`RunsUnderItsPool`), from `PoolInv`: once the script believes a
  pool is applied, the containers have it.
* `PlansCovered` and `NoRunRepeated`, from `ResultInv`: a line being run has no
  result until its row is written, afterwards only that of its current attempt;
  a retry follows an incomplete first attempt; every line the loop has taken is
  covered except the one being run.
* `SwappinessKept`, if no invocation is killed without its trap
  (`"kill" \notin Faults`): what was saved is the original value.
* `ResultsPassed`, if the script is not ended from outside
  (`"kill"`, `"signal" \notin Faults`): every row that counts passed, but for the
  row of the current run until it is judged.
* `ClockChecked` and `GateRateKept`, for a session of one invocation
  (`MaxStarts = 1`): the script found an empty session (`Fresh`). The clock was
  checked before the first row, so every later check marks all rows since the
  last (`ClockInv`). A row that counts keeps its directory (`DirInv`), so that a
  gate that goes on to the next rate left no collapse behind (`RateInv`), and the
  runs that `h1_status.txt` rests on are never the line being run (`WitnessInv`).
* Beyond one invocation: `ClockCheckedAcross`, if every invocation ends by itself
  (no kill, no signal, no failing pool, no bad reading): a check precedes every
  summary, so that the next invocation, which has no reading, has nothing to
  mark (`ClockEndsInv`). `GateRateOfOne`, if `GATE_RATES` has a single element, with any
  faults (`OneRateInv`).
* `OneSpoiledEach`, with no hypothesis: the results that did not pass the check
  are at most as many as the invocations. This bounds what `runner_killed_row`
  shows: an ended invocation spoils the row it was judging and no other
  (`SpoiledInv` counts strictly fewer while one runs).

**Verdict** (`SummarizeRun_proofs`). `AllFound == Spec => []EpisodesExact`, for any
duration, threshold and samples. The invariant says what the loop knows at
second `s`: `start` is where the low seconds ending at `s - 1` begin
(`InStretch`), and `episodes` holds the stretches that ended before `s - 1`
(`Found(s)`); `FoundNext` is the step from `Found(s)` to `Found(s + 1)`.

`CriterionKept` relates the loop's maximal stretches to the windows in which
`environment.md` 10-5 words the criterion (`Documented`: enough low seconds in a
row with active VUs near one of them, or dropped iterations without saturation).
Whatever meets it is judged a collapse. The converse has a premise, `Watched`:
a VU sample was stored near the beginning of each low stretch; section 5 says
what happens without. That a low window lies in a maximal stretch would need an
induction over its length, which is out of the prover's reach; the loop does it
instead: `Around` is the invariant that every low second the loop has passed lies
in a maximal stretch that ended or in the one the loop is in. `StableOnEvidence`
follows from it as well. `EpisodesExact` is about the loop alone: which stretches
are loaded it takes from the code.

The hypotheses of the runner's theorems are needed: without them the property
fails (next section).

**Only model-checked:** liveness (`EveryRequestAnswered`, `EveryAcceptedSettles`,
`InsertEnds`, `RequestsEnd`, `BootEnds`, `Answered`, `ScriptEnds`, the fairness of
`OrderPromise`): it is beyond the proof system used here.

## 5. What the models found

* **Created is not stored.** The 201 is sent once the order is in the channel. An
  insert that fails (foreign key) is logged and dropped (`writes_created`).
* **A row counts before it is judged.** `run_one` appends the row, then judges
  it, moves the directory and renames the row. A script that ends in between
  leaves an incomplete run that later invocations skip as done
  (`runner_killed_row`).
* **Points of two runs under one run_id.** When both attempts of a line were
  incomplete, the next invocation measures it again under the same run_ids; the
  stored share counts the points of both runs (`runner_same_id`).
* **The gate rate of another invocation.** The eligible architectures are
  collected over all gate rates, and `all` takes the first rate it runs as the
  reproduced one; after an earlier `gate` that reached the second rate, the main
  plan repeats a rate that did not collapse (`runner_gate_resumed`).
* **Data of a drifting interval.** `summarize_de.py` 14 and `environment.md` 171 say
  that runs with `clock_ok=0` are not used. The condition summaries leave them
  out; the set of eligible architectures (`summarize_de.py` 464-467) does not look
  at the clock. In the model, `Eligible` counts them after `ClockStops`. No run is
  kept for it: the code has nothing there that could be right or wrong in
  another interleaving.

* **A stretch nobody watched.** `environment.md` 207 and `summarize_de.py` 17 want
  600 active VUs for a collapse. `collapse_episodes` also takes a stretch at whose
  beginning no VU sample was stored (`math.isnan` of the peak, line 140), so that
  a gap in InfluxDB can make a collapse of a run that is none by the document.
  `CollapseCriterion` has the premise `Watched` for it and fails without; no run of
  its own is kept.

Two more follow from the model and are bounded out of the passing runs:

* `SwappinessRestored` fails after a kill: the next invocation saves the lowered
  value as the original (`experiments_de.sh` 336), although
  `session_settings.txt` holds the real one. Hence the hypothesis of
  `SwappinessKept`.
* `ClockMeasured` fails in a resumed session: the previous reading is memory
  (398), so the first check of the next invocation has no interval and the runs
  before it enter the summary unmeasured. Hence `runner_once` has one invocation,
  and so have `ClockChecked` and `GateRateKept`.

## 6. What is not modelled

* `prepare`, `preflight`, the watchers, `memory_guard`, `wait_until_quiet`: they collect
  data or wait. `verify-queries` switches `log_statement` on and off again around
  queries of its own; it is a command of its own and writes nothing that
  the others read.
* The exit status of k6 is recorded and never judged; in the model k6 ends in one step.
* `set_swappiness` (reading the value, setting it, installing the trap, 336-340) is
  one step; so is `run_plan` up to its first clock check. A `sysctl` that fails
  when the trap restores the value (344) is not modelled.
* What a summary left by an interrupted attempt does to the next one is covered
  by the runner's theorems, whose `Faults` are arbitrary; `runner_resume` leaves
  `"k6"` out of `Faults`, with which it takes too long.
* A connection whose `ConnMaxLifetime` is found to be over when a client takes it:
  `Expire` stands for it, the client then takes the next.
* Which rows a page has: `GetOrdersWithPaging` has no ORDER BY.
* `OrderReads` has one order in the channel and no requests that create more: the
  channel and its workers are `OrderWrites`. The runner and the services are not
  composed, so that orders which a service inserts during the next run
  (`wait_until_quiet` gives up after `QUIET_MAX`) are not modelled.
* The copying of columns into an answer, and the conversion of columns to the
  three protocols' types.
* In `generated.go`: `Complexity` (no limit is installed), the deferred groups (no
  request of this program uses `@defer`), parsing and validation, which precede
  execution and belong to the runtime. Protobuf's encoding, and the gRPC stubs but
  for the table of methods.
* `logPoolStats` reads counters.
* `judge_pool_effect`, percentiles, steady windows, `summarize_experiments.py`:
  arithmetic over floats, in which a model would repeat the formula.
* `experiments.sh`: the version before `experiments_de.sh`, with the same loop,
  manifest and resumption. `manage.sh`: commands an operator runs one by one.
* Load scripts: no state between iterations; the requests they send are those of
  the models. Reports, tables, dashboards, Envoy: formatting or configuration.

## 7. Plan

Done, in this order:

1. `OrderWrites`, its runs and invariants; proofs.
2. `OrderPromise` and the refinement; proof.
3. `ExperimentsDE`, its runs and invariants; proofs.
4. `SummarizeRun`, its run; proofs.
5. `ConnPool`, and `OrderReads` composed over it; proofs.
6. `GraphQLSchema`, `GraphQLExec`, its run; proofs.
7. Proofs beyond the runs' properties: the answer of a GraphQL request as a
   function of its calls, what an interrupted session can spoil, finality and
   confinement in the write path, the pool behind its waiters, reads after an
   insert.

What could still be added:

* an abstract specification of a session (lines that are open, done or given
  up) and its refinement by `ExperimentsDE`;
* the runner and the write path together, for what a service still holds when a
  run ends;
* `verify-queries` as a command of `ExperimentsDE`, with the setting it leaves
  behind when it is interrupted;
* `ExperimentsDE` with the verdict computed by `SummarizeRun` instead of chosen,
  and k6 ending early.
