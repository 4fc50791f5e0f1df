# Verification of the Recovery Portfolio Allocator

TLA+ models of the parts of this repository whose correctness depends on order,
interleaving, shared capacity or partial failure; the TLC configurations that
check them on small instances; and theorems about them, proved with TLAPS for
every value of the constants. Paths below are relative to `src/`. `PROJECT.json`
lists every definition with the lines it models, every run, every theorem, the
hazards of the code and the properties that cover them.

## 1. The system

The Recovery Portfolio Allocator (RPA) chooses, for a batch of failed or overdue
payments, one recovery action per payment: do nothing, retry, send a payment link
or a message, offer an incentive, or escalate to a person. A FastAPI service runs
the pipeline: predict success probabilities, compute expected values, screen every
(transaction, action) pair against hard policies, let each strategy plan a
portfolio under shared resource capacities, simulate its execution, verify, and
persist the run. A production side on PostgreSQL (quotas, jobs, executions,
webhooks) and a React frontend surround it.

| component | state it keeps | operations | uses / is used by |
|---|---|---|---|
| expected value and policy gate (`rpa/ev_engine.py`, `rpa/policy_engine.py`, `data_core/registry.py`) | none, apart from a batch's remaining resources | `compute_row`, `evaluate_one`, `screen`, `can_consume`, `consume` | called by the pipeline before any planner |
| strategies and optimiser (`rpa/strategies.py`, `rpa/optimizer.py`) | remaining capacities while a plan is made | `no_action`, `rule_based`, `ev_greedy`, `rpa_optimizer` | read the verdicts; their plans go to execution |
| batch pipeline (`rpa/orchestrator.py`, recovery endpoints of `rpa/api.py`) | the request, verdicts, plans, executions, verifications | `run_batch`, `_fail_closed`, re-runs of a stored batch | calls everything above, persists |
| execution simulator, verification (`rpa/execution_simulator.py`, `rpa/verification.py`) | outcomes per strategy | `execute`, `verify` | seeded draws shared by all strategies |
| batch runs on disk (`_persist`, `rpa/audit.py`, `/recovery/batches`, `/recovery/batch/{id}`) | a directory of four files per batch | write, list, re-run, delete | threads and server processes share the directory |
| resource reservations (`ResourceReservationRepository`, migrations V003/V004) | `tenant_resource_limits`, `resource_reservations` | `reserve`, `consume`, `release`, `set_tenant_limit` | PostgreSQL transactions of several connections |
| audit trail and explanations (`rpa/audit.py`) | the events of a run | `record`, `explain_selection` | filled by the pipeline, stored with the batch |
| production executions (`rpa/execution.py`, `ProductionExecutionRepository`, `rpa/api_v1.py`) | rows with a state machine, unique keys | `create`, `transition` | PostgreSQL transactions of several connections |
| CSV adapter (`rpa/csv_adapter.py`) | a table, step by step | `ingest_csv` | its transactions and customers are a batch |
| data preparation (`data_core/`) | raw, cleaned, accepted and rejected tables; split files; manifest; tables in PostgreSQL | `run_pipeline`: clean, validate, split, save, report, load | feeds the training and the demo batches |
| ML training and prediction (`ml/`) | the files of a model, predictions | `run_step2`, `save`, `load`, `PredictionService` | reads the splits; the API loads the model for each request |
| original experiment (`experiment.py`, `strategies.py`, `optimizer.py`, `outcome_simulator.py` outside `rpa/`) | a plan and draws per seed and scenario | sample, plan, solve, observe, compare | its own copy of the strategies |
| jobs, provider events, webhooks | rows written by single statements | create, record event | not modelled, see 7 |
| connection pool, migrations, metrics, tokens | a global pool, applied versions, counters, revoked ids | create/close, migrate, count, revoke | not modelled, see 7 |
| frontend (`frontend/src/App.tsx`, the two views that fetch for themselves) | the current batch, lists, busy flags | asynchronous handlers, effects of a render | calls the API |

What is hard in it, and hard to test:

- capacities shared by many choices, consumed one transaction at a time by three
  algorithms that each keep their own account of them;
- a pipeline of stages each of which may fail after others have left results;
- a solver that may return something that is not optimal, or nothing;
- four files written one after the other, in a directory other threads list, read
  and delete, by a process that may be killed;
- concurrent transactions that check a sum and then insert, with row locks taken
  in the caller's order (deadlock), rollbacks and lost connections;
- handlers of a page that overlap while they wait, answers that overtake each other,
  requests given up that are done all the same;
- requests delivered again, connections that break and transitions that race for one
  row on the production side;
- tables that are checked against one another's input and not one another's result,
  and a load that commits table by table;
- features that must only look back, computed on rows that are sorted meanwhile;
- files overwritten in place, one by one, that other processes read as one model.

## 2. The modules

    Policy, Sums  <-  RecoveryBatch  <-  Audit  <-  MCRecoveryBatch,  RecoveryBatchProofs
                                                                      (uses SumsProofs)
    BatchStore  <-  BatchStoreProofs
    Dashboard  <-  DashboardProofs
    Sums  <-  Quotas  <-  QuotaLedger            (abstract)
                 ^----  Reservations             (refines QuotaLedger)
                             ^----  MCReservations,  ReservationsProofs (uses SumsProofs)
    ExecutionMachine  <-  Executions             (refines ExecutionMachine)
                             ^----  MCExecutions,  ExecutionsProofs
    Sums  <-  Experiment  <-  MCExperiment,  ExperimentProofs (uses SumsProofs)
    Sums  <-  DataPreparation  <-  MCDataPreparation
    Sums  <-  CsvAdapter  <-  MCCsvAdapter
    Training  <-  MCTraining
    DataPreparation, CsvAdapter, Training  <-  DataProofs (uses SumsProofs)

DataProofs extends three modules at once, for the theorems about everything that
prepares data; their names are disjoint for that reason (`PrepSpec`, `CsvSpec`, `Spec`).

**Policy** has no state: the expected value of an action on a transaction
(`NetEV`), the resource state (`InitialResources`, `CanConsume`, `Consume`) and the
gate (`Allowed`, the rules of `evaluate_one`). Money is in whole rupees,
probabilities in `Scale`-ths, so that products are exact integers.

**RecoveryBatch** is `run_batch` from the request to the verified result.

| in the module | in the code |
|---|---|
| `request`, `Valid`, `Reject`, `ResolvedLimits` | the five endpoints and their validators; the CSV endpoint parses its own parameters and skips them |
| `Predict`, `Screen` and their failures | stages 1-3 of `run_batch`, each with its `_fail_closed` exit |
| `PlanNoAction`, `PlanRuleBased`, `PlanGreedy` | one transaction of the planner's loop per step, with its own `remaining` |
| `SolveOptimally`, `AcceptIncumbent`, `SolverNotApproved` | what `Optimizer.solve` may return: an optimum of the integer program, a feasible incumbent, or the fallback |
| `Execute`, `Verify` | one strategy per step: blocked pairs, the draw of each transaction (`Draw`, keyed on its id and the seed), verification |
| `Record` | what `_persist` leaves: everything, or the transactions without the customers, or nothing |
| `Reexecute`, `ReadBack`, `BatchesRead` | `/recovery/execute` and `/recovery/compare` with a `batch_id`: `to_csv` and `read_csv` without types make a column of numeric ids numbers; without `customers.csv` the data set's customers, and so other probabilities, stand in |

The solver is nondeterministic: any optimal choice may be returned, so nothing
depends on how CBC breaks ties. Ties in the planners' sorts are broken as the code
does (stable sort, first row).

**Audit** extends RecoveryBatch. `run_batch` records one event per stage, and one per
strategy for execution and verification, so the trail (`Trail`) is a function of the
completed run and of the order of the requested strategies; `Explanation` is
`explain_selection` on it, with the fallback to the first row of the transaction when
the strategy decided nothing and with the verification row the last event leaves.

**BatchStore** is the directory of runs and the requests that use it. A file is
absent, torn or whole; a request takes one file-system call per step; `Crash` kills a
request and leaves the files; `PersistFails` is an exception inside `_persist`,
which the code swallows. What a batch computes is left out: an origin records
whether it was computed from all of its own data.

**Quotas / Reservations** are the reservation tables of one tenant and the calls of
`reserve`, statement by statement, in READ COMMITTED transactions: the row lock
(`LockLimit`), the sum (`ReadUsed`), the insert, commit or rollback, and
PostgreSQL's deadlock detection (`Victim`). A call's rows are its own until it commits.
`consume`, `release` and `set_tenant_limit` are single statements. No caller of
`reserve` exists in the repository yet; the model takes each call in a transaction of
its own (`database.transaction`), with the resources in any order.
**QuotaLedger** is what the class promises: a reservation is one step, taken only
if every resource has room.

**Dashboard** is the page. A handler is an invocation (`task`) with the one request it
waits for; what it does between two awaits is one step and one commit of React's, and
`Render` adds to the step what the commit does to the views.

| in the module | in the code |
|---|---|
| `Select`, `handleLoadDemo`, `handleRunConfiguredBatch`, `handleExecute`, `handleDeleteBatch` | the first, synchronous part of the handlers of `App.tsx`, with the guard of the button; runs from a split and from a CSV file do the same, and so do comparing and executing |
| `Proceed`, `ShowBatch`, `ListFor...` | what follows an `await`; `loadBatchById`, when awaited last, takes the place of its caller |
| `Fail` | `catch` and `finally` |
| `seen` | `currentBatchId` in the closure of the handler |
| `Serve`, `Lose`, `ServeLate` | the server's answer; an error, a lost connection or the 45 seconds of `request`; a request that is done although it was given up |
| `Render`, `Receive`, `Received` | effect, cleanup and `mounted` flag of `AuditTrailView` and `DecisionExplanationModal` |
| `Crashes` | the early return before the hooks of `RecoveryPlanView` |

The server is one step per request (BatchStore is its detail) and has one client. A
list is a set: which batch comes first is left open. The mount effect runs once, as in
a build; the second run of React's development mode differs by requests whose answers
are dropped. `calm` is a history variable.

**Executions** is the table of production executions and the calls of `create` and
`transition`, statement by statement.

| in the module | in the code |
|---|---|
| `schema` | the columns the table has and which default to TRUE: `transition` reads and writes `policy_allowed`, `authorized` and `resources_reserved`, which are in no migration, so a deployment has whatever table its operator made |
| `BeginCreate`, `Insert`, `RefuseDuplicate`, `RefuseUnknownJob` | `create`: the two unique indexes, an insert that waits for a clashing one, the query after a violation, the foreign key |
| `BeginTransition`, `Lock`, `RefuseMissing`, `Update`, `Refuse` | `transition`: `SELECT ... FOR UPDATE`, the check of the state machine and of the preconditions at the current time, the update |
| `Commit`, `Rollback`, `Break` | the transaction of the call; a connection that breaks at any point, after which a client may ask again |

**ExecutionMachine** is the abstract specification: the transitions and preconditions of
`rpa/execution.py` on a decision nobody else holds. The refinement maps the committed
rows to decisions: the commit of a create is its `Plan`, the commit of a transition its
`Transition`, every other step a stutter.

**DataPreparation** is Step 1. A row has the faults of its columns instead of their
values: where a required column or a required integer is missing or invalid, an
optional one, one the cleaning lets be null and the schema does not, or the order of
its dates. Customers, actions, transactions and outcomes stand for the eight tables.

| in the module | in the code |
|---|---|
| `Clean`, `Faulty`, `Kept`, `CleanRow` | `cleaning.py`: required and optional columns, first of the duplicates, derived days |
| `Validate`, `Orphans`, `Contradicted` | both tiers of `validation.py`, the checks across tables on rows that passed alone; outcomes are not asked for their actions where there is none |
| `Assign`, `WriteSplit`, `SaveManifest` | the seeded permutation cut by rounded shares; the files, one per step, empty splits passed over |
| `Report`, `CreateSchema`, `LoadTable`, `LoadRefused`, `ConnectionLost`, `LoadDone` | the verdict on the rejected rows; the load with a commit per table; what fails, the run survives |
| `KeysHold`, `FloatColumn`, `ColumnsFit` | V001: primary and foreign keys, the unique type of an action, NOT NULL, and INTEGER columns that one bad value has turned into floats |
| `Killed`, `CutShort` | the process is killed between two steps or in the middle of a split's file; files and committed tables stay |

**CsvAdapter** is `ingest_csv`, a step of the code per action: limits, aliases of the
headers, validation, the unit of the amounts, dates, defaults, the history of each
transaction, the mean per customer. `refused` is a 422, `failed` a 500. Equal and
unreadable dates leave the order of rows open, so any sorted order is taken. A history
is a set of rows, which loses none: the identifiers of a table that is validated differ.

**Experiment** is one seed in one scenario per round: draws, the four planners
transaction by transaction with their own resource state, the solver as in RecoveryBatch
(an optimum, an incumbent, the fallback), outcomes on common draws, and the comparison
over all seeds.

**Training** is Step 2 as a process beside Step 1 and the API: splits loaded one by one,
the isolation check, the parts of the model opened, written or removed one by one, the
predictions, `Crash` anywhere; a Step 1 that is killed in the middle of a split
(`SavingKilled`); and `PredictionService`, which loads the parts in its own
order. What a fit computes is left out: a model is the number of its run.

**Sums** defines a sum over `1..n` as a recursive function, and a sum over a finite set
by it, so that both can be proved about.

Operators marked `Fault:` are not part of the models. Each is a plausible bug (a
dropped lock, a skipped file, a filter left out) that breaks one property when it
replaces the definition after it; `PROJECT.json` lists the pairs.

## 3. The runs

| run | instance | states | what it shows |
|---|---|---|---|
| `batch` | 3 transactions, 8 batches, the 6 actions of `config.py`, 3 policies, 5 limit dictionaries, 4 strategy lists | 27 122 | `WithinCapacity`, `ReportedUseExact`, `AllOrNothing`, `OptimizerDominates`, `ExplanationBacked`, `PairedOutcomes` |
| `batch_rerun` | 2 transactions, 3 columns of ids, 3 actions, 2 seeds, 2 limit dictionaries, 3 strategy lists, 2 sets of customers, one re-execution, a solver that accepts any feasible incumbent | 2 477 328 | `RerunReproduces`, and `NeverRunsBlocked` (what the gate blocks never runs, whatever is selected) |
| `store` | 3 workers, 2 batches, 3 requests | 121 527 | `WritesInOrder`, `RerunOnStoredData`, `DeletedOnce`, and `RequestsEnd` under fairness |
| `dashboard` | the mount effect and one more handler, 3 batches (2 demo), 2 fetches | 344 672 | `SpinnerHasCause`, `PanelsMatch`, `QuietMeansFresh`, and `SpinnerEnds` under fairness |
| `reserve` | 2 connections, 2 jobs, 2 resources, 3 calls, limits 1 and 3 | 132 404 | `GrowsWithinLimit`, `RowsMoveForward`, `ImplementsLedger`, and `CallsEnd` under fairness, deadlocks included |
| `executions` | 2 connections, 2 executions, 4 requests that clash in every way, 3 schemas, 4 calls, 2 instants | 158 610 | `OneExecutionPerRequest`, `RunsOnlyIfCleared`, `ImplementsMachine`, and `CallsEnd` under fairness |
| `preparation` | 2 runs over tables with duplicates, faults, repeated types and dangling references | 216 514 | `TrustedIsClosed`, `ManifestIsPartition`, `LoadedExactly` |
| `csv` | files of up to 3 rows, 2 401 of them | 19 752 | `RowsKept`, `PastOnly` |
| `experiment` | 2 seeds, 5 scenarios, 4 batches; the solver may be slow in one scenario | 251 257 | `PlansFit`, `RpaIsBest`, `NoLiftWithoutScarcity` |
| `training` | 2 preparations, 2 trainings, 1 request, 3 assignments of 3 customers | 9 681 322 | `ServedIsWhole`, `PredictionsStand` |
| `dashboard_crash`, `csv_scores` | the instances above | | violations, see 5 |

RecoveryBatch, BatchStore, Dashboard, Reservations and Executions also have their type
invariant in a run; the others are checked by properties that fail on a value out of type.

Bounds, and why they suffice for what is asked:

- *Transactions (3, or 2).* Capacities (2 retries, 2 messages, 60 rupees, 1 person)
  are below what three transactions want, so each is exhausted by some batch; batches
  mix large, overdue, small, recent and modest transactions, ties included. Two suffice
  for contention where the property is about reproduction or blocking.
- *Limits.* None given, partial dictionaries, a null limit, zero, negative, and
  one that `float()` refuses: every branch of the endpoints and of `InitialResources`.
- *Re-executions.* The limits of the first run and of the second are none or a partial
  dictionary, independently, so all four combinations of equal and other limits occur; the
  strategies are all, one deterministic, or the optimiser, which is how the execute endpoint
  comes in. The ids are two numbers, one of them with leading zeros; a number beside a
  word, which both survive; and two that are one number. Three actions are enough for a
  choice that differs, and two sets of customers for a plan that does.
- *Workers, batches, requests.* Two batches let a re-run read one while the other is
  written; three workers let a re-run, a write and a delete of the same batch meet.
- *Handlers, batches, fetches of the page.* Two handlers can overlap, which is what
  reorders answers and lets a view stay mounted while the batch changes; a third handler
  and two batches, with one fetch at a time (1.1 million states up to symmetry), show
  the same invariants but not within the time of a routine run, and the theorems are for
  any number. Three batches let a batch that is not a demo be re-run. `MaxFetches` only
  keeps the user from opening views faster than they are answered.
- *Sessions, jobs, calls.* Two sessions suffice for a lost update, for a deadlock and
  for two clashing inserts. Limits 1 and 3 around demands of 1 and 2 make lowered limits
  bite. Four calls on two executions are a create and three transitions, one of them
  late, or two creates that race and are tried again.
- *Schemas.* The table of the migration, where no transition that sets a flag can run;
  one where the flags exist and nothing ever sets `resources_reserved` before
  EXECUTING; one whose defaults let an execution run.
- *Runs of Step 1 and Step 2.* A second run is what meets the files, tables and artefacts
  of the first, complete or cut short; a third meets nothing else.
- *Rows of a file.* Three rows give a customer an earlier, an equal and a later
  transaction, or a second customer between two of one.
- *Scenarios.* From no capacity for a person to more of everything than a batch can use; the
  capacities of one are short of every demand at once.
- *Solver.* Where the solver may stop early, any feasible choice is explored; in `experiment`
  that is confined to the scenario that is the tightest.

Deadlock checking is off because these systems stop when no request is left: a
bounded number of batches, requests, calls, runs and clicks.

## 4. Fairness

- BatchStore: weak fairness of each worker's `Serve`, the handler's own next call;
  none of new requests, failures or crashes.
- Dashboard: weak fairness of each handler's continuation (the browser runs what is
  resolved) and of the end of its request, answered or given up: `request` aborts after
  45 seconds. (It clears that timer before it reads the body; a server that sends
  headers and never the body is not covered.) None of the user's actions, of late
  requests, or of the fetches of the views.
- Reservations: weak fairness of each call's `Step` (the server executes a
  statement that can run) and of `Victim` (PostgreSQL checks for deadlocks after
  `deadlock_timeout`); none of `Begin`, `Fail` or the administrators. A session that
  waits for a lock is stuck only while its holder is, and the number of calls is
  bounded, so weak fairness is enough: no call is overtaken for ever.
- Executions: weak fairness of each session's `Proceed`, the next statement of its
  transaction; none of `Begin`, `Break` or `Tick`. A call waits for one row or one
  clashing insert only, so there is no circle to break.
- The other modules state no fairness and have no liveness property. RecoveryBatch has none
  because nothing in `run_batch` waits: its loops are over the rows of a table.

## 5. Where code and documentation differ

Two are runs that TLC ends with a counterexample:

- `dashboard_crash`: `RecoveryPlanView` means to say "No batch loaded."; it returns before
  three of its hooks, so a batch that comes or goes while the plan is on the page (the
  only batch is deleted there; one load ends the spinner of another) changes the number
  of hooks, and React takes the page down.
- `csv_scores`: the adapter promises features that use only what was known before the
  transaction (`csv_adapter.py:57-58`). It computes them so (`PastOnly`), then
  keeps only their mean over all transactions of the customer, which is what the batch
  is scored on.

Met while modelling, and part of the models, without a run of their own:

- `POST /recovery/execute` says it executes an approved plan; with a `batch_id` it
  solves a new plan under the limits and seed of the new request (`api.py:599`).
- "Outcomes are drawn with a seeded generator derived from (batch_seed, plan.name)"
  (`execution_simulator.py:17-20`); the seed is derived from the batch seed and the id of the
  transaction (`execution_simulator.py:151-161`), as the docstring of `execute` says (121-126).
  `PairedOutcomes` is what follows from the latter.
- `config.py:60-62` says an incentive costs the discount plus a handling fee;
  `_incentive_cost` charges the fee once per rupee of discount and never the discount
  (`ev_engine.py:119`).
- `_load_context_from_batch` means to "re-run on the same data" (`api.py:300`). Where all ids
  of a batch are numbers, it reads 007 as 7 (`api.py:313`), and as the id seeds the outcome, an
  action under the same seed may end differently; two ids that are one number make the
  prediction fail. `RerunReproduces` is therefore about ids that survive. While the batch is still
  being written, or after `_persist` swallowed an error, it falls back to the data
  set's customers or reads part of the transactions.
- A batch deleted while it is being persisted comes back, because `AuditTrail.write`
  makes the directory again (`audit.py:249`).
- `explain_selection` shows the verification row of the strategy that was verified last,
  whichever strategy was asked for (`audit.py:329`).
- "A chosen action is always backed by an ALLOW verdict" (`audit.py:264-269`): an incumbent
  the solver is stopped at, and the no-op where a policy does not allow it, may be chosen
  though they are blocked. `ExplanationBacked` excepts the two; that execution
  blocks them is `NeverRunsBlocked`.
- `transition` needs columns that no migration creates (`database.py:746`), so under the schema of
  V003 nothing is ever authorised; `create_execution` of `api_v1.py:360` invents a job id, so
  the foreign key refuses it; after a unique violation `create` queries inside the
  aborted transaction, so the client gets that query's error and never the conflict.
- The identifier of the model is never raised (`ml/versioning.py:14-15`), so predictions
  found under one identifier may come from two models when a run was cut short or a demo
  split is missing; a request that loads while a save runs may be answered from the parts
  of two models. `ServedIsWhole` and `PredictionsStand` say what holds nevertheless.
- An empty split is not written, and the file of an earlier run stays (`splitting.py:136`): the
  manifest is right, the directory is not, and nothing reads the manifest. A run killed
  before its manifest is written (`splitting.py:135-149`) leaves its own files under the manifest
  of an earlier run, the last one perhaps with some of its rows, and nothing on the disk
  tells; `ManifestIsPartition` promises correspondingly less until the next run ends.
- A dataset the report trusts need not be one the database takes: the cleaning lets
  columns be null that V001 does not (`cleaning.py:110,144,151`; V001:46,84,92), nothing
  checks that the type of an action is unique (V001:43), one missing integer
  makes floats of its column although its row is rejected (`cleaning.py:261-270`;
  V001:18,32), and without any valid action those of the outcomes are not checked
  (`validation.py:317`). The load fails, the run prints it and goes on.
- A dictionary of limits that names some resources leaves the others uncapped on the JSON
  endpoints (`api.py:364`) and at their defaults on the CSV endpoint (`api.py:434-450`). Nothing
  says which is meant; `WithinCapacity` is about the resources that have a cap.
- Two CSV headers that are aliases of one column end in an `AttributeError`, a 500
  instead of a 422 (`MappingFails`).

Seen in code that is not modelled:

- `JobRepository.create` and the recorder of provider events pass a dictionary psycopg cannot
  adapt, so neither inserts; webhook ingestion names a random tenant, which violates a
  foreign key.
- `_assess_binding` of `experiment.py:167-206` looks a demand up under the wrong key, so its ratios
  are zero; nothing reads them. A seed in which the greedy plan recovers nothing counts
  as a tie, and the verdict on the thesis raises when no scenario is constrained.
- `track_operation` and `close_pool` have no caller; `derive_customer_features` and
  `custom_mapping` are not used; `ml_versioning` reads a `model_metadata.json` that
  nothing writes; a `PredictionService` is made per request, so each loads the model.

The model shows more that the repository says nothing about: after two overlapping
handlers the list may be out of date and a deleted batch be on the page, which is why
`QuietMeansFresh` asks for a user who waits; and an explanation that fails to load
leaves the one before it on the page, beside the error.

## 6. What is proved

All theorems hold for every value of the constants that satisfies the named
assumptions (`CatalogueAssumption`, `ScaleAssumption`, `NullAssumption`,
`BatchAssumption`, `StoreAssumption`, `DashboardAssumption`, `QuotaAssumption`,
`SessionAssumption`, `ExecutionsAssumption`, `ExperimentAssumption`,
`TrainingAssumption`, `PreparationAssumption`, `CsvAssumption`), which TLC evaluates in
every run of their modules. They say no more than the code guarantees: one no-op action
that needs nothing, amounts that are natural numbers, sentinels that are not values,
tables that are sequences of rows. Every safety invariant and every action property a
passing run checks is proved, and so are both refinements.

**RecoveryBatchProofs**: `TypeCorrect`, `CapacityRespected`, `BlockedNeverRuns`,
`CompletesOrFailsClosed`, `OutcomesPaired`. Each has an inductive invariant of its own
on top of `TypeInv` (types, and which results may exist in which phase):

- `CapacityInv`: while a loop runs, use so far plus what remains is the limit
  (`UseInv`); `WithinCapacity` alone is not inductive because it does not mention
  `remaining`. Under a negative limit nothing is ever consumed. For the optimum it
  follows from the constraints of the program.
- `GateInv`: `approved` is exactly what `Allowed` accepts under the limits of this run.
- `PlansInv`, `RunInv`: a loop has decided everything outside `todo`, and what is kept
  is what was requested.
- `OutcomeInv`: an outcome is `Run` of the choice, so a draw is never used twice differently.

`UseReportedExactly`, `OptimumDominates`, `RerunIsTheSame` and `ExplanationsHold` follow:

- `ExactInv`: what is reported is the sum over the plan made so far (`Spent`), and what a
  loop has yet to decide is None, so a decision changes one term of the sum.
- `OptimumInv`: an optimal solution stays one until the run ends, for it depends on batch,
  verdicts and limits alone. A baseline satisfies the constraints of the integer program
  by `ExactInv` and `CapacityInv`, so it competes; that the optimum is worth as much is then
  its definition.
- `ReplayInv` and `StoredInv` compare two runs, where no invariant of one run would do:
  nothing is assumed of the second request, and limits and seed each bind the part of the
  result they determine. The
  state of a planner's loop is one that its moves reach from the start (`Reached`), and
  the moves are deterministic given policy, batch and limits; two sequences of moves that
  take the same number of transactions agree, by induction on that number. A stored run
  keeps that it was `Determined`, so a second run that is determined by the same data
  is the same.
- `BackedInv`: where the no-op is allowed, nobody but a solver that is stopped early chooses
  what is blocked. The rest of `ExplanationBacked` is about every order of a trail, and is
  proved of `Trail` event by event (what the rows of each component are in any order).

**BatchStoreProofs**: `StoreTypeCorrect`, `PrefixWritten`, `RerunReadsStored`,
`DeleteOnce`, from one inductive invariant, `TypeOK /\ StoreFacts /\ RerunFacts`. It
says where each writer is in the sequence of files, that a batch has one writer at most,
what a re-run has already read, and that a delete
which begins after a run has ended meets no writer.

**DashboardProofs**: `DashboardTypeCorrect`, `SpinnerIsTakenAway`, `PanelsShowTheBatch`,
`QuietIsFresh`.
`SpinnerInv` drops `Busy` from `SpinnerHasCause` and is inductive: whoever ends the last
loading handler hides the spinner in the same commit. For the views, `PanelsMatch` says
nothing of the fetches on their way; `PanelInv` adds that the batch and its id change
together (`OneBatch`) and that a fetch whose `mounted` flag still holds is for the batch
its view shows (`FetchesCurrent`), which is what the cleanup of the effect is for.
`QuietMeansFresh` speaks of a page at rest; `CalmInv` says for each handler and each of its
awaits what page and server are like meanwhile (`Due`): which batches are stored, what the
list has, where `currentBatchId` may point, so that the last commit of the handler
leaves the page fresh.

**ReservationsProofs**: `QuotaTypesCorrect`, `LimitsRespected`, `ForwardOnly` and
`ReserveIsAtomic`, the refinement `Spec => Ledger!Spec`. The invariant says of each call
(`Sound`): it holds the lock on the limit of every resource it has reserved or is
reserving (`Lock`); on those the limit is the one it read, the use is at most the one
it read, and what it wants still fits (`Room`); it has dealt with exactly the resources
it set out for (`Task`). Since the others can only lower the use of a locked resource
(lemma `Steady`), the sum a call read stays an upper bound until it commits; that is
why the ledger's guard holds at the commit. The refinement mapping is the identity on
the two tables: a commit is the ledger's `Reserve`, every other step of a call a stutter.

**ExecutionsProofs**: `ExecutionsTypes`, `OneExecution`, `ClearedBeforeRunning` and
`MachineImplemented`, the refinement `Spec => Machine!Spec`. The invariant is what a
session knows of the row it works on: its call and, from the lock on, that the row is
still the one it read, or that of its insert is still absent (`CallOf`, `DraftOf`); that a
row it has inserted and not committed clashes with no committed one (`Unclashing`); that
two sessions hold different rows and drafts that do not clash (`Apart`), which
is what `FOR UPDATE` and the unique indexes give; and where the preconditions of a row
come from (`Cleared`). None of the conjuncts is inductive alone: the two properties speak of
committed rows, and whether a commit keeps them depends on what the others have
committed since the draft was made.

**ExperimentProofs**: `EveryPlanFits`, `OptimumIsBest`, `NoLiftFromLuck`. `PlansFit` does not
mention the resource state a heuristic keeps; the invariant adds, for the strategy that
plans, that use so far and what remains make the capacity (`Room`) and that what it
has yet to decide is None, and for those to come that nothing is decided. That what a
heuristic picks can be applied needs the least and greatest elements its sorts pick to
exist (`MinIn`, `Greatest`, by induction) and the no-op to be affordable always. By
`PlansFit` the heuristics are feasible plans of the program, so none is worth more than
its optimum; `OptimalInv` adds that where what is best for each transaction fits, the
greedy plan is that plan as far as it has come, because what it has used never keeps it
from the next (`GreedyTakesBest`). Over the seeds, `RecordInv` says that while nothing has been
scarce the two strategies have recovered the same, and `LiftInv` that their comparison
is a tie: common draws leave no room for luck.

**DataProofs** has three parts.

- Training, `WholeModelServed` and `PredictionsOfTheSaved`. A save overwrites in place, so
  no statement about the directory alone is inductive: `SaveInv` says that the
  parts a save has passed are the last model's, that no output is scored by a model before
  it is saved, and that no other save has begun since it was scored. `SettledInv` says
  where a save may be when it counts as ended, and `LoadInv` that the parts an undisturbed
  request holds are those in the directory.
- DataPreparation, `TrustedRefersInside`, `SplitsPartition` and `LoadIsExact`, from `PrepInv`.
  `TrustInv`: what is accepted and rejected is either nothing or what the validation
  makes of the cleaned rows, to which the rest is reasoning about sets. `LoadedInv`:
  while a load runs, the tables it has passed are the accepted ones and the others are
  empty, so a foreign key that fails, fails against the accepted parents, and those it has
  passed had neither a null nor a float nor a repeated type (`Fits`). `FilesInv`: the
  splits a save has passed are on disk unless they are empty, and no manifest of this run
  is there before it has passed them all. `DiskInv` speaks of every file, of whichever run:
  none is of a later run, those of the last have rows of their split only, and those of one
  run are apart, which outlives the run although the assignment does not. That every customer gets a split (`Assigned`) follows
  from the last cut being the end: a least cut not below the customer's place exists.
- CsvAdapter, `NoRowLost` and `FeaturesOfThePast`, from `CsvInv`. `CsvTyped` and `ValuesInv`
  carry the rows of the file through the steps as a function that a sort permutes, at one
  scale for all amounts. `FeaturesInv` says that features are those of the table as it is
  sorted. A history does not contain what is not earlier, so it does not change with it.
  A mean lies between two of its terms by induction on their number
  (`MeanBetween` of SumsProofs).

**SumsProofs**: recursion step, type, monotonicity and replacement of one term of `SumTo`,
from well-founded recursion on the naturals; the sum of a constant, the mean of a
finite set, and the existence of least and greatest terms.

Only model-checked: liveness (`RequestsEnd`, `SpinnerEnds`, both
`CallsEnd`), since fairness is beyond the prover; and the two runs that end with a
counterexample.

## 7. Plan, and what is not modelled

1. Policy, RecoveryBatch: done, main theorems proved.
2. BatchStore: done and proved.
3. Sums, Quotas, QuotaLedger, Reservations: done and proved.
4. Dashboard: done and proved.
5. ExecutionMachine, Executions: done and proved, refinement included.
6. DataPreparation, CsvAdapter, Audit, Experiment, Training: done and proved.
7. Proofs still worth having: for each liveness property, that every step of the one served
   lowers a measure (calls, requests, loops), which is what is left of it without fairness.

Not modelled:

- The connection pool and the migration runner: nothing closes the pool while the process
  runs, and one operator starts the migrations, so their races are not in the deployment.
- Of files: a `transactions.csv` with fewer rows is in BatchStore, which has no contents, and
  not in RecoveryBatch, where the number of transactions is a constant; a manifest cut
  short; a split that is read while it is being written (one that a killed run has left cut
  short is in both modules); two runs of Step 1, or of Step 2, at a time.
- Of the round trip of a stored batch: ids that pandas takes for a missing value ("NA") or a
  float, and dates and amounts, which are written as text with all their digits.
- Of the eight tables: predictions and decisions differ from outcomes in when their references
  are checked. A prediction is not asked for its transaction where no transaction is
  valid, so for predictions `RefersInside` needs one; a decision is always asked for its action.
- What a limit that is not given means: `WithinCapacity` does not say, see 5.
- The unit of the amounts of a CSV file: `RowsKept` says that the file has one, not which.
- Webhook ingestion, jobs and provider events: stateless checks in front of single inserts
  of the shape Executions has.
- Metrics: counters without a lock, which nothing increments.
- Authentication: stateless checks of tokens and roles.
- The numerics of fitting, calibration and features, synthetic data generation, charts and
  reports: numeric or layout code without control to check. The pipeline takes a valid or
  invalid prediction as its input.
- Settings and request models: declarative parsing. What the recovery endpoints validate
  is in RecoveryBatch.
- Password hashing, token signatures and webhook signatures: cryptographic primitives.
- The layout, tables and filters of the React views, and the endpoints that only read a file and change nothing.
- The inside of CBC, PostgreSQL and the file system: modelled by what they promise.
