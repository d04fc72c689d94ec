# Hermes-RPT control plane: specification and verification

Hermes-RPT is a multi-tenant prediction platform: a FastAPI application over PostgreSQL through async
SQLAlchemy, scripts and a trainer that share its services, and customer databases it only reads. This
directory holds TLA+ modules for the parts of it in which several actors, stores or failures meet and for the
pure rules a wrong boundary would spoil, the TLC configurations that check them on small instances, and TLAPS
proofs that lift most of the safety results to every instance. Paths are relative to the repository;
`hermes_rpt/` stands for `src/hermes_rpt/`.

`PROJECT.json` records the same project for tools: components, runs, mutants, the map from definitions to
source lines, hazards and theorems.

    tlc -workers 2 -config connection_safety.cfg MCConnectionLifecycle
    tlapm ConnectionLifecycleProofs.tla

## 1. The system

### How it runs

Every API request has a database session of its own (`hermes_rpt/common/db.py:42-49`). The router commits it
at the end; any exception, or the end of the request without a commit, rolls everything back. PostgreSQL runs
at READ COMMITTED. Three mechanisms order concurrent requests, and the modules model all of them:

- **Version counters.** Connections, mappings, models, adapters and aliases have a `version_id_col`. An UPDATE
  or DELETE names the version that was read and fails with `StaleDataError` when it has moved. An INSERT
  compares nothing, and an assignment that changes nothing sends no UPDATE and so compares nothing either.
- **Row locks.** A flushed row is locked until the commit; a second flush of it waits.
- **Unique indexes.** On (tenant, idempotency key), (connection, sequence number) and (mapping, version
  number). A second INSERT of a key waits for the first transaction to end, and then fails or goes on.

`AuditService.record` (`hermes_rpt/audit/service.py:20-44`) flushes the session, so it is where the writes of
an operation reach the database.

### Components

| Component | State | Operations | Interacts with | Where it is hard |
|---|---|---|---|---|
| Connections (`connectors/service.py`) | connection row, credential row | register, validate, enable, disable, rotate, delete, use | secret provider, pool registry, customer database | three stores and no common transaction; awaits between check and use |
| Pool registry (`connectors/pool_registry.py`) | engines per process, keyed by tenant and connection | get_or_create, evict | connections | one registry per process; eviction before the commit |
| Secret providers (`secrets/provider.py`) | secret per key | store, resolve, delete | connections | outside the transaction; the only working provider is a dictionary of its process |
| Mappings (`mappings/service.py`) | mapping row, numbered versions | create, revise, submit, approve, reject, activate, deprecate, suspend for drift | snapshots, feature extraction | lifecycle under concurrent administrators; "latest version" read apart from the state |
| Discovery (`schemas/service.py`, `schemas/jobs.py`) | numbered snapshots, a background job each | start, run, acknowledge | connections, customer database, mappings | jobs out of order, failures rolled back, restarts |
| Predictions (`inference/service.py`, `routers/predictions.py`) | request, result and audit rows | predict | registry, loader, features | idempotency under races, retries and lost responses |
| Loader and resilience (`inference/model_loading.py`, `inference/resilience.py`) | cache, lock, circuit breaker | load | artifact store | retries under a lock, thresholds, timeouts |
| Model registry (`registry/service.py`, `registry/repository.py`) | models, adapters, aliases | register, move stage, deactivate, share, set, roll back and resolve an alias | trainer, predictions | multi-operation sessions, check then insert |
| Credentials, tokens, rate limit (`auth/`, `routers/auth.py`) | credential rows, windows in memory | create, exchange, use, revoke | every request | expiry and revocation against exchanges and tokens in flight |
| Sessions, row-level security, audit, outcomes (`common/`, `audit/`, `monitoring/outcomes.py`, `exception_handlers.py`, migrations) | pooled connections with a setting, outcome rows, gauges | open and bind a session, scoped reads, record an outcome, refuse, log an event | every request | settings that outlive a transaction, NULL in a policy, gauges set before the commit |
| Feature extraction (`features/`) | none | plan, compile, derive, normalize, extract | mappings, customer database | point in time, strict comparisons, unmapped columns |
| Datasets (`datasets/`) | manifest, rows | enumerate, label, check, split, report | feature extraction | rows and mappings that change during the build |
| Trainer and training services (`apps/trainer`, `models/`, `synthetic/`) | files named after the revision, a registry of its own | provision, build, train, save, register, compare, promote, adapt | registry, datasets | processes that share a directory; kills |
| Mapping documents, drift comparison, metrics, explanations, transformer inputs, synthetic fleet | none | pure functions | all of the above | boundary values, ties, in-place edits |
| Tenants, memberships, consent (`tenants/`) | rows | create, change | every request | little: single writes |

What makes the modelled components correct, in one line each:

- *Connections*: a superseded secret is gone, an engine never carries another connection's secret, a disable
  is not undone by a request already in flight, and the handlers together behave as atomic operations.
- *Mappings*: only lifecycle edges, documents immutable, no production without a validated and an approved
  version (which need not be the active one, section 5), a drift suspension not undone by the version that
  drifted.
- *Discovery*: unique numbers, drift measured against an older completed snapshot, completed snapshots frozen.
- *Predictions*: one key one prediction, what is answered is stored, failed attempts leave the key free, no
  tenant sees another's model, and to its client each call is one atomic operation.
- *Loader*: one load at a time, each model loaded once, the store left alone after a bounded number of failures.
- *Registry*: the audit trail is a walk to the stage, deactivation is final, aliases stay within their tenant.
- *Credentials*: people and never tokens manage credentials, no exchange that starts too late gets a token, a
  token outlives a revocation by a bounded time, attempts are bounded in every span of a window.
- *Requests*: row-level security alone and the repositories alone keep tenants apart on any pool, the policies
  admit the platform's own rows, gauges agree with the stored labels, no request waits for one that waits itself.
- *Datasets*: a trip's own outcome stays out of its row, features over maintenance events and odometer readings
  are what serving saw (the ratios over other trips are not, section 5), one version of the target mapping,
  labels that stay true, splits in order of time, a plan whose "unavailable" is what extraction finds.
- *Trainer*: each process works on its own data and models, registered artifacts stay loadable, only a winner
  is promoted, and what is started completes.
- *Pure rules*: each against what it is for (`DataAlgorithms`).

The behaviours that are hard to test, each at its line, are the `hazards` of `PROJECT.json`.

## 2. Modules

| Module | Models | Extended by |
|---|---|---|
| `ConnectionContract` | what the connection API promises: atomic operations on a row | instantiated by `ConnectionLifecycle` |
| `ConnectionLifecycle` | connections, credentials, secrets, pools; requests in several processes | `MC...`, `...Proofs` |
| `MappingLifecycle` | mappings and versions; requests | `MC...`, `...Proofs` |
| `SchemaDiscovery` | snapshots and jobs of one connection | `MC...`, `...Proofs` |
| `PredictionContract` | what the prediction endpoint promises: a call is one atomic step | instantiated by `PredictionFlow` |
| `PredictionFlow` | the prediction endpoint; the registry as an environment | `MC...`, `ServingProofs` |
| `ModelLoader` | one process's loader and breaker | `MC...`, `ServingProofs` |
| `ModelRegistry` | models, adapters, aliases; sessions of several operations | `MC...`, `...Proofs` |
| `ServiceCredentials` | credentials, exchanges, tokens, rate limits, time | `MC...`, `...Proofs` |
| `TenantRequests` | pooled connections, row-level security, scoped reads, audit events, outcomes and gauges | `MC...`, `...Proofs` |
| `FeatureExtraction` | the feature contract, query recipes, derivation, plan (operators) | `DatasetRules` |
| `DatasetRules` | candidate rows, labels, quality checks, split, report (operators) | `DatasetBuild`, `ModelRules` |
| `DatasetBuild` | a build beside a changing customer database, mappings and online extraction | `MC...`, `TrainingProofs` |
| `TrainingPipeline` | trainer processes that share files | `MC...`, `TrainingProofs` |
| `Common` | the absent value `None` | the modules two of which share a proof module |
| `SchemaRules` | fingerprints and drift comparison (operators) | instantiated by `DataAlgorithms` |
| `ModelRules` | threshold, explanations, relational context, pretraining, synthetic fleet (operators) | `DataAlgorithms` |
| `MappingRules` | derived expressions and mapping suggestions (operators) | `DataAlgorithms` |
| `DataAlgorithms` | the operators of the last three run on sets of inputs | `MC...`, `TrainingProofs` |

The variables of a module are the committed rows, the state outside the database, and one record per request,
call, job or session in flight with its position (`pc`) and what it has read. A step runs from one await at
which another actor can see or change something to the next. Variables marked *history* in their comment
exist for the properties only. Definitions whose comment starts with *Mutant* are wrong variants of the
definition after them; each is a change that shows a property can fail.

### ConnectionLifecycle

`Begin` reads and checks the row (`Admits`), then a request goes through `Store`, `Resolve`, `GetOrCreate`,
`Evict`, `Erase`, `Flush` and `Commit` in the order its operation calls them; `FirstStep` and the steps
themselves give the order. A rotation evicts, erases the old secret, flushes and commits; a deletion evicts,
flushes, erases and commits. `Flush` takes the row lock and compares the version, unless the operation changes
nothing (`Dirty`). `Abort` is any exception or lost connection: the rollback, with the secret and pool effects
left behind. `Crash` takes the pools of a process and all its requests. A health check is one of its outcomes,
an engine the key it was built with. The secrets are those of a store that all processes reach and that survives
them, as the protocol `SecretProvider` has it; `LocalDevSecretProvider`, the one implementation that works yet,
keeps them in its process and loses them with it, which is not modelled. `connectors/query_guard` and the encryption of secrets are left out.

### MappingLifecycle

`CreateDraft` and `Begin` read the mapping and check its state; `ReadVersions` reads the versions and takes
the number of the latest one or the next; `Insert`, `Flush`, `Commit` write. A document is its source table
and whether `validate_mapping_document` accepts it. `BeginDrift` and its flushes are
`suspend_affected_by_drift`, one UPDATE for each affected mapping in the order the database returned them
(any). `Flush` of a row that does not change skips lock and version check, as SQLAlchemy does; that is what
lets a revision of a draft pass unnoticed (section 5).

### SchemaDiscovery

`Start` reads the highest number, then inserts, commits and schedules; the job introspects, reads the latest
completed snapshot, compares and saves in one transaction. `Restart` loses all requests and jobs, `Fail` is an
exception in the job, which rolls back the FAILED it has written. A schema is a value: what matters here is
whether `compare_snapshots` finds a difference, not which.

### PredictionFlow

`Send`, `Lookup` (`_cached_response`), `Insert`, `ReadModel`, `Work`, then `Commit` or `Raise`. `Work` stands
for loading, extraction and inference, which write nothing here; `ModelLoader` and `MappingLifecycle` have
their detail. `Insert` waits for an undecided INSERT with the same tenant and key. The answer may get lost
after the commit, and `Abort` is possible everywhere. `ChangeStage` and `SeedTask` are the registry.

`PredictionContract` has one step for a call: `Predict` (row, result and event at once, under a key that has
none), `Repeat` (a stored prediction of the tenant and key), `Conflict` or `Refuse` (nothing is left). The
mapping shows a call as its client sees it (`Seen`): not yet sent, waiting, or answered. The contract has no
model registry and no unfinished inserts, so it says nothing about which model of several is chosen.

### ModelLoader

`Request`, `Acquire`, `Finish` and `Retry` are the awaits of `load`; cancellation is possible at each. One
event loop runs the loader, so what lies between two awaits is atomic, and the breaker is modelled as the
values it computes (`Current`, `Admitted`, `OnSuccess`, `OnFailure`). Time is one Boolean: whether the reset
timeout has passed since the circuit opened. An artifact does not change within one load.

### ModelRegistry

Unlike the API handlers, the callers (trainer and scripts) do several operations in one session. A session
keeps what it has read (`view`, `seen`), so a second operation works on the row in memory. `PointAlias` checks
model and adapter and looks the alias up, `InsertAlias` or `UpdateAlias` writes it. There is one task and one
alias name: rows of different tasks or names never meet in a query.

### ServiceCredentials

`Exchange` passes both limiters and starts a transaction; `Find`, `Authenticate`, `Flush` and `Issue` are its
steps, `Revoke`, `FlushRevoke` and `CommitRevoke` those of a revocation; the UPDATE of either takes the row
lock and writes the changed columns only (`Touched`). `Use` presents a token, which is verified by signature
and time and never looked up. `Tick` moves the clock. Signatures and hashes are good or bad; the histories
record the last use of a token, whether an exchange overlapped the revocation, and what each limiter admitted.

### TenantRequests

`Open` borrows a pooled connection and binds the tenant; a request then reads by id (`GetById`), lists,
records an outcome in its steps lookup, write, publish and commit, or exchanges a credential without a tenant.
A refused request gives its connection back on the way out of `get_session` (`Refuse`); only then does the
exception handler open a session of its own and write an event (`HandlerSession`, `HandlerInsert`), or drop the
event when it gets no connection or the database fails (`DropEvent`). `Bind` and `Reset` are `set_config(..., true)`: a
setting that was set once reads as empty afterwards. The policies of the migrations are the operators `Strict`,
`Audit` and `Credential`; whether the database role obeys them is a choice of each behaviour, because both
barriers are meant to hold alone. The gauges of a tenant are the set of labels they were computed from.

### FeatureExtraction, DatasetRules, DatasetBuild

The first two are operators: what a query recipe selects from a set of rows given which columns are mapped
(`Query`, `Selected`, `Before`), what it derives and what stands in for a missing value, which rows are
enumerated and in which orders, their labels, checks, split and report. `DatasetBuild` is the build as it
awaits: resolve the target mapping, enumerate, then for each row the target and the related queries. Around it
the customer completes, cancels, deletes and appends rows, operators activate, suspend, archive and replace
mappings, the clock moves, and an online extraction for a trip may happen (`served`). The session's identity
map is part of the model: an object that is still referenced keeps the attributes first loaded (`Seen`). The
related queries of one row are one step, although the code awaits between them. Mappings that may be activated
are not all complete: as section 5 has it, the active version need not have passed validation. The
customer's database is external to the repository, and marked so.

### TrainingPipeline

Each process follows the plan of its command, one step at each action of `Script`; `Start` and `Kill` are the
operator's. The registry and the control database of a process are in its memory, the tenant databases and
checkpoints in a directory named after command and revision. Weights are a name: the process and the training
they come from; a score is a number of a small set.

### SchemaRules, ModelRules, MappingRules, DataAlgorithms

A behaviour of `DataAlgorithms` starts with one input and takes the rounds of the algorithm, where a round has
a choice of its own: rows returned in any order, a set walked in any order, a random draw. Each property
compares the result with what it is for, never with a second copy of the algorithm.

The code evaluates, measures and searches a derived expression with recursive functions. In `MappingRules` an
expression is the table of its nodes, each after its operands, and a round (`VisitNode`) fills in the entry of
the next node: what each function answers for the tree below it (`Height`, `ReferencedColumns`, `Evaluate`)
and the frames `evaluate` needs (`Frames`). The limit of Python's stack is a constant that is no smaller than the depth
the validation allows. The greedy suggestion takes one pair in a round (`ConsiderPair`), any of the strongest
that are left, so ties are broken every way a sort could break them.

### Fairness

Only the liveness properties use it. `ConnectionLifecycle`: weak fairness of every request's next step,
because the event loop runs it and each call has a timeout; strong fairness of `Flush`, because the lock queue
of PostgreSQL serves waiters in turn however often the row is locked again. `PredictionFlow` and
`SchemaDiscovery`: weak fairness of each call's and job's next step; statement timeouts bound what they wait
for. `ModelLoader`: weak fairness of `Finish` (`with_timeout`) and `Retry` (a sleep), strong fairness of
`Acquire` (`asyncio.Lock` wakes its waiters in order). `TrainingPipeline`: weak fairness of each process's
script, a sequential program that runs on until it exits or is killed. No request, failure, crash, start or
kill is ever assumed to happen.

## 3. Runs

Each run checks deadlock unless the system may stop: requests are finitely many in most instances, and an
instance in which all have been made stands still. Most type invariants, and some of the plainer safety
properties, are proved (section 4) and not checked again here.

| Run | Instance | Checks |
|---|---|---|
| `connection_safety` | 1 connection, 2 processes, 2 requests, 3 keys, requests start up to version 3 | `SupersededSecretErased`, `DisableNotOverwritten`, `AtomicOperations` |
| `connection_isolation` | 2 connections, 1 process, 2 requests, 2 keys, version 1 | `PoolIsolation`, `EveryRequestEnds` |
| `mapping_safety` | 1 mapping, 2 requests, 3 versions, row version up to 8 | `ProductionEvidence`, `SuspensionOutlastsVersion` |
| `prediction` | 2 calls, 2 tenants, an ordinary, an empty and no key, 2 trips, a shared and a private model | `SameKeySamePrediction`, `RetryPossible`, `PredictionsAtomic`, `EveryCallEnds` |
| `loader_safety` | 3 calls, 3 models, threshold 3, 3 attempts, 9 failures | `NoHammering`, `EveryLoadEnds` |
| `discovery_safety` | 3 snapshots, 2 schemas, numbers up to 3 | `DriftOfOlder`, `JobsEnd` |
| `registry` | 1 model, 1 adapter, 1 alias row, 2 tenants, 2 contracts, 2 sessions, row version up to 2 | `TrailLeadsToStage`, `AliasWithinTenant` |
| `credentials_safety` | 1 credential, 2 tenants, 2 requests, 2 addresses, lifetime 1, tolerance 1, window 2, limits 2 and 1, clock up to 3, 2 tokens | `BlastRadius`, `RateBound`, `RevocationFinal` |
| `tenant_requests` | 2 tenants, 2 connections, 2 requests, 2 objects of one tenant | `TenantIsolation`, `PoliciesAdmit`, `GaugeCurrent`, `WaitsForWorker` |
| `dataset_build` | 2 trips, 1 vehicle, 2 mappings of Trip (one of which may have a version that maps too little), 2 versions of MaintenanceEvent, 2 ticks of 90 days, 2 changes, 1 appended row | `DatasetTypeOK`, `TargetPinned`, `PointInTime`, `RowsKept`, `PlanHonest` |
| `training_pipeline` | 2 trainers, 1 revision, scores 0 and 1 | `TypeOK`, `OwnWork`, `ArtifactsMatch`, `OnlyWinnersServe`, `Completes` |
| `data_algorithms` | the inputs of `MCDataAlgorithms` | `DriftReported`, `ChoicesOptimal`, `HistoryEncoded`, `PretrainingSound`, `FleetConsistent`, `DocumentsSound` |

All of them pass. Several properties are conjunctions of named parts (`PointInTime` of `OwnOutcomeUnused` and
`SameAsServed`, and so on); the parts say what they are about, and each part has a mutant that breaks it.

Why the bounds are enough for the interesting cases:

- Two requests on one row give every pairwise race of read, flush and commit; the bounds on the version let a
  race follow an earlier one and precede a later one. Two processes are needed for an eviction that misses the
  other pool, three keys for a rotation that races another.
- Two predictions give a race and its loser, or an attempt and its retry; the proofs cover any number. The
  empty key is separate because the code stores it and never looks it up.
- Three loads against a threshold of three cross the threshold within one call's retries and between calls,
  and the bound of nine failures lets the circuit open, fail a trial and open again.
- Three snapshots finish in every order. A model, its adapter and an alias, with two tenants, two contracts and
  two sessions, give every pair of operations that meet on a row.
- Twice the limit around the edge of a window needs a clock that reaches the end of a second window; a token
  must be able to expire, with its tolerance, before the clock stops.
- Two requests and two connections are what it takes for requests to find both or only a used connection, and
  for a connection to carry a setting from one tenant to another. Both objects belong to one tenant, so the other's requests are
  the ones that must not get them, and the gauges are those of two labels.
- Two ticks put the present before, at and after the prediction times and move events out of the window of a
  feature; two mappings of the target and two versions let both kinds of change happen during a build.
- The second trainer meets the files of the first while it runs, after it has finished or after it was killed.
- The inputs of `data_algorithms` are chosen so that ties, zeros, NULLs, empty sets and
  both sides of each limit occur; `MCDataAlgorithms` lists them for each algorithm. Expressions go one level past
  the depth the validation allows and past the stack, over columns the table has, lacks or has NULL in.

Symmetry is used for ids only, and in no run with a liveness property.

## 4. Proofs

Each `...Proofs` module proves `Spec => []IInv` (theorem `Invariance`, for the loader `LoaderInvariance`, for
the datasets `DatasetInvariance` and for the pure rules `RulesInvariance`) by one lemma for each action, then
the listed theorems. `ServingProofs` is about two components and `TrainingProofs` about three, whose
specifications share no variable.

The assumptions are the named `ASSUME`s of the component: the absent value differs from the ids and rows, and
the bounds and thresholds are numbers. Sets may be infinite, except that version numbers and sequence numbers
are bounded by their constants and that a customer's database holds finitely many rows. The assumptions of
`DatasetBuild` are these, and each run evaluates them:

- `WorldAssumption`: trips are planned no earlier than the clock starts, and the rows that exist at first are
  finite sets of rows of their entity.
- `MappingAssumption`: the mappings active at first and those that may be activated are records of a mapping,
  a version and whether it is suspended. Nothing is assumed of their documents.
- `NullAssumption`: NULL is the name of no entity, field, function or status.
- `FractionsAssumption`, `LimitAssumption`, `ContractAssumption`: the validation of the definition
  (`datasets/definition.py`), a row limit that is a number, and the declared feature contract, which
  `validate_spec` accepts.

Those of the pure rules say what the inputs are (`InputAssumption`): finite snapshots whose tables have columns
of different names, samples with a label and a probability, features with whole contributions, finite tables
of the customer's database, a batch with at least one position, well-formed expressions (a node comes after
its operands) with the row they are evaluated on and the columns of its table or no snapshot, finitely many
scored pairs. `FleetAssumption` gives the ranges the generator draws from and that its delay threshold is the
label's (`synthetic/generator.py:31`); `DocumentAssumption` that the stack is at least as deep as the validation
allows. `RuleAssumption` and `ModelRulesAssumption` bound the constants of the code. Inputs of every size are
covered.

| Module | Theorems | What the inductive invariant adds |
|---|---|---|
| `ConnectionLifecycleProofs` | `TypeCorrect`, `SecretsErased`, `PoolsIsolated`, `DisableFinal`, `ImplementsContract` | a request has the shape its operation gives it (`RequestShape`); an equal version means an equal row (`SnapshotVersion`); who has written holds the lock and the row it read is still there (`LockDiscipline`); keys belong to one connection and new ones are in no row (`KeyOwnership`, `NewKeys`); who is about to commit the end of a credential has erased it (`ErasedFirst`) |
| `MappingLifecycleProofs` | `TypeCorrect`, `EvidenceKept`, `VersionsKept`, `LifecycleFollowed`, `SuspensionKept` | version numbers have no gaps and a mapping on its way to activation has a version newer than the active one (`RowInv`); what a request knows of its number (`Numbered`); no two transactions hold a row or number (`Exclusive`) |
| `ServingProofs` (predictions) | `TypeCorrect`, `Idempotent`, `AnswersKept`, `RetriesPossible`, `ModelsAuthorised`, `ImplementsContract` | tenant and key are unique among committed and undecided rows (`KeysUnique`); an answer names a row with the caller's tenant and key (`CallInv`); a committed row is complete (`StoredInv`) |
| `ServingProofs` (loader) | `LoaderTypeCorrect`, `LoadsSerialised`, `CacheFilledOnce`, `HammeringBounded`, `TrialsReopen` | the lock is held exactly while loading or backing off, for a model not in the cache (`LockInv`); the breaker's count bounds the streak of failures (`BreakerInv`) |
| `SchemaDiscoveryProofs` | `TypeCorrect`, `SequencesUnique`, `DriftMeasuredBack`, `CompletedKept` | numbers are unique among committed and uncommitted rows; what a job has compared with is still there when it saves (`CompareInv`) |
| `ModelRegistryProofs` | `TypeCorrect`, `TrailSound`, `AliasesWithinTenant`, `DeactivationsKept` | a row in memory is the committed one, an older one, or the session's own successor of the committed one (`ViewInv`, with `Later` and `Walk`); an alias about to be written fits the items as its transaction has them (`AliasInv`) |
| `ServiceCredentialsProofs` | `TypeCorrect`, `HumansManageHolds`, `NoLateTokenHolds`, `BlastRadiusHolds`, `RateBoundHolds`, `RevocationFinalHolds` | rows and tokens carry grantable scopes only and have a person behind them (`RowInv`, `TokenInv`); an exchange that began too late holds a row that will be refused (`RequestInv`); after a revocation that no exchange overlapped, the tokens are those of before and every exchange still reading finds the row revoked (`RevokedInv`); where the open window stands among the past admissions (`WindowInv`) |
| `TenantRequestsProofs` | `TypeCorrect`, `TenantIsolationHolds`, `PoliciesAdmitHolds`, `GaugeCurrentHolds`, `WaitsForWorkerHolds` | a connection belongs to one session (`Exclusive`) and its setting is the tenant that session has bound, nobody's when it is free (`SettingInv`); a request that records alone commits what it has published (`OutcomeInv`, `WriterInv`); gauges are current but between publication and commit (`GaugeInv`) |
| `TrainingProofs` (trainer) | `TrainerTypes`, `TrainerOwnWork`, `TrainerArtifactsMatch`, `TrainerOnlyWinnersServe`, `TrainerFailsOnlyAtStart` | a process past its first CREATE TABLE is the only such process of its directory (`Exclusive`); what the steps taken guarantee to the next one (`StepInv`); rows of a process speak of its own weights, still stored as registered (`ModelInv`, `AdapterInv`) |
| `TrainingProofs` (datasets) | `DatasetTypes`, `DatasetPinned`, `DatasetPointInTime`, `DatasetRowsKept`, `DatasetPlanHonest` | a row with a label is of a trip whose outcome is final (`RawInv`); the dataset follows the enumerated rows (`OutInv`); where the build is and what it holds (`BuildInv`); what was served is still what the rows say (`ServedInv`) |
| `TrainingProofs` (pure rules) | `RulesInvariance`, `ChoicesOptimalHolds`, `DriftReportedHolds`, `HistoryEncodedHolds`, `PretrainingSoundHolds`, `FleetConsistentHolds`, `DocumentsSoundHolds` | what the rounds so far have computed: the relations fetched are answers of their queries (`ContextInv`), each position shows its own record or one of another entity, and each pair was drawn from timestamps the masked batch shows (`PretrainingInv`); every trip is one the generator makes (`FleetInv`); evaluation comes no deeper than the expression is (`ExpressionInv`); the pairs seen are the strongest (`SuggestionInv`) |

The safety properties are not inductive alone because each depends on what requests in flight have read. The
recurring argument is the version counter: a request that passes the version check has read the committed row,
so what it has checked still holds, and from the flush to the commit the row lock keeps it so.
`ImplementsContract` of the connections uses it to show that every commit is one atomic step of
`ConnectionContract` and every other step changes no row.

`ImplementsContract` of the predictions rests on `KeysUnique`. The lookup of a key and the commit are far apart,
and in between other calls look the same key up; that the commit is still the one prediction of its key in the
contract follows because the call has held the key since its INSERT. A repeated answer is a committed row of the
same tenant and key, and a call that ends otherwise leaves none. `AnswersKept`, `Idempotent` and `RetriesPossible`
say what clients rely on in terms of the code's own state.

`AliasesWithinTenant` needs more than the version counter, since the model an alias points at is not locked by
the session that sets the alias. It holds because contracts and owners of adapters never change, and a model's
owner changes only to shared (`Later`).

`BlastRadiusHolds` is about time: that a token is used after a revocation only within its lifetime and the
tolerance follows from `RevokedInv`, because no step between the revocation and the use can issue another. It is
stated for a revocation that no exchange overlapped; with an overlap it fails (section 5).

`RateBoundHolds` shows why a limiter that counts within windows still bounds every span: the admissions of the
open window are the last ones, those before it came before its start, and those before another limit's worth a
whole window earlier (`WindowInv`). So more than twice the limit take a window, and no fewer, since the ten
attempts of section 5 do not.

The trainer's theorems are about scripts of up to sixteen steps while an action sees one step. The plan lemmas
reduce each script to which step comes before which; `StepInv` carries what the earlier ones have written.
That another process cannot undo it rests on the failing CREATE TABLE: in one directory only one process ever
gets past it, and a second run finds the tables of the first, alive, finished or killed. The same argument
gives `TrainerFailsOnlyAtStart`, the safety half of `Completes`.

`DatasetPointInTime` has two halves. The own outcome of a trip does not reach its row because the trip departs
at its own prediction time and the queries over trips compare strictly; that they compare at all needs the
departure to be a mapped column, which is a premise of the property, since an active version need not have
passed validation (section 5). It says nothing of the outcomes of other trips, which the ratios read as of now.
That training sees what serving saw needs a history: what a feature over appended rows is worth at a time depends
only on the rows before that time (`HistoryValue`, a lemma about every feature of the contract), rows are
appended with the present time, and an online extraction asks about the present. `DatasetRowsKept` needs the
enumeration to keep its order under skipping and `Split` to cut a sorted sequence. `DatasetPinned` rests on the
identity map alone (`BuildInv`): without it (`SeenFresh`) it fails.

The theorems about the pure rules are about algorithms the code writes as sorted walks, for inputs of every size:

- `ChoicesOptimalHolds`. The threshold is the least of the best candidates, so one has to exist: inclusion is
  well-founded on finite sets (`FirstExists`), and comparing F1 scores by their cross products is a strict order
  (`RatiosTransitive`, `HigherF1Order`). A threshold that is no predicted probability selects what the next
  probability selects, or nothing (`BestCandidate`). The factors are the first ones of a ranking; when it is cut,
  there are as many as the limit and each ranks before what was left out (`RankCut`, `TopFactors`).
- `DriftReportedHolds`. For every order of the added tables, an old table has an event exactly when something the
  comparison looks at has changed (`TableEventsExact`, `RenameTargetSound`, `ComparisonExact`).
- `HistoryEncodedHolds`. The positions of the encoded batch and the records fetched correspond (`PositionOf`,
  `PositionFor`, `BlockExact`), and a query with a mapped key and timestamp answers with the newest records strictly
  before the prediction time (`TimedAnswer`).
- `PretrainingSoundHolds`. A pair is drawn from positions that show a timestamp, and encoding keeps the order of
  days up to the horizon (`EncodedOrder`), so either label says what the records that the positions held before
  any corruption allow; a corrupted link shows a record of another entity, and its position is the only kind at
  which a cell to be reconstructed is seen. It does not say that the label of a pair agrees with what a corrupted
  position shows (section 5).
- `FleetConsistentHolds`. A delay in the generator's ranges is on one side of the threshold, so the label of a
  trip is what was remembered of it (`TripLabel`, `Remembered`); the injected defects sit in the first four
  completed trips, each of which exists when four are (`FirstFour`), and the checks count them (`DefectsSeen`).
- `DocumentsSoundHolds`. A node needs at most one frame more than its operands and has a value when they have one
  (`EntryOf`), so a validated expression neither runs out of stack nor meets a column its table lacks. A pair is
  passed over only when one seen before it, which scores no less, has its field or column (`StrongestFirst`).

Only model-checked:

- the liveness properties `EveryRequestEnds`, `EveryCallEnds`, `EveryLoadEnds`, `JobsEnd` and `Completes`:
  reasoning under fairness is outside the prover's reach;
- that loads and tenant requests never all come to a stop: `loader_safety` and `tenant_requests` check deadlock.

## 5. Where code and documentation disagree

Statements of the documentation that do not hold of the code, met while modelling. Those that the modules can
express are formulas at the end of their module. They are not runs. To see the counterexample, check the
property in place of those of the module's own configuration, with the constants given here:

| Property | Constants | What happens |
|---|---|---|
| `NoStalePool` | 1 connection, 1 process, 2 requests, 2 keys | a rotation evicts the pool of one process before it commits; a request that resolved the old password before the eviction registers an engine with it, another process keeps one (`connectors/service.py:254`; ADR 0004 promises that no stale pool keeps working) |
| `ProductionApproved` | 1 mapping, 2 requests | `create_new_version` on a draft changes no column of the mapping and is not version-checked: it commits behind a submission and an approval, and `activate` takes the latest version (`mappings/service.py:131`; `docs/SCHEMA_MAPPING.md:55`) |
| `FailureRecorded` | 2 snapshots | the rollback after a failed discovery takes back FAILED, the error and the audit event; the snapshot stays PENDING (`schemas/jobs.py:59`) |
| `ActiveWasProven` | 1 connection, 1 process, 2 requests, 2 keys | a failed validation sets `last_validated_at`, which `enable_connection` takes as proof (`connectors/service.py:166`, `:193`; the error class says "successfully validated") |
| `DisabledHasNoPool` | 1 connection, 1 process, 2 requests, 2 keys | a request that read the status before the disable registers an engine after the eviction (`connectors/service.py:217`; ADR 0004) |
| `LiveSecretStored` | 1 connection, 1 process, 2 requests, 2 keys | the old secret is erased before the version-checked flush; a failed flush or a crash strands the live row (`connectors/service.py:257`) |
| `NewVersionKeepsProduction` | 1 request | a revision sets the mapping to DRAFT and so takes the active version out of production (`mappings/service.py:131`; its docstring says it stays usable) |
| `DriftOfOwnSource` | 2 sources, 1 version | suspension compares table names of all the tenant's mappings (`mappings/service.py:301`; "for this connection") |
| `OneActivePerEntity` | 2 mappings, 1 version | two mappings of an entity are active and `scalar_one_or_none` raises (`mappings/repository.py:29`) |
| `FailureAudited` | 2 calls | FAILED and its event are rolled back (`inference/service.py:230`; `docs/INFERENCE_API.md:58`). Committing them instead would break `RetryPossible`, because the row would use up the key |
| `RepeatReturnsPrediction` | 2 calls | a call that looked the key up before the other committed gets an unmapped IntegrityError (`inference/service.py:141`; `docs/INFERENCE_API.md:130`) |
| `OtherTripIsFresh` | 2 calls, 2 trips | a key reused for another trip returns the first trip's prediction (`inference/service.py:263`; `docs/INFERENCE_API.md:133`, against line 162) |
| `RetryOnlyTransient` | as `loader_safety` | integrity failures and an open circuit are retried with backoff (`inference/model_loading.py:218`; docstring of `retry_with_backoff`) |
| `CrashLeavesRunning` | 2 snapshots | RUNNING is never committed; a restart leaves PENDING (`schemas/service.py:86`; `schemas/jobs.py:6`) |
| `DriftNullOnlyFirst` | 2 snapshots | a snapshot that completes before an earlier one has no drift summary (`schemas/service.py:98`; `schemas/models.py:39`) |
| `AliasUnique` | 1 model, 2 alias rows, 2 tenants, 2 sessions | two first `set_alias` both insert; every later lookup raises (`registry/service.py:360`; `docs/MODEL_ADAPTATION.md:136`) |
| `ResolvedActive` | 1 model, 2 alias rows, 2 tenants, 2 sessions | an alias resolves to a deactivated model (`registry/repository.py:136`; rollback runbook line 80) |
| `DemotionUngated` | 1 model, 2 alias rows, 2 tenants, 2 sessions | production to staging needs the promotion scope (`registry/service.py:44`; the comment above it says demotion does not) |
| `OneServingAdapter` | 2 adapters, 1 session | two adapters of a base model are in production and the lookup raises (`registry/repository.py:112`) |

Further ones, without a formula of their own:

- *Credentials.* A token can outlive a revocation by more than "up to one TTL window" (`docs/AUTHENTICATION.md`,
  5a): the tolerance for clock skew is added, and an exchange that has read the row before the revocation
  commits signs afterwards. "5 attempts / 60s" are ten around the edge of a window. The DENIED events of
  `authenticate` are rolled back with the request (`auth/service.py:131-176`).
- *Outcomes.* Of two outcomes recorded at once neither session sees the other, so the gauges are not "every
  ... pair currently on record" (`monitoring/outcomes.py:94`), and a rollback leaves the gauges of labels that
  were never stored. The route catches `TenantMismatchError` itself, so no cross-tenant event is recorded
  (`routers/monitoring.py:91`).
- *Datasets.* A target mapping replaced by another mapping during a build gives rows of another version than
  the manifest names (`datasets/manifest.py:33`); versions of related mappings are not in the manifest at all;
  a suspension during the build goes unnoticed.
- *Features.* A related entity with an unmapped timestamp loses the comparison with the prediction time; an
  unmapped or computed `completed_at` makes extraction fail on an assertion (`features/compiler.py:338`) while
  the plan says available; the ratios of drivers and routes read the status other trips have by now, so they
  count cancellations after the prediction time (`features/compiler.py:321-335`, against `:10`); a feature whose
  join column is unmapped is not in `lineage.missing`. Since the active version need not have passed validation
  (`ProductionApproved`), the departure of the target itself may be unmapped, and then its own outcome is among
  the rows its ratios are computed from.
- *Transformer.* The target row is fetched with its status and actual times as of now
  (`transformer/context.py:104-118`; `docs/HERMES_RPT_0_1.md` says that point-in-time cutoffs are respected).
  One derived or static field makes `fetch_related_records` raise (`features/compiler.py:237`). Nothing but
  the comparison with the prediction time keeps the target out of its own history (`features/compiler.py:244-250`):
  asked for a prediction after the departure, which a live request may be (`inference/service.py:156-162`), the
  target is encoded among the past trips of its driver and route. A corrupted link shows cells that were masked
  elsewhere (`pretraining.py:9-12`), and a pair with a corrupted position is labelled from the time of the record
  it replaced, zero where that had none, not of the record it shows (`:18-19`, `:175-178`); the order is known to
  the day only.
- *Explanations.* The direction is coefficient times raw value although the pipeline scales the value
  (`inference/explanation.py:9`).
- *Schemas.* Primary keys, unique constraints and referenced columns are in the fingerprint, and
  `compare_snapshots` reports nothing for them; the likely new name of a table depends on the order of a set.
- *Trainer.* After a killed run every run at that revision fails at CREATE TABLE until the data directory is
  removed. Retraining a tenant's adapter in one process overwrites the file the earlier row names.
- *Consent, drift, quality.* No code asks for a consent, and `scalar_one_or_none` raises on two grants
  (`tenants/repository.py:83`); a feature that is missing altogether is never significant
  (`monitoring/drift.py`); the duplicate vehicle and the fuel defects that are injected are inspected by no
  check of trips.

## 6. Not modelled, and why

- Encryption, token signatures, SQL text and the query guard, reading the catalogue and profiling columns: I/O
  and string analysis.
- Floating point: drift statistics, fitting, tensors and optimisation. Their results are inputs of the modules.
- The thread a timed-out load leaves behind: the executor is outside the loader and the code states no bound.
- Several tasks and alias names: rows of different keys never meet in a query.
- The ontology, settings, logging, the placeholder worker, the demonstration scripts, the remaining operations
  of tenants and memberships: no state that another component's correctness depends on, or single writes.

## 7. Plan

Done, in this order: connections with their contract, mappings, predictions with theirs, loader, discovery,
registry, credentials and tenant requests, extraction and dataset builds, the trainer, and the pure rules. Every
safety property of the runs is proved.

What is left:

1. **Composition** of discovery and mappings: between a drift and its suspension, what extraction may read.
2. **An abstract specification of a token's validity** (issued, revoked, expired), which `ServiceCredentials`
   should implement outside overlapping revocations.
