# DemandOps Lite: formal models, model checking and proofs

DemandOps Lite forecasts hourly demand per zone (taxi, TfL bike or Citi Bike data)
and serves the forecasts over HTTP. A batch pipeline (`download`, `prepare`,
`train`, `evaluate`) leaves files; a FastAPI server loads them once at startup and
answers predictions; a SQLite database keeps API keys, usage counters and the log of
predictions; `manage_keys` commands change the keys beside the running server.

This directory holds TLA+ models of the parts of that system whose correctness is a
matter of order, interleaving and failure, TLC configurations that check them on small
instances, and TLAPS proofs of what they check, for every value of the constants.
`PROJECT.json` lists the runs, the theorems, the lines of code behind each definition (`map`), a mutation of the code for every checked
property (`mutants`), the hazards and the findings.

## 1. Inventory

| Part | State | Operations | Talks to |
|---|---|---|---|
| Rate limiter (`security/auth.py`) | one deque of wall-clock stamps per client, in memory | `check` | called by `requires_auth` |
| Authentication, usage (`security/auth.py`) | `api_keys`, `usage_log` | `requires_auth`, `check_batch_size`, `log_usage` | the database; the limiter |
| Key administration (`manage_keys.py`) | `api_keys` | `create_key`, `revoke_key`, `list_keys` (read only) | the database, beside the server |
| Database opening and migration (`db.py`) | the schema of `api_keys` and its rows | `get_db`, `_migrate_api_keys` | server and commands run it when they open the file |
| Prediction endpoints (`serving/routes.py`) | Prometheus counters | `predict`, `predict_batch`, `health`, `metrics` | feature service, model, detector, tracker, usage |
| Quality tracker (`monitoring/quality_tracker.py`) | `prediction_log`; the error and alert gauges | `log_prediction`, `submit_actuals`, `compute_quality` | database; `monitoring_routes.py` |
| Drift detector (`monitoring/drift_detector.py`) | ring buffer of the last feature vectors | `add`, `add_batch`, `compute_drift` | `predict` and `predict_batch` feed it; `monitoring_routes.py` asks it |
| Startup and feature service (`serving/app.py`, `feature_service.py`) | history, schema and zone universe in memory | startup, `get_features` | the artifact files |
| Download (`data/download.py`, `data/adapters/*`) | raw files and their `.tmp` files | `download` | the network; `prepare` reads the files |
| Preparation (`data/prepare.py`, `data/schemas.py`) | `zone_universe.json`, `hourly_history.parquet`, `features.parquet` | `prepare` | raw files; `train` and the server |
| Training (`training/train.py`, `reference_distributions.py`) | `feature_schema.json`, `reference_distributions.json`, model file | `train_model`, `train_all` | features; the server |
| Features and splits (`features.py`, `data/splits.py`) | none (pure) | `temporal_split` | preparation, feature service, training |
| Metrics (`serving/metrics.py`) | counters and gauges | incremented and set by the routes | a scraper reads them |
| dbt project (`dbt_demandops`) | SQL views | staging, aggregate, dense grid, mart | the raw files, beside `prepare` |
| Models, evaluation, checks, middleware, scripts | numerics, glue, logging | | |

What each part must get right, and what makes it hard:

* **Rate limiter.** No more than `rate_limit` acceptances in a window; a client that
  waits as long as `Retry-After` says is let in. Hard: stamps are evicted lazily and only
  from the left, the wall clock may be stepped, the limit changes when the key is rotated
  while the deque stays.
* **Key administration.** A client never loses its key by a rotation; a dead key stays
  dead; every command ends. Hard: a SELECT outside the transaction, DELETE before INSERT,
  two commands and the server on one write lock, a process killed between statements.
* **Migration.** All or nothing, and the newest valid key of each client survives. Hard:
  several processes open a legacy file at once; the process is killed half-way.
* **Server.** A prediction id that was answered is in the log; usage agrees with the log;
  actuals are not lost; only working keys are admitted. Hard: every handler is a sequence
  of separately committed statements, any of which may time out on the lock, and the
  connection keeps whatever a failed statement left open.
* **Monitoring.** The counters say how many requests and predictions there were, the drift
  sample is of recent predictions, a quality report counts the pairs that were matched, and
  an alert is backed by the error shown beside it. Hard: counters, sample and log are
  written in different orders by handlers that may end between any two; the gauges are set
  in several places and keep old values; the sample dies with the process and the log does
  not; actuals may be uncommitted, NaN, or addressed by a text form of the hour.
* **Download.** Only complete files are visible; repeating it is harmless; the grid is
  built from all the data. Hard: failures and kills between any two effects on the disk.
* **Grid and features.** No trip is lost or counted twice, no feature looks at its own hour
  or later, and the server computes what the model was trained on. Hard: training counts
  rows of a sorted frame, serving looks hours up in a dictionary, and the two agree only
  while the grid has one row for each zone and hour.
* **Artifacts.** The files the server combines belong together. Hard: six files written in
  place, one by one, by two jobs that may stop anywhere, read by a server that may start
  at any moment, over releases that change the feature columns.

## 2. Modules

| Module | Models | How it corresponds to the code |
|---|---|---|
| `RateLimiter` | `RateLimiter.check` as driven by `requires_auth` | `windows` is `_windows`; `Allow` and `Refuse` are the two returns of `check`, each with the eviction loop; `Rekey` is the rotation that changes `rate_limit`; `Restart` is a new process |
| `SlidingWindow` | what the limiter promises | counts acceptances in true time over the whole history |
| `WalDb` | external: SQLite in WAL mode through Python's `sqlite3` | implicit BEGIN before a write, one write lock, snapshots, rollback on close |
| `KeyAdmin` | `manage_keys` commands | one action per SQL statement with the Python around it; `Crash`, `LockTimeout`, `UniqueViolation` are the ways one ends early |
| `KeyRegistry` | what key administration promises | create and revoke in one step each |
| `KeyMigration` | `get_db`, `_migrate_api_keys` | one action per statement of the migration; `CreateKey`/`CommitKey` stand for a `create` after the opening |
| `MigratedTable` | what opening the database promises | the migration in one step and once; keys are created after it |
| `Serving` (extends `KeyAdmin`) | `predict`, `predict_batch`, `submit_actuals`, `requires_auth`, `log_usage`, restart | one action per SQL statement; `srv` is the statement the server runs next; the commands of `KeyAdmin` step between any two |
| `Monitoring` | the counters and the drift sample of `predict` and `predict_batch`, `submit_actuals`, `compute_quality`, the routes of `monitoring_routes.py` | one action per handler; `log` and `saved` are `prediction_log` as the server reads it and as it is committed; `mem` is what the process holds in memory, a gauge being the predictions it was computed from |
| `Download` | the three adapters' downloads and what `prepare_hourly_history` finds | one action per effect on the disk; `direct` stands for taxi and tfl (a file per month, or several), `citibike` for zip and extraction |
| `Artifacts` | the writes of `prepare` and `train`, the server's startup | a write is `OpenFile` then `FillFile`; the startup reads one file per action; `LoadOwnRefs` and `LoadDefaultRefs` are a configuration with and without the path of the reference distributions |
| `Grid` | the adapters' `prepare_hourly_history`, `engineer_features`, `FeatureService` | `Prepare`, `Engineer` and `LoadHistory` are the three stages on the same data; `GetFeatures` is `get_features`; the order of rows that no sort fixes is a choice; `Splits` is `temporal_split`; `Mart` is what the dbt project makes of the same trips |
| `RateLimiterProofs`, `KeyMigrationProofs`, `KeyAdminProofs`, `ServingProofs`, `DownloadProofs`, `ArtifactsProofs`, `MonitoringProofs`, `GridProofs` | | the inductive invariant of each module, and the theorems that follow from it |
| `MC*` | | constants and symmetry for TLC |

`Serving` composes the server and the commands on the one `WalDb`: its next-state relation
is the server's step or a command's step. `Monitoring` takes the handlers of `Serving` as
whole steps, each with the points at which its statements may fail, and adds the memory of
the process and the clock. `Download`, `Grid` and `Artifacts` meet at
`prepare`: the first says which raw files the grid is built from, the second what is in it
and in the features, the third takes a set of zones as given and follows the files that
prepare writes.

What is abstracted. A key stands for the raw key and for its hash. A request's record is
supported or not; its features and its forecast have no value. A prediction id is the
number of the draw (`uuid4` draws no value twice). An actual's value in `Serving` is the
number of the request that brought it, negative where that was a NaN and the database holds
NULL, which is what `MatchedActualsStay` tells apart. A data file of the
artifacts is the set of its zones, a schema or model file the version of
`FEATURE_COLUMNS` it was written with, the reference distributions of another pipeline
a version of their own (`Foreign`). A raw file is absent, partial or complete. In `Grid` a trip
is its zone, name and hour, and a rolling mean is the counts it is the mean of, by how many
hours back they are; the rows of a zone are sorted by counting those before each; calendar
features, functions of `hour_ts` alone on both sides, are left out. In `Monitoring` an
actual is its distance from the prediction, a feature vector the number of its prediction,
and the drift statistics are the sample they are computed from.

Assumptions about the surroundings, each stated in the module that makes it:

* The handlers are coroutines without an `await`, so the event loop runs one request at a
  time (`Serving`). The statements of other processes run between any two of its own.
* `sqlite3` in its default mode issues BEGIN before the first INSERT, UPDATE or DELETE and
  never before a SELECT or DDL; a statement that fails leaves the transaction open; a
  transaction with an old snapshot cannot become a writer (`WalDb`). The busy timeout is
  the choice between waiting (no action is enabled) and `WriteFails`.
* The wall clock differs from true time by at most `MaxSkew` (`RateLimiter`). With
  `MaxSkew = 0` the statements are about a clock that is never stepped.
* One download at a time, `prepare` when none runs; prepare and train one at a time, as
  `make pipeline` runs them. The server starts and stops independently of them.

## 3. Runs

| Run | Question | Bounds |
|---|---|---|
| `rate_limiter` | Is the lazily evicted deque a sliding window? | 1 client, limits 1 and 2, window 3, clock error 1, 9 ticks |
| `key_admin` | Is each command, statement by statement, the registry's single step? Do commands end? | 2 processes, 2 clients, 3 keys |
| `key_migration` | What do concurrent, interrupted migrations leave? | 2 openers, 2 clients, 4 rows, several legacy tables |
| `serving` | Do log, usage, actuals and admissions agree, over failures and restarts? | 2 clients, 2 keys, 3 admitted requests, batches of 2 and 3, batch limit 2, 1 command process |
| `serving_revoked_key` | Is an inactive key always refused? (violated) | as `serving` |
| `download` | Which raw files are there after failures and kills, and what is the grid built from? | 3 months of 2 files |
| `download_citibike` | Is the grid never built from part of a zip? (violated) | as `download` |
| `grid` | Does the server compute the features the model was trained on, wherever a zone has one row an hour, and do features look back only? | 2 zones, 2 names, 6 hours and one outside, lags 1 and 3, window 2, splits of 1 hour, 3 trips |
| `grid_parity` | Does it for every zone? (violated) | as `grid` |
| `artifacts` | Does the startup succeed, and do the files a server combines belong together? | 2 datasets, 2 feature versions, 1 baseline before lightgbm |
| `monitoring` | Do counters, drift sample, gauges and alert agree with what happened and with the log? | 3 predictions, batches of 1 and 3, buffer of 2, reports from 2 pairs on, window of 1 day in 3 days, errors under and over the limit, 1 failed request, submissions of 1 item, 1 zone and hour |
| `monitoring_hours` | Do actuals sent by zone and hour find their prediction? (violated) | as `monitoring` |

Why the bounds are enough for the cases that matter. *Rate limiter*: clients share nothing,
so one is enough; two limits make a rotation in both directions, a deque longer than the
limit and several evictions in one check; nine ticks are three windows; the proofs lift
every bound. *Keys*: two processes give every interleaving of two commands on one client
and on two; three keys allow a rotation of a rotated key while another command waits.
*Migration*: the legacy tables include duplicates, invalid newest rows and two clients;
a row number is left for a key created after the first migration. *Serving*: three requests
let a prediction be logged, matched with an actual and matched again, or a request fail and
two more run in the transaction it left; a batch of 2 has a middle, a batch of 3 is over
the limit. *Download*: three months have a first, a middle and a last, two files per month
a month that is half there. *Grid*: a zone beside another in the sorted frame, three
warm-up hours, an hour for each of the three splits, a lag longer than the window, and three trips for two names in one
hour with different counts. *Artifacts*: a second version and a second dataset are what it
takes to mix the files of two runs. *Monitoring*: a batch is larger than the buffer, three
predictions allow a report before and after a third, three days let a pair leave the
window while another stays, and one failure may fall before, between or after the
statements of any handler; a second failure repeats the first, as no handler
depends on how many there were. Submissions of one item keep that run small; lists, which may
name a prediction twice, are in the definitions and in the proofs, for every `MaxItems`. Every counter that would grow without bound is capped by
a constant in a guard: `MaxTime`, `MaxRequests`, `MaxSeq`, `MaxVersion`, `MaxTrips`, `MaxRecords`, `MaxFailures`, `MaxDay`, `MaxItems`, and `Keys` for
the commands that draw one. Where a symmetry is used (`MCServing`: keys, clients) the model
treats the values alike and only safety is checked.

### What the properties say

* `WindowBound`: of any `limit + 1` acceptances, first and last are more than a window
  apart (less the clock error), whatever limits the key had in between.
  `RetryAfterKept`: two refusals in a row are at most a window apart (plus the clock
  error), that is, `Retry-After: 60` is honest. `ImplementsSlidingWindow`: the deque is
  exactly a sliding window over the whole history when the clock is right, and within the
  error when it is not.
* `ClientKeepsRow`, `DeadKeysStayDead`, `CommandsEnd`, `ImplementsRegistry`: see the
  inventory; the last maps the rows of `committed` to the registry's key per client, and
  so says that no interleaving of two commands shows a state between DELETE and INSERT.
* `AllOrNothing`, `NewestValidKeySurvives`: the migration is one transaction although it
  contains DDL, and a second migration of the result does no harm. `MigratesAtOnce` is the
  refinement: with `committed` for the table, openers that go statement by statement and die
  anywhere are openers of `MigratedTable`, in which the migration is one step, taken once,
  before any key is created. The type invariant also says who holds the write lock when.
* `AnsweredIsLogged`, `UsageWithinLog`: an answered id is committed in `prediction_log`,
  and each client's usage lies between what it was answered and what is logged for it.
  The margin is real: a failed batch leaves logged records that were never answered.
  `MatchedActualsStay`: what a 200 response set an actual to stays until a later submission
  sets that row again. The later one may send NaN, which is NULL in the database, and so
  undo a number; nothing else does: no crash, failed statement or other request brings an
  earlier value, or the NULL it was logged with, back. `OnlyActualsPending`: between requests the server holds the write
  lock, if at all, for actuals of a failed submission, and nothing else of it is
  uncommitted; while it does, every command and every other writer times out.
  `AdmittedKeysWork`: as long as no statement of this process timed out
  on the lock, a request is admitted only with a key active at that moment.
* `FetchedFilesWhole`, `SuccessLeavesNoTmp`, `CompleteFilesStay`, `GridFromAllData`: the
  first three for every adapter through failures and kills; the last unless an extraction
  was cut short.
* `TripsCounted`: the rows of a zone and hour sum to its trips, however many rows there
  are. `FeaturesFromThePast`: every lag and mean of every training row is the count of
  another row of its zone, of no later hour and no further back than the lag; where a zone
  has one row an hour it is exactly the trips that many hours before. `ServedAsTrained`:
  for a zone with one row an hour, each full hour of the supported range has one training
  row, in one of the three splits, and `get_features` returns its features.
  `IdenticalLagFeatures` is that sentence without its condition, as README.md has it, and
  is violated. The condition: README.md promises one row for every zone and
  hour, but `tfl` and `citibike` group by station id *and name* and join by id only, so
  a station with two names in one hour has two rows there, every later lag moves
  by a row, and the server keeps the last of the two counts. The properties rest on
  `WarmUp`, that the grid begins at least the longest lag before `train_start`, and
  `SplitsInOrder`, that the last split ends where the grid does, as in every file of
  `configs/`. `MartIsGrid`: for taxi the dbt mart has the zones, hours and counts of
  `hourly_history.parquet`. Both read the same trips in the model; in the repository that
  is so as long as `data/raw` holds the files of the configured months only, because the
  dbt source takes every `yellow_tripdata` file there is.
* `ServedZonesHaveHistory`, `ModelMatchesColumns`: for every server but one whose files of
  the kind in question were left by a run that ended between its first and its last write,
  or that was at work while the server loaded (`sound`). The exception is needed:
  `zone_universe.json` is written before the history is validated, and
  `feature_schema.json` before `lightgbm.joblib`, so such a run leaves
  a server that answers for zones without history, or one that passes the check of the
  schema with a model of other columns. The second contradicts DECISIONS.md; the sentence
  there is `SchemaCheckCatches` (finding 6). A detector of its own path is of the server's
  columns; of the file of another pipeline (`Foreign`) nothing is known.
  `FreshPipelineIsHealthy`: after a prepare and a train with the deployed code, and until a
  job writes again, no startup ends in an exception, every server is healthy, and its
  detector is that train's exactly when the path of the reference distributions is
  configured, whatever happened before.
* `CountersOff`: how far the counters are from what happened, exactly. They go up before
  the row and the usage are written, so the prediction counter exceeds the rows by the
  INSERTs that failed, and the counter of 200s exceeds the replies by the `predict`s that
  failed there and the requests that failed at the usage count. A request that is counted
  twice, or by a handler that does not get there, would break the equations.
  `LoggedAreSampled` and `DriftOfRecentRun`: the drift sample is a run of consecutive
  predictions of this process that contains every logged one not pushed out by newer ones.
  `ReportCountsMatched`: a quality report that has pairs enough counts each prediction of
  its window to which a 200 response matched a number, unless a later item made it NaN
  (of a failed submission even), and none older. It may count more: actuals of a failed
  submission are visible to the server until it dies. `AlertHasReason`: the alert gauge is
  1 only while the error gauge beside it is over the limit. The converse does not
  hold: when the drift computation raises, the error gauge is over the limit and the alert
  is not set.

### Fairness

Only `KeyAdmin` states fairness: weak fairness of each process's own next step. The
operating system schedules a started process, and SQLite's busy handler gives up after its
timeout, so that a step is always possible; starting a command and being killed are not
promised. Under it every started command ends. The other modules state safety alone: an
HTTP client, a scheduler of batch jobs or an operator is under no obligation to act.

## 4. Findings

Seven sentences of the repository that the code does not keep. The first four are each a
run whose counterexample is the story; of the others a passing run states exactly how far
the code keeps them.

1. **A revoked key may be admitted** (`serving_revoked_key`). When an INSERT of the server
   times out on the write lock, the exception is caught, and nothing rolls the implicit
   transaction back. The next key lookup reads inside it, takes a snapshot, and goes on
   reading that snapshot: a key revoked after that is still active for this server, until
   a commit ends the transaction.
2. **A grid with synthetic zeros** (`download_citibike`). CSVs are extracted in place. A
   run killed while extracting leaves some of the month's CSVs, perhaps one of them cut
   off; the next run finds *a* CSV, skips the month, and `prepare` is content with one.
3. **Actuals by zone and hour never match** (`monitoring_hours`). The routes log
   `hour_ts.isoformat()`, with a `T`; `submit_actuals` binds the `datetime` itself, which
   Python's `sqlite3` writes with a space. The comparison of the two texts is never true.
   `tests/test_quality.py` passes text to the tracker and misses the route.
4. **Two rows for one hour** (`grid_parity`). README.md promises identical lag features in
   training and serving, and one row for each zone and hour. `tfl` and `citibike` group by
   station id and name; two trips of one hour under two names of a station make two rows,
   the lags of training shift by rows, and the server looks hours up.
5. **Drift against another dataset** (`FreshPipelineIsHealthy`, run `artifacts`). `train`
   writes the reference distributions beside its models, in `artifacts/tfl` or
   `artifacts/citibike`; neither configuration names the file, and the server falls back to
   `artifacts/reference_distributions.json`, which the taxi pipeline writes. The detector is
   the training's exactly when the path is configured.
6. **A model of other columns** (`ModelMatchesColumns`, run `artifacts`). DECISIONS.md, 10,
   says that the startup validation catches a schema that diverges immediately. It
   reads `feature_schema.json` alone, which `train` writes before the model; a train that
   dies between the two leaves a healthy server with a model of the old columns.
7. **Predictions that did not succeed** (`CountersOff`, run `monitoring`).
   `demandops_predictions_total` is described as "Total successful predictions"; it
   counts those whose INSERT then fails and whose request is answered 500.

`DriftAgainstTraining` and `SchemaCheckCatches` are the sentences of 5 and 6 as formulas;
`Artifacts_DriftAgainstTraining.cfg` and `Artifacts_SchemaCheckCatches.cfg` make TLC print
the counterexamples, which end in `LoadDefaultRefs` and in a train under way beside a server
that loads.

Of each the project also states what does hold, with the circumstances under which the code
keeps it: `AdmittedKeysWork` (1), `GridFromAllData` (2), `ReportCountsMatched` (3, for the
actuals that did match), `ServedAsTrained` (4), and the three named above.

## 5. Proofs

Every property of the passing runs but one is a theorem, proved for all values of the
constants: any number of clients, keys, processes, requests, files, zones or trips. The
assumptions are the `ASSUME`s of the modules: numbers are natural, sizes and limits
positive, `Procs` and `Server` are connections and distinct, the rows of a legacy table have
each its own number (`rowid`). Two say something of the repository: `WarmUp` and
`SplitsInOrder`, in `Grid`, that the grid begins the longest lag or more before
`train_start` and ends at `test_end`, as in every file of `configs/`.

Each proof module has one inductive invariant, which TLC checked on the module's run before
it was proved, one lemma for each action (or family of actions that change the same
things), and theorems that read the properties off the invariant. What the invariants add,
and why the properties alone are not inductive:

* **`RateLimiterProofs`.** `WindowBound` speaks of acceptances that the deque may have
  forgotten. `Remembered` (the deque is the tail of the history, each stamp off by at most
  the clock error), `Forgotten` (what is in front of that tail is older than the window)
  and `Past` (no acceptance is in the future, nor after a refusal that is still the last)
  tie the two. An acceptance at position `i` with limit `l` finds fewer than `l`
  stamps, so that acceptance `i - l` was evicted and is old. For `RetryAfterKept`, a
  refusal finds `limit` stamps left, each no later than the previous refusal and no older
  than the window. `Refinement`: in addition the history is in order (`Ordered`), and the
  acceptances the promise counts are as many as the stamps the deque keeps
  (`SameCardinality`).
* **`KeyMigrationProofs`.** What a commit makes of the table depends on what the writer has
  done so far: `Done` gives its view at each label as a function of what is *committed*,
  and `OneWriter` says that nobody commits in between. `MigratedOnce` (migrating a migrated
  table changes nothing) and `NewestWithKey` (nor does it take a key created since) are the
  lemmas behind `AllOrNothing` and `NewestValidKeySurvives`. In `Refinement` every statement
  but a first migration's commit and a key's commit is a stutter of `MigratedTable`.
* **`KeyAdminProofs`.** A command decides by a row it read before it had the lock; `JobInv`
  says what its transaction makes of the committed table at each label, and holds a newly
  drawn key apart from those issued. `Rotates` and `Revokes` then say what a commit does, from
  which `ClientKeepsRow` and `DeadKeysStayDead` follow, and `Refinement`: a commit is the
  registry's `Create` or `Revoke`, everything else a stutter. It is stated for any
  database with a `keys` field, so that `ServingProofs` uses it as it is.
* **`ServingProofs`** (`CliInv /\ SrvInv`). The server's transaction outlives its requests.
  `Pending` says for every label what its view has that is not committed: actuals only,
  but for the one prediction or the one count that the next commit is for. `Progress` says
  what the request under way has done, `Counted` where each client's usage is between
  answered and logged. `CommandBeside` is the frame: a command's step leaves all of this
  alone, because a server that writes excludes it. `RegistryBesideServer`,
  `ClientKeepsRowBesideServer` and `DeadKeysStayDeadBesideServer` are what the run of
  `KeyAdmin` checks, of the composition.
* **`DownloadProofs`.** What is on the disk is known together with where the run is:
  `NoTmpBehind` (no `.tmp` behind its place, which is why success leaves none, of earlier
  runs either), `ZipFirst`, and `Extracted` (the CSVs of a month are all there or none, the
  month being extracted excepted, as long as no extraction was cut).
* **`ArtifactsProofs`.** `Written` and `Finished` say which files a job, at each point of
  its list, has left whole; `Loaded` says that what a server has read is what the files
  still hold, for the jobs in `sound`, which a job loses when it writes while the server
  loads; `Sound` and `Fresh` carry this to a server that is up, or whose startup failed.
* **`MonitoringProofs`.** `Sampling` (the buffer is the run of the last `BufMax` predictions
  of the process), `Counting` (the counters against the rows logged since it started) and
  `Matching` (a matched number is in the log on both sides of the open transaction, which
  is what a restart leaves and what a report reads). `UpdatedRows` says what a list of items
  does to the log, `LastItem` (from `Greatest`) that of the items for one row one is last.
* **`GridProofs`.** The stages only add, so the invariant says of each file of which stage
  it is the outcome; the work is in one state. `Positions`: a strict total order on a finite
  set numbers its elements without a gap, so the rows of a zone can be sorted whatever breaks
  their ties (`RowsSorted`) and one of them is last (`LastExists`). `HourPlace`: with one row
  an hour, the row of hour `h` is at place `h + 1`, so shifting by rows is shifting by
  hours. `RowsBack`: in any zone, `k` rows back is at most `k` hours back, as every hour
  has a row (a pigeonhole over the places between the two), and never the row itself. `RowsTotal`: the counts of the rows are as many units as there are trips, by a
  one-to-one correspondence. `DbtCount`: so is COALESCE over the aggregate.

The definitions of `Grid` and `Monitoring` are written so that this can be said: counts are
cardinalities, sorted rows a function of the number of rows before, a list of updates a
function of the last item for each row, and no fold computes them.

Only model-checked: `CommandsEnd`, as liveness under fairness is out of the prover's reach.
The first four findings are
counterexamples of their runs.

## 6. Not modelled, and why

* Requests between two full hours, for which every lookup misses and the lags become 0.0;
  the normalisation of time zones. A baseline served without being fitted, which predicts
  0.0 while `/health` says healthy, is in `Artifacts`, but nothing says what it should do.
* PSI, KS and correlation shift, RMSE and sMAPE: floating-point functions of a sample or
  of a set of pairs; `Monitoring` has the sample and the pairs. `monitoring.quality`'s
  `min_matched_pairs` in the configuration is read by no code; ten is fixed in
  `compute_quality`, and `Required` stands for it.
* Models, `checks.py`: numerics of LightGBM, NumPy and SciPy. `evaluate.py`: a
  report from the files `Artifacts` follows, read by nothing.
* `middleware.py`, latency histograms, the shapes of responses: logging, declarations.
* The calendar columns and averages of the dbt mart, and its own tests.
* Scripts, Makefile, Docker files: glue around the modelled functions.

## 7. Plan

Done: the modules above, in the order rate limiter, keys, migration, server, download,
artifacts, grid, monitoring: first what clients and operators rely on, then what the server
relies on, then what it says of itself.

Proved since: the refinements and safety properties of all modules, in the order of
section 5.

Next: `MatchedActualsStay` joins `Serving` to `Monitoring` in words only; an invariant over
both, that a report counts what an answered submission matched, would say it in one
theorem. `Grid` asks for full hours; a request between two, whose lookups all miss, could be
added to `Supported`.
The mean error itself (`Over`, a sum over a set) is compared with its limit in the model and
by TLC; no theorem needs its value.
