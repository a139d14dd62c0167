---- MODULE Monitoring ----
(***************************************************************************)
(* What the monitoring endpoints (demandops/serving/monitoring_routes.py)   *)
(* say of the predictions (routes.py): the counters of metrics.py, the drift*)
(* buffer (monitoring/drift_detector.py) and the quality metrics over       *)
(* prediction_log (monitoring/quality_tracker.py).                          *)
(*                                                                          *)
(* One action is one handler of the server: no handler awaits anything, so  *)
(* they run one after the other.  A handler may end at any of its database  *)
(* statements; the statements themselves are in Serving.                    *)
(*                                                                          *)
(* A row of `log` is a row of prediction_log, its index the prediction id,  *)
(* rows in the order of created_at; `hour` stands for the zone and the text *)
(* of hour_ts, `actual` for the distance of actual_value from the           *)
(* prediction, `record` numbers the predictions made (history).  A gauge    *)
(* holds the predictions its value was computed from.                       *)
(***************************************************************************)
EXTENDS Integers, Sequences, FiniteSets, FiniteSetsExt, SequencesExt

CONSTANTS
    Hours,          \* pairs of zone and hour that clients predict
    Errors,         \* distances of an actual from its prediction
    Windows,        \* windows asked for, in days
    Required,       \* matched pairs that a report needs: 10 in the code
    MaeLimit,       \* mae_threshold * mae_alert_margin
    BufMax,         \* monitoring.drift.maxlen
    MinSamples,     \* monitoring.drift.min_samples
    BatchSizes,     \* numbers of records in a batch
    MaxItems,       \* bound on the items of a submission
    MaxRecords,     \* bound on the predictions made
    MaxFailures,    \* bound on the requests that end in a 500
    MaxDay          \* bound on the clock

ASSUME MonitoringAssumption ==
    /\ Errors \subseteq Nat /\ Windows \subseteq Nat \ {0}
    /\ BatchSizes \subseteq Nat \ {0}
    /\ {Required, MaeLimit, BufMax, MaxItems, MaxRecords, MaxFailures, MaxDay} \subseteq Nat
    /\ MinSamples \in 1 .. BufMax

VARIABLES
    log,            \* prediction_log as the server's connection reads it
    saved,          \* prediction_log as committed
    today,          \* the clock, in days
    mem,            \* what the server process holds in memory
    records,        \* history: predictions made so far
    failures,       \* history: requests that ended in a 500
    replies,        \* history: prediction requests this process answered with 200
    matched         \* history: ids with a number some 200 response matched to them

vars == <<log, saved, today, mem, records, failures, replies, matched>>

NaN == -1           \* float("nan") is a float for pydantic; no distance equals it
NoActual == -2      \* NULL
Detectors == {"none", "stale", "fitting"}

\* log_prediction stores hour_ts.isoformat(), with a "T" between date and time;
\* submit_actuals binds the datetime itself, which sqlite3 writes with a space.
LoggedText(hour) == <<hour, "T">>
BoundText(hour) == <<hour, " ">>

\* sqlite3 stores a NaN as NULL.
MutantStored(value) == value
Stored(value) == IF value = NaN THEN NoActual ELSE value

\* History: since, the predictions made before this process started; failed, the
\* prediction requests it answered with a 500, by where they ended: before any
\* counter, at the INSERT of predict, at one of a batch, at the usage count.
Places == {"compute", "insert", "batch", "usage"}
Fresh(detector, made) ==
    [since |-> made, detector |-> detector, buffer |-> <<>>, drift |-> <<>>,
     mae |-> [pairs |-> {}, over |-> FALSE], alert |-> FALSE,
     ok |-> 0, errors |-> 0, predictions |-> 0, failed |-> [p \in Places |-> 0]]

Init ==
    /\ log = <<>> /\ saved = <<>>
    /\ today = 0
    /\ \E d \in Detectors : mem = Fresh(d, 0)
    /\ records = 0 /\ failures = 0 /\ replies = 0
    /\ matched = {}

\* The deque drops its oldest vectors.
Pushed(buffer, new) ==
    LET all == buffer \o new
    IN  SubSeq(all, 1 + Max({0, Len(all) - BufMax}), Len(all))

Row(hour, record) ==
    [hour |-> LoggedText(hour), actual |-> NoActual, day |-> today, record |-> record]

\* PREDICTION_COUNT goes up before a record is logged, REQUEST_COUNT{200} before
\* the record in predict and after the last one in predict_batch.
MutantCounted(batch, n, logged, answered) ==
    [mem EXCEPT !.predictions = @ + n,
                !.ok = IF batch /\ logged < n THEN @ ELSE @ + 1,
                !.errors = IF answered THEN @ ELSE @ + 1]
Counted(batch, n, logged, answered) ==
    [mem EXCEPT !.predictions = @ + Min({n, logged + 1}),
                !.ok = IF batch /\ logged < n THEN @ ELSE @ + 1,
                !.errors = IF answered THEN @ ELSE @ + 1]

\* The vectors go into the buffer before anything is logged.
MutantSampled(m, new, answered) ==
    IF m.detector = "none" \/ ~answered THEN m ELSE [m EXCEPT !.buffer = Pushed(@, new)]
Sampled(m, new, answered) ==
    IF m.detector = "none" THEN m ELSE [m EXCEPT !.buffer = Pushed(@, new)]

Noted(m, place, answered) == IF answered THEN m ELSE [m EXCEPT !.failed[place] = @ + 1]

\* predict (one record) and predict_batch: all hours are supported and the
\* model has predicted.  `logged` records are committed one by one; then the
\* INSERT of the next, or the usage UPSERT, may time out on the write lock,
\* which this process still holds only if it left a transaction open.
Predict(batch, hours, logged, answered) ==
    LET n == Len(hours)
        new == [i \in 1 .. n |-> records + i]
        rows == [i \in 1 .. logged |-> Row(hours[i], records + i)]
        place == IF logged = n THEN "usage" ELSE IF batch THEN "batch" ELSE "insert"
        counted == Noted(Counted(batch, n, logged, answered), place, answered)
    IN  /\ records + n <= MaxRecords
        /\ answered => logged = n
        /\ ~answered => failures < MaxFailures /\ (logged > 0 \/ log = saved)
        /\ log' = log \o rows
        /\ saved' = IF logged > 0 THEN log' ELSE saved
        /\ mem' = Sampled(counted, new, answered)
        /\ records' = records + n
        /\ failures' = IF answered THEN failures ELSE failures + 1
        /\ replies' = IF answered THEN replies + 1 ELSE replies
        /\ UNCHANGED <<today, matched>>

\* No model, or no feature service: the exception is before every counter.
ComputeFails ==
    /\ failures < MaxFailures
    /\ failures' = failures + 1
    /\ mem' = [mem EXCEPT !.errors = @ + 1, !.failed["compute"] = @ + 1]
    /\ UNCHANGED <<log, saved, today, records, replies, matched>>

-----------------------------------------------------------------------------

\* An actual names a prediction id (perhaps an unknown one) or a zone and hour.
Items == [by : {"id"}, id : 1 .. MaxRecords, value : Errors \cup {NaN}]
         \cup [by : {"hour"}, hour : Hours, value : Errors]

\* The row an item is for, 0 if there is none: of a zone and hour the newest.
Target(rows, item) ==
    IF item.by = "id"
    THEN IF item.id <= Len(rows) THEN item.id ELSE 0
    ELSE Max({0} \cup {i \in DOMAIN rows : rows[i].hour = BoundText(item.hour)})

\* Every item in order: of the items for one row, the last one stays.
ItemsFor(rows, items, i) == {k \in DOMAIN items : Target(rows, items[k]) = i}
LastFor(rows, items, i) == items[Max(ItemsFor(rows, items, i))].value

Updated(rows, items) ==
    [i \in DOMAIN rows |->
        IF ItemsFor(rows, items, i) = {} THEN rows[i]
        ELSE [rows[i] EXCEPT !.actual = Stored(LastFor(rows, items, i))]]

\* The rows that a submission leaves with one of these values.
IdsGiven(items, values) ==
    {i \in DOMAIN log : ItemsFor(log, items, i) # {} /\ LastFor(log, items, i) \in values}

Submissions == UNION {[1 .. n -> Items] : n \in 1 .. MaxItems}

\* submit_actuals: every item, then one commit.
SubmitActuals(items) ==
    /\ log' = Updated(log, items)
    /\ saved' = log'
    /\ matched' = (matched \ IdsGiven(items, {NaN})) \cup IdsGiven(items, Errors)
    /\ UNCHANGED <<today, mem, records, failures, replies>>

\* A later item cannot be bound: a 500, and the items before it stay in the
\* connection's open transaction.
SubmissionFails(items) ==
    /\ failures < MaxFailures
    /\ failures' = failures + 1
    /\ log' = Updated(log, items)
    /\ matched' = matched \ IdsGiven(items, {NaN})
    /\ UNCHANGED <<saved, today, mem, records, replies>>

-----------------------------------------------------------------------------

MutantInWindow(row, days) == row.day > today - days
InWindow(row, days) == row.day >= today - days

\* compute_quality: the pairs in the window, read through the server's own
\* connection.
Pairs(days) ==
    {i \in DOMAIN log : log[i].actual # NoActual /\ InWindow(log[i], days)}

Over(pairs) == MapThenSumSet(LAMBDA i : log[i].actual, pairs) > MaeLimit * Cardinality(pairs)

\* compute_drift raises with reference distributions of other columns.
DriftRaises == mem.detector = "stale" /\ Len(mem.buffer) >= MinSamples

\* GET /monitoring/quality.  The three error gauges are set, then the drift is
\* computed if the error is over the limit, then the alert is set; with too few
\* pairs only the alert is.
MutantQuality(days) ==
    LET pairs == Pairs(days)
        enough == Cardinality(pairs) >= Required
        over == enough /\ Over(pairs)
    IN  /\ mem' = [mem EXCEPT !.mae = IF enough THEN [pairs |-> pairs, over |-> over] ELSE @,
                              !.alert = @ \/ over]
        /\ UNCHANGED <<log, saved, today, records, failures, replies, matched>>
Quality(days) ==
    LET pairs == Pairs(days)
        enough == Cardinality(pairs) >= Required
        over == enough /\ Over(pairs)
    IN  /\ mem' = [mem EXCEPT !.mae = IF enough THEN [pairs |-> pairs, over |-> over] ELSE @,
                              !.alert = IF over /\ DriftRaises THEN @ ELSE over]
        /\ UNCHANGED <<log, saved, today, records, failures, replies, matched>>

\* GET /monitoring/drift: the gauges are set when there are samples enough.
MutantDrift ==
    /\ mem.detector = "fitting"
    /\ mem' = [mem EXCEPT !.drift = mem.buffer]
    /\ UNCHANGED <<log, saved, today, records, failures, replies, matched>>
Drift ==
    /\ mem.detector = "fitting" /\ Len(mem.buffer) >= MinSamples
    /\ mem' = [mem EXCEPT !.drift = mem.buffer]
    /\ UNCHANGED <<log, saved, today, records, failures, replies, matched>>

\* The process dies: what it had not committed is gone, and so is its memory.
Restart ==
    /\ log' = saved
    /\ \E d \in Detectors : mem' = Fresh(d, records)
    /\ replies' = 0
    /\ UNCHANGED <<saved, today, records, failures, matched>>

NextDay ==
    /\ today < MaxDay
    /\ today' = today + 1
    /\ UNCHANGED <<log, saved, mem, records, failures, replies, matched>>

Next ==
    \/ \E hour \in Hours, logged \in {0, 1}, answered \in BOOLEAN :
          Predict(FALSE, <<hour>>, logged, answered)
    \/ \E n \in BatchSizes : \E hours \in [1 .. n -> Hours] :
          \E logged \in 0 .. n, answered \in BOOLEAN : Predict(TRUE, hours, logged, answered)
    \/ ComputeFails
    \/ \E items \in Submissions : SubmitActuals(items) \/ SubmissionFails(items)
    \/ \E days \in Windows : Quality(days)
    \/ Drift
    \/ Restart
    \/ NextDay

Spec == Init /\ [][Next]_vars

-----------------------------------------------------------------------------

LoggedHere == {i \in DOMAIN log : log[i].record > mem.since}

\* Every variable has its type; an uncommitted row differs from the committed
\* one in its actual only.
TypeOK ==
    /\ Len(log) = Len(saved)
    /\ \A i \in DOMAIN log :
          /\ log[i].actual \in Errors \cup {NoActual}
          /\ log[i] = [saved[i] EXCEPT !.actual = log[i].actual]
    /\ mem.detector \in Detectors /\ mem.alert \in BOOLEAN
    /\ matched \subseteq DOMAIN log
    /\ today \in 0 .. MaxDay

\* How far the counters are from what clients were answered, exactly.  An INSERT
\* that fails is counted as a prediction though the log has none, and a predict
\* that fails there, or any request at its usage count, as a 200 beside its 500
\* (predict, predict_batch count first): "Total successful predictions"
\* (metrics.py) is what PREDICTION_COUNT holds only while no INSERT has failed.
CountersOff ==
    LET f == mem.failed
    IN  /\ mem.predictions = Cardinality(LoggedHere) + f["insert"] + f["batch"]
        /\ mem.ok = replies + f["insert"] + f["usage"]
        /\ mem.errors = f["compute"] + f["insert"] + f["batch"] + f["usage"]

\* A logged prediction of this process is in the drift sample, or maxlen later
\* ones have pushed it out, whatever failed meanwhile (DriftAccumulator).
LoggedAreSampled ==
    mem.detector # "none" =>
        \A i \in LoggedHere :
            \/ log[i].record \in Range(mem.buffer)
            \/ BufMax = Cardinality({r \in Range(mem.buffer) : r > log[i].record})

\* The drift gauges are those of a run of predictions in the order they were
\* made, none from before the restart, of min_samples to maxlen of them.
DriftOfRecentRun ==
    LET d == mem.drift
    IN  d # <<>> => /\ Len(d) \in MinSamples .. BufMax
                    /\ \A i \in DOMAIN d : d[i] = d[1] + i - 1
                    /\ mem.since < d[1] /\ d[Len(d)] <= records

\* While the alert gauge is 1, the error gauge beside it is over the limit
\* (quality_status sets the two at different points and not always both).
AlertHasReason == mem.alert => mem.mae.over

\* A quality report that sets the gauges counts every prediction of its window
\* for which a 200 response matched a number, unless a later item set it to NaN:
\* whatever other submissions failed before and however often the server
\* restarted (submit_actuals, compute_quality).  It is not about predictions
\* older than the window.
ReportCountsMatched ==
    [][mem'.mae # mem.mae /\ mem'.mae.pairs # {} =>
        \E days \in Windows :
            /\ {i \in matched : log[i].day + days >= today} \subseteq mem'.mae.pairs
            /\ \A i \in mem'.mae.pairs : log[i].day + days >= today]_vars

\* "actuals are matched by prediction_id or (zone_id, hour_ts)": submit_actuals
\* finds a row for any zone and hour that was predicted.
HourActualsMatch ==
    \A item \in Items :
        item.by = "hour" /\ (\E i \in DOMAIN log : log[i].hour = LoggedText(item.hour))
            => Target(log, item) # 0
====
