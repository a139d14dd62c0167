---- MODULE Serving ----
(***************************************************************************)
(* The server process (demandops/serving/routes.py, monitoring_routes.py,   *)
(* security/auth.py, monitoring/quality_tracker.py) beside the manage_keys  *)
(* processes of KeyAdmin, on the one database.                              *)
(*                                                                          *)
(* The handlers are coroutines with no await in them, so the server runs one*)
(* request at a time; the other processes run between any two of its SQL    *)
(* statements.  One action is one statement with the Python around it.      *)
(*                                                                          *)
(* Database fields beside `keys`: `log` is prediction_log, rows [id, client,*)
(* actual] (the table has no client column: `client` is history), `usage`   *)
(* is usage_log, total_records per client.  An actual value is n when it is *)
(* a number that request n submitted; the column is NULL at 0, when it was  *)
(* never set, and at -n, when request n set it to NaN (n is history).       *)
(***************************************************************************)
EXTENDS KeyAdmin, Integers

CONSTANTS
    Server,         \* the server's connection
    BatchSizes,     \* numbers of records in a batch
    ActualsSizes,   \* numbers of items in an actuals submission
    BatchLimit,     \* max_batch_size of every key
    MaxRequests     \* bound on the requests admitted

ASSUME ServerConnects == Server \in Conns \ Procs
ASSUME SizesPositive ==
    /\ BatchSizes \subseteq Nat \ {0} /\ ActualsSizes \subseteq Nat \ {0}
    /\ BatchLimit \in Nat /\ MaxRequests \in Nat

VARIABLES
    srv,            \* "idle" or the statement the server runs next
    req,            \* the admitted request being handled
    served,         \* requests admitted so far
    lastId,         \* prediction ids drawn so far are 1 .. lastId
    answered,       \* history: prediction ids in 200 responses
    kept,           \* history: kept[i]: last request with a 200 that matched id i
    timedOut        \* history: a statement of this process failed on the lock

srvvars == <<srv, req, served, lastId, answered, kept, timedOut>>

allvars == <<dbvars, clivars, srvvars>>

SizesOf == [predict |-> {1}, batch |-> BatchSizes, actuals |-> ActualsSizes]
Ids == 1 .. lastId

NoRequest == [kind |-> "none"]

\* left: records still to do; ids: prediction ids of this request so far;
\* target: the row an actual was matched to.
Request(kind, row, size) ==
    [kind |-> kind, key |-> row.key, client |-> row.client, size |-> size,
     left |-> size, ids |-> {}, target |-> 0]

SrvInit ==
    /\ srv = "idle"
    /\ req = NoRequest
    /\ served = 0
    /\ lastId = 0
    /\ answered = {}
    /\ kept = <<>>
    /\ timedOut = FALSE

\* The request is over, with whatever status.
MutantDone == srv' = "idle" /\ UNCHANGED req
Done == srv' = "idle" /\ req' = NoRequest

\* The process dies between any two statements; create_app's startup opens a
\* new connection.
Restart ==
    /\ Done
    /\ Close(Server)
    /\ timedOut' = FALSE
    /\ UNCHANGED <<served, lastId, answered, kept>>

MutantKeyRows(k) == {r \in View(Server).keys : r.key = k}
KeyRows(k) == {r \in View(Server).keys : r.key = k /\ r.active}

\* requires_auth looks the key up; an active row and a free slot of the rate
\* limiter admit the request.
Admit(kind, k, size) ==
    /\ srv = "idle"
    /\ served < MaxRequests
    /\ Select(Server)
    /\ \E row \in KeyRows(k) : req' = Request(kind, row, size)
    /\ srv' = IF kind = "actuals" THEN "find" ELSE "features"
    /\ served' = served + 1
    /\ UNCHANGED <<lastId, answered, kept, timedOut>>

\* 401 for an unknown or inactive key, 429 when the limiter refuses (see
\* RateLimiter): the lookup is all that happened.
Refuse ==
    /\ srv = "idle"
    /\ Select(Server)
    /\ UNCHANGED srvvars

\* 413 for a batch over the key's limit, 422 for a record outside the zone
\* universe or the supported range: the whole request, before any prediction.
RejectRecords ==
    /\ srv = "features"
    /\ Done
    /\ UNCHANGED <<dbvars, clivars, served, lastId, answered, kept, timedOut>>

\* Features and predictions are computed; the Prometheus counters are left out.
ComputePredictions ==
    /\ srv = "features"
    /\ req.kind = "batch" => req.size <= BatchLimit
    /\ srv' = "log"
    /\ UNCHANGED <<dbvars, clivars, req, served, lastId, answered, kept, timedOut>>

\* The `except Exception` of both handlers: 500.  The connection is left as
\* the failed statement left it.
InternalError ==
    /\ Done
    /\ UNCHANGED <<clivars, served, lastId, answered, kept>>

\* A missing model or feature service raises (the server starts without them).
ComputeFails ==
    /\ srv = "features"
    /\ InternalError
    /\ UNCHANGED <<dbvars, timedOut>>

WithPrediction(db, id) ==
    [db EXCEPT !.log = @ \cup {[id |-> id, client |-> req.client, actual |-> 0]}]

\* QualityTracker.log_prediction: INSERT under a fresh uuid, then commit.
LogPrediction ==
    /\ srv = "log"
    /\ Write(Server, WithPrediction(View(Server), lastId + 1))
    /\ lastId' = lastId + 1
    /\ srv' = "logCommit"
    /\ UNCHANGED <<clivars, req, served, answered, kept, timedOut>>

LogFails ==
    /\ srv = "log"
    /\ WriteFails(Server)
    /\ InternalError
    /\ timedOut' = TRUE

\* The phase-3 loop of predict_batch goes on to the next record.
MutantAfterLogging == "usage"
AfterLogging == IF req.left > 1 THEN "log" ELSE "usage"

\* The commit returns the id.
MutantLogCommit ==
    /\ srv = "logCommit"
    /\ Close(Server)
    /\ req' = [req EXCEPT !.left = @ - 1, !.ids = @ \cup {lastId}]
    /\ srv' = AfterLogging
    /\ UNCHANGED <<clivars, served, lastId, answered, kept, timedOut>>
LogCommit ==
    /\ srv = "logCommit"
    /\ Commit(Server)
    /\ req' = [req EXCEPT !.left = @ - 1, !.ids = @ \cup {lastId}]
    /\ srv' = AfterLogging
    /\ UNCHANGED <<clivars, served, lastId, answered, kept, timedOut>>

\* log_usage: UPSERT of the client's counters, then commit.
CountUsage ==
    /\ srv = "usage"
    /\ Write(Server, [View(Server) EXCEPT !.usage[req.client] = @ + req.size])
    /\ srv' = "usageCommit"
    /\ UNCHANGED <<clivars, req, served, lastId, answered, kept, timedOut>>

UsageFails ==
    /\ srv = "usage"
    /\ WriteFails(Server)
    /\ InternalError
    /\ timedOut' = TRUE

\* The commit, and the 200 response with the prediction ids.
MutantUsageCommit ==
    /\ srv = "usageCommit"
    /\ answered' = answered \cup req.ids
    /\ Done
    /\ UNCHANGED <<dbvars, clivars, served, lastId, kept, timedOut>>
UsageCommit ==
    /\ srv = "usageCommit"
    /\ Commit(Server)
    /\ answered' = answered \cup req.ids
    /\ Done
    /\ UNCHANGED <<clivars, served, lastId, kept, timedOut>>

\* submit_actuals, per item: SELECT the row it names...
FindPrediction ==
    /\ srv = "find"
    /\ req.left > 0
    /\ Select(Server)
    /\ \E id \in {0} \cup {r.id : r \in View(Server).log} :
          req' = [req EXCEPT !.left = @ - 1, !.target = id]
    /\ srv' = IF req'.target = 0 THEN "find" ELSE "update"
    /\ UNCHANGED <<clivars, served, lastId, answered, kept, timedOut>>

WithActual(db, id, value) ==
    [db EXCEPT !.log = {IF r.id = id THEN [r EXCEPT !.actual = value] ELSE r : r \in @}]

\* A number stays a number; NaN is a float to the schema and NULL to sqlite3.
Stored == {served, -served}

\* ... and UPDATE it.  Nothing is committed before the last item.
SetActual ==
    /\ srv = "update"
    /\ \E value \in Stored : Write(Server, WithActual(View(Server), req.target, value))
    /\ req' = [req EXCEPT !.ids = @ \cup {req.target}]
    /\ srv' = "find"
    /\ UNCHANGED <<clivars, served, lastId, answered, kept, timedOut>>

\* No handler catches it: a plain 500, no counter.
SetActualFails ==
    /\ srv = "update"
    /\ WriteFails(Server)
    /\ Done
    /\ timedOut' = TRUE
    /\ UNCHANGED <<clivars, served, lastId, answered, kept>>

\* An item sqlite3 cannot bind (an integer over 64 bits) raises in its SELECT:
\* a 500 that leaves the transaction of the earlier items open.
BadItem ==
    /\ srv = "find"
    /\ req.left > 0
    /\ Done
    /\ UNCHANGED <<dbvars, clivars, served, lastId, answered, kept, timedOut>>

\* The commit after the loop, and the 200 response.
MutantCommitActuals ==
    /\ srv = "find"
    /\ req.left = 0
    /\ kept' = [i \in Ids |-> IF i \in req.ids THEN served
                              ELSE IF i \in DOMAIN kept THEN kept[i] ELSE 0]
    /\ Done
    /\ UNCHANGED <<dbvars, clivars, served, lastId, answered, timedOut>>
CommitActuals ==
    /\ srv = "find"
    /\ req.left = 0
    /\ Commit(Server)
    /\ kept' = [i \in Ids |-> IF i \in req.ids THEN served
                              ELSE IF i \in DOMAIN kept THEN kept[i] ELSE 0]
    /\ Done
    /\ UNCHANGED <<clivars, served, lastId, answered, timedOut>>

\* The server's part of a request; each of these ends or advances it.
SrvStep ==
    \/ RejectRecords \/ ComputePredictions \/ ComputeFails
    \/ LogPrediction \/ LogFails \/ LogCommit
    \/ CountUsage \/ UsageFails \/ UsageCommit
    \/ FindPrediction \/ SetActual \/ SetActualFails \/ BadItem \/ CommitActuals

Arrive ==
    \/ \E k \in Keys, kind \in DOMAIN SizesOf : \E size \in SizesOf[kind] :
          Admit(kind, k, size) /\ UNCHANGED clivars
    \/ Refuse /\ UNCHANGED clivars

EmptyDb == [keys |-> {}, log |-> {}, usage |-> [c \in Clients |-> 0]]

ServingInit == DbInit(EmptyDb) /\ CliInit /\ SrvInit

ServingNext ==
    \/ Restart /\ UNCHANGED clivars
    \/ Arrive
    \/ SrvStep
    \/ CliNext /\ UNCHANGED srvvars

ServingSpec == ServingInit /\ [][ServingNext]_allvars

-----------------------------------------------------------------------------

LoggedIds(db) == {r.id : r \in db.log}
RowsBy(c, ids) == {r \in committed.log : r.client = c /\ r.id \in ids}

\* Every variable of the server has its type, and a request is under way
\* exactly when the server is in a handler.
ServingTypeOK ==
    /\ srv \in {"idle", "features", "log", "logCommit", "usage",
                "usageCommit", "find", "update"}
    /\ served \in 0 .. MaxRequests
    /\ lastId \in Nat
    /\ timedOut \in BOOLEAN
    /\ answered \subseteq Ids
    /\ LoggedIds(committed) \subseteq Ids
    /\ srv = "idle" <=> req = NoRequest

\* A prediction id in a 200 response is in prediction_log, committed, and no
\* crash or failed statement takes it out again: "the write must complete
\* before the response" (DECISIONS.md, 35).
AnsweredIsLogged == answered \subseteq LoggedIds(committed)

\* A client's usage counts every record it was answered, and no record that is
\* not in prediction_log, over any crashes and errors (log_usage is "called
\* after successful prediction").
UsageWithinLog ==
    \A c \in Clients :
        /\ Cardinality(RowsBy(c, answered)) <= committed.usage[c]
        /\ committed.usage[c] <= Cardinality(RowsBy(c, Ids))

\* The request that set an actual value, 0 if none did.
SetBy(r) == IF r.actual < 0 THEN -r.actual ELSE r.actual

\* What a submission answered with 200 set a matched row to, a number or (for
\* NaN) NULL, stays until a later submission sets the row again: no crash, no
\* failed statement and no other request takes the row back to an earlier
\* value, or to NULL as it was logged (submit_actuals).
MatchedActualsStay ==
    \A r \in committed.log : r.id \in DOMAIN kept => SetBy(r) >= kept[r.id]

Unmatched(rows) == {[r EXCEPT !.actual = 0] : r \in rows}

\* Between requests, all that the server may have written and not committed,
\* and so all that its write lock can be held for, is actuals: whichever
\* statement failed, no key, usage or prediction waits in an open transaction
\* for the commit of a later request (the except clauses never roll back).
OnlyActualsPending ==
    srv = "idle" /\ Writing(Server) =>
        /\ View(Server).keys = committed.keys
        /\ View(Server).usage = committed.usage
        /\ Unmatched(View(Server).log) = Unmatched(committed.log)

AdmissionIsCurrent ==
    srv = "idle" /\ srv' \in {"features", "find"} =>
        \E r \in committed.keys : r.key = req'.key /\ r.active

\* requires_auth admits a request only with a key that is active at that very
\* moment, whatever manage_keys is doing beside it, as long as no statement of
\* this server process has timed out on the lock.
AdmittedKeysWork == [][~timedOut => AdmissionIsCurrent]_allvars

\* "Raises 401 for invalid/inactive keys" (requires_auth), with no reservation.
InactiveKeysRefused == [][AdmissionIsCurrent]_allvars
====
