---- MODULE ServingProofs ----
(***************************************************************************)
(* Proofs about Serving, for every set of processes, clients, keys and      *)
(* sizes, and every number of requests.                                     *)
(*                                                                          *)
(* The server's transaction outlives its requests, so the invariant says    *)
(* for every statement what the server's view of the database has that is   *)
(* not committed (Pending): actuals only, but for the one prediction or the *)
(* one count that the next commit is for.  What the commands hold beside it *)
(* is CliInv of KeyAdminProofs, which no statement of the server disturbs.  *)
(***************************************************************************)
EXTENDS Serving, KeyAdminProofs, FiniteSetTheorems

LogRow == [id : Nat, client : Clients, actual : Int]
Db == [keys : SUBSET Row, log : SUBSET LogRow, usage : [Clients -> Nat]]

Admitted ==
    [kind : DOMAIN SizesOf, key : Keys, client : Clients, size : Nat \ {0},
     left : Nat, ids : SUBSET Nat, target : Nat]

Predicting == {"features", "log", "logCommit", "usage", "usageCommit"}
Matching == {"find", "update"}

SrvTypes ==
    /\ committed \in Db
    /\ srv \in {"idle"} \cup Predicting \cup Matching
    /\ served \in 0 .. MaxRequests /\ lastId \in Nat /\ timedOut \in BOOLEAN
    /\ kept \in [DOMAIN kept -> 0 .. served] /\ DOMAIN kept \subseteq Ids
    /\ srv = "idle" => req = NoRequest
    /\ srv # "idle" => req \in Admitted

\* What holds of the predictions in the database and in the server's view of it.
LogSound(log) ==
    /\ \A r, s \in log : r.id = s.id => r = s
    /\ \A r \in log : r.id \in Ids
    /\ \A r \in log : r.id \in DOMAIN kept => SetBy(r) >= kept[r.id]

\* A view that differs from what is committed by actuals.
ActualsOnly(db) ==
    /\ db \in Db
    /\ db.keys = committed.keys /\ db.usage = committed.usage
    /\ Unmatched(db.log) = Unmatched(committed.log)

Snapshots == [mode : {"read", "stale", "write"}, view : Db]

\* The view without the prediction that is about to be committed.
Before == [View(Server) EXCEPT !.log = {r \in @ : r.id # lastId}]

\* The server's transaction, and what it has written.
Pending ==
    /\ conn[Server] \in {Idle, Begun} \cup Snapshots
    /\ HasSnapshot(Server) => LoggedIds(View(Server)) \subseteq Ids
    /\ conn[Server].mode = "read" => View(Server) = committed
    /\ ~timedOut => conn[Server] = Idle \/ Writing(Server)
    /\ srv = "usage" => conn[Server] = Idle
    /\ srv = "usageCommit" =>
          conn[Server] = Txn("write", [committed EXCEPT !.usage[req.client] = @ + req.size])
    /\ srv = "logCommit" =>
          /\ lastId > 0 /\ lastId \notin LoggedIds(committed) \cup DOMAIN kept
          /\ ActualsOnly(Before) /\ LogSound(Before.log)
          /\ conn[Server] = Txn("write", WithPrediction(Before, lastId))
    /\ srv \notin {"logCommit", "usageCommit"} /\ Writing(Server) =>
          ActualsOnly(View(Server)) /\ LogSound(View(Server).log)

\* What the request under way has done: predictions are logged under its client,
\* or actuals are in the server's view.
Progress ==
    /\ srv \in Predicting =>
          /\ \A i \in req.ids : \E r \in committed.log : r.id = i /\ r.client = req.client
          /\ IsFiniteSet(req.ids) /\ Cardinality(req.ids) + req.left = req.size
          /\ srv \in {"usage", "usageCommit"} <=> req.left = 0
    /\ srv \in Matching /\ req.ids # {} =>
          /\ Writing(Server)
          /\ \A r \in View(Server).log : r.id \in req.ids => SetBy(r) = served

IdsBy(c) == {r.id : r \in {s \in committed.log : s.client = c}}

\* The predictions of the request under way, which no usage counts yet.
Uncounted == IF srv \in Predicting THEN req.ids ELSE {}

Counted ==
    \A c \in Clients :
        /\ Cardinality(IdsBy(c) \cap answered) <= committed.usage[c]
        /\ committed.usage[c] <= Cardinality(IdsBy(c) \ Uncounted)

SrvInv ==
    /\ SrvTypes
    /\ LogSound(committed.log)
    /\ Pending
    /\ Progress
    /\ AnsweredIsLogged
    /\ Counted

ServingIInv == CliInv /\ SrvInv

-----------------------------------------------------------------------------

\* The fields of the database, one by one.
LEMMA DbFields ==
    /\ \A db \in Db : /\ db.keys \in SUBSET Row /\ db.log \in SUBSET LogRow
                      /\ db.usage \in [Clients -> Nat] /\ IsDb(db)
                      /\ db = [keys |-> db.keys, log |-> db.log, usage |-> db.usage]
    /\ \A keys \in SUBSET Row, log \in SUBSET LogRow, usage \in [Clients -> Nat] :
          LET db == [keys |-> keys, log |-> log, usage |-> usage]
          IN db \in Db /\ db.keys = keys /\ db.log = log /\ db.usage = usage
BY DEF Db, IsDb

\* A row is its fields.
LEMMA LogRows ==
    \A r \in LogRow :
        /\ r.id \in Nat /\ r.client \in Clients /\ r.actual \in Int
        /\ \A n \in Int : LET s == [r EXCEPT !.actual = n]
                          IN s \in LogRow /\ s.id = r.id /\ s.client = r.client /\ s.actual = n
BY DEF LogRow

\* Logs that differ by actuals have the same predictions of the same clients.
LEMMA SamePredictions ==
    ASSUME NEW old \in SUBSET LogRow, NEW new \in SUBSET LogRow, Unmatched(new) = Unmatched(old)
    PROVE  \A r \in new : \E s \in old : s.id = r.id /\ s.client = r.client
<1> SUFFICES ASSUME NEW r \in new
             PROVE  \E s \in old : s.id = r.id /\ s.client = r.client
  OBVIOUS
<1>1. [r EXCEPT !.actual = 0] \in Unmatched(old)
  BY DEF Unmatched
<1>2. PICK s \in old : [r EXCEPT !.actual = 0] = [s EXCEPT !.actual = 0]
  BY <1>1 DEF Unmatched
<1>3. /\ [r EXCEPT !.actual = 0].id = r.id /\ [r EXCEPT !.actual = 0].client = r.client
      /\ [s EXCEPT !.actual = 0].id = s.id /\ [s EXCEPT !.actual = 0].client = s.client
  BY LogRows
<1> QED
  BY <1>2, <1>3

\* log_prediction adds one row.
LEMMA PredictionAdds ==
    ASSUME NEW db \in Db, NEW id \in Nat, req.client \in Clients
    PROVE  LET new == WithPrediction(db, id)
           IN /\ new \in Db /\ new.keys = db.keys /\ new.usage = db.usage
              /\ new.log = db.log \cup {[id |-> id, client |-> req.client, actual |-> 0]}
<1> DEFINE row == [id |-> id, client |-> req.client, actual |-> 0]
           log == db.log \cup {row}
<1>1. row \in LogRow
  BY DEF LogRow
<1>2. log \in SUBSET LogRow
  BY <1>1, DbFields
<1> HIDE DEF log
<1>3. WithPrediction(db, id) = [db EXCEPT !.log = log]
  BY DEF WithPrediction, log
<1>4. WithPrediction(db, id) = [keys |-> db.keys, log |-> log, usage |-> db.usage]
  BY <1>3 DEF Db
<1> QED
  BY <1>2, <1>4, DbFields DEF log

\* submit_actuals changes the actual of one prediction.
LEMMA ActualSets ==
    ASSUME NEW db \in Db, NEW id \in Nat, NEW value \in Int
    PROVE  LET new == WithActual(db, id, value)
           IN /\ new \in Db /\ new.keys = db.keys /\ new.usage = db.usage
              /\ Unmatched(new.log) = Unmatched(db.log)
              /\ \A r \in new.log : \E s \in db.log :
                    /\ r.id = s.id
                    /\ r = IF s.id = id THEN [s EXCEPT !.actual = value] ELSE s
<1> DEFINE Set(r) == IF r.id = id THEN [r EXCEPT !.actual = value] ELSE r
           log == {Set(r) : r \in db.log}
<1>1. \A r \in LogRow : /\ Set(r) \in LogRow /\ Set(r).id = r.id
                        /\ [Set(r) EXCEPT !.actual = 0] = [r EXCEPT !.actual = 0]
  BY DEF LogRow
<1>2. \A r \in db.log : r \in LogRow
  BY DbFields
<1>3. log \in SUBSET LogRow
  <2> HIDE DEF Set
  <2> QED
    BY <1>1, <1>2
<1>4. Unmatched(log) = Unmatched(db.log)
  <2> DEFINE Zero(r) == [r EXCEPT !.actual = 0]
  <2>1. \A r \in db.log : Zero(Set(r)) = Zero(r)
    BY <1>1, <1>2
  <2>2. Unmatched(log) = {Zero(r) : r \in log} /\ Unmatched(db.log) = {Zero(r) : r \in db.log}
    BY DEF Unmatched
  <2> HIDE DEF Set, Zero
  <2> QED
    BY <2>1, <2>2
<1>5. WithActual(db, id, value) = [keys |-> db.keys, log |-> log, usage |-> db.usage]
  <2> WithActual(db, id, value) = [db EXCEPT !.log = log]
    BY DEF WithActual
  <2> HIDE DEF log
  <2> QED
    BY DEF Db
<1>6. \A r \in log : \E s \in db.log : r.id = s.id /\ r = Set(s)
  <2> HIDE DEF Set
  <2> QED
    BY <1>1, <1>2
<1> HIDE DEF log
<1>7. /\ WithActual(db, id, value) \in Db /\ WithActual(db, id, value).log = log
      /\ WithActual(db, id, value).keys = db.keys
      /\ WithActual(db, id, value).usage = db.usage
  BY <1>3, <1>5, DbFields
<1> QED
  BY <1>4, <1>6, <1>7

\* A client's predictions are finitely many, one row each.
LEMMA CountIds ==
    ASSUME SrvTypes, LogSound(committed.log), NEW c \in Clients
    PROVE  /\ IsFiniteSet(IdsBy(c)) /\ IdsBy(c) \subseteq Ids
           /\ \A S : Cardinality(RowsBy(c, S)) = Cardinality(IdsBy(c) \cap S)
<1>1. IdsBy(c) \subseteq Ids
  BY DEF IdsBy, LogSound
<1>2. IsFiniteSet(Ids)
  BY FS_Interval DEF Ids, SrvTypes
<1>3. IsFiniteSet(IdsBy(c))
  BY <1>1, <1>2, FS_Subset
<1>4. ASSUME NEW S
      PROVE  Cardinality(RowsBy(c, S)) = Cardinality(IdsBy(c) \cap S)
  <2> DEFINE R == RowsBy(c, S)
             T == IdsBy(c) \cap S
             f == [r \in R |-> r.id]
  <2>1. IsFiniteSet(T)
    BY <1>3, FS_Intersection
  <2>2. \A r \in R : f[r] \in T
    BY DEF RowsBy, IdsBy
  <2>3. \A r, s \in R : f[r] = f[s] => r = s
    BY DEF RowsBy, LogSound
  <2>4. \A i \in T : \E r \in R : f[r] = i
    BY DEF RowsBy, IdsBy
  <2>5. f \in [R -> T]
    BY <2>2
  <2> HIDE DEF R, T, f
  <2>6. f \in Injection(R, T)
    BY <2>3, <2>5 DEF Injection, IsInjective
  <2>7. f \in Surjection(R, T)
    BY <2>4, <2>5 DEF Surjection
  <2>8. Cardinality(R) = Cardinality(T)
    BY <2>1, <2>6, <2>7, FS_Injection
  <2> QED
    BY <2>8 DEF R, T
<1> QED
  BY <1>1, <1>3, <1>4

-----------------------------------------------------------------------------

\* The server and the commands, each beside the other.

\* A statement of the server that commits nothing.
LEMMA ServerStatement ==
    ASSUME CliInv, UNCHANGED <<committed, clivars>>, NEW txn,
           conn' = [conn EXCEPT ![Server] = txn],
           txn.mode = "write" => \A q \in Conns \ {Server} : ~Writing(q)
    PROVE  CliInv' /\ conn'[Server] = txn
<1>1. /\ conn'[Server] = txn /\ \A q \in Conns \ {Server} : conn'[q] = conn[q]
      /\ conn' = [q \in Conns |-> conn'[q]]
      /\ cli' = cli /\ drawn' = drawn /\ issued' = issued /\ shown' = shown
      /\ committed' = committed
  BY ServerConnects DEF CliInv, clivars
<1>2. \A q \in Procs : JobInv(q)'
  BY <1>1, JobFrame, ServerConnects, ProcsConnect
<1>3. OneWriter'
  BY <1>1 DEF CliInv, OneWriter, Writing
<1> QED
  BY <1>1, <1>2, <1>3 DEF CliInv

\* A commit of the server, which leaves the key table as it is.
LEMMA ServerCommits ==
    ASSUME CliInv, Commit(Server), UNCHANGED clivars,
           IsDb(committed'), committed'.keys = committed.keys
    PROVE  CliInv' /\ conn'[Server] = Idle
<1>1. /\ conn'[Server] = Idle /\ conn' = [q \in Conns |-> conn'[q]]
      /\ cli' = cli /\ drawn' = drawn /\ issued' = issued /\ shown' = shown
  BY ServerConnects DEF Commit, clivars
<1>2. ASSUME NEW q \in Procs
      PROVE  conn[q].mode # "read"
  <2>1. JobInv(q) /\ (cli[q].at = "commit" => cli[q].cmd \in {"create", "revoke"})
    BY Jobs DEF Labels
  <2>2. Idle.mode # "read" /\ \A db : Txn("write", db).mode # "read"
    BY DEF Idle, Txn
  <2>3. conn[q] = Idle \/ \E db : conn[q] = Txn("write", db)
    BY <2>1 DEF JobInv
  <2> QED
    BY <2>2, <2>3
<1>3. \A q \in Procs : conn'[q] = conn[q]
  BY <1>2, ServerConnects, ProcsConnect DEF Commit
<1>4. \A q \in Procs : Writing(q) => committed' = committed
  BY ServerConnects, ProcsConnect DEF CliInv, OneWriter, Commit
<1>5. \A q \in Procs : JobInv(q)'
  BY <1>1, <1>3, <1>4, JobFrame
<1>6. \A q \in Conns : Writing(q)' => Writing(q)
  BY ServerConnects DEF Commit, Writing, Txn, Idle
<1>7. OneWriter'
  BY <1>6 DEF CliInv, OneWriter
<1> QED
  BY <1>1, <1>5, <1>7 DEF CliInv

\* A statement of a command: the server's snapshot gets stale by its commit, and
\* only the key table changes.
LEMMA CommandBeside ==
    ASSUME CliInv, CliNext
    PROVE  /\ \/ conn'[Server] = conn[Server]
              \/ /\ conn[Server].mode = "read"
                 /\ conn'[Server] = Txn("stale", conn[Server].view)
           /\ \/ committed' = committed
              \/ /\ ~Writing(Server)
                 /\ conn[Server].mode = "read" => conn'[Server].mode = "stale"
                 /\ IsDb(committed') /\ DOMAIN committed' = DOMAIN committed
                 /\ \A f \in DOMAIN committed \ {"keys"} : committed'[f] = committed[f]
<1>1. PICK p \in Procs : Start(p) \/ CliStep(p) \/ Crash(p)
  BY DEF CliNext
<1>2. p # Server /\ p \in Conns /\ Server \in Conns /\ conn = [r \in Conns |-> conn[r]]
  BY ServerConnects, ProcsConnect DEF CliInv
<1>3. CASE Start(p) \/ PrintKey(p)
  BY <1>3 DEF Start, PrintKey, dbvars
<1>4. CASE SelectRow(p)
  BY <1>2, <1>4 DEF SelectRow, Select
<1>5. CASE DeleteRow(p) \/ InsertRow(p) \/ UpdateRow(p)
  BY <1>2, <1>5 DEF DeleteRow, InsertRow, UpdateRow, Write
<1>6. CASE CommitJob(p)
  <2>1. Writing(p) /\ (Rotates(p) \/ Revokes(p)) /\ CliInv'
    BY <1>6, StepCommitJob
  <2>2. ~Writing(Server)
    BY <1>2, <2>1 DEF CliInv, OneWriter
  <2>3. conn'[Server] = IF conn[Server].mode = "read" THEN Txn("stale", conn[Server].view)
                                                     ELSE conn[Server]
    BY <1>2, <1>6, <2>1 DEF CommitJob, Commit
  <2>4. /\ IsDb(committed') /\ DOMAIN committed' = DOMAIN committed
        /\ \A f \in DOMAIN committed \ {"keys"} : committed'[f] = committed[f]
    <3>1. CASE Rotates(p)
      <4>1. /\ cli[p].client \in Clients /\ cli[p].key \in Keys
            /\ \A r \in committed.keys : r.key # cli[p].key
            /\ committed' = Rotated(committed, cli[p].client, cli[p].key)
        BY <3>1 DEF Rotates, CliInv
      <4> QED
        BY <4>1, RotatedRows DEF CliInv
    <3>2. CASE Revokes(p)
      BY <3>2, RevokedRows DEF Revokes, CliInv
    <3> QED
      BY <2>1, <3>1, <3>2
  <2>5. Txn("stale", conn[Server].view).mode = "stale"
    BY DEF Txn
  <2> QED
    BY <2>2, <2>3, <2>4, <2>5
<1>7. CASE Ends(p)
  BY <1>2, <1>7 DEF Ends, Close
<1> QED
  BY <1>1, <1>3, <1>4, <1>5, <1>6, <1>7 DEF CliStep, Crash, LockTimeout, UniqueViolation

\* What a transaction is, by its mode.
LEMMA Modes ==
    /\ Idle.mode = "idle" /\ Begun.mode = "begun" /\ Idle # Begun
    /\ \A mode, db : /\ Txn(mode, db).mode = mode /\ Txn(mode, db).view = db
                     /\ Txn(mode, db) \notin {Idle, Begun}
    /\ \A s \in Snapshots : /\ s = Txn(s.mode, s.view) /\ s \notin {Idle, Begun}
                            /\ s.view \in Db /\ s.mode \in {"read", "stale", "write"}
    /\ \A mode \in {"read", "stale", "write"}, db \in Db : Txn(mode, db) \in Snapshots
BY DEF Idle, Begun, Txn, Snapshots

\* The command processes leave the server what it has.
LEMMA StepCommand ==
    ASSUME CliInv, SrvInv, CliNext, UNCHANGED srvvars
    PROVE  SrvInv'
<1>1. /\ srv' = srv /\ req' = req /\ served' = served /\ lastId' = lastId
      /\ answered' = answered /\ kept' = kept /\ timedOut' = timedOut
  BY DEF srvvars
<1>2. committed \in Db /\ SrvTypes /\ Pending
  BY DEF SrvInv, SrvTypes
<1>3. committed' \in Db /\ committed'.log = committed.log /\ committed'.usage = committed.usage
  <2>1. CASE committed' = committed
    BY <1>2, <2>1
  <2>2. CASE committed' # committed
    <3>1. /\ IsDb(committed') /\ DOMAIN committed' = DOMAIN committed
          /\ \A f \in DOMAIN committed \ {"keys"} : committed'[f] = committed[f]
      BY <2>2, CommandBeside
    <3>2. DOMAIN committed = {"keys", "log", "usage"}
      BY <1>2 DEF Db
    <3>3. committed'.log = committed.log /\ committed'.usage = committed.usage
      BY <3>1, <3>2
    <3>4. committed' = [keys |-> committed'.keys, log |-> committed.log,
                        usage |-> committed.usage]
      BY <3>1, <3>2, <3>3 DEF IsDb
    <3> QED
      BY <1>2, <3>1, <3>3, <3>4, DbFields DEF IsDb
  <2> QED
    BY <2>1, <2>2
<1>4. SrvTypes'
  BY <1>1, <1>2, <1>3 DEF SrvTypes, Ids
<1>5. LogSound(committed.log)'
  BY <1>1, <1>3 DEF SrvInv, LogSound, Ids
<1>6. CASE conn'[Server] = conn[Server] /\ committed' = committed
  <2>1. View(Server)' = View(Server) /\ Writing(Server)' = Writing(Server)
        /\ HasSnapshot(Server)' = HasSnapshot(Server)
    BY <1>6 DEF View, Writing, HasSnapshot
  <2>2. Pending'
    BY <1>1, <1>2, <1>6, <2>1
       DEF Pending, Before, ActualsOnly, LogSound, LoggedIds, Ids, WithPrediction
  <2>3. Progress'
    BY <1>1, <1>6, <2>1 DEF SrvInv, Progress
  <2>4. AnsweredIsLogged' /\ Counted'
    BY <1>1, <1>6 DEF SrvInv, AnsweredIsLogged, LoggedIds, Counted, IdsBy, Uncounted
  <2> QED
    BY <1>4, <1>5, <2>2, <2>3, <2>4 DEF SrvInv
<1>7. CASE conn'[Server] # conn[Server] \/ committed' # committed
  <2>1. ~Writing(Server) /\ conn[Server].mode # "write"
    BY <1>7, CommandBeside, Modes DEF Writing
  <2>2. \/ conn'[Server] = conn[Server]
        \/ /\ conn[Server].mode = "read"
           /\ conn'[Server] = Txn("stale", conn[Server].view)
    BY CommandBeside
  <2>3. conn'[Server].mode \notin {"read", "write"}
    BY <1>7, <2>1, <2>2, CommandBeside, Modes
  <2>4. ~Writing(Server)'
    BY <2>3 DEF Writing
  <2>5. srv \notin {"logCommit", "usageCommit"}
    BY <1>2, <2>1, Modes DEF Pending
  <2>6. conn[Server].mode = "read" => timedOut /\ srv # "usage"
    BY <1>2, <2>1, Modes DEF Pending
  <2>7. conn[Server].mode = "read" => conn[Server] \in Snapshots
    BY <1>2, Modes DEF Pending
  <2>8. /\ conn'[Server] \in {Idle, Begun} \cup Snapshots
        /\ HasSnapshot(Server)' => LoggedIds(View(Server))' \subseteq Ids
    <3>1. CASE conn'[Server] = conn[Server]
      BY <1>2, <3>1 DEF Pending, HasSnapshot, View, LoggedIds
    <3>2. CASE conn[Server].mode = "read" /\ conn'[Server] = Txn("stale", conn[Server].view)
      <4>1. HasSnapshot(Server) /\ View(Server) = conn[Server].view
        BY <2>7, <3>2, Modes DEF HasSnapshot, View
      <4>2. HasSnapshot(Server)' /\ View(Server)' = conn[Server].view
        BY <3>2, Modes DEF HasSnapshot, View
      <4>3. conn'[Server] \in Snapshots
        BY <2>7, <3>2, Modes
      <4> QED
        BY <1>2, <4>1, <4>2, <4>3 DEF Pending, LoggedIds
    <3> QED
      BY <2>2, <3>1, <3>2
  <2>9. Pending'
    <3>1. srv' = "usage" => conn'[Server] = Idle
      BY <1>1, <1>2, <2>2, Modes DEF Pending
    <3>2. ~timedOut' => conn'[Server] = Idle
      BY <1>1, <1>2, <2>1, <2>2, <2>6, Modes DEF Pending
    <3> QED
      BY <1>1, <2>3, <2>4, <2>5, <2>8, <3>1, <3>2 DEF Pending, Ids
  <2>10. Progress'
    BY <1>1, <1>3, <2>1, <2>4 DEF SrvInv, Progress
  <2>11. AnsweredIsLogged' /\ Counted'
    BY <1>1, <1>3 DEF SrvInv, AnsweredIsLogged, LoggedIds, Counted, IdsBy, Uncounted
  <2> QED
    BY <1>4, <1>5, <2>9, <2>10, <2>11 DEF SrvInv
<1> QED
  BY <1>6, <1>7

\* A request that ends, whatever it leaves of its transaction, logged predictions
\* stay logged, and stay uncounted.
LEMMA RequestEnds ==
    ASSUME SrvInv, UNCHANGED <<committed, served, lastId, answered, kept>>, Done,
           \/ conn'[Server] \in {Idle, Begun}
           \/ conn'[Server] = conn[Server] /\ srv \notin {"logCommit", "usageCommit"},
           timedOut' \in BOOLEAN,
           \/ timedOut'
           \/ conn'[Server] = Idle
           \/ conn'[Server] = conn[Server] /\ timedOut' = timedOut
    PROVE  SrvInv'
<1>1. /\ srv' = "idle" /\ req' = NoRequest /\ served' = served /\ lastId' = lastId
      /\ answered' = answered /\ kept' = kept /\ committed' = committed
  BY DEF Done
<1>2. SrvTypes' /\ LogSound(committed.log)'
  BY <1>1 DEF SrvInv, SrvTypes, Ids, LogSound
<1>3. Pending'
  <2>1. CASE conn'[Server] \in {Idle, Begun}
    <3>1. ~HasSnapshot(Server)' /\ ~Writing(Server)' /\ conn'[Server].mode # "read"
      BY <2>1, Modes DEF HasSnapshot, Writing
    <3>2. ~timedOut' => conn'[Server] = Idle
      BY <2>1, <3>1, Modes DEF SrvInv, Pending, Writing
    <3> QED
      BY <1>1, <2>1, <3>1, <3>2 DEF Pending
  <2>2. CASE conn'[Server] = conn[Server] /\ srv \notin {"logCommit", "usageCommit"}
    <3>1. /\ View(Server)' = View(Server) /\ Writing(Server)' = Writing(Server)
          /\ HasSnapshot(Server)' = HasSnapshot(Server)
      BY <1>1, <2>2 DEF View, Writing, HasSnapshot
    <3>2. ~timedOut' => conn'[Server] = Idle \/ Writing(Server)'
      BY <2>2, <3>1 DEF SrvInv, Pending
    <3> QED
      BY <1>1, <2>2, <3>1, <3>2 DEF SrvInv, Pending, ActualsOnly, LogSound, LoggedIds, Ids
  <2> QED
    BY <2>1, <2>2
<1>4. Progress' /\ AnsweredIsLogged'
  BY <1>1 DEF SrvInv, Progress, AnsweredIsLogged, LoggedIds, Predicting, Matching
<1>5. Counted'
  <2>1. \A c \in Clients : IdsBy(c)' = IdsBy(c)
    BY <1>1 DEF IdsBy
  <2>2. Uncounted' = {}
    BY <1>1 DEF Uncounted, Predicting
  <2>3. ASSUME NEW c \in Clients
        PROVE  Cardinality(IdsBy(c) \ Uncounted) <= Cardinality(IdsBy(c) \ {})
               /\ Cardinality(IdsBy(c) \ Uncounted) \in Nat
               /\ Cardinality(IdsBy(c) \ {}) \in Nat /\ committed.usage[c] \in Nat
    <3>1. IsFiniteSet(IdsBy(c))
      BY CountIds DEF SrvInv
    <3>2. IsFiniteSet(IdsBy(c) \ {}) /\ IsFiniteSet(IdsBy(c) \ Uncounted)
      BY <3>1, FS_Difference
    <3>3. IdsBy(c) \ Uncounted \in SUBSET (IdsBy(c) \ {})
      OBVIOUS
    <3> QED
      BY <3>2, <3>3, FS_Subset, FS_CardinalityType, DbFields DEF SrvInv, SrvTypes
  <2>4. ASSUME NEW c \in Clients
        PROVE  /\ Cardinality(IdsBy(c) \cap answered) <= committed.usage[c]
               /\ committed.usage[c] <= Cardinality(IdsBy(c) \ {})
    <3>1. Cardinality(IdsBy(c) \cap answered) <= committed.usage[c]
          /\ committed.usage[c] <= Cardinality(IdsBy(c) \ Uncounted)
      BY DEF SrvInv, Counted
    <3> QED
      BY <2>3, <3>1
  <2>5. \A c \in Clients :
            /\ (IdsBy(c) \cap answered)' = IdsBy(c) \cap answered
            /\ (IdsBy(c) \ Uncounted)' = IdsBy(c) \ {}
    BY <1>1, <2>1, <2>2
  <2> QED
    BY <1>1, <2>4, <2>5 DEF Counted
<1> QED
  BY <1>2, <1>3, <1>4, <1>5 DEF SrvInv

\* A process that starts again, or a request that ends without a commit.
LEMMA StepEnd ==
    ASSUME CliInv, SrvInv, UNCHANGED clivars,
           Restart \/ RejectRecords \/ ComputeFails \/ BadItem
               \/ LogFails \/ UsageFails \/ SetActualFails
    PROVE  CliInv' /\ SrvInv' /\ UNCHANGED committed
<1>1. CASE Restart
  <2>1. /\ Done /\ UNCHANGED <<committed, served, lastId, answered, kept>>
        /\ conn' = [conn EXCEPT ![Server] = Idle] /\ timedOut' = FALSE
    BY <1>1 DEF Restart, Close
  <2>2. CliInv' /\ conn'[Server] = Idle
    BY <2>1, ServerStatement, Modes
  <2>3. SrvInv'
    BY <2>1, <2>2, RequestEnds
  <2> QED
    BY <2>1, <2>2, <2>3
<1>2. CASE RejectRecords \/ ComputeFails \/ BadItem
  <2>1. /\ Done /\ UNCHANGED <<committed, conn, served, lastId, answered, kept, timedOut>>
        /\ srv \notin {"logCommit", "usageCommit"}
    BY <1>2 DEF RejectRecords, ComputeFails, BadItem, InternalError, dbvars
  <2>2. CliInv'
    BY <2>1, StutterCliInv DEF dbvars
  <2>3. SrvInv'
    <3>1. timedOut' \in BOOLEAN
      BY <2>1 DEF SrvInv, SrvTypes
    <3> QED
      BY <2>1, <3>1, RequestEnds
  <2> QED
    BY <2>1, <2>2, <2>3
<1>3. CASE LogFails \/ UsageFails \/ SetActualFails
  <2>1. /\ Done /\ UNCHANGED <<committed, served, lastId, answered, kept>>
        /\ WriteFails(Server) /\ timedOut' = TRUE
        /\ srv \notin {"logCommit", "usageCommit"}
    BY <1>3 DEF LogFails, UsageFails, SetActualFails, InternalError, WriteFails
  <2> DEFINE txn == IF conn[Server] = Idle THEN Begun ELSE conn[Server]
  <2>2. conn' = [conn EXCEPT ![Server] = txn]
    BY <2>1 DEF WriteFails
  <2>3. txn.mode = "write" => \A q \in Conns \ {Server} : ~Writing(q)
    BY Modes, ServerConnects DEF CliInv, OneWriter, Writing
  <2>4. CliInv' /\ conn'[Server] = txn
    <3> HIDE DEF txn
    <3> QED
      BY <2>1, <2>2, <2>3, ServerStatement
  <2>5. SrvInv'
    BY <2>1, <2>4, RequestEnds
  <2> QED
    BY <2>1, <2>4, <2>5
<1> QED
  BY <1>1, <1>2, <1>3

\* A SELECT takes a snapshot or none; what the server sees stays.
LEMMA Selects ==
    ASSUME CliInv, SrvInv, Select(Server), UNCHANGED clivars
    PROVE  /\ CliInv' /\ committed' = committed
           /\ View(Server)' = View(Server) /\ Writing(Server)' = Writing(Server)
           /\ conn'[Server] \in {Idle} \cup Snapshots
           /\ HasSnapshot(Server)' => LoggedIds(View(Server)) \subseteq Ids
           /\ conn'[Server].mode = "read" => View(Server)' = committed'
           /\ ~timedOut => conn'[Server] = Idle \/ Writing(Server)'
<1> DEFINE txn == IF conn[Server] = Begun THEN Txn("read", committed) ELSE conn[Server]
<1>1. conn' = [conn EXCEPT ![Server] = txn] /\ committed' = committed
  BY DEF Select
<1>2. txn.mode = "write" => \A q \in Conns \ {Server} : ~Writing(q)
  BY Modes, ServerConnects DEF CliInv, OneWriter, Writing
<1>3. CliInv' /\ conn'[Server] = txn
  <2> HIDE DEF txn
  <2> QED
    BY <1>1, <1>2, ServerStatement
<1>4. LoggedIds(committed) \subseteq Ids /\ committed \in Db
  BY DEF SrvInv, LogSound, LoggedIds, SrvTypes
<1>5. CASE conn[Server] = Begun
  <2>1. /\ conn'[Server] = Txn("read", committed) /\ HasSnapshot(Server)'
        /\ View(Server)' = committed /\ View(Server) = committed
        /\ Writing(Server)' = FALSE /\ Writing(Server) = FALSE
        /\ conn'[Server] \in Snapshots
    BY <1>3, <1>4, <1>5, Modes DEF HasSnapshot, View, Writing
  <2>2. timedOut
    BY <1>5, <2>1, Modes DEF SrvInv, Pending
  <2> QED
    BY <1>1, <1>3, <1>4, <2>1, <2>2
<1>6. CASE conn[Server] # Begun
  <2>1. conn'[Server] = conn[Server]
    BY <1>3, <1>6
  <2>2. /\ View(Server)' = View(Server) /\ Writing(Server)' = Writing(Server)
        /\ HasSnapshot(Server)' = HasSnapshot(Server)
    BY <1>1, <2>1 DEF HasSnapshot, View, Writing
  <2> QED
    BY <1>1, <1>3, <1>6, <2>1, <2>2 DEF SrvInv, Pending
<1> QED
  BY <1>5, <1>6

\* What the server sees is a database of sound predictions.
LEMMA Views ==
    ASSUME SrvInv
    PROVE  /\ View(Server) \in Db /\ LoggedIds(View(Server)) \subseteq Ids
           /\ Writing(Server) => conn[Server] = Txn("write", View(Server))
                                 /\ HasSnapshot(Server)
<1>1. LoggedIds(committed) \subseteq Ids /\ committed \in Db
  BY DEF SrvInv, LogSound, LoggedIds, SrvTypes
<1>2. conn[Server] \in Snapshots => View(Server) = conn[Server].view /\ HasSnapshot(Server)
  BY Modes DEF View, HasSnapshot
<1>3. conn[Server] \in {Idle, Begun} => View(Server) = committed /\ ~Writing(Server)
  BY Modes DEF View, HasSnapshot, Writing
<1>4. conn[Server] \in {Idle, Begun} \cup Snapshots
  BY DEF SrvInv, Pending
<1>5. CASE conn[Server] \in Snapshots
  <2>1. View(Server) \in Db /\ conn[Server] = Txn(conn[Server].mode, View(Server))
    BY <1>2, <1>5, Modes
  <2> QED
    BY <1>2, <1>5, <2>1 DEF SrvInv, Pending, Writing
<1>6. CASE conn[Server] \in {Idle, Begun}
  BY <1>1, <1>3, <1>6
<1> QED
  BY <1>4, <1>5, <1>6

\* A step that neither writes nor commits keeps the transaction.
LEMMA PendingStays ==
    ASSUME CliInv, SrvInv, UNCHANGED <<clivars, lastId, kept, timedOut>>,
           Select(Server) \/ UNCHANGED dbvars,
           srv \notin {"logCommit", "usageCommit"},
           srv' \notin {"logCommit", "usage", "usageCommit"}
    PROVE  /\ CliInv' /\ Pending' /\ committed' = committed
           /\ View(Server)' = View(Server) /\ Writing(Server)' = Writing(Server)
           /\ LogSound(committed.log)'
<1>1. lastId' = lastId /\ kept' = kept /\ timedOut' = timedOut
  OBVIOUS
<1>2. CASE Select(Server)
  <2>1. LogSound(View(Server).log)' = LogSound(View(Server).log)
        /\ ActualsOnly(View(Server))' = ActualsOnly(View(Server))
        /\ LogSound(committed.log)' = LogSound(committed.log)
    BY <1>1, <1>2, Selects DEF LogSound, ActualsOnly, Ids
  <2>2. Ids' = Ids /\ LoggedIds(View(Server))' = LoggedIds(View(Server))
    BY <1>1, <1>2, Selects DEF Ids, LoggedIds
  <2> QED
    BY <1>1, <1>2, <2>1, <2>2, Selects DEF SrvInv, Pending
<1>3. CASE UNCHANGED dbvars
  <2>1. /\ CliInv' /\ committed' = committed /\ conn' = conn
        /\ View(Server)' = View(Server) /\ Writing(Server)' = Writing(Server)
        /\ HasSnapshot(Server)' = HasSnapshot(Server)
    BY <1>3, StutterCliInv DEF dbvars, View, Writing, HasSnapshot
  <2>2. LogSound(View(Server).log)' = LogSound(View(Server).log)
        /\ ActualsOnly(View(Server))' = ActualsOnly(View(Server))
        /\ LogSound(committed.log)' = LogSound(committed.log)
    BY <1>1, <2>1 DEF LogSound, ActualsOnly, Ids
  <2>3. Ids' = Ids /\ LoggedIds(View(Server))' = LoggedIds(View(Server))
    BY <1>1, <2>1 DEF Ids, LoggedIds
  <2> QED
    BY <1>1, <2>1, <2>2, <2>3 DEF SrvInv, Pending
<1> QED
  BY <1>2, <1>3

\* Counts that a step does not touch.
LEMMA CountsStay ==
    ASSUME SrvInv, UNCHANGED <<committed, answered>>, Uncounted' = Uncounted
    PROVE  Counted' /\ AnsweredIsLogged'
BY DEF SrvInv, Counted, AnsweredIsLogged, LoggedIds, IdsBy

\* A request is admitted, or refused.
LEMMA StepArrive ==
    ASSUME CliInv, SrvInv, Arrive
    PROVE  CliInv' /\ SrvInv' /\ UNCHANGED committed
<1>1. CASE \E k \in Keys, kind \in DOMAIN SizesOf : \E size \in SizesOf[kind] :
              Admit(kind, k, size) /\ UNCHANGED clivars
  <2>1. PICK k \in Keys, kind \in DOMAIN SizesOf : \E size \in SizesOf[kind] :
              Admit(kind, k, size) /\ UNCHANGED clivars
    BY <1>1
  <2>2. PICK size \in SizesOf[kind] : Admit(kind, k, size) /\ UNCHANGED clivars
    BY <2>1
  <2>3. PICK row \in KeyRows(k) : req' = Request(kind, row, size)
    BY <2>2 DEF Admit
  <2>4. size \in Nat \ {0}
    <3>1. kind \in {"predict", "batch", "actuals"}
      BY DEF SizesOf
    <3>2. SizesOf.predict = {1} /\ SizesOf.batch = BatchSizes /\ SizesOf.actuals = ActualsSizes
      BY DEF SizesOf
    <3>3. {1} \subseteq Nat \ {0} /\ BatchSizes \subseteq Nat \ {0}
          /\ ActualsSizes \subseteq Nat \ {0}
      BY SizesPositive
    <3>4. SizesOf[kind] \in {{1}, BatchSizes, ActualsSizes}
      BY <3>1, <3>2
    <3> QED
      BY <3>3, <3>4
  <2>5. row \in Row
    BY Views, DbFields DEF KeyRows
  <2>6. /\ req' \in Admitted /\ req'.ids = {} /\ req'.size = size /\ req'.left = size
    <3>1. req' = [kind |-> kind, key |-> row.key, client |-> row.client, size |-> size,
                  left |-> size, ids |-> {}, target |-> 0]
      BY <2>3 DEF Request
    <3> QED
      BY <2>4, <2>5, <3>1 DEF Admitted, Row
  <2>7. /\ srv = "idle" /\ srv' \in {"features", "find"} /\ Select(Server)
        /\ served < MaxRequests /\ served' = served + 1
        /\ UNCHANGED <<clivars, lastId, answered, kept, timedOut>>
    BY <2>2 DEF Admit
  <2>8. /\ CliInv' /\ Pending' /\ committed' = committed /\ LogSound(committed.log)'
    BY <2>7, PendingStays
  <2>9. SrvTypes'
    <3>1. served' \in 0 .. MaxRequests /\ 0 .. served \subseteq 0 .. served'
      BY <2>7, SizesPositive DEF SrvInv, SrvTypes
    <3>2. kept' \in [DOMAIN kept' -> 0 .. served']
      BY <2>7, <3>1 DEF SrvInv, SrvTypes
    <3> QED
      BY <2>6, <2>7, <2>8, <3>1, <3>2 DEF SrvInv, SrvTypes, Ids, Predicting, Matching
  <2>10. Progress'
    BY <2>4, <2>6, <2>7, FS_EmptySet DEF Progress, Predicting, Matching
  <2>11. Uncounted' = Uncounted
    BY <2>6, <2>7 DEF Uncounted, Predicting
  <2> QED
    BY <2>7, <2>8, <2>9, <2>10, <2>11, CountsStay DEF SrvInv
<1>2. CASE Refuse /\ UNCHANGED clivars
  <2>1. /\ srv = "idle" /\ Select(Server) /\ srv' = srv /\ req' = req /\ served' = served
        /\ lastId' = lastId /\ answered' = answered /\ kept' = kept /\ timedOut' = timedOut
    BY <1>2 DEF Refuse, srvvars
  <2>2. /\ CliInv' /\ Pending' /\ committed' = committed /\ LogSound(committed.log)'
    BY <1>2, <2>1, PendingStays
  <2>3. SrvTypes'
    BY <2>1, <2>2 DEF SrvInv, SrvTypes, Ids
  <2>4. Progress' /\ Uncounted' = Uncounted
    BY <2>1 DEF Progress, Predicting, Matching, Uncounted
  <2> QED
    BY <2>1, <2>2, <2>3, <2>4, CountsStay DEF SrvInv
<1> QED
  BY <1>1, <1>2 DEF Arrive

\* Computing changes nothing; the statement that finds the row of an actual
\* leaves what the earlier items wrote.
LEMMA StepComputeOrFind ==
    ASSUME CliInv, SrvInv, UNCHANGED clivars, ComputePredictions \/ FindPrediction
    PROVE  CliInv' /\ SrvInv' /\ UNCHANGED committed
<1>1. /\ UNCHANGED <<served, lastId, answered, kept, timedOut>>
      /\ Select(Server) \/ UNCHANGED dbvars
      /\ \/ srv = "features" /\ srv' = "log" /\ req' = req
         \/ srv = "find" /\ srv' \in {"find", "update"}
  BY DEF ComputePredictions, FindPrediction
<1>2. /\ CliInv' /\ Pending' /\ committed' = committed /\ LogSound(committed.log)'
      /\ View(Server)' = View(Server) /\ Writing(Server)' = Writing(Server)
  BY <1>1, PendingStays
<1>3. CASE srv = "features"
  <2>1. SrvTypes'
    BY <1>1, <1>2, <1>3 DEF SrvInv, SrvTypes, Ids, Predicting, Matching
  <2>2. Progress' /\ Uncounted' = Uncounted
    BY <1>1, <1>2, <1>3 DEF SrvInv, Progress, Predicting, Matching, Uncounted
  <2> QED
    BY <1>1, <1>2, <2>1, <2>2, CountsStay DEF SrvInv
<1>4. CASE srv = "find"
  <2>1. PICK id \in {0} \cup {r.id : r \in View(Server).log} :
            req' = [req EXCEPT !.left = @ - 1, !.target = id]
    BY <1>4 DEF FindPrediction, ComputePredictions
  <2>2. req \in Admitted /\ req.left > 0
    BY <1>4 DEF FindPrediction, ComputePredictions, SrvInv, SrvTypes
  <2>3. id \in Nat
    BY Views DEF LoggedIds, Ids
  <2>4. req' \in Admitted /\ req'.ids = req.ids
    <3>1. req.left - 1 \in Nat
      BY <2>2 DEF Admitted
    <3>2. req' = [req EXCEPT !.left = req.left - 1, !.target = id]
      BY <2>1
    <3> QED
      BY <2>2, <2>3, <3>1, <3>2 DEF Admitted
  <2>5. SrvTypes'
    BY <1>1, <1>2, <1>4, <2>4 DEF SrvInv, SrvTypes, Ids, Predicting, Matching
  <2>6. Progress' /\ Uncounted' = Uncounted
    BY <1>1, <1>2, <1>4, <2>4 DEF SrvInv, Progress, Predicting, Matching, Uncounted
  <2> QED
    BY <1>1, <1>2, <2>5, <2>6, CountsStay DEF SrvInv
<1> QED
  BY <1>1, <1>3, <1>4

-----------------------------------------------------------------------------

\* What a statement that may write builds on differs from what is committed by
\* actuals.
LEMMA BuildsOn ==
    ASSUME SrvInv, MayWrite(Server), srv \notin {"logCommit", "usageCommit"}
    PROVE  /\ ActualsOnly(View(Server)) /\ LogSound(View(Server).log)
           /\ View(Server) \in Db /\ committed \in Db
<1>1. committed \in Db /\ ActualsOnly(committed) /\ LogSound(committed.log)
  BY DEF SrvInv, SrvTypes, ActualsOnly
<1>2. CASE Writing(Server)
  BY <1>1, <1>2, Views DEF SrvInv, Pending
<1>3. CASE ~Writing(Server)
  <2>1. conn[Server] \in {Idle, Begun} => View(Server) = committed
    BY DEF View, HasSnapshot
  <2>2. conn[Server] \in Snapshots => conn[Server].mode = "read"
    BY <1>3, Modes DEF MayWrite, Writing
  <2>3. View(Server) = committed
    BY <2>1, <2>2 DEF SrvInv, Pending
  <2> QED
    BY <1>1, <2>3
<1> QED
  BY <1>2, <1>3

\* Logs that differ by actuals count the same.
LEMMA SameIds ==
    ASSUME NEW db, ActualsOnly(db), committed \in Db
    PROVE  /\ LoggedIds(db) = LoggedIds(committed)
           /\ \A c \in Clients : {r.id : r \in {s \in db.log : s.client = c}} = IdsBy(c)
<1>1. db.log \in SUBSET LogRow /\ committed.log \in SUBSET LogRow
      /\ Unmatched(db.log) = Unmatched(committed.log)
  BY DbFields DEF ActualsOnly
<1>2. /\ \A r \in db.log : \E s \in committed.log : s.id = r.id /\ s.client = r.client
      /\ \A r \in committed.log : \E s \in db.log : s.id = r.id /\ s.client = r.client
  BY <1>1, SamePredictions
<1> QED
  BY <1>2 DEF LoggedIds, IdsBy

\* A statement that writes: the commands wait.
LEMMA Writes ==
    ASSUME CliInv, NEW db, Write(Server, db), UNCHANGED clivars
    PROVE  /\ CliInv' /\ committed' = committed /\ conn'[Server] = Txn("write", db)
           /\ View(Server)' = db /\ Writing(Server)' /\ HasSnapshot(Server)'
<1>1. /\ conn' = [conn EXCEPT ![Server] = Txn("write", db)] /\ committed' = committed
      /\ \A q \in Conns \ {Server} : ~Writing(q)
  BY DEF Write, MayWrite
<1>2. CliInv' /\ conn'[Server] = Txn("write", db)
  BY <1>1, ServerStatement
<1> QED
  BY <1>1, <1>2, Modes DEF View, Writing, HasSnapshot

\* The prediction waits for its commit.
LEMMA StepLogPrediction ==
    ASSUME CliInv, SrvInv, LogPrediction
    PROVE  CliInv' /\ SrvInv' /\ UNCHANGED committed
<1> DEFINE db == View(Server)
           new == WithPrediction(db, lastId + 1)
<1>1. /\ srv = "log" /\ srv' = "logCommit" /\ lastId' = lastId + 1 /\ Write(Server, new)
      /\ req' = req /\ served' = served /\ answered' = answered /\ kept' = kept
      /\ timedOut' = timedOut /\ UNCHANGED clivars
  BY DEF LogPrediction
<1>2. ActualsOnly(db) /\ LogSound(db.log) /\ db \in Db /\ committed \in Db
  BY <1>1, BuildsOn DEF Write
<1>3. /\ CliInv' /\ committed' = committed /\ conn'[Server] = Txn("write", new)
      /\ View(Server)' = new /\ Writing(Server)' /\ HasSnapshot(Server)'
  BY <1>1, Writes
<1>4. req \in Admitted /\ req.client \in Clients /\ lastId \in Nat /\ lastId + 1 \in Nat
  BY <1>1 DEF SrvInv, SrvTypes, Admitted
<1>5. /\ new \in Db /\ new.keys = db.keys /\ new.usage = db.usage
      /\ new.log = db.log \cup {[id |-> lastId + 1, client |-> req.client, actual |-> 0]}
  BY <1>2, <1>4, PredictionAdds
<1> HIDE DEF new, db
<1>6. lastId + 1 \notin Ids /\ Ids \subseteq Ids' /\ lastId' \in Ids'
  BY <1>1, <1>4 DEF Ids
<1>7. SrvTypes' /\ LogSound(committed.log)'
  BY <1>1, <1>3, <1>4, <1>6 DEF SrvInv, SrvTypes, LogSound, Predicting
<1>8. Before' = db
  <2> DEFINE log == {r \in new.log : r.id # lastId + 1}
  <2>1. log = db.log
    BY <1>2, <1>5, <1>6 DEF LogSound
  <2>2. Before' = [new EXCEPT !.log = log]
    BY <1>1, <1>3 DEF Before
  <2> HIDE DEF log
  <2>3. Before' = [keys |-> new.keys, log |-> log, usage |-> new.usage]
    BY <1>5, <2>2 DEF Db
  <2> QED
    BY <1>2, <1>5, <2>1, <2>3, DbFields
<1>9. Pending'
  <2>1. ActualsOnly(Before)' /\ LogSound(Before.log)'
    BY <1>1, <1>2, <1>3, <1>6, <1>8 DEF ActualsOnly, LogSound
  <2>2. WithPrediction(Before, lastId)' = new
    BY <1>1, <1>8 DEF WithPrediction, new
  <2>3. conn'[Server] \in Snapshots /\ conn'[Server].mode = "write"
    BY <1>3, <1>5, Modes
  <2>4. LoggedIds(View(Server))' \subseteq Ids'
    <3>1. \A r \in new.log : r.id \in Ids'
      <4>1. \A r \in db.log : r.id \in Ids
        BY <1>2 DEF LogSound
      <4>2. \A r \in new.log : r \in db.log \/ r.id = lastId'
        BY <1>1, <1>5
      <4> QED
        BY <1>6, <4>1, <4>2
    <3> QED
      BY <1>3, <3>1 DEF LoggedIds
  <2>5. lastId' > 0 /\ (lastId \notin LoggedIds(committed) \cup DOMAIN kept)'
    BY <1>1, <1>3, <1>4, <1>6 DEF SrvInv, SrvTypes, LogSound, LoggedIds
  <2> QED
    BY <1>1, <1>3, <2>1, <2>2, <2>3, <2>4, <2>5 DEF Pending
<1>10. Progress' /\ Uncounted' = Uncounted
  BY <1>1, <1>3 DEF SrvInv, Progress, Predicting, Matching, Uncounted
<1> QED
  BY <1>1, <1>3, <1>7, <1>9, <1>10, CountsStay DEF SrvInv

\* The commit of a prediction, with whatever actuals were waiting for one.
LEMMA StepLogCommit ==
    ASSUME CliInv, SrvInv, LogCommit
    PROVE  CliInv' /\ SrvInv' /\ committed'.keys = committed.keys
<1> DEFINE row == [id |-> lastId, client |-> req.client, actual |-> 0]
<1>1. /\ srv = "logCommit" /\ srv' = AfterLogging /\ Commit(Server)
      /\ req' = [req EXCEPT !.left = @ - 1, !.ids = @ \cup {lastId}]
      /\ served' = served /\ lastId' = lastId /\ answered' = answered /\ kept' = kept
      /\ timedOut' = timedOut /\ UNCHANGED clivars
  BY DEF LogCommit
<1>2. /\ lastId > 0 /\ lastId \notin LoggedIds(committed) /\ lastId \notin DOMAIN kept
      /\ ActualsOnly(Before) /\ LogSound(Before.log)
      /\ conn[Server] = Txn("write", WithPrediction(Before, lastId))
      /\ committed \in Db /\ Before \in Db
  BY <1>1 DEF SrvInv, SrvTypes, Pending, ActualsOnly
<1>3. committed' = WithPrediction(Before, lastId)
  BY <1>1, <1>2, Modes DEF Commit, Writing
<1>4. /\ req \in Admitted /\ req.client \in Clients /\ lastId \in Nat /\ req.left \in Nat
      /\ req.ids \subseteq Nat /\ req.size \in Nat
  BY <1>1 DEF SrvInv, SrvTypes, Admitted
<1>5. /\ committed' \in Db /\ committed'.keys = committed.keys
      /\ committed'.usage = committed.usage /\ committed'.log = Before.log \cup {row}
  BY <1>2, <1>3, <1>4, PredictionAdds DEF ActualsOnly
<1>6. CliInv' /\ conn'[Server] = Idle
  BY <1>1, <1>5, ServerCommits, DbFields
<1>7. row.id = lastId /\ row.client = req.client /\ row.actual = 0
  OBVIOUS
<1>8. Before.log \subseteq {r \in View(Server).log : r.id # lastId}
  BY Views, DbFields DEF SrvInv, Before
<1> HIDE DEF row
<1>9. \A r \in Before.log : r.id # lastId
  BY <1>8
<1>10. LogSound(committed.log)'
  BY <1>1, <1>2, <1>4, <1>5, <1>7, <1>9 DEF LogSound, Ids
<1>11. /\ req.left > 0 /\ IsFiniteSet(req.ids) /\ Cardinality(req.ids) + req.left = req.size
       /\ \A i \in req.ids : \E r \in committed.log : r.id = i /\ r.client = req.client
  BY <1>1, <1>4 DEF SrvInv, Progress, Predicting
<1>12. /\ req' \in Admitted /\ req'.ids = req.ids \cup {lastId} /\ req'.left = req.left - 1
       /\ req'.client = req.client /\ req'.size = req.size
  <2>1. req.left - 1 \in Nat /\ req.ids \cup {lastId} \in SUBSET Nat
    BY <1>4, <1>11
  <2> QED
    BY <1>1, <1>4, <2>1 DEF Admitted
<1>13. srv' \in {"log", "usage"} /\ (srv' = "usage" <=> req'.left = 0)
  BY <1>1, <1>4, <1>11, <1>12 DEF AfterLogging
<1>14. SrvTypes'
  BY <1>1, <1>5, <1>12, <1>13 DEF SrvInv, SrvTypes, Ids, Predicting
<1>15. Pending'
  BY <1>1, <1>6, <1>13, Modes DEF SrvInv, Pending, HasSnapshot, Writing
<1>16. /\ LoggedIds(committed)' = LoggedIds(committed) \cup {lastId}
       /\ \A c \in Clients : IdsBy(c)' = IF c = req.client THEN IdsBy(c) \cup {lastId}
                                                          ELSE IdsBy(c)
  <2>1. LoggedIds(Before) = LoggedIds(committed)
        /\ \A c \in Clients : {r.id : r \in {s \in Before.log : s.client = c}} = IdsBy(c)
    BY <1>2, SameIds
  <2>2. LoggedIds(committed)' = {r.id : r \in Before.log \cup {row}}
    BY <1>5 DEF LoggedIds
  <2>3. \A c \in Clients : IdsBy(c)' = {r.id : r \in {s \in Before.log \cup {row} : s.client = c}}
    BY <1>5 DEF IdsBy
  <2>4. LoggedIds(committed)' = LoggedIds(Before) \cup {lastId}
    BY <1>7, <2>2 DEF LoggedIds
  <2>5. ASSUME NEW c \in Clients
        PROVE  IdsBy(c)' = {r.id : r \in {s \in Before.log : s.client = c}}
                              \cup (IF c = req.client THEN {lastId} ELSE {})
    BY <1>7, <2>3
  <2> QED
    BY <2>1, <2>4, <2>5
<1>17. Progress'
  <2>1. ASSUME NEW i \in req'.ids
        PROVE  \E r \in committed'.log : r.id = i /\ r.client = req'.client
    <3>1. CASE i = lastId
      BY <1>5, <1>7, <1>12, <3>1
    <3>2. CASE i \in req.ids
      <4>1. PICK c \in Clients : c = req.client
        BY <1>4
      <4>2. i \in IdsBy(c)
        BY <1>11, <3>2, <4>1 DEF IdsBy
      <4>3. i \in IdsBy(c)'
        BY <1>16, <4>2
      <4> QED
        BY <1>12, <4>1, <4>3 DEF IdsBy
    <3> QED
      BY <1>12, <3>1, <3>2
  <2>2. lastId \notin req.ids
    BY <1>2, <1>11 DEF LoggedIds
  <2>3. IsFiniteSet(req'.ids) /\ Cardinality(req'.ids) = Cardinality(req.ids) + 1
        /\ Cardinality(req.ids) \in Nat
    BY <1>11, <1>12, <2>2, FS_AddElement, FS_CardinalityType
  <2>4. Cardinality(req'.ids) + req'.left = req'.size
    BY <1>4, <1>11, <1>12, <2>3
  <2> QED
    BY <1>13, <2>1, <2>3, <2>4 DEF Progress, Matching
<1>18. AnsweredIsLogged'
  BY <1>1, <1>16 DEF SrvInv, AnsweredIsLogged
<1>19. Counted'
  <2>1. lastId \notin answered
    BY <1>2 DEF SrvInv, AnsweredIsLogged
  <2>2. Uncounted = req.ids /\ Uncounted' = req.ids \cup {lastId}
    BY <1>1, <1>12, <1>13 DEF Uncounted, Predicting
  <2>3. ASSUME NEW c \in Clients
        PROVE  /\ (IdsBy(c) \cap answered)' = IdsBy(c) \cap answered
               /\ (IdsBy(c) \ Uncounted)' = IdsBy(c) \ Uncounted
    <3>1. lastId \notin IdsBy(c)
      BY <1>2 DEF IdsBy, LoggedIds
    <3> QED
      BY <1>1, <1>16, <2>1, <2>2, <3>1
  <2> QED
    BY <1>5, <2>3 DEF SrvInv, Counted
<1> QED
  BY <1>5, <1>6, <1>10, <1>14, <1>15, <1>17, <1>18, <1>19 DEF SrvInv

\* A count of usage is a database, too.
LEMMA UsageCounts ==
    ASSUME NEW db \in Db, NEW c \in Clients, NEW n \in Nat
    PROVE  LET new == [db EXCEPT !.usage[c] = @ + n]
           IN /\ new \in Db /\ new.keys = db.keys /\ new.log = db.log
              /\ new.usage = [db.usage EXCEPT ![c] = @ + n]
<1> DEFINE usage == [db.usage EXCEPT ![c] = @ + n]
<1>1. usage \in [Clients -> Nat]
  BY DbFields
<1>2. [db EXCEPT !.usage[c] = @ + n] = [keys |-> db.keys, log |-> db.log, usage |-> usage]
  BY DEF Db
<1> HIDE DEF usage
<1> QED
  BY <1>1, <1>2, DbFields DEF usage

\* The count waits for its commit, alone.
LEMMA StepCountUsage ==
    ASSUME CliInv, SrvInv, CountUsage
    PROVE  CliInv' /\ SrvInv' /\ UNCHANGED committed
<1> DEFINE new == [committed EXCEPT !.usage[req.client] = @ + req.size]
<1>1. /\ srv = "usage" /\ srv' = "usageCommit"
      /\ Write(Server, [View(Server) EXCEPT !.usage[req.client] = @ + req.size])
      /\ req' = req /\ served' = served /\ lastId' = lastId /\ answered' = answered
      /\ kept' = kept /\ timedOut' = timedOut /\ UNCHANGED clivars
  BY DEF CountUsage
<1>2. View(Server) = committed /\ committed \in Db
  BY <1>1 DEF SrvInv, SrvTypes, Pending, View, HasSnapshot
<1>3. req.client \in Clients /\ req.size \in Nat
  BY <1>1 DEF SrvInv, SrvTypes, Admitted
<1>4. new \in Db /\ new.log = committed.log
  BY <1>2, <1>3, UsageCounts
<1>5. /\ CliInv' /\ committed' = committed /\ conn'[Server] = Txn("write", new)
      /\ View(Server)' = new /\ Writing(Server)' /\ HasSnapshot(Server)'
  BY <1>1, <1>2, Writes
<1>6. new' = new
  BY <1>1, <1>5
<1>7. SrvTypes' /\ LogSound(committed.log)'
  BY <1>1, <1>5 DEF SrvInv, SrvTypes, Ids, LogSound, Predicting
<1>8. Pending'
  <2>1. conn'[Server] = Txn("write", new)'
    BY <1>5, <1>6
  <2> HIDE DEF new
  <2>2. conn'[Server] \in Snapshots /\ conn'[Server].mode = "write"
    BY <1>4, <1>5, Modes
  <2>3. LoggedIds(View(Server))' \subseteq Ids'
    BY <1>1, <1>4, <1>5 DEF LoggedIds, SrvInv, LogSound, Ids
  <2> QED
    BY <1>1, <1>5, <2>1, <2>2, <2>3 DEF Pending, new
<1>9. Progress' /\ Uncounted' = Uncounted
  BY <1>1, <1>5 DEF SrvInv, Progress, Predicting, Matching, Uncounted
<1> QED
  BY <1>1, <1>5, <1>7, <1>8, <1>9, CountsStay DEF SrvInv

\* The commit of the count and the answer: the request's predictions are counted
\* as they become answered.
LEMMA StepUsageCommit ==
    ASSUME CliInv, SrvInv, UsageCommit
    PROVE  CliInv' /\ SrvInv' /\ committed'.keys = committed.keys
<1> DEFINE new == [committed EXCEPT !.usage[req.client] = @ + req.size]
<1>1. /\ srv = "usageCommit" /\ Commit(Server) /\ answered' = answered \cup req.ids
      /\ srv' = "idle" /\ req' = NoRequest /\ served' = served /\ lastId' = lastId
      /\ kept' = kept /\ timedOut' = timedOut /\ UNCHANGED clivars
  BY DEF UsageCommit, Done
<1>2. committed' = new
  <2>1. conn[Server] = Txn("write", new)
    BY <1>1 DEF SrvInv, Pending
  <2> HIDE DEF new
  <2> QED
    BY <1>1, <2>1, Modes DEF Commit, Writing
<1>3. /\ req.client \in Clients /\ req.size \in Nat /\ committed \in Db
      /\ IsFiniteSet(req.ids) /\ Cardinality(req.ids) = req.size
      /\ \A i \in req.ids : \E r \in committed.log : r.id = i /\ r.client = req.client
  <2>1. req \in Admitted /\ committed \in Db
    BY <1>1 DEF SrvInv, SrvTypes
  <2>2. req.left = 0 /\ IsFiniteSet(req.ids) /\ Cardinality(req.ids) + req.left = req.size
        /\ \A i \in req.ids : \E r \in committed.log : r.id = i /\ r.client = req.client
    BY <1>1 DEF SrvInv, Progress, Predicting
  <2>3. Cardinality(req.ids) \in Nat
    BY <2>2, FS_CardinalityType
  <2> QED
    BY <2>1, <2>2, <2>3 DEF Admitted
<1>4. /\ committed' \in Db /\ committed'.keys = committed.keys
      /\ committed'.log = committed.log
      /\ committed'.usage = [committed.usage EXCEPT ![req.client] = @ + req.size]
  BY <1>2, <1>3, UsageCounts
<1> HIDE DEF new
<1>5. CliInv' /\ conn'[Server] = Idle
  BY <1>1, <1>4, ServerCommits, DbFields
<1>6. SrvTypes' /\ LogSound(committed.log)' /\ Pending' /\ Progress'
  <2>1. SrvTypes' /\ LogSound(committed.log)'
    BY <1>1, <1>4 DEF SrvInv, SrvTypes, Ids, LogSound
  <2>2. Pending' /\ Progress'
    BY <1>1, <1>5, Modes DEF Pending, Progress, HasSnapshot, Writing, Predicting, Matching
  <2> QED
    BY <2>1, <2>2
<1>7. AnsweredIsLogged'
  BY <1>1, <1>3, <1>4 DEF SrvInv, AnsweredIsLogged, LoggedIds
<1>8. Counted'
  <2> SUFFICES ASSUME NEW c \in Clients
               PROVE  /\ Cardinality(IdsBy(c)' \cap answered') <= committed'.usage[c]
                      /\ committed'.usage[c] <= Cardinality(IdsBy(c)' \ Uncounted')
    BY DEF Counted
  <2>1. IdsBy(c)' = IdsBy(c) /\ Uncounted' = {} /\ Uncounted = req.ids
    BY <1>1, <1>4 DEF IdsBy, Uncounted, Predicting
  <2> DEFINE A == IdsBy(c) \cap answered
             U == IdsBy(c) \ req.ids
             n == committed.usage[c]
  <2>2. IsFiniteSet(IdsBy(c))
    BY CountIds DEF SrvInv
  <2>3. /\ Cardinality(A) <= n /\ n <= Cardinality(U) /\ n \in Nat
        /\ IsFiniteSet(A) /\ IsFiniteSet(U) /\ IsFiniteSet(IdsBy(c))
        /\ Cardinality(A) \in Nat /\ Cardinality(U) \in Nat /\ Cardinality(IdsBy(c)) \in Nat
    <3>1. Cardinality(A) <= n /\ n <= Cardinality(U)
      BY <2>1 DEF SrvInv, Counted
    <3>2. n \in Nat
      BY <1>3, DbFields
    <3>3. IsFiniteSet(A) /\ IsFiniteSet(U)
      BY <2>2, FS_Intersection, FS_Difference
    <3> QED
      BY <2>2, <3>1, <3>2, <3>3, FS_CardinalityType
  <2>4. CASE c = req.client
    <3>1. committed'.usage[c] = n + req.size
      BY <1>3, <1>4, <2>4, DbFields
    <3>2. req.ids \subseteq IdsBy(c)
      BY <1>3, <2>4 DEF IdsBy
    <3>3. Cardinality(A \cup req.ids) <= Cardinality(A) + req.size
      <4>1. Cardinality(A \cup req.ids)
              = Cardinality(A) + Cardinality(req.ids) - Cardinality(A \cap req.ids)
        BY <1>3, <2>3, FS_Union
      <4>2. Cardinality(A \cap req.ids) \in Nat
        BY <2>3, FS_Intersection, FS_CardinalityType
      <4> QED
        BY <1>3, <2>3, <4>1, <4>2
    <3>4. IdsBy(c) \cap answered' = A \cup req.ids
      BY <1>1, <3>2
    <3>5. Cardinality(U) = Cardinality(IdsBy(c)) - req.size
      <4>1. IdsBy(c) \cap req.ids = req.ids
        BY <3>2
      <4>2. Cardinality(U) = Cardinality(IdsBy(c)) - Cardinality(IdsBy(c) \cap req.ids)
        BY <2>2, FS_Difference
      <4> QED
        BY <1>3, <4>1, <4>2
    <3>6. IdsBy(c) \ {} = IdsBy(c) /\ Cardinality(A \cup req.ids) \in Nat
      BY <1>3, <2>3, FS_Union, FS_CardinalityType
    <3> HIDE DEF A, U, n
    <3>7. Cardinality(A \cup req.ids) <= n + req.size
      BY <1>3, <2>3, <3>3, <3>6
    <3>8. n + req.size <= Cardinality(IdsBy(c))
      BY <1>3, <2>3, <3>5
    <3> QED
      BY <2>1, <3>1, <3>4, <3>6, <3>7, <3>8
  <2>5. CASE c # req.client
    <3>1. committed'.usage[c] = n
      BY <1>3, <1>4, <2>5, DbFields
    <3>2. req.ids \cap IdsBy(c) = {}
      BY <1>3, <2>5 DEF SrvInv, LogSound, IdsBy
    <3>3. IdsBy(c) \cap answered' = A /\ IdsBy(c) \ {} = U
      BY <1>1, <3>2
    <3> QED
      BY <2>1, <2>3, <3>1, <3>3
  <2> QED
    BY <2>4, <2>5
<1> QED
  BY <1>4, <1>5, <1>6, <1>7, <1>8 DEF SrvInv

\* An actual waits for the commit of its submission, or of a later request.
LEMMA StepSetActual ==
    ASSUME CliInv, SrvInv, SetActual
    PROVE  CliInv' /\ SrvInv' /\ UNCHANGED committed
<1>0. PICK value \in Stored : Write(Server, WithActual(View(Server), req.target, value))
  BY DEF SetActual
<1> DEFINE db == View(Server)
           new == WithActual(db, req.target, value)
<1>1. /\ srv = "update" /\ srv' = "find" /\ Write(Server, new)
      /\ req' = [req EXCEPT !.ids = @ \cup {req.target}]
      /\ served' = served /\ lastId' = lastId /\ answered' = answered
      /\ kept' = kept /\ timedOut' = timedOut /\ UNCHANGED clivars
  BY <1>0 DEF SetActual
<1>2. ActualsOnly(db) /\ LogSound(db.log) /\ db \in Db /\ committed \in Db
  BY <1>1, BuildsOn DEF Write
<1>3. req \in Admitted /\ req.target \in Nat /\ req.ids \in SUBSET Nat /\ served \in Nat
  BY <1>1 DEF SrvInv, SrvTypes, Admitted
<1>3b. value \in Int /\ \A r : r.actual = value => SetBy(r) = served
  BY <1>3 DEF Stored, SetBy
<1>4. /\ CliInv' /\ committed' = committed /\ conn'[Server] = Txn("write", new)
      /\ View(Server)' = new /\ Writing(Server)' /\ HasSnapshot(Server)'
  BY <1>1, Writes
<1>5. /\ new \in Db /\ new.keys = db.keys /\ new.usage = db.usage
      /\ Unmatched(new.log) = Unmatched(db.log)
      /\ \A r \in new.log : \E s \in db.log :
            /\ r.id = s.id
            /\ r = IF s.id = req.target THEN [s EXCEPT !.actual = value] ELSE s
  BY <1>2, <1>3, <1>3b, ActualSets
<1>6. \A r \in new.log : \E s \in db.log :
         /\ r.id = s.id
         /\ r.actual = IF s.id = req.target THEN value ELSE s.actual
         /\ s.id # req.target => r = s
         /\ s.id = req.target => r = [s EXCEPT !.actual = value]
         /\ SetBy(r) = IF s.id = req.target THEN served ELSE SetBy(s)
  <2> HIDE DEF new, db
  <2> SUFFICES ASSUME NEW r \in new.log
               PROVE  \E s \in db.log :
                         /\ r.id = s.id
                         /\ r.actual = IF s.id = req.target THEN value ELSE s.actual
                         /\ s.id # req.target => r = s
                         /\ s.id = req.target => r = [s EXCEPT !.actual = value]
                         /\ SetBy(r) = IF s.id = req.target THEN served ELSE SetBy(s)
    OBVIOUS
  <2>1. PICK s \in db.log :
            r.id = s.id /\ r = IF s.id = req.target THEN [s EXCEPT !.actual = value] ELSE s
    BY <1>5
  <2>2. [s EXCEPT !.actual = value].actual = value
    BY <1>2, <1>3b, DbFields, LogRows
  <2>3. s.id = req.target => SetBy(r) = served
    BY <1>3b, <2>1, <2>2
  <2> QED
    BY <2>1, <2>2, <2>3
<1>7. req' \in Admitted /\ req'.ids = req.ids \cup {req.target}
  <2>1. req.ids \cup {req.target} \in SUBSET Nat
    BY <1>3
  <2> QED
    BY <1>1, <1>3, <2>1 DEF Admitted
<1>8. kept \in [DOMAIN kept -> 0 .. served]
  BY DEF SrvInv, SrvTypes
<1> DEFINE log == db.log
<1>9. Writing(Server) /\ req.ids # {} => \A r \in log : r.id \in req.ids => SetBy(r) = served
  BY <1>1 DEF SrvInv, Progress, Matching
<1>10. req.ids # {} => Writing(Server)
  BY <1>1 DEF SrvInv, Progress, Matching
<1> HIDE DEF new, db, log
<1>11. LogSound(new.log)
  <2>1. \A r, s \in new.log : r.id = s.id => r = s
    BY <1>2, <1>6 DEF LogSound
  <2>2. \A r \in new.log : r.id \in Ids
    BY <1>2, <1>6 DEF LogSound
  <2>3. \A i \in DOMAIN kept : kept[i] <= served
    BY <1>3, <1>8
  <2>4. \A r \in new.log : r.id \in DOMAIN kept => SetBy(r) >= kept[r.id]
    <3> SUFFICES ASSUME NEW r \in new.log, r.id \in DOMAIN kept
                 PROVE  SetBy(r) >= kept[r.id]
      OBVIOUS
    <3>1. kept[r.id] \in Nat
      BY <1>3, <1>8
    <3> QED
      BY <1>2, <1>3, <1>6, <2>3, <3>1 DEF LogSound
  <2> QED
    BY <2>1, <2>2, <2>4 DEF LogSound
<1>12. SrvTypes' /\ LogSound(committed.log)'
  BY <1>1, <1>4, <1>7 DEF SrvInv, SrvTypes, Ids, LogSound, Matching
<1>13. Pending'
  <2>1. ActualsOnly(View(Server))' /\ LogSound(View(Server).log)'
    BY <1>1, <1>2, <1>4, <1>5, <1>11 DEF ActualsOnly, LogSound, Ids
  <2>2. conn'[Server] \in Snapshots /\ conn'[Server].mode = "write"
    BY <1>4, <1>5, Modes
  <2>3. LoggedIds(View(Server))' \subseteq Ids'
    BY <2>1 DEF LoggedIds, LogSound
  <2> QED
    BY <1>1, <1>4, <2>1, <2>2, <2>3 DEF Pending
<1>14. Progress'
  <2>1. ASSUME NEW r \in new.log, r.id \in req.ids \cup {req.target}
        PROVE  SetBy(r) = served
    BY <1>6, <1>9, <1>10, <2>1 DEF log
  <2> QED
    BY <1>1, <1>4, <1>7, <2>1 DEF Progress, Predicting
<1>15. Uncounted' = Uncounted
  BY <1>1 DEF Uncounted, Predicting
<1> QED
  BY <1>1, <1>4, <1>12, <1>13, <1>14, <1>15, CountsStay DEF SrvInv

\* The commit of a submission: what it matched has its actuals.
LEMMA StepCommitActuals ==
    ASSUME CliInv, SrvInv, CommitActuals
    PROVE  CliInv' /\ SrvInv' /\ committed'.keys = committed.keys
<1>1. /\ srv = "find" /\ Commit(Server)
      /\ kept' = [i \in Ids |-> IF i \in req.ids THEN served
                                ELSE IF i \in DOMAIN kept THEN kept[i] ELSE 0]
      /\ srv' = "idle" /\ req' = NoRequest /\ served' = served /\ lastId' = lastId
      /\ answered' = answered /\ timedOut' = timedOut /\ UNCHANGED clivars
  BY DEF CommitActuals, Done
<1>2. committed \in Db /\ served \in Nat /\ kept \in [DOMAIN kept -> 0 .. served]
  BY DEF SrvInv, SrvTypes
<1>3. /\ ActualsOnly(committed') /\ LogSound(committed'.log)
      /\ \A r \in committed'.log : r.id \in req.ids => SetBy(r) = served
  <2>1. CASE Writing(Server)
    <3>1. committed' = View(Server)
      BY <1>1, <2>1, Views DEF Commit, View
    <3> QED
      BY <1>1, <2>1, <3>1 DEF SrvInv, Pending, Progress, Matching
  <2>2. CASE ~Writing(Server)
    BY <1>1, <1>2, <2>2 DEF Commit, SrvInv, ActualsOnly, Progress, Matching
  <2> QED
    BY <2>1, <2>2
<1>4. committed' \in Db /\ committed'.keys = committed.keys /\ committed'.usage = committed.usage
  BY <1>3 DEF ActualsOnly
<1>5. CliInv' /\ conn'[Server] = Idle
  BY <1>1, <1>4, ServerCommits, DbFields
<1>6. /\ kept' \in [Ids -> 0 .. served] /\ DOMAIN kept' = Ids /\ Ids' = Ids
  BY <1>1, <1>2 DEF Ids
<1>7. LogSound(committed.log)'
  <2> SUFFICES ASSUME NEW r \in committed'.log
               PROVE  SetBy(r) >= kept'[r.id]
    BY <1>3, <1>6 DEF LogSound
  <2>1. r.id \in Ids /\ SetBy(r) \in Nat
    BY <1>3, <1>4, DbFields, LogRows DEF LogSound, SetBy
  <2>2. kept'[r.id] = IF r.id \in req.ids THEN served
                      ELSE IF r.id \in DOMAIN kept THEN kept[r.id] ELSE 0
    BY <1>1, <2>1
  <2>3. r.id \in DOMAIN kept => SetBy(r) >= kept[r.id]
    BY <1>3 DEF LogSound
  <2> QED
    BY <1>2, <1>3, <2>1, <2>2, <2>3
<1>8. SrvTypes'
  BY <1>1, <1>4, <1>6 DEF SrvInv, SrvTypes
<1>9. Pending' /\ Progress'
  BY <1>1, <1>5, Modes DEF Pending, Progress, HasSnapshot, Writing, Predicting, Matching
<1>10. /\ LoggedIds(committed)' = LoggedIds(committed)
       /\ \A c \in Clients : IdsBy(c)' = IdsBy(c)
  <2>1. /\ LoggedIds(committed') = LoggedIds(committed)
        /\ \A c \in Clients : {r.id : r \in {s \in committed'.log : s.client = c}} = IdsBy(c)
    BY <1>2, <1>3, SameIds
  <2> QED
    BY <2>1 DEF LoggedIds, IdsBy
<1>11. AnsweredIsLogged'
  BY <1>1, <1>10 DEF SrvInv, AnsweredIsLogged
<1>12. Counted'
  <2>1. Uncounted = {} /\ Uncounted' = {}
    BY <1>1 DEF Uncounted, Predicting
  <2> QED
    BY <1>1, <1>4, <1>10, <2>1 DEF SrvInv, Counted
<1> QED
  BY <1>4, <1>5, <1>7, <1>8, <1>9, <1>11, <1>12 DEF SrvInv

-----------------------------------------------------------------------------

\* The invariant holds at the start.
LEMMA ServingInitially == ServingInit => ServingIInv
<1> SUFFICES ASSUME ServingInit PROVE ServingIInv
  OBVIOUS
<1>1. /\ committed = EmptyDb /\ conn = [p \in Conns |-> Idle] /\ cli = [p \in Procs |-> Off]
      /\ drawn = {} /\ issued = {} /\ shown = {}
      /\ srv = "idle" /\ req = NoRequest /\ served = 0 /\ lastId = 0 /\ answered = {}
      /\ kept = <<>> /\ timedOut = FALSE
  BY DEF ServingInit, DbInit, CliInit, SrvInit
<1>2. committed \in Db /\ committed.keys = {} /\ committed.log = {}
      /\ \A c \in Clients : committed.usage[c] = 0
  BY <1>1 DEF EmptyDb, Db
<1>3. CliInv
  <2>1. IsDb(committed) /\ OneRowEach(committed.keys)
    BY <1>2, DbFields DEF OneRowEach
  <2>2. \A p \in Procs : JobInv(p)
    BY <1>1, ProcsConnect DEF JobInv, Off
  <2>3. OneWriter
    BY <1>1 DEF OneWriter, Writing, Idle
  <2> QED
    BY <1>1, <1>2, <2>1, <2>2, <2>3 DEF CliInv
<1>4. DOMAIN kept = {} /\ kept \in [DOMAIN kept -> 0 .. served]
  BY <1>1
<1>5. SrvTypes
  <2>1. served \in 0 .. MaxRequests /\ lastId \in Nat
    BY <1>1, SizesPositive
  <2>2. srv = "idle" /\ req = NoRequest /\ timedOut \in BOOLEAN
    BY <1>1
  <2> QED
    BY <1>2, <1>4, <2>1, <2>2 DEF SrvTypes
<1>6. LogSound(committed.log) /\ AnsweredIsLogged
  BY <1>1, <1>2 DEF LogSound, AnsweredIsLogged
<1>7. Pending /\ Progress
  BY <1>1, ServerConnects, Modes
     DEF Pending, Progress, HasSnapshot, Writing, Predicting, Matching
<1>8. Counted
  <2>1. \A c \in Clients : IdsBy(c) = {}
    BY <1>2 DEF IdsBy
  <2>2. \A c \in Clients : IdsBy(c) \cap answered = {} /\ IdsBy(c) \ Uncounted = {}
    BY <2>1
  <2> QED
    BY <1>2, <2>2, FS_EmptySet DEF Counted
<1> QED
  BY <1>3, <1>5, <1>6, <1>7, <1>8 DEF ServingIInv, SrvInv

\* Every step of the server keeps the invariant and the key table.
LEMMA StepServer ==
    ASSUME ServingIInv, (Restart /\ UNCHANGED clivars) \/ Arrive \/ SrvStep
    PROVE  ServingIInv' /\ committed'.keys = committed.keys /\ UNCHANGED clivars
<1> USE DEF ServingIInv
<1>1. CASE Restart /\ UNCHANGED clivars
  BY <1>1, StepEnd
<1>2. CASE Arrive
  BY <1>2, StepArrive DEF Arrive
<1>3. CASE RejectRecords \/ ComputeFails \/ BadItem \/ LogFails \/ UsageFails \/ SetActualFails
  <2>1. UNCHANGED clivars
    BY <1>3 DEF RejectRecords, ComputeFails, BadItem, LogFails, UsageFails, SetActualFails,
                InternalError
  <2> QED
    BY <1>3, <2>1, StepEnd
<1>4. CASE ComputePredictions \/ FindPrediction
  <2>1. UNCHANGED clivars
    BY <1>4 DEF ComputePredictions, FindPrediction
  <2> QED
    BY <1>4, <2>1, StepComputeOrFind
<1>5. CASE LogPrediction
  BY <1>5, StepLogPrediction DEF LogPrediction
<1>6. CASE LogCommit
  BY <1>6, StepLogCommit DEF LogCommit
<1>7. CASE CountUsage
  BY <1>7, StepCountUsage DEF CountUsage
<1>8. CASE UsageCommit
  BY <1>8, StepUsageCommit DEF UsageCommit
<1>9. CASE SetActual
  BY <1>9, StepSetActual DEF SetActual
<1>10. CASE CommitActuals
  BY <1>10, StepCommitActuals DEF CommitActuals
<1> QED
  BY <1>1, <1>2, <1>3, <1>4, <1>5, <1>6, <1>7, <1>8, <1>9, <1>10 DEF SrvStep

\* A step that changes nothing keeps the invariant.
LEMMA StepStutter ==
    ASSUME ServingIInv, UNCHANGED allvars
    PROVE  ServingIInv'
<1>1. UNCHANGED <<dbvars, clivars, srvvars>>
  BY DEF allvars
<1>2. CliInv'
  BY <1>1, StutterCliInv DEF ServingIInv
<1>3. SrvInv'
  <2>1. /\ committed' = committed /\ conn' = conn /\ srv' = srv /\ req' = req
        /\ served' = served /\ lastId' = lastId /\ answered' = answered /\ kept' = kept
        /\ timedOut' = timedOut
    BY <1>1 DEF dbvars, srvvars
  <2>2. /\ View(Server)' = View(Server) /\ Writing(Server)' = Writing(Server)
        /\ HasSnapshot(Server)' = HasSnapshot(Server)
    BY <2>1 DEF View, Writing, HasSnapshot
  <2>3. SrvTypes' /\ LogSound(committed.log)'
    BY <2>1 DEF ServingIInv, SrvInv, SrvTypes, LogSound, Ids
  <2>4. Pending'
    BY <2>1, <2>2 DEF ServingIInv, SrvInv, Pending, Before, ActualsOnly, LogSound, LoggedIds,
                      Ids, WithPrediction
  <2>5. Progress'
    BY <2>1, <2>2 DEF ServingIInv, SrvInv, Progress
  <2>6. Counted' /\ AnsweredIsLogged'
    BY <2>1, CountsStay DEF ServingIInv, Uncounted
  <2> QED
    BY <2>3, <2>4, <2>5, <2>6 DEF SrvInv
<1> QED
  BY <1>2, <1>3 DEF ServingIInv

\* The invariant holds in every state.
LEMMA ServingInvariant == ServingSpec => []ServingIInv
<1>1. ServingIInv /\ [ServingNext]_allvars => ServingIInv'
  <2> SUFFICES ASSUME ServingIInv, [ServingNext]_allvars PROVE ServingIInv'
    OBVIOUS
  <2>1. CASE CliNext /\ UNCHANGED srvvars
    BY <2>1, CliSteps, StepCommand DEF ServingIInv
  <2> QED
    BY <2>1, StepServer, StepStutter DEF ServingNext
<1> QED
  BY <1>1, ServingInitially, PTL DEF ServingSpec

-----------------------------------------------------------------------------

\* ServingTypeOK: the server's variables have their types, and a request is under
\* way exactly when the server is in a handler.
THEOREM ServingTypeCorrect == ServingSpec => []ServingTypeOK
<1>1. ServingIInv => ServingTypeOK
  <2> SUFFICES ASSUME SrvInv PROVE ServingTypeOK
    BY DEF ServingIInv
  <2>1. LoggedIds(committed) \subseteq Ids /\ answered \subseteq Ids
    BY DEF SrvInv, LogSound, LoggedIds, AnsweredIsLogged
  <2>2. srv = "idle" <=> req = NoRequest
    BY DEF SrvInv, SrvTypes, Admitted, NoRequest
  <2> QED
    BY <2>1, <2>2 DEF SrvInv, SrvTypes, ServingTypeOK, Predicting, Matching
<1> QED
  BY <1>1, ServingInvariant, PTL

\* AnsweredIsLogged: a prediction id in a 200 response is committed to
\* prediction_log, and stays (log_prediction, before the response).
THEOREM AnsweredAlwaysLogged == ServingSpec => []AnsweredIsLogged
<1>1. ServingIInv => AnsweredIsLogged
  BY DEF ServingIInv, SrvInv
<1> QED
  BY <1>1, ServingInvariant, PTL

\* UsageWithinLog: a client's usage is between its answered and its logged
\* predictions (log_usage).
THEOREM UsageAlwaysWithinLog == ServingSpec => []UsageWithinLog
<1>1. ServingIInv => UsageWithinLog
  <2> SUFFICES ASSUME SrvInv, NEW c \in Clients
               PROVE  /\ Cardinality(RowsBy(c, answered)) <= committed.usage[c]
                      /\ committed.usage[c] <= Cardinality(RowsBy(c, Ids))
    BY DEF ServingIInv, UsageWithinLog
  <2>1. /\ IsFiniteSet(IdsBy(c)) /\ IdsBy(c) \cap Ids = IdsBy(c)
        /\ Cardinality(RowsBy(c, answered)) = Cardinality(IdsBy(c) \cap answered)
        /\ Cardinality(RowsBy(c, Ids)) = Cardinality(IdsBy(c) \cap Ids)
    BY CountIds DEF SrvInv
  <2>2. /\ Cardinality(IdsBy(c) \ Uncounted) <= Cardinality(IdsBy(c))
        /\ Cardinality(IdsBy(c) \ Uncounted) \in Nat /\ Cardinality(IdsBy(c)) \in Nat
    <3>1. IdsBy(c) \ Uncounted \in SUBSET IdsBy(c)
      OBVIOUS
    <3> QED
      BY <2>1, <3>1, FS_Subset, FS_CardinalityType
  <2>3. committed.usage[c] \in Nat
    BY DbFields DEF SrvInv, SrvTypes
  <2>4. /\ Cardinality(IdsBy(c) \cap answered) <= committed.usage[c]
        /\ committed.usage[c] <= Cardinality(IdsBy(c) \ Uncounted)
    BY DEF SrvInv, Counted
  <2> QED
    BY <2>1, <2>2, <2>3, <2>4
<1> QED
  BY <1>1, ServingInvariant, PTL

\* MatchedActualsStay: what a submission answered with 200 set a row to, number
\* or NULL, is replaced by what a later submission sets it to only
\* (submit_actuals).
THEOREM MatchedActualsAlwaysStay == ServingSpec => []MatchedActualsStay
<1>1. ServingIInv => MatchedActualsStay
  BY DEF ServingIInv, SrvInv, LogSound, MatchedActualsStay
<1> QED
  BY <1>1, ServingInvariant, PTL

\* OnlyActualsPending: between requests an open transaction of the server holds
\* actuals, and no key, usage or prediction.
THEOREM OnlyActualsEverPending == ServingSpec => []OnlyActualsPending
<1>1. ServingIInv => OnlyActualsPending
  BY DEF ServingIInv, SrvInv, Pending, ActualsOnly, OnlyActualsPending
<1> QED
  BY <1>1, ServingInvariant, PTL

\* An admission looks at the keys as they are committed, when no statement of
\* the server has timed out.
LEMMA AdmissionLooksNow ==
    ASSUME ServingIInv, ServingNext, ~timedOut
    PROVE  AdmissionIsCurrent
<1> SUFFICES ASSUME srv = "idle", srv' \in {"features", "find"}
             PROVE  \E r \in committed.keys : r.key = req'.key /\ r.active
  BY DEF AdmissionIsCurrent
<1>1. PICK k \in Keys, kind \in DOMAIN SizesOf : \E size \in SizesOf[kind] : Admit(kind, k, size)
  <2>1. ~SrvStep
    BY DEF SrvStep, RejectRecords, ComputePredictions, ComputeFails, LogPrediction, LogFails,
           LogCommit, CountUsage, UsageFails, UsageCommit, FindPrediction, SetActual,
           SetActualFails, BadItem, CommitActuals
  <2>2. ~Restart /\ ~UNCHANGED srvvars
    BY DEF Restart, Done, srvvars
  <2> QED
    BY <2>1, <2>2 DEF ServingNext, Arrive, Refuse
<1>2. PICK size \in SizesOf[kind], row \in KeyRows(k) : req' = Request(kind, row, size)
  BY <1>1 DEF Admit
<1>3. req'.key = row.key /\ row \in View(Server).keys /\ row.active
  BY <1>2 DEF Request, KeyRows
<1>4. View(Server).keys = committed.keys
  <2>1. conn[Server] = Idle => View(Server) = committed
    BY DEF View, HasSnapshot
  <2>2. Writing(Server) => View(Server).keys = committed.keys
    BY DEF ServingIInv, SrvInv, Pending, ActualsOnly
  <2> QED
    BY <2>1, <2>2 DEF ServingIInv, SrvInv, Pending
<1> QED
  BY <1>3, <1>4

\* AdmittedKeysWork: requires_auth admits with a key that is active at that very
\* moment, unless a statement of this process has timed out on the lock.
THEOREM AdmittedKeysAlwaysWork == ServingSpec => AdmittedKeysWork
<1>1. ServingIInv /\ [ServingNext]_allvars => [~timedOut => AdmissionIsCurrent]_allvars
  BY AdmissionLooksNow
<1> QED
  BY <1>1, ServingInvariant, PTL DEF ServingSpec, AdmittedKeysWork

\* Beside a server that answers, fails and crashes, the commands still act on the
\* key table like create and revoke executed one at a time.
THEOREM RegistryBesideServer == ServingSpec => ImplementsRegistry
<1>1. ServingInit => Registry!Init
  <2> SUFFICES ASSUME ServingInit PROVE Registry!Init
    OBVIOUS
  <2>1. \A c \in Clients : ~HasRow(c)
    BY DEF ServingInit, DbInit, EmptyDb, HasRow, RowsOf
  <2>2. \A c \in Clients : (HasRow(c) /\ RowOf(c).active) = FALSE
    BY <2>1, Zenon
  <2> QED
    BY <2>1, <2>2 DEF ServingInit, CliInit, Registry!Init
<1>2. ServingIInv /\ [ServingNext]_allvars => [Registry!Next]_Registry!vars
  <2> SUFFICES ASSUME ServingIInv, [ServingNext]_allvars PROVE [Registry!Next]_Registry!vars
    OBVIOUS
  <2>1. CASE CliNext /\ UNCHANGED srvvars
    BY <2>1, StepSimulates DEF ServingIInv
  <2>2. CASE committed'.keys = committed.keys /\ UNCHANGED clivars
    BY <2>2 DEF clivars, Registry!vars, HasRow, RowOf, RowsOf
  <2> QED
    BY <2>1, <2>2, StepServer DEF ServingNext, allvars, dbvars
<1> QED
  BY <1>1, <1>2, ServingInvariant, PTL DEF ServingSpec, ImplementsRegistry, Registry!Spec

\* The server's statements leave the key table as it is, so that beside it, too, a
\* rotation never leaves a client without a key (create_key).
THEOREM ClientKeepsRowBesideServer == ServingSpec => ClientKeepsRow
<1>1. ASSUME ServingIInv, [ServingNext]_allvars, NEW c \in Clients, RowsOf(committed, c) # {}
      PROVE  RowsOf(committed', c) # {}
  <2>1. CASE CliNext
    BY <1>1, <2>1, StepKeepsRow DEF ServingIInv
  <2>2. CASE committed'.keys = committed.keys
    BY <1>1, <2>2 DEF RowsOf
  <2> QED
    BY <1>1, <2>1, <2>2, StepServer DEF ServingNext, allvars, dbvars
<1>2. ServingIInv /\ [ServingNext]_allvars =>
        [\A c \in Clients : RowsOf(committed, c) # {} => RowsOf(committed', c) # {}]_vars
  BY <1>1
<1> QED
  BY <1>2, ServingInvariant, PTL DEF ServingSpec, ClientKeepsRow

\* Nor does a dead key come back to life beside it (revoke_key, create_key): what
\* an old snapshot shows the server is another matter, and never written.
THEOREM DeadKeysStayDeadBesideServer == ServingSpec => DeadKeysStayDead
<1>1. ASSUME ServingIInv, [ServingNext]_allvars, NEW k \in issued,
             \A r \in committed.keys : r.key = k => ~r.active
      PROVE  \A r \in committed'.keys : r.key = k => ~r.active
  <2>1. CASE CliNext
    BY <1>1, <2>1, StepKeepsDead DEF ServingIInv
  <2>2. CASE committed'.keys = committed.keys
    BY <1>1, <2>2
  <2> QED
    BY <1>1, <2>1, <2>2, StepServer DEF ServingNext, allvars, dbvars
<1>2. ServingIInv /\ [ServingNext]_allvars =>
        [\A k \in issued :
            (\A r \in committed.keys : r.key = k => ~r.active)
            => (\A r \in committed'.keys : r.key = k => ~r.active)]_vars
  BY <1>1
<1> QED
  BY <1>2, ServingInvariant, PTL DEF ServingSpec, DeadKeysStayDead
====
