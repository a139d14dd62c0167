---- MODULE KeyAdminProofs ----
(***************************************************************************)
(* Proofs about KeyAdmin, for every set of processes, clients and keys.     *)
(*                                                                          *)
(* What a command will commit is decided by the row it saw before it took   *)
(* the write lock.  The invariant (Job) says what its transaction makes of  *)
(* the table as it is committed now, which nobody else can change until the *)
(* command ends.  It is stated for any database with a `keys` field, so that*)
(* it holds beside the server's transactions, too.                          *)
(***************************************************************************)
EXTENDS MCKeyAdmin, TLAPS

IsDb(db) ==
    /\ db = [f \in DOMAIN db |-> db[f]]
    /\ "keys" \in DOMAIN db
    /\ db.keys \subseteq Row

\* api_keys is UNIQUE in client_name and in key_hash.
OneRowEach(rows) ==
    \A r, s \in rows : r.client = s.client \/ r.key = s.key => r = s

\* The database with the row of a key just drawn for client c.
Rotated(db, c, k) == With(Without(db, c), [key |-> k, client |-> c, active |-> TRUE])

\* Where a command is, and what it holds.
JobInv(p) ==
    LET job == cli[p] IN
    /\ job.at \notin {"insert", "commit"} => conn[p] = Idle
    /\ job.at = "insert" =>
          \/ conn[p] = Idle
          \/ conn[p] = Txn("write", Without(committed, job.client))
    /\ job.at \in {"delete", "insert"} => job.cmd = "create"
    /\ job.at = "update" => job.cmd = "revoke"
    /\ job.at = "print" => job.key \in issued
    /\ job.at = "commit" /\ job.cmd = "create" =>
          /\ job.key \in drawn \ issued
          /\ conn[p] = Txn("write", Rotated(committed, job.client, job.key))
    /\ job.at = "commit" /\ job.cmd = "revoke" =>
          conn[p] = Txn("write", Revoked(committed, job.client))

OneWriter == \A p, q \in Conns : Writing(p) /\ Writing(q) => p = q

\* The part of the invariant that is about the commands.
CliInv ==
    /\ IsDb(committed)
    /\ OneRowEach(committed.keys)
    /\ \A r \in committed.keys : r.key \in issued
    /\ shown \subseteq issued /\ issued \subseteq drawn /\ drawn \subseteq Keys
    /\ cli \in [Procs -> {Off} \cup Job]
    /\ conn = [q \in Conns |-> conn[q]]
    /\ \A p \in Procs : JobInv(p)
    /\ OneWriter

IInv ==
    /\ CliInv
    /\ committed \in [keys : SUBSET Row]
    /\ \A p \in Conns \ Procs : conn[p] = Idle

-----------------------------------------------------------------------------

\* What an update of the table leaves alone.
LEMMA WithRows ==
    ASSUME NEW db, IsDb(db), NEW rows \in SUBSET Row, NEW new, new = [db EXCEPT !.keys = rows]
    PROVE  /\ IsDb(new) /\ new.keys = rows /\ DOMAIN new = DOMAIN db
           /\ \A f \in DOMAIN db \ {"keys"} : new[f] = db[f]
BY DEF IsDb

\* A rotation: the client's row is the new key's, the other clients' stay.
LEMMA RotatedRows ==
    ASSUME NEW db, IsDb(db), OneRowEach(db.keys), NEW c \in Clients, NEW k \in Keys,
           \A r \in db.keys : r.key # k
    PROVE  LET new == Rotated(db, c, k)
               row == [key |-> k, client |-> c, active |-> TRUE]
           IN /\ IsDb(new) /\ DOMAIN new = DOMAIN db
              /\ \A f \in DOMAIN db \ {"keys"} : new[f] = db[f]
              /\ new.keys = {r \in db.keys : r.client # c} \cup {row}
              /\ OneRowEach(new.keys)
              /\ RowsOf(new, c) = {row}
              /\ \A d \in Clients \ {c} : RowsOf(new, d) = RowsOf(db, d)
<1> DEFINE row == [key |-> k, client |-> c, active |-> TRUE]
           rest == {r \in db.keys : r.client # c}
           new == Rotated(db, c, k)
<1>1. /\ row \in Row /\ row.client = c /\ row.key = k
      /\ rest \in SUBSET Row /\ rest \cup {row} \in SUBSET Row
  <2>1. row \in Row /\ row.client = c /\ row.key = k
    BY DEF Row
  <2>2. rest \subseteq Row
    BY DEF IsDb
  <2> HIDE DEF rest, row
  <2> QED
    BY <2>1, <2>2
<1>2. IsDb(Without(db, c)) /\ Without(db, c).keys = rest
      /\ DOMAIN Without(db, c) = DOMAIN db
      /\ \A f \in DOMAIN db \ {"keys"} : Without(db, c)[f] = db[f]
  <2>1. Without(db, c) = [db EXCEPT !.keys = rest]
    BY DEF Without
  <2> HIDE DEF rest
  <2> QED
    BY <1>1, <2>1, WithRows
<1>3. new = [Without(db, c) EXCEPT !.keys = rest \cup {row}]
  <2> HIDE DEF rest
  <2> QED
    BY <1>2 DEF Rotated, With
<1>4. /\ IsDb(new) /\ new.keys = rest \cup {row} /\ DOMAIN new = DOMAIN db
      /\ \A f \in DOMAIN db \ {"keys"} : new[f] = db[f]
  <2> HIDE DEF rest, row, new
  <2> QED
    BY <1>1, <1>2, <1>3, WithRows
<1>5. OneRowEach(rest \cup {row})
  <2> HIDE DEF row
  <2> QED
    BY <1>1 DEF OneRowEach
<1>6. /\ RowsOf(new, c) = {row}
      /\ \A d \in Clients \ {c} : RowsOf(new, d) = RowsOf(db, d)
  <2> HIDE DEF row, new
  <2> QED
    BY <1>1, <1>4 DEF RowsOf
<1> QED
  BY <1>4, <1>5, <1>6

\* A revocation: every row keeps its key and its client, none becomes active.
LEMMA RevokedRows ==
    ASSUME NEW db, IsDb(db), OneRowEach(db.keys), NEW c \in Clients
    PROVE  LET new == Revoked(db, c)
           IN /\ IsDb(new) /\ DOMAIN new = DOMAIN db
              /\ \A f \in DOMAIN db \ {"keys"} : new[f] = db[f]
              /\ OneRowEach(new.keys)
              /\ \A r \in db.keys : r.client = c =>
                    RowsOf(new, c) = {[r EXCEPT !.active = FALSE]}
              /\ RowsOf(db, c) = {} => new = db
              /\ \A d \in Clients \ {c} : RowsOf(new, d) = RowsOf(db, d)
              /\ \A s \in new.keys : \E r \in db.keys :
                    r.key = s.key /\ r.client = s.client /\ (s.active => r.active)
<1> DEFINE Off1(r) == IF r.client = c THEN [r EXCEPT !.active = FALSE] ELSE r
           rows == {Off1(r) : r \in db.keys}
           new == Revoked(db, c)
<1>1. ASSUME NEW r \in db.keys
      PROVE  /\ Off1(r) \in Row /\ Off1(r).key = r.key /\ Off1(r).client = r.client
             /\ Off1(r).active => r.active
             /\ r.client # c => Off1(r) = r
  BY DEF IsDb, Row
<1>2. new = [db EXCEPT !.keys = rows]
  BY DEF Revoked
<1>3. rows \in SUBSET Row
  BY <1>1
<1>4. /\ IsDb(new) /\ new.keys = rows /\ DOMAIN new = DOMAIN db
      /\ \A f \in DOMAIN db \ {"keys"} : new[f] = db[f]
  <2> HIDE DEF rows, new
  <2> QED
    BY <1>2, <1>3, WithRows
<1>5. OneRowEach(rows)
  <2> HIDE DEF Off1
  <2> QED
    BY <1>1 DEF OneRowEach
<1>6. ASSUME NEW r \in db.keys, r.client = c
      PROVE  RowsOf(new, c) = {[r EXCEPT !.active = FALSE]}
  <2>1. \A s \in db.keys : s.client = c => s = r
    BY <1>6 DEF OneRowEach
  <2>2. Off1(r) = [r EXCEPT !.active = FALSE]
    BY <1>6
  <2> HIDE DEF Off1, new
  <2>3. RowsOf(new, c) = {Off1(r)}
    BY <1>1, <1>4, <1>6, <2>1 DEF RowsOf
  <2> QED
    BY <2>2, <2>3
<1>7. ASSUME RowsOf(db, c) = {}
      PROVE  new = db
  <2>1. rows = db.keys
    <3>1. \A r \in db.keys : Off1(r) = r
      BY <1>1, <1>7 DEF RowsOf
    <3> HIDE DEF Off1
    <3> QED
      BY <3>1
  <2> HIDE DEF rows, new
  <2> QED
    BY <1>2, <2>1 DEF IsDb
<1>8. \A d \in Clients \ {c} : RowsOf(new, d) = RowsOf(db, d)
  <2> HIDE DEF Off1, new
  <2> QED
    BY <1>1, <1>4 DEF RowsOf
<1>9. \A s \in new.keys : \E r \in db.keys :
         r.key = s.key /\ r.client = s.client /\ (s.active => r.active)
  <2> HIDE DEF Off1, new
  <2> QED
    BY <1>1, <1>4
<1> QED
  BY <1>4, <1>5, <1>6, <1>7, <1>8, <1>9

\* A command under way is a job of its process; one that is over is Off.
LEMMA Jobs ==
    ASSUME CliInv, NEW p \in Procs
    PROVE  /\ cli[p] \in {Off} \cup Job /\ p \in Conns
           /\ cli[p] = Off <=> cli[p].at = "off"
           /\ cli[p].at \in Labels => cli[p] \in Job
           /\ cli[p] \in Job => /\ cli[p].at \in Labels
                               /\ cli[p].cmd \in {"create", "revoke"}
                               /\ cli[p].client \in Clients
                               /\ cli[p].key \in Keys \cup {NoKey}
                               /\ cli[p] = [at |-> cli[p].at, cmd |-> cli[p].cmd,
                                           client |-> cli[p].client, key |-> cli[p].key]
           /\ JobInv(p)
<1>1. cli[p] \in {Off} \cup Job /\ JobInv(p) /\ p \in Conns
  BY ProcsConnect DEF CliInv
<1>2. Off.at = "off" /\ "off" \notin Labels
  BY DEF Off, Labels
<1> QED
  BY <1>1, <1>2 DEF Job

\* A process sees the last commit, or the transaction it writes.
LEMMA ViewOf ==
    ASSUME NEW p \in Conns, NEW db
    PROVE  /\ conn[p] = Idle => View(p) = committed /\ ~Writing(p)
           /\ conn[p] = Txn("write", db) => View(p) = db /\ Writing(p)
BY DEF View, HasSnapshot, Writing, Idle, Begun, Txn

\* What another process committed or drew is no concern of a command, unless it
\* holds the write lock: then nobody commits.
LEMMA JobFrame ==
    ASSUME CliInv, NEW q \in Procs, cli'[q] = cli[q], conn'[q] = conn[q],
           issued \subseteq issued', drawn \subseteq drawn',
           Writing(q) => committed' = committed /\ issued' = issued
    PROVE  JobInv(q)'
<1>1. JobInv(q) /\ (cli[q].at = "commit" => cli[q].cmd \in {"create", "revoke"})
  BY Jobs DEF Labels
<1>2. CASE Writing(q)
  BY <1>1, <1>2 DEF JobInv
<1>3. CASE ~Writing(q)
  <2>1. cli[q].at # "commit"
    BY <1>1, <1>3 DEF JobInv, Writing, Txn
  <2>2. cli[q].at = "insert" => conn[q] = Idle
    BY <1>1, <1>3 DEF JobInv, Writing, Txn
  <2> QED
    BY <1>1, <2>1, <2>2 DEF JobInv
<1> QED
  BY <1>2, <1>3

\* A step of p that commits nothing.
LEMMA LocalStep ==
    ASSUME CliInv, NEW p \in Procs, NEW job \in {Off} \cup Job, NEW txn,
           cli' = [cli EXCEPT ![p] = job], conn' = [conn EXCEPT ![p] = txn],
           txn.mode = "write" => \A q \in Conns \ {p} : ~Writing(q),
           UNCHANGED <<committed, issued>>,
           shown' \subseteq issued, drawn \subseteq drawn', drawn' \subseteq Keys,
           JobInv(p)'
    PROVE  CliInv'
<1>1. /\ p \in Conns /\ cli' \in [Procs -> {Off} \cup Job]
      /\ conn' = [q \in Conns |-> conn'[q]] /\ conn'[p] = txn
      /\ \A q \in Conns \ {p} : conn'[q] = conn[q]
      /\ \A q \in Procs \ {p} : cli'[q] = cli[q]
  BY ProcsConnect DEF CliInv
<1>2. \A q \in Procs : JobInv(q)'
  BY <1>1, JobFrame, ProcsConnect
<1>3. OneWriter'
  BY <1>1 DEF CliInv, OneWriter, Writing
<1> QED
  BY <1>1, <1>2, <1>3 DEF CliInv

\* The end of a command by an error or a crash.
LEMMA EndStep ==
    ASSUME CliInv, NEW p \in Procs, Ends(p)
    PROVE  CliInv'
<1>1. /\ cli' = [cli EXCEPT ![p] = Off] /\ conn' = [conn EXCEPT ![p] = Idle]
      /\ UNCHANGED <<committed, drawn, issued, shown>>
      /\ Idle.mode # "write"
  BY DEF Ends, Goto, Close, Idle
<1>2. JobInv(p)'
  <2>1. cli'[p] = Off /\ conn'[p] = Idle
    BY <1>1, ProcsConnect DEF CliInv
  <2> QED
    BY <2>1 DEF JobInv, Off
<1> QED
  BY <1>1, <1>2, LocalStep DEF CliInv

\* Moving a command on to a label.
LEMMA GotoJob ==
    ASSUME CliInv, NEW p \in Procs, cli[p] \in Job, NEW label \in Labels \cup {"off"},
           Goto(p, label)
    PROVE  \E job \in {Off} \cup Job :
              /\ cli' = [cli EXCEPT ![p] = job] /\ cli'[p] = job
              /\ job.at = label
              /\ label # "off" => job = [at |-> label, cmd |-> cli[p].cmd,
                                        client |-> cli[p].client, key |-> cli[p].key]
              /\ label = "off" => job = Off
<1>1. CASE label = "off"
  <2>1. cli' = [cli EXCEPT ![p] = Off] /\ cli'[p] = Off
    BY <1>1 DEF Goto, CliInv
  <2>2. Off.at = "off"
    BY DEF Off
  <2> QED
    BY <1>1, <2>1, <2>2
<1>2. CASE label # "off"
  <2> DEFINE job == [cli[p] EXCEPT !.at = label]
  <2>1. job = [at |-> label, cmd |-> cli[p].cmd, client |-> cli[p].client, key |-> cli[p].key]
    BY DEF Job
  <2>2. job \in Job
    BY <1>2, <2>1 DEF Job
  <2> HIDE DEF job
  <2>3. cli' = [cli EXCEPT ![p] = job] /\ cli'[p] = job
    BY <1>2 DEF Goto, CliInv, job
  <2>4. job.at = label
    BY <2>1
  <2> QED
    BY <1>2, <2>1, <2>2, <2>3, <2>4
<1> QED
  BY <1>1, <1>2

\* A command opens the file: it holds no lock and has read nothing.
LEMMA StepStart ==
    ASSUME CliInv, NEW p \in Procs, Start(p)
    PROVE  CliInv'
<1>1. PICK c \in Clients, cmd \in {"create", "revoke"} :
         cli' = [cli EXCEPT ![p] = [at |-> "select", cmd |-> cmd, client |-> c, key |-> NoKey]]
  BY DEF Start
<1> DEFINE job == [at |-> "select", cmd |-> cmd, client |-> c, key |-> NoKey]
<1>2. job \in Job /\ job.at = "select"
  BY DEF Job, Labels
<1>3. conn[p] = Idle /\ cli'[p] = job
  BY <1>1, Jobs DEF Start, JobInv, Off, CliInv
<1>4. /\ conn' = [conn EXCEPT ![p] = Idle] /\ Idle.mode # "write"
      /\ UNCHANGED <<conn, committed, drawn, issued, shown>>
  BY <1>3 DEF Start, dbvars, CliInv, Idle
<1>5. JobInv(p)'
  BY <1>2, <1>3, <1>4 DEF JobInv
<1> HIDE DEF job
<1> QED
  BY <1>1, <1>2, <1>4, <1>5, LocalStep DEF CliInv, job

\* The client's row, read outside a transaction.
LEMMA StepSelectRow ==
    ASSUME CliInv, NEW p \in Procs, SelectRow(p)
    PROVE  CliInv' /\ UNCHANGED committed
<1>1. /\ cli[p].at = "select" /\ cli[p] \in Job /\ conn[p] = Idle
      /\ cli[p].cmd \in {"create", "revoke"} /\ p \in Conns
  BY Jobs DEF SelectRow, At, Labels, JobInv
<1>2. /\ conn' = [conn EXCEPT ![p] = Idle] /\ Idle.mode # "write"
      /\ UNCHANGED <<committed, drawn, issued, shown>> /\ conn'[p] = Idle
  <2>1. conn[p] # Begun /\ Idle.mode # "write"
    BY <1>1 DEF Idle, Begun
  <2>2. conn' = [conn EXCEPT ![p] = conn[p]]
    BY <2>1 DEF SelectRow, Select
  <2> QED
    BY <1>1, <2>1, <2>2 DEF SelectRow, Select, CliInv
<1>3. PICK label \in {"delete", "insert", "update", "off"} :
         /\ Goto(p, label)
         /\ label \in {"delete", "insert"} => cli[p].cmd = "create"
         /\ label = "update" => cli[p].cmd = "revoke"
  <2>1. CASE cli[p].cmd = "create" /\ RowsOf(View(p), cli[p].client) # {}
    BY <2>1 DEF SelectRow
  <2>2. CASE cli[p].cmd = "create" /\ RowsOf(View(p), cli[p].client) = {}
    BY <2>2 DEF SelectRow
  <2>3. CASE cli[p].cmd = "revoke" /\ RowsOf(View(p), cli[p].client) # {}
    BY <2>3 DEF SelectRow
  <2>4. CASE cli[p].cmd = "revoke" /\ RowsOf(View(p), cli[p].client) = {}
    BY <2>4 DEF SelectRow
  <2> QED
    BY <1>1, <2>1, <2>2, <2>3, <2>4
<1>4. PICK job \in {Off} \cup Job :
         /\ cli' = [cli EXCEPT ![p] = job] /\ cli'[p] = job /\ job.at = label
         /\ label # "off" => job.cmd = cli[p].cmd
  BY <1>1, <1>3, GotoJob DEF Labels
<1>5. JobInv(p)'
  BY <1>2, <1>3, <1>4 DEF JobInv
<1> QED
  BY <1>2, <1>4, <1>5, LocalStep DEF CliInv

\* The first statement of a rotation takes the write lock.
LEMMA StepDeleteRow ==
    ASSUME CliInv, NEW p \in Procs, DeleteRow(p)
    PROVE  CliInv' /\ UNCHANGED committed
<1>1. /\ cli[p].at = "delete" /\ cli[p] \in Job /\ conn[p] = Idle
      /\ cli[p].cmd = "create" /\ p \in Conns
  BY Jobs DEF DeleteRow, At, Labels, JobInv
<1>2. View(p) = committed
  BY <1>1, ViewOf
<1> DEFINE txn == Txn("write", Without(committed, cli[p].client))
<1>3. /\ conn' = [conn EXCEPT ![p] = txn] /\ \A q \in Conns \ {p} : ~Writing(q)
      /\ UNCHANGED <<committed, drawn, issued, shown>> /\ conn'[p] = txn
  BY <1>1, <1>2 DEF DeleteRow, Write, MayWrite, CliInv
<1>4. PICK job \in {Off} \cup Job :
         /\ cli' = [cli EXCEPT ![p] = job] /\ cli'[p] = job /\ job.at = "insert"
         /\ job.cmd = "create" /\ job.client = cli[p].client
  <2>1. Goto(p, "insert") /\ "insert" \in Labels
    BY DEF DeleteRow, Labels
  <2> QED
    BY <1>1, <2>1, GotoJob
<1>5. JobInv(p)'
  BY <1>3, <1>4 DEF JobInv
<1> HIDE DEF txn
<1> QED
  BY <1>3, <1>4, <1>5, LocalStep DEF CliInv

\* The row of the key just drawn takes the place of the client's old row, which
\* this transaction deleted or which was not there.
LEMMA StepInsertRow ==
    ASSUME CliInv, NEW p \in Procs, InsertRow(p)
    PROVE  CliInv' /\ UNCHANGED committed
<1>1. /\ cli[p].at = "insert" /\ cli[p] \in Job /\ p \in Conns /\ JobInv(p)
      /\ cli[p].cmd = "create"
  BY Jobs DEF InsertRow, At, Labels, JobInv
<1> DEFINE c == cli[p].client
<1>2. PICK k \in Keys \ drawn :
         /\ Write(p, With(View(p), [key |-> k, client |-> c, active |-> TRUE]))
         /\ cli' = [cli EXCEPT ![p].key = k, ![p].at = "commit"]
         /\ drawn' = drawn \cup {k}
  BY DEF InsertRow
<1>3. View(p) = Without(committed, c)
  <2>1. CASE conn[p] = Idle
    <3>1. View(p) = committed /\ RowsOf(committed, c) = {}
      BY <1>1, <2>1, ViewOf DEF InsertRow, UniqueAllows
    <3>2. {r \in committed.keys : r.client # c} = committed.keys
      BY <3>1 DEF RowsOf
    <3> QED
      BY <3>1, <3>2 DEF Without, CliInv, IsDb
  <2>2. CASE conn[p] = Txn("write", Without(committed, c))
    BY <1>1, <2>2, ViewOf
  <2> QED
    BY <1>1, <2>1, <2>2 DEF JobInv
<1> DEFINE txn == Txn("write", Rotated(committed, c, k))
           job == [at |-> "commit", cmd |-> "create", client |-> c, key |-> k]
<1>4. /\ conn' = [conn EXCEPT ![p] = txn] /\ \A q \in Conns \ {p} : ~Writing(q)
      /\ UNCHANGED <<committed, issued, shown>> /\ conn'[p] = txn
  BY <1>1, <1>2, <1>3 DEF InsertRow, Write, MayWrite, CliInv, Rotated
<1>5. job \in Job
  BY <1>1 DEF Job, Labels
<1>6. cli' = [cli EXCEPT ![p] = job] /\ cli'[p] = job
  <2>1. cli[p] = [at |-> "insert", cmd |-> "create", client |-> c, key |-> cli[p].key]
    BY <1>1, Jobs
  <2>2. [[cli[p] EXCEPT !.key = k] EXCEPT !.at = "commit"] = job
    <3>1. [cli[p] EXCEPT !.key = k]
             = [at |-> "insert", cmd |-> "create", client |-> c, key |-> k]
      BY <2>1
    <3>2. [[at |-> "insert", cmd |-> "create", client |-> c, key |-> k] EXCEPT !.at = "commit"]
             = job
      OBVIOUS
    <3> QED
      BY <3>1, <3>2, Zenon
  <2>3. cli' = [cli EXCEPT ![p] = [[cli[p] EXCEPT !.key = k] EXCEPT !.at = "commit"]]
    BY <1>2 DEF CliInv
  <2> HIDE DEF job
  <2> QED
    BY <2>2, <2>3 DEF CliInv
<1>7. JobInv(p)'
  <2>1. k \in drawn' \ issued'
    BY <1>2, <1>4 DEF CliInv
  <2>2. /\ cli'[p].at = "commit" /\ cli'[p].cmd = "create" /\ cli'[p].client = c
        /\ cli'[p].key = k
    BY <1>6
  <2> QED
    BY <1>4, <2>1, <2>2 DEF JobInv
<1> HIDE DEF txn, job
<1> QED
  BY <1>2, <1>4, <1>5, <1>6, <1>7, LocalStep DEF CliInv

\* A revocation marks the row of its client.
LEMMA StepUpdateRow ==
    ASSUME CliInv, NEW p \in Procs, UpdateRow(p)
    PROVE  CliInv' /\ UNCHANGED committed
<1>1. /\ cli[p].at = "update" /\ cli[p] \in Job /\ conn[p] = Idle
      /\ cli[p].cmd = "revoke" /\ p \in Conns
  BY Jobs DEF UpdateRow, At, Labels, JobInv
<1>2. View(p) = committed
  BY <1>1, ViewOf
<1> DEFINE txn == Txn("write", Revoked(committed, cli[p].client))
<1>3. /\ conn' = [conn EXCEPT ![p] = txn] /\ \A q \in Conns \ {p} : ~Writing(q)
      /\ UNCHANGED <<committed, drawn, issued, shown>> /\ conn'[p] = txn
  BY <1>1, <1>2 DEF UpdateRow, Write, MayWrite, CliInv
<1>4. PICK job \in {Off} \cup Job :
         /\ cli' = [cli EXCEPT ![p] = job] /\ cli'[p] = job /\ job.at = "commit"
         /\ job.cmd = "revoke" /\ job.client = cli[p].client
  <2>1. Goto(p, "commit") /\ "commit" \in Labels
    BY DEF UpdateRow, Labels
  <2> QED
    BY <1>1, <2>1, GotoJob
<1>5. JobInv(p)'
  BY <1>3, <1>4 DEF JobInv
<1> HIDE DEF txn
<1> QED
  BY <1>3, <1>4, <1>5, LocalStep DEF CliInv

\* Printing the key follows the commit and changes no row.
LEMMA StepPrintKey ==
    ASSUME CliInv, NEW p \in Procs, PrintKey(p)
    PROVE  CliInv' /\ UNCHANGED committed
<1>1. /\ cli[p].at = "print" /\ cli[p] \in Job /\ conn[p] = Idle
      /\ cli[p].key \in issued /\ p \in Conns
  BY Jobs DEF PrintKey, At, Labels, JobInv
<1>2. /\ conn' = [conn EXCEPT ![p] = Idle] /\ Idle.mode # "write" /\ conn'[p] = Idle
      /\ UNCHANGED <<committed, drawn, issued>> /\ shown' \subseteq issued
  BY <1>1 DEF PrintKey, dbvars, CliInv, Idle
<1>3. cli' = [cli EXCEPT ![p] = Off] /\ cli'[p] = Off
  BY DEF PrintKey, Goto, CliInv
<1>4. JobInv(p)'
  BY <1>2, <1>3 DEF JobInv, Off
<1> QED
  BY <1>2, <1>3, <1>4, LocalStep DEF CliInv

\* Only a create's commit and a revoke's change the table.
Rotates(p) ==
    /\ cli[p].client \in Clients
    /\ cli[p].key \in Keys \ issued
    /\ committed' = Rotated(committed, cli[p].client, cli[p].key)
    /\ issued' = issued \cup {cli[p].key}

Revokes(p) ==
    /\ cli[p].client \in Clients
    /\ committed' = Revoked(committed, cli[p].client)
    /\ issued' = issued

\* What a command commits is what its job says of the table as it is.
LEMMA StepCommitJob ==
    ASSUME CliInv, NEW p \in Procs, CommitJob(p)
    PROVE  CliInv' /\ Writing(p) /\ (Rotates(p) \/ Revokes(p))
<1> DEFINE c == cli[p].client
           k == cli[p].key
<1>1. /\ cli[p].at = "commit" /\ cli[p] \in Job /\ p \in Conns /\ JobInv(p)
      /\ cli[p].cmd \in {"create", "revoke"} /\ c \in Clients
      /\ k \in Keys \cup {NoKey}
  BY Jobs DEF CommitJob, At, Labels
<1>2. /\ Commit(p)
      /\ issued' = IF cli[p].cmd = "create" THEN issued \cup {k} ELSE issued
      /\ Goto(p, IF cli[p].cmd = "create" THEN "print" ELSE "off")
      /\ UNCHANGED <<drawn, shown>>
  BY DEF CommitJob
<1>3. /\ Writing(p)
      /\ \/ cli[p].cmd = "create" /\ Rotates(p)
         \/ cli[p].cmd = "revoke" /\ Revokes(p)
  <2>1. CASE cli[p].cmd = "create"
    <3>1. k \in drawn \ issued /\ conn[p] = Txn("write", Rotated(committed, c, k))
      BY <1>1, <2>1 DEF JobInv
    <3>2. Writing(p) /\ conn[p].view = Rotated(committed, c, k)
      BY <3>1 DEF Writing, Txn
    <3>3. k \in Keys
      BY <3>1 DEF CliInv
    <3> QED
      BY <1>1, <1>2, <2>1, <3>1, <3>2, <3>3 DEF Commit, Rotates
  <2>2. CASE cli[p].cmd = "revoke"
    <3>1. conn[p] = Txn("write", Revoked(committed, c))
      BY <1>1, <2>2 DEF JobInv
    <3>2. Writing(p) /\ conn[p].view = Revoked(committed, c)
      BY <3>1 DEF Writing, Txn
    <3> QED
      BY <1>1, <1>2, <2>2, <3>2 DEF Commit, Revokes
  <2> QED
    BY <1>1, <2>1, <2>2
<1>4. /\ IsDb(committed') /\ OneRowEach(committed'.keys)
      /\ \A r \in committed'.keys : r.key \in issued'
      /\ issued \subseteq issued' /\ issued' \subseteq drawn
  <2>1. CASE cli[p].cmd = "create"
    <3>1. Rotates(p) /\ \A r \in committed.keys : r.key # k
      BY <1>3, <2>1 DEF Rotates, CliInv
    <3>2. /\ IsDb(committed') /\ OneRowEach(committed'.keys)
          /\ committed'.keys = {r \in committed.keys : r.client # c}
                                 \cup {[key |-> k, client |-> c, active |-> TRUE]}
      BY <1>1, <3>1, RotatedRows DEF Rotates, CliInv
    <3>3. k \in drawn
      BY <1>1, <2>1 DEF JobInv
    <3> QED
      BY <3>1, <3>2, <3>3 DEF Rotates, CliInv
  <2>2. CASE cli[p].cmd = "revoke"
    <3>1. Revokes(p)
      BY <1>3, <2>2
    <3> QED
      BY <1>1, <3>1, RevokedRows DEF Revokes, CliInv
  <2> QED
    BY <1>1, <2>1, <2>2
<1>5. PICK job \in {Off} \cup Job :
         /\ cli' = [cli EXCEPT ![p] = job] /\ cli'[p] = job
         /\ job.at = IF cli[p].cmd = "create" THEN "print" ELSE "off"
         /\ cli[p].cmd = "create" => job.key = k
  BY <1>1, <1>2, GotoJob DEF Labels
<1>6. /\ cli' \in [Procs -> {Off} \cup Job]
      /\ conn' = [q \in Conns |-> conn'[q]] /\ conn'[p] = Idle
      /\ \A q \in Procs \ {p} : cli'[q] = cli[q]
  BY <1>1, <1>2, <1>5 DEF Commit, CliInv
<1>7. \A q \in Conns : ~Writing(q)'
  BY <1>1, <1>2, <1>3 DEF Commit, Writing, Idle, Txn, CliInv, OneWriter
<1>8. ASSUME NEW q \in Procs
      PROVE  JobInv(q)'
  <2>1. CASE q = p
    <3>1. cli[p].cmd = "create" => k \in issued'
      BY <1>2
    <3> QED
      BY <1>5, <1>6, <2>1, <3>1 DEF JobInv
  <2>2. CASE q # p
    <3>1. q \in Conns /\ ~Writing(q)
      BY <1>1, <1>3, <2>2, ProcsConnect DEF CliInv, OneWriter
    <3>2. conn[q] = Idle
      <4>1. JobInv(q) /\ (cli[q].at = "commit" => cli[q].cmd \in {"create", "revoke"})
        BY Jobs DEF Labels
      <4> QED
        BY <3>1, <4>1 DEF JobInv, Writing, Txn
    <3>3. conn'[q] = conn[q]
      BY <1>2, <2>2, <3>1, <3>2 DEF Commit, Idle
    <3> QED
      BY <1>2, <1>4, <1>6, <2>2, <3>1, <3>3, JobFrame
  <2> QED
    BY <2>1, <2>2
<1> QED
  BY <1>2, <1>3, <1>4, <1>6, <1>7, <1>8 DEF CliInv, OneWriter

\* What any step of the commands does: the invariant is kept, and the table
\* changes only by the commit of a create or a revoke.
LEMMA CliSteps ==
    ASSUME CliInv, CliNext
    PROVE  /\ CliInv'
           /\ \/ UNCHANGED <<committed, issued>>
              \/ \E p \in Procs : Writing(p) /\ (Rotates(p) \/ Revokes(p)) /\ UNCHANGED shown
<1>1. PICK p \in Procs : Start(p) \/ CliStep(p) \/ Crash(p)
  BY DEF CliNext
<1>2. CASE Start(p)
  BY <1>2, StepStart DEF Start, dbvars
<1>3. CASE SelectRow(p)
  BY <1>3, StepSelectRow DEF SelectRow
<1>4. CASE DeleteRow(p)
  BY <1>4, StepDeleteRow DEF DeleteRow
<1>5. CASE InsertRow(p)
  BY <1>5, StepInsertRow DEF InsertRow
<1>6. CASE UpdateRow(p)
  BY <1>6, StepUpdateRow DEF UpdateRow
<1>7. CASE CommitJob(p)
  BY <1>7, StepCommitJob DEF CommitJob
<1>8. CASE PrintKey(p)
  BY <1>8, StepPrintKey DEF PrintKey
<1>9. CASE LockTimeout(p) \/ UniqueViolation(p) \/ Crash(p)
  BY <1>9, EndStep DEF LockTimeout, UniqueViolation, Crash, Ends, Close
<1> QED
  BY <1>1, <1>2, <1>3, <1>4, <1>5, <1>6, <1>7, <1>8, <1>9 DEF CliStep

\* The other processes: a reader may find its snapshot outdated, nothing else.
LEMMA OthersConn ==
    ASSUME CliInv, CliNext, NEW q \in Conns \ Procs, conn[q] = Idle
    PROVE  conn'[q] = Idle
<1>1. PICK p \in Procs : Start(p) \/ CliStep(p) \/ Crash(p)
  BY DEF CliNext
<1>2. p # q /\ Idle.mode # "read" /\ Idle # Begun /\ conn = [r \in Conns |-> conn[r]]
  BY DEF Idle, Begun, CliInv
<1>3. CASE Start(p) \/ PrintKey(p)
  BY <1>3 DEF Start, PrintKey, dbvars
<1>4. CASE SelectRow(p)
  BY <1>2, <1>4 DEF SelectRow, Select
<1>5. CASE DeleteRow(p) \/ InsertRow(p) \/ UpdateRow(p)
  BY <1>2, <1>5 DEF DeleteRow, InsertRow, UpdateRow, Write
<1>6. CASE CommitJob(p)
  BY <1>2, <1>6 DEF CommitJob, Commit
<1>7. CASE LockTimeout(p) \/ UniqueViolation(p) \/ Crash(p)
  BY <1>2, <1>7 DEF LockTimeout, UniqueViolation, Crash, Ends, Close
<1> QED
  BY <1>1, <1>3, <1>4, <1>5, <1>6, <1>7 DEF CliStep

\* No key, no command.
LEMMA InitIInv == Init => IInv
<1> SUFFICES ASSUME Init PROVE IInv
  OBVIOUS
<1>1. committed = [keys |-> {}] /\ conn = [p \in Conns |-> Idle] /\ cli = [p \in Procs |-> Off]
      /\ drawn = {} /\ issued = {} /\ shown = {}
  BY DEF Init, DbInit, CliInit
<1>2. IsDb(committed) /\ OneRowEach(committed.keys) /\ committed \in [keys : SUBSET Row]
  BY <1>1 DEF IsDb, OneRowEach
<1>3. \A p \in Procs : JobInv(p)
  BY <1>1, ProcsConnect DEF JobInv, Off
<1>4. OneWriter
  BY <1>1 DEF OneWriter, Writing, Idle
<1> QED
  BY <1>1, <1>2, <1>3, <1>4 DEF IInv, CliInv

\* With an unchanged state every part of the invariant is unchanged.
LEMMA StutterCliInv ==
    ASSUME CliInv, UNCHANGED <<dbvars, clivars>>
    PROVE  CliInv'
<1>1. /\ committed' = committed /\ conn' = conn /\ cli' = cli /\ drawn' = drawn
      /\ issued' = issued /\ shown' = shown
  BY DEF dbvars, clivars
<1>2. \A p \in Procs : JobInv(p)'
  BY <1>1, JobFrame
<1>3. OneWriter'
  BY <1>1 DEF CliInv, OneWriter, Writing
<1> QED
  BY <1>1, <1>2, <1>3 DEF CliInv

\* The invariant holds in every reachable state.
LEMMA Inductive == Spec => []IInv
<1>1. ASSUME IInv, [CliNext]_vars
      PROVE  IInv'
  <2>1. CASE UNCHANGED vars
    BY <1>1, <2>1, StutterCliInv DEF IInv, vars, dbvars, clivars
  <2>2. CASE CliNext
    <3>1. CliInv' /\ \A q \in Conns \ Procs : conn'[q] = Idle
      BY <1>1, <2>2, CliSteps, OthersConn DEF IInv
    <3>2. committed' \in [keys : SUBSET Row]
      <4>1. DOMAIN committed' = DOMAIN committed
        BY <1>1, <2>2, CliSteps, RotatedRows, RevokedRows DEF IInv, CliInv, Rotates, Revokes
      <4> QED
        BY <1>1, <3>1, <4>1 DEF IInv, CliInv, IsDb
    <3> QED
      BY <3>1, <3>2 DEF IInv
  <2> QED
    BY <1>1, <2>1, <2>2
<1> QED
  BY <1>1, InitIInv, PTL DEF Spec

-----------------------------------------------------------------------------

\* Type correctness, for every set of processes, clients and keys.
THEOREM TypeCorrect == Spec => []TypeOK
<1>1. ASSUME IInv
      PROVE  TypeOK
  <2> DEFINE D == [keys : SUBSET Row]
  <2>1. ASSUME NEW q \in Conns
        PROVE  conn[q] \in Transactions(D)
    <3>1. CASE conn[q] = Idle
      BY <3>1 DEF Transactions
    <3>2. ASSUME NEW db \in D, conn[q] = Txn("write", db)
          PROVE  conn[q] \in Transactions(D)
      BY <3>2 DEF Transactions, Txn
    <3>3. CASE q \in Procs /\ conn[q] # Idle
      <4> DEFINE c == cli[q].client
                 k == cli[q].key
      <4>1. JobInv(q) /\ cli[q].at \in {"insert", "commit"} /\ cli[q] \in Job
            /\ c \in Clients /\ k \in Keys \cup {NoKey} /\ cli[q].cmd \in {"create", "revoke"}
        BY <1>1, <3>3, Jobs DEF IInv, JobInv, Labels
      <4>2. /\ Without(committed, c) \in D /\ Revoked(committed, c) \in D
            /\ k \in Keys => Rotated(committed, c, k) \in D
        <5>1. committed \in D /\ committed.keys \in SUBSET Row
          BY <1>1 DEF IInv
        <5>2. Without(committed, c) \in D
          BY <5>1 DEF Without
        <5>3. ASSUME k \in Keys
              PROVE  Rotated(committed, c, k) \in D
          <6>1. [key |-> k, client |-> c, active |-> TRUE] \in Row
            BY <4>1, <5>3 DEF Row
          <6> QED
            BY <5>2, <6>1 DEF Rotated, With
        <5>4. Revoked(committed, c) \in D
          <6>1. \A r \in committed.keys : [r EXCEPT !.active = FALSE] \in Row /\ r \in Row
            BY <5>1 DEF Row
          <6> QED
            BY <5>1, <6>1 DEF Revoked
        <5> QED
          BY <5>2, <5>3, <5>4
      <4>3. cli[q].at = "commit" /\ cli[q].cmd = "create" => k \in Keys
        BY <1>1, <4>1 DEF IInv, CliInv, JobInv
      <4> HIDE DEF D, c, k
      <4> QED
        BY <3>2, <3>3, <4>1, <4>2, <4>3 DEF JobInv, c, k
    <3> QED
      BY <1>1, <3>1, <3>3 DEF IInv
  <2>2. conn \in [Conns -> Transactions(D)]
    <3> HIDE DEF D
    <3> QED
      BY <1>1, <2>1 DEF IInv, CliInv
  <2> QED
    BY <1>1, <2>2 DEF IInv, CliInv, TypeOK
<1> QED
  BY <1>1, Inductive, PTL

\* No step leaves a client that has a key without one.
LEMMA StepKeepsRow ==
    ASSUME CliInv, CliNext, NEW c \in Clients, RowsOf(committed, c) # {}
    PROVE  RowsOf(committed', c) # {}
<1>1. CASE UNCHANGED committed
  BY <1>1
<1>2. ASSUME NEW p \in Procs, Rotates(p)
      PROVE  RowsOf(committed', c) # {}
  <2> DEFINE d == cli[p].client
             k == cli[p].key
  <2>1. \A r \in committed.keys : r.key # k
    BY <1>2 DEF Rotates, CliInv
  <2>2. /\ RowsOf(committed', d) = {[key |-> k, client |-> d, active |-> TRUE]}
        /\ \A e \in Clients \ {d} : RowsOf(committed', e) = RowsOf(committed, e)
    BY <1>2, <2>1, RotatedRows DEF Rotates, CliInv
  <2> QED
    BY <2>2
<1>3. ASSUME NEW p \in Procs, Revokes(p)
      PROVE  RowsOf(committed', c) # {}
  <2> DEFINE d == cli[p].client
  <2>1. PICK r \in committed.keys : r.client = c
    BY DEF RowsOf
  <2>2. /\ r.client = d => RowsOf(committed', d) = {[r EXCEPT !.active = FALSE]}
        /\ \A e \in Clients \ {d} : RowsOf(committed', e) = RowsOf(committed, e)
    BY <1>3, <2>1, RevokedRows DEF Revokes, CliInv
  <2> QED
    BY <2>1, <2>2
<1> QED
  BY <1>1, <1>2, <1>3, CliSteps

\* A create installs a key that never was in the table, a revoke activates none.
LEMMA StepKeepsDead ==
    ASSUME CliInv, CliNext, NEW k \in issued,
           \A r \in committed.keys : r.key = k => ~r.active
    PROVE  \A r \in committed'.keys : r.key = k => ~r.active
<1>1. CASE UNCHANGED committed
  BY <1>1
<1>2. ASSUME NEW p \in Procs, Rotates(p)
      PROVE  \A r \in committed'.keys : r.key = k => ~r.active
  <2>1. \A r \in committed.keys : r.key # cli[p].key
    BY <1>2 DEF Rotates, CliInv
  <2>2. committed'.keys = {r \in committed.keys : r.client # cli[p].client}
            \cup {[key |-> cli[p].key, client |-> cli[p].client, active |-> TRUE]}
    BY <1>2, <2>1, RotatedRows DEF Rotates, CliInv
  <2> QED
    BY <1>2, <2>2 DEF Rotates
<1>3. ASSUME NEW p \in Procs, Revokes(p)
      PROVE  \A r \in committed'.keys : r.key = k => ~r.active
  BY <1>3, RevokedRows DEF Revokes, CliInv
<1> QED
  BY <1>1, <1>2, <1>3, CliSteps

\* Rotation never leaves a client without a key (create_key), in whatever order
\* any number of commands run, fail and die.
THEOREM ClientAlwaysKeepsRow == Spec => ClientKeepsRow
<1>1. IInv /\ [CliNext]_vars =>
        [\A c \in Clients : RowsOf(committed, c) # {} => RowsOf(committed', c) # {}]_vars
  BY StepKeepsRow DEF IInv
<1> QED
  BY <1>1, Inductive, PTL DEF Spec, ClientKeepsRow

\* A revoked or replaced key never works again (revoke_key, create_key).
THEOREM DeadKeysAlwaysStayDead == Spec => DeadKeysStayDead
<1>1. IInv /\ [CliNext]_vars =>
        [\A k \in issued :
            (\A r \in committed.keys : r.key = k => ~r.active)
            => (\A r \in committed'.keys : r.key = k => ~r.active)]_vars
  BY StepKeepsDead DEF IInv
<1> QED
  BY <1>1, Inductive, PTL DEF Spec, DeadKeysStayDead

-----------------------------------------------------------------------------

\* A create's commit is the registry's Create.
LEMMA RotatesIsCreate ==
    ASSUME CliInv, NEW c \in Clients, NEW k \in Keys \ issued,
           committed' = Rotated(committed, c, k), issued' = issued \cup {k}, UNCHANGED shown
    PROVE  Registry!Create(c)
<1>1. \A r \in committed.keys : r.key # k
  BY DEF CliInv
<1>2. /\ RowsOf(committed', c) = {[key |-> k, client |-> c, active |-> TRUE]}
      /\ \A d \in Clients \ {c} : RowsOf(committed', d) = RowsOf(committed, d)
  BY <1>1, RotatedRows DEF CliInv
<1> DEFINE row == [key |-> k, client |-> c, active |-> TRUE]
<1>3. RowOf(c)' = row /\ HasRow(c)' /\ row.key = k /\ row.active = TRUE
  <2>1. RowOf(c)' = row
    BY <1>2 DEF RowOf
  <2> QED
    BY <1>2, <2>1 DEF HasRow
<1>4. \A d \in Clients \ {c} : RowOf(d)' = RowOf(d) /\ (HasRow(d)' <=> HasRow(d))
  BY <1>2 DEF RowOf, HasRow
<1> DEFINE K == [d \in Clients |-> IF HasRow(d) THEN RowOf(d).key ELSE NoKey]
           A == [d \in Clients |-> HasRow(d) /\ RowOf(d).active]
<1>5. K' = [K EXCEPT ![c] = k]
  <2>1. \A d \in Clients : (IF HasRow(d)' THEN RowOf(d)'.key ELSE NoKey) =
                          IF d = c THEN k ELSE K[d]
    <3> HIDE DEF row
    <3> QED
      BY <1>3, <1>4
  <2> QED
    BY <1>1, <2>1
<1>6. A' = [A EXCEPT ![c] = TRUE]
  <2>1. \A d \in Clients : (HasRow(d)' /\ RowOf(d)'.active) =
                          IF d = c THEN TRUE ELSE HasRow(d) /\ RowOf(d).active
    <3> HIDE DEF row
    <3> QED
      BY <1>3, <1>4
  <2> QED
    BY <1>1, <2>1
<1> QED
  BY <1>1, <1>5, <1>6 DEF Registry!Create

\* A revoke's commit is the registry's Revoke, or nothing when the client has
\* no row.
LEMMA RevokesIsRevoke ==
    ASSUME CliInv, NEW c \in Clients,
           committed' = Revoked(committed, c), UNCHANGED <<issued, shown>>
    PROVE  [Registry!Next]_Registry!vars
<1>2. CASE RowsOf(committed, c) = {}
  <2>1. committed' = committed
    BY <1>2, RevokedRows DEF CliInv
  <2> QED
    BY <2>1 DEF Registry!vars, HasRow, RowOf
<1>3. CASE RowsOf(committed, c) # {}
  <2>1. PICK r \in committed.keys : r.client = c
    BY <1>3 DEF RowsOf
  <2>2. RowsOf(committed, c) = {r} /\ r \in Row
    BY <2>1 DEF RowsOf, CliInv, OneRowEach, IsDb
  <2>3. /\ RowsOf(committed', c) = {[r EXCEPT !.active = FALSE]}
        /\ \A d \in Clients \ {c} : RowsOf(committed', d) = RowsOf(committed, d)
    BY <2>1, RevokedRows DEF CliInv
  <2>4. /\ RowOf(c) = r /\ HasRow(c)
        /\ RowOf(c)' = [r EXCEPT !.active = FALSE] /\ HasRow(c)'
    <3>1. RowOf(c)' = [r EXCEPT !.active = FALSE]
      BY <2>3 DEF RowOf
    <3>2. RowOf(c) = r
      BY <2>2 DEF RowOf
    <3> QED
      BY <2>2, <2>3, <3>1, <3>2 DEF HasRow
  <2>5. RowOf(c)'.key = r.key /\ RowOf(c)'.active = FALSE /\ r.key \in Keys
    BY <2>2, <2>4 DEF Row
  <2>6. \A d \in Clients \ {c} : RowOf(d)' = RowOf(d) /\ (HasRow(d)' <=> HasRow(d))
    BY <2>3 DEF RowOf, HasRow
  <2> DEFINE K == [d \in Clients |-> IF HasRow(d) THEN RowOf(d).key ELSE NoKey]
             A == [d \in Clients |-> HasRow(d) /\ RowOf(d).active]
  <2>7. K' = K /\ K[c] # NoKey
    <3>1. \A d \in Clients : (IF HasRow(d)' THEN RowOf(d)'.key ELSE NoKey) = K[d]
      BY <2>4, <2>5, <2>6
    <3> QED
      BY <2>4, <2>5, <3>1, NoKeyIsNoKey
  <2>8. A' = [A EXCEPT ![c] = FALSE]
    <3>1. \A d \in Clients : (HasRow(d)' /\ RowOf(d)'.active) =
                            IF d = c THEN FALSE ELSE HasRow(d) /\ RowOf(d).active
      <4>1. \A d \in Clients \ {c} : (HasRow(d)' /\ RowOf(d)'.active) =
                                     (HasRow(d) /\ RowOf(d).active)
        BY <2>6
      <4>2. (HasRow(c)' /\ RowOf(c)'.active) = FALSE
        BY <2>5, Zenon
      <4> QED
        BY <4>1, <4>2
    <3> QED
      BY <3>1
  <2>9. Registry!Revoke(c)
    BY <2>7, <2>8 DEF Registry!Revoke
  <2> QED
    BY <2>9 DEF Registry!Next
<1> QED
  BY <1>2, <1>3

\* Every step of the commands is one of the registry, or a stutter.
LEMMA StepSimulates ==
    ASSUME CliInv, [CliNext]_vars
    PROVE  [Registry!Next]_Registry!vars
<1>1. CASE UNCHANGED vars
  BY <1>1 DEF vars, dbvars, clivars, Registry!vars, HasRow, RowOf
<1>2. CASE CliNext
  <2>1. ASSUME NEW p \in Procs, Rotates(p), UNCHANGED shown
        PROVE  [Registry!Next]_Registry!vars
    BY <2>1, RotatesIsCreate DEF Registry!Next, Rotates
  <2>2. ASSUME NEW p \in Procs, Revokes(p), UNCHANGED shown
        PROVE  [Registry!Next]_Registry!vars
    BY <2>2, RevokesIsRevoke DEF Revokes
  <2>3. ASSUME NEW p \in Procs, PrintKey(p)
        PROVE  [Registry!Next]_Registry!vars
    <3>1. cli[p].key \in issued /\ issued \subseteq Keys
      BY <2>3, Jobs DEF PrintKey, At, JobInv, CliInv
    <3>2. committed' = committed /\ issued' = issued
      BY <2>3 DEF PrintKey, dbvars
    <3>3. Registry!Show(cli[p].key)
      BY <2>3, <3>1, <3>2 DEF Registry!Show, PrintKey, HasRow, RowOf
    <3> QED
      BY <3>1, <3>3 DEF Registry!Next
  <2>4. (\E p \in Procs : PrintKey(p)) \/ UNCHANGED shown
    BY <1>2 DEF CliNext, CliStep, Start, SelectRow, DeleteRow, InsertRow, UpdateRow, CommitJob,
                LockTimeout, UniqueViolation, Crash, Ends
  <2>5. CASE UNCHANGED <<committed, issued, shown>>
    BY <2>5 DEF Registry!vars, HasRow, RowOf
  <2> QED
    BY <1>2, <2>1, <2>2, <2>3, <2>4, <2>5, CliSteps
<1> QED
  BY <1>1, <1>2

\* manage_keys, statement by statement under races, crashes, lock timeouts and
\* violations of UNIQUE, implements a registry whose operations are one step
\* each (KeyRegistry).
THEOREM Refinement == Spec => ImplementsRegistry
<1>1. Init => Registry!Init
  <2> SUFFICES ASSUME Init PROVE Registry!Init
    OBVIOUS
  <2>1. \A c \in Clients : ~HasRow(c)
    BY DEF Init, DbInit, HasRow, RowsOf
  <2>2. \A c \in Clients : (HasRow(c) /\ RowOf(c).active) = FALSE
    BY <2>1, Zenon
  <2> QED
    BY <2>1, <2>2 DEF Init, CliInit, Registry!Init
<1>2. IInv /\ [CliNext]_vars => [Registry!Next]_Registry!vars
  BY StepSimulates DEF IInv
<1> QED
  BY <1>1, <1>2, Inductive, PTL DEF Spec, ImplementsRegistry, Registry!Spec
====
