---- MODULE KeyMigrationProofs ----
(***************************************************************************)
(* Proofs about KeyMigration, for every set of processes and clients and    *)
(* every table an older release may have left.                              *)
(*                                                                          *)
(* AllOrNothing and NewestValidKeySurvives say what is committed; that they *)
(* survive a commit needs what the one writer has done so far (Done), and   *)
(* that nobody else commits in between (OneWriter).                         *)
(***************************************************************************)
EXTENDS KeyMigration, Integers, TLAPS

\* The labels at which a process holds the write lock.
Locked == {"dropOlder", "rename", "recreate", "copy", "dropOld", "commit", "insertCommit"}

Valid(rows) == {r \in rows : r.valid}

Migrated(rows) == Newest(Valid(rows))

\* create_key's rows: the newest of all for c, the others as they were.
WithKey(rows, c, n) ==
    {r \in rows : r.client # c} \cup {[client |-> c, seq |-> n, valid |-> TRUE]}

NewSeq(n) == \A r \in before \cup created \cup committed.rows : r.seq < n

\* What a writer that is about to run the statement at label has in its view.
Done(label, view) ==
    /\ view \in Data
    /\ label = "dropOlder" =>
          view = [schema |-> committed.schema, rows |-> Valid(committed.rows), old |-> {}]
    /\ label = "rename" =>
          view = [schema |-> committed.schema, rows |-> Migrated(committed.rows), old |-> {}]
    /\ label = "recreate" =>
          view = [schema |-> "none", rows |-> {}, old |-> Migrated(committed.rows)]
    /\ label = "copy" =>
          view = [schema |-> "current", rows |-> {}, old |-> Migrated(committed.rows)]
    /\ label = "dropOld" =>
          view = [schema |-> "current", rows |-> Migrated(committed.rows),
                  old |-> Migrated(committed.rows)]
    /\ label = "commit" =>
          view = [schema |-> "current", rows |-> Migrated(committed.rows), old |-> {}]
    /\ label = "insertCommit" =>
          /\ committed.schema = "current"
          /\ \E c \in Clients, n \in 1 .. MaxSeq :
                /\ NewSeq(n)
                /\ view = [schema |-> "current", rows |-> WithKey(committed.rows, c, n),
                           old |-> {}]

\* A transaction is a writer's or none, and has done what its label says.
Working(p) ==
    /\ at[p] \in Locked => conn[p] = Txn("write", conn[p].view) /\ Done(at[p], conn[p].view)
    /\ at[p] \notin Locked => conn[p] = Idle
    /\ at[p] = "open" => committed.schema = "current"

OneWriter == \A p, q \in Conns : at[p] \in Locked /\ at[q] \in Locked => p = q

\* Keys are created in the migrated table only, and satisfy the constraints.
History ==
    /\ \A r \in created : r.valid
    /\ committed.schema = "legacy" => created = {}

IInv ==
    /\ committed \in Data
    /\ at \in [Conns -> Labels]
    /\ conn = [q \in Conns |-> conn[q]]
    /\ before \in Legacy
    /\ created \in Tables
    /\ \A p \in Conns : Working(p)
    /\ OneWriter
    /\ History
    /\ AllOrNothing
    /\ NewestValidKeySurvives

-----------------------------------------------------------------------------

\* Migrating a table takes rows of it; migrating it again changes nothing.
LEMMA MigratedOnce ==
    ASSUME NEW t \in Tables
    PROVE  /\ Valid(t) \in Tables
           /\ Migrated(t) \in Tables
           /\ Migrated(Migrated(t)) = Migrated(t)
           /\ Newest(Migrated(t)) = Migrated(t)
BY DEF Migrated, Newest, Valid, Tables

\* A newer key replaces the client's row among the newest of each client.
LEMMA NewestWithKey ==
    ASSUME NEW t \in Tables, NEW c \in Clients, NEW n \in 1 .. MaxSeq,
           \A r \in t : r.seq < n
    PROVE  /\ WithKey(t, c, n) \in Tables
           /\ Newest(Valid(t \cup {[client |-> c, seq |-> n, valid |-> TRUE]}))
                = WithKey(Migrated(t), c, n)
           /\ WithKey(t, c, n) \ t = {[client |-> c, seq |-> n, valid |-> TRUE]}
<1> DEFINE k == [client |-> c, seq |-> n, valid |-> TRUE]
<1>1. k \in Row /\ k.client = c /\ k.seq = n /\ k.valid
  BY DEF Row
<1>2. \A r \in t : r \in Row /\ r # k /\ r.seq \in Int /\ n \in Int
  BY <1>1 DEF Tables, Row
<1>3. WithKey(t, c, n) \in Tables /\ WithKey(t, c, n) \ t = {k}
  BY <1>1, <1>2 DEF WithKey, Tables
<1> HIDE DEF k
<1>4. Valid(t \cup {k}) = Valid(t) \cup {k}
  BY <1>1 DEF Valid
<1>5. k \in Newest(Valid(t) \cup {k})
  BY <1>1, <1>2 DEF Newest, Valid
<1>6. ASSUME NEW r \in Valid(t)
      PROVE  r \in Newest(Valid(t) \cup {k}) <=> r \in Migrated(t) /\ r.client # c
  <2>1. r \in t /\ r.seq < n
    BY DEF Valid
  <2>2. CASE r.client = c
    BY <2>1, <2>2, <1>1, <1>2 DEF Newest
  <2>3. CASE r.client # c
    BY <2>1, <2>3, <1>1, <1>2 DEF Newest, Migrated
  <2> QED
    BY <2>2, <2>3
<1>7. Newest(Valid(t) \cup {k}) = WithKey(Migrated(t), c, n)
  BY <1>5, <1>6 DEF WithKey, Newest, Migrated, k
<1> QED
  BY <1>3, <1>4, <1>7 DEF k

\* The view of a process: the last commit, or what its transaction has done.
LEMMA ViewOf ==
    ASSUME IInv, NEW p \in Conns
    PROVE  /\ at[p] \notin Locked => View(p) = committed /\ ~Writing(p)
           /\ at[p] \in Locked => View(p) = conn[p].view /\ Writing(p)
                                  /\ Done(at[p], View(p))
           /\ View(p) \in Data
           /\ committed.schema # "none"
<1>1. Working(p) /\ committed \in Data /\ committed.schema # "none"
  BY DEF IInv, AllOrNothing
<1>2. CASE at[p] \in Locked
  <2>1. conn[p] = Txn("write", conn[p].view) /\ Done(at[p], conn[p].view)
    BY <1>1, <1>2 DEF Working
  <2>2. conn[p].mode = "write"
    BY <2>1 DEF Txn
  <2>3. conn[p] # Idle /\ conn[p] # Begun
    BY <2>2 DEF Idle, Begun
  <2>4. conn[p].view \in Data
    BY <2>1 DEF Done
  <2> QED
    BY <1>1, <1>2, <2>1, <2>2, <2>3, <2>4 DEF View, HasSnapshot, Writing
<1>3. CASE at[p] \notin Locked
  <2>1. conn[p] = Idle
    BY <1>1, <1>3 DEF Working
  <2>2. conn[p].mode # "write"
    BY <2>1 DEF Idle
  <2> QED
    BY <1>1, <1>3, <2>1, <2>2 DEF View, HasSnapshot, Writing
<1> QED
  BY <1>2, <1>3

\* A write of p that reaches a label of Locked with what Done says of it.
LEMMA WriteStep ==
    ASSUME IInv, NEW p \in Conns, NEW next \in Locked, NEW data,
           Write(p, data), Done(next, data),
           at' = [at EXCEPT ![p] = next],
           UNCHANGED <<before, created>>
    PROVE  IInv' /\ UNCHANGED committed
<1>1. /\ UNCHANGED <<committed, before, created>>
      /\ conn' = [conn EXCEPT ![p] = Txn("write", data)]
      /\ \A q \in Conns \ {p} : ~Writing(q)
  BY DEF Write, MayWrite
<1>2. \A q \in Conns \ {p} : at[q] \notin Locked
  BY <1>1, ViewOf
<1>3. /\ at'[p] = next /\ at' \in [Conns -> Labels]
      /\ conn'[p] = Txn("write", data) /\ conn' = [q \in Conns |-> conn'[q]]
      /\ \A q \in Conns \ {p} : at'[q] = at[q] /\ conn'[q] = conn[q]
  BY <1>1 DEF IInv, Locked, Labels
<1>4. ASSUME NEW q \in Conns
      PROVE  Working(q)'
  <2>1. CASE q = p
    <3>1. conn'[p].view = data
      BY <1>3 DEF Txn
    <3>2. Done(at[p], conn[p].view)'
      <4>1. Done(next, data)'
        BY <1>1 DEF Done, NewSeq
      <4> QED
        BY <1>3, <3>1, <4>1
    <3> QED
      BY <2>1, <1>3, <3>1, <3>2 DEF Working, Locked
  <2>2. CASE q # p
    BY <2>2, <1>1, <1>2, <1>3 DEF IInv, Working
  <2> QED
    BY <2>1, <2>2
<1>5. OneWriter'
  BY <1>2, <1>3 DEF OneWriter
<1> QED
  BY <1>1, <1>3, <1>4, <1>5
     DEF IInv, History, AllOrNothing, NewestValidKeySurvives

\* Nothing but p's label and, at most, its transaction changes.
LEMMA LocalStep ==
    ASSUME IInv, NEW p \in Conns, NEW next \in Labels \ Locked,
           next = "open" => committed.schema = "current",
           conn' \in {conn, [conn EXCEPT ![p] = Idle]}, conn'[p] = Idle,
           at' = [at EXCEPT ![p] = next],
           UNCHANGED <<committed, before, created>>
    PROVE  IInv'
<1>1. /\ at'[p] = next /\ at' \in [Conns -> Labels] /\ conn' = [q \in Conns |-> conn'[q]]
      /\ \A q \in Conns \ {p} : at'[q] = at[q] /\ conn'[q] = conn[q]
  BY DEF IInv
<1>2. ASSUME NEW q \in Conns
      PROVE  Working(q)'
  <2>1. CASE q = p
    BY <2>1, <1>1 DEF Working
  <2>2. CASE q # p
    <3>1. Working(q) /\ at'[q] = at[q] /\ conn'[q] = conn[q]
      BY <2>2, <1>1 DEF IInv
    <3>2. Done(at[q], conn[q].view) => Done(at[q], conn[q].view)'
      BY <3>1 DEF Done, NewSeq
    <3> QED
      BY <3>1, <3>2 DEF Working
  <2> QED
    BY <2>1, <2>2
<1>3. OneWriter'
  BY <1>1 DEF IInv, OneWriter
<1> QED
  BY <1>1, <1>2, <1>3 DEF IInv, History, AllOrNothing, NewestValidKeySurvives

\* The commit of the one writer: everybody else is without a transaction.
LEMMA CommitStep ==
    ASSUME IInv, NEW p \in Conns, at[p] \in {"commit", "insertCommit"}, Commit(p),
           at' = [at EXCEPT ![p] = "open"]
    PROVE  /\ committed' = conn[p].view
           /\ Done(at[p], committed')
           /\ committed' \in Data
           /\ committed'.schema = "current"
           /\ at' \in [Conns -> Labels]
           /\ conn' = [q \in Conns |-> conn'[q]]
           /\ \A q \in Conns : Working(q)'
           /\ OneWriter'
<1>1. Writing(p) /\ Done(at[p], conn[p].view)
  BY ViewOf DEF Locked
<1>2. committed' = conn[p].view
  BY <1>1 DEF Commit
<1>3. committed' \in Data /\ committed'.schema = "current"
  <2>1. CASE at[p] = "commit"
    BY <1>1, <1>2, <2>1 DEF Done
  <2>2. CASE at[p] = "insertCommit"
    <3>1. PICK c \in Clients, n \in 1 .. MaxSeq :
             conn[p].view = [schema |-> "current",
                             rows |-> WithKey(committed.rows, c, n), old |-> {}]
      BY <1>1, <2>2 DEF Done
    <3> QED
      BY <1>1, <1>2, <3>1 DEF Done
  <2> QED
    BY <2>1, <2>2
<1>4. \A q \in Conns \ {p} : at[q] \notin Locked /\ conn[q] = Idle
  BY DEF IInv, OneWriter, Working, Locked
<1>5. \A q \in Conns : conn'[q] = Idle
  BY <1>4 DEF Commit, Idle
<1>6. at' \in [Conns -> Labels] /\ at'[p] = "open"
      /\ \A q \in Conns \ {p} : at'[q] = at[q] /\ at'[q] \notin Locked
  BY <1>4 DEF IInv, Labels
<1>7. \A q \in Conns : Working(q)'
  BY <1>3, <1>5, <1>6 DEF Working, Locked
<1>8. OneWriter'
  BY <1>6 DEF OneWriter, Locked
<1> QED
  BY <1>1, <1>2, <1>3, <1>6, <1>7, <1>8 DEF Commit

\* Init satisfies the invariant.
LEMMA InitIInv == Init => IInv
<1> SUFFICES ASSUME Init PROVE IInv
  OBVIOUS
<1>1. before \in Tables
  BY LegacyRows DEF Init, Tables
<1>2. committed = [schema |-> "legacy", rows |-> before, old |-> {}]
      /\ committed \in Data /\ conn = [q \in Conns |-> conn[q]]
  BY <1>1 DEF Init, DbInit, Data, Tables
<1>3. at \in [Conns -> Labels] /\ \A p \in Conns : at[p] \notin Locked /\ at[p] # "open"
  BY DEF Init, Labels, Locked
<1>4. \A p \in Conns : Working(p)
  BY <1>3 DEF Init, DbInit, Working
<1>5. created \in Tables
  BY DEF Init, Tables
<1> QED
  BY <1>2, <1>3, <1>4, <1>5
     DEF Init, IInv, OneWriter, History, AllOrNothing, NewestValidKeySurvives

\* The migration's writes leave what Done says and commit nothing.
LEMMA MigrationWrites ==
    ASSUME IInv, NEW p \in Conns,
           DropInvalid(p) \/ DropOlder(p) \/ Rename(p) \/ Recreate(p) \/ Copy(p) \/ DropOld(p)
    PROVE  IInv' /\ UNCHANGED committed
<1> DEFINE R == committed.rows
<1>1. /\ committed \in Data /\ R \in Tables /\ committed.old = {}
      /\ Valid(R) \in Tables /\ Migrated(R) \in Tables /\ {} \in Tables
      /\ committed.schema \in {"legacy", "current"}
  BY MigratedOnce DEF IInv, Data, AllOrNothing, Tables
<1>2. CASE DropInvalid(p)
  <2> DEFINE d == [View(p) EXCEPT !.rows = {r \in @ : r.valid}]
  <2>1. View(p) = committed
    BY <1>2, ViewOf DEF DropInvalid, Statement, Locked
  <2>2. d = [schema |-> committed.schema, rows |-> Valid(R), old |-> {}]
    <3>1. d = [committed EXCEPT !.rows = Valid(R)]
      BY <2>1 DEF Valid
    <3> QED
      BY <3>1, <1>1 DEF Data
  <2>3. Done("dropOlder", d)
    BY <2>2, <1>1 DEF Done, Data
  <2> QED
    BY <1>2, <2>3, WriteStep DEF DropInvalid, Statement, Locked
<1>3. CASE DropOlder(p)
  <2> DEFINE d == [View(p) EXCEPT !.rows = Newest(@)]
  <2>1. View(p) = [schema |-> committed.schema, rows |-> Valid(R), old |-> {}]
    BY <1>3, ViewOf DEF DropOlder, Statement, Locked, Done
  <2>2. d = [schema |-> committed.schema, rows |-> Migrated(R), old |-> {}]
    BY <2>1 DEF Migrated
  <2>3. Done("rename", d)
    BY <2>2, <1>1 DEF Done, Data
  <2> QED
    BY <1>3, <2>3, WriteStep DEF DropOlder, Statement, Locked
<1>4. CASE Rename(p)
  <2> DEFINE d == [schema |-> "none", rows |-> {}, old |-> View(p).rows]
  <2>1. View(p) = [schema |-> committed.schema, rows |-> Migrated(R), old |-> {}]
    BY <1>4, ViewOf DEF Rename, Statement, Locked, Done
  <2>2. Done("recreate", d)
    BY <2>1, <1>1 DEF Done, Data
  <2> QED
    BY <1>4, <2>2, WriteStep DEF Rename, Statement, Locked
<1>5. CASE Recreate(p)
  <2> DEFINE d == [View(p) EXCEPT !.schema = "current"]
  <2>1. View(p) = [schema |-> "none", rows |-> {}, old |-> Migrated(R)]
    BY <1>5, ViewOf DEF Recreate, Statement, Locked, Done
  <2>2. Done("copy", d)
    BY <2>1, <1>1 DEF Done, Data
  <2> QED
    BY <1>5, <2>2, WriteStep DEF Recreate, Statement, Locked
<1>6. CASE Copy(p)
  <2> DEFINE d == [View(p) EXCEPT !.rows = @ \cup View(p).old]
  <2>1. View(p) = [schema |-> "current", rows |-> {}, old |-> Migrated(R)]
    BY <1>6, ViewOf DEF Copy, Statement, Locked, Done
  <2>2. Done("dropOld", d)
    BY <2>1, <1>1 DEF Done, Data
  <2> QED
    BY <1>6, <2>2, WriteStep DEF Copy, Statement, Locked
<1>7. CASE DropOld(p)
  <2> DEFINE d == [View(p) EXCEPT !.old = {}]
  <2>1. View(p) = [schema |-> "current", rows |-> Migrated(R), old |-> Migrated(R)]
    BY <1>7, ViewOf DEF DropOld, Statement, Locked, Done
  <2>2. Done("commit", d)
    BY <2>1, <1>1 DEF Done, Data
  <2> QED
    BY <1>7, <2>2, WriteStep DEF DropOld, Statement, Locked
<1> QED
  BY <1>2, <1>3, <1>4, <1>5, <1>6, <1>7

\* create_key's two writes, before their commit.
LEMMA CreateKeyWrites ==
    ASSUME IInv, NEW p \in Conns, CreateKey(p)
    PROVE  IInv' /\ UNCHANGED committed
<1>1. /\ View(p) = committed /\ committed.schema = "current"
  BY ViewOf DEF CreateKey, Locked, IInv, Working
<1>2. PICK c \in Clients, n \in 1 .. MaxSeq :
         /\ NewSeq(n)
         /\ Write(p, [committed EXCEPT !.rows = WithKey(@, c, n)])
  BY <1>1 DEF CreateKey, NewSeq, WithKey
<1> DEFINE d == [committed EXCEPT !.rows = WithKey(@, c, n)]
<1>3. committed \in Data /\ committed.rows \in Tables /\ committed.old = {}
  BY DEF IInv, Data, AllOrNothing
<1>4. WithKey(committed.rows, c, n) \in Tables
  BY <1>2, <1>3, NewestWithKey DEF NewSeq
<1>5. d = [schema |-> "current", rows |-> WithKey(committed.rows, c, n), old |-> {}]
  BY <1>1, <1>3 DEF Data
<1>6. Done("insertCommit", d)
  BY <1>1, <1>2, <1>3, <1>4, <1>5 DEF Done, Data, Tables
<1> QED
  BY <1>2, <1>6, WriteStep DEF CreateKey, Locked

\* The commit of a migration: the first migrates the table, a later one finds
\* it migrated and changes nothing.
LEMMA MigrationCommits ==
    ASSUME IInv, NEW p \in Conns, CommitMigration(p)
    PROVE  /\ IInv'
           /\ committed' = [schema |-> "current", rows |-> Migrated(committed.rows), old |-> {}]
           /\ committed.schema = "current" => committed'.rows = committed.rows
<1>1. /\ at[p] = "commit" /\ Commit(p) /\ at' = [at EXCEPT ![p] = "open"]
      /\ UNCHANGED <<before, created>>
  BY DEF CommitMigration
<1>2. committed' = [schema |-> "current", rows |-> Migrated(committed.rows), old |-> {}]
  BY <1>1, CommitStep DEF Done
<1>3. before \in Tables /\ created \in Tables /\ before \cup created \in Tables
  BY LegacyRows DEF IInv, Tables
<1>4. /\ committed'.rows = Migrated(before \cup created)
      /\ committed.schema = "current" => committed'.rows = committed.rows
  <2>1. CASE committed.schema = "legacy"
    <3>1. committed.rows = before \cup created
      BY <2>1 DEF IInv, AllOrNothing, History
    <3> QED
      BY <1>2, <2>1, <3>1
  <2>2. CASE committed.schema = "current"
    <3>1. committed.rows = Migrated(before \cup created)
      BY <2>2 DEF IInv, NewestValidKeySurvives, Migrated, Valid
    <3> QED
      BY <1>2, <1>3, <3>1, MigratedOnce
  <2> QED
    BY <2>1, <2>2 DEF IInv, AllOrNothing
<1>5. NewestValidKeySurvives'
  BY <1>1, <1>4 DEF NewestValidKeySurvives, Migrated, Valid
<1> QED
  BY <1>1, <1>2, <1>4, <1>5, CommitStep DEF IInv, AllOrNothing, History

\* The commit of create_key replaces the client's row by one newer than any.
LEMMA KeyCommits ==
    ASSUME IInv, NEW p \in Conns, CommitKey(p)
    PROVE  /\ IInv'
           /\ committed.schema = "current"
           /\ \E c \in Clients, n \in 1 .. MaxSeq :
                 /\ NewSeq(n)
                 /\ committed' = [schema |-> "current",
                                  rows |-> WithKey(committed.rows, c, n), old |-> {}]
<1>1. /\ at[p] = "insertCommit" /\ Commit(p) /\ at' = [at EXCEPT ![p] = "open"]
      /\ created' = created \cup (conn[p].view.rows \ committed.rows)
      /\ before' = before
  BY DEF CommitKey
<1>2. committed' = conn[p].view /\ Done(at[p], committed')
  BY <1>1, CommitStep
<1>3. PICK c \in Clients, n \in 1 .. MaxSeq :
         /\ committed.schema = "current"
         /\ NewSeq(n)
         /\ committed' = [schema |-> "current", rows |-> WithKey(committed.rows, c, n),
                          old |-> {}]
  BY <1>1, <1>2 DEF Done
<1> DEFINE k == [client |-> c, seq |-> n, valid |-> TRUE]
           T == before \cup created
<1>4. T \in Tables /\ committed.rows \in Tables /\ k \in Row /\ k.valid
  BY LegacyRows DEF IInv, Tables, Data, Row
<1>5. created' = created \cup {k}
  <2>1. WithKey(committed.rows, c, n) \ committed.rows = {k}
    BY <1>3, <1>4, NewestWithKey DEF NewSeq
  <2> QED
    BY <1>1, <1>2, <1>3, <2>1
<1>6. committed.rows = Migrated(T)
  BY <1>3 DEF IInv, NewestValidKeySurvives, Migrated, Valid
<1>7. committed'.rows = Newest(Valid(T \cup {k}))
  BY <1>3, <1>4, <1>6, NewestWithKey DEF NewSeq
<1>8. NewestValidKeySurvives'
  BY <1>1, <1>5, <1>7 DEF NewestValidKeySurvives, Valid
<1>9. /\ created' \in Tables /\ before' \in Legacy
      /\ History' /\ AllOrNothing'
  BY <1>1, <1>3, <1>4, <1>5 DEF IInv, History, AllOrNothing, Tables
<1> QED
  BY <1>1, <1>3, <1>8, <1>9, CommitStep DEF IInv

\* Every step keeps the invariant, and changes what is committed only by the
\* first migration's commit or by create_key's.
LEMMA NextIInv ==
    ASSUME IInv, [Next]_vars
    PROVE  IInv' /\ [MT!Next]_MT!vars
<1>1. CASE UNCHANGED vars
  <2>1. \A p \in Conns : Working(p)'
    <3> SUFFICES ASSUME NEW p \in Conns PROVE Working(p)'
      OBVIOUS
    <3>1. Working(p) /\ (Done(at[p], conn[p].view) => Done(at[p], conn[p].view)')
      BY <1>1 DEF IInv, Done, NewSeq, vars, dbvars
    <3> QED
      BY <1>1, <3>1 DEF Working, vars, dbvars
  <2> QED
    BY <1>1, <2>1 DEF IInv, OneWriter, History, AllOrNothing, NewestValidKeySurvives,
                      vars, dbvars, MT!vars
<1>2. ASSUME NEW p \in Conns, Inspect(p)
      PROVE  IInv' /\ UNCHANGED committed
  <2>1. conn[p] = Idle /\ View(p) = committed
    BY <1>2, ViewOf DEF Inspect, IInv, Working, Locked
  <2>2. conn' = conn
    BY <1>2, <2>1 DEF Inspect, Select, Idle, Begun, IInv
  <2> QED
    BY <1>2, <2>1, <2>2, LocalStep DEF Inspect, Select, Labels, Locked
<1>3. ASSUME NEW p \in Conns, End(p)
      PROVE  IInv' /\ UNCHANGED committed
  BY <1>3, LocalStep DEF End, Close, Labels, Locked, IInv
<1>4. ASSUME NEW p \in Conns, Reopen(p)
      PROVE  IInv' /\ UNCHANGED committed
  <2>1. conn[p] = Idle
    BY <1>4 DEF Reopen, IInv, Working, Locked
  <2> QED
    BY <1>4, <2>1, LocalStep DEF Reopen, Labels, Locked, dbvars
<1>5. ASSUME NEW p \in Conns, CommitMigration(p)
      PROVE  IInv' /\ [MT!Next]_MT!vars
  <2>1. /\ IInv'
        /\ committed' = [schema |-> "current", rows |-> Migrated(committed.rows), old |-> {}]
        /\ committed.schema = "current" => committed'.rows = committed.rows
        /\ committed.schema \in {"legacy", "current"}
    BY <1>5, MigrationCommits DEF IInv, AllOrNothing
  <2>2. CASE committed.schema = "legacy"
    BY <2>1, <2>2 DEF MT!Next, MT!Migrate, Migrated, Newest, Valid
  <2>3. CASE committed.schema = "current"
    BY <2>1, <2>3 DEF MT!vars
  <2> QED
    BY <2>1, <2>2, <2>3
<1>6. ASSUME NEW p \in Conns, CommitKey(p)
      PROVE  IInv' /\ [MT!Next]_MT!vars
  <2>1. PICK c \in Clients, n \in 1 .. MaxSeq :
           /\ IInv' /\ committed.schema = "current" /\ NewSeq(n)
           /\ committed' = [schema |-> "current",
                            rows |-> WithKey(committed.rows, c, n), old |-> {}]
    BY <1>6, KeyCommits
  <2>2. MT!Create(c)
    BY <2>1 DEF MT!Create, WithKey, NewSeq
  <2> QED
    BY <2>1, <2>2 DEF MT!Next
<1>7. CASE Next
  <2>1. UNCHANGED committed => [MT!Next]_MT!vars
    BY DEF MT!vars
  <2> QED
    BY <1>2, <1>3, <1>4, <1>5, <1>6, <1>7, <2>1, MigrationWrites, CreateKeyWrites
       DEF Next, Migrate
<1> QED
  BY <1>1, <1>7

\* The invariant holds in every reachable state.
LEMMA Inductive == Spec => []IInv
<1>1. IInv /\ [Next]_vars => IInv'
  BY NextIInv
<1> QED
  BY <1>1, InitIInv, PTL DEF Spec

-----------------------------------------------------------------------------

\* Type correctness, for every set of processes and every legacy table, and the
\* write lock held exactly from a process's first write to its commit.
THEOREM TypeCorrect == Spec => []TypeOK
<1>1. IInv => TypeOK
  <2> SUFFICES ASSUME IInv PROVE TypeOK
    OBVIOUS
  <2>1. ASSUME NEW p \in Conns
        PROVE  /\ conn[p] \in Transactions(Data)
               /\ Writing(p) <=> at[p] \notin {"inspect", "dropInvalid", "open", "closed"}
    <3>1. CASE at[p] \in Locked
      <4>1. conn[p] = [mode |-> "write", view |-> conn[p].view] /\ conn[p].view \in Data
        BY <3>1 DEF IInv, Working, Txn, Done
      <4> QED
        BY <3>1, <4>1, ViewOf DEF Transactions, Locked
    <3>2. CASE at[p] \notin Locked
      <4>1. conn[p] = Idle /\ at[p] \in Labels
        BY <3>2 DEF IInv, Working
      <4> QED
        BY <3>2, <4>1, ViewOf DEF Transactions, Locked, Labels
    <3> QED
      BY <3>1, <3>2
  <2>2. conn \in [Conns -> Transactions(Data)]
    BY <2>1 DEF IInv
  <2> QED
    BY <2>1, <2>2 DEF IInv, TypeOK
<1> QED
  BY <1>1, Inductive, PTL

\* Every legacy table of every database is left as it was or wholly migrated,
\* wherever an opener dies and however many openers race.
THEOREM AllOrNothingHolds == Spec => []AllOrNothing
<1>1. IInv => AllOrNothing
  BY DEF IInv
<1> QED
  BY <1>1, Inductive, PTL

\* The migrated table has each client's newest valid key, always: a migration
\* that comes late takes no key away that was created after the first.
THEOREM NewestValidKeySurvivesAlways == Spec => []NewestValidKeySurvives
<1>1. IInv => NewestValidKeySurvives
  BY DEF IInv
<1> QED
  BY <1>1, Inductive, PTL

\* _migrate_api_keys, statement by statement under crashes and races, implements
\* a migration in one step (MigratedTable).
THEOREM Refinement == Spec => MigratesAtOnce
<1>1. Init => MT!Init
  BY DEF Init, DbInit, MT!Init
<1>2. IInv /\ [Next]_vars => [MT!Next]_MT!vars
  BY NextIInv
<1> QED
  BY <1>1, <1>2, Inductive, PTL DEF Spec, MigratesAtOnce, MT!Spec
====
