---- MODULE KeyMigration ----
(***************************************************************************)
(* get_db of demandops/db.py on a database whose api_keys table is older    *)
(* than its UNIQUE and CHECK constraints.  The server and any manage_keys   *)
(* process run it when they open the file, so several may find the legacy   *)
(* table at once; one that has opened it may create a key.  The first       *)
(* DELETE opens the implicit transaction that only the commit at the end    *)
(* closes, the DDL between them included.                                   *)
(*                                                                          *)
(* A row is [client, seq, valid]: seq orders rows by age (rowid), valid says*)
(* that its limits are positive.                                            *)
(***************************************************************************)
EXTENDS WalDb, Naturals, FiniteSets

CONSTANTS
    Clients,        \* client names
    MaxSeq,         \* rows are numbered 1 .. MaxSeq
    Legacy          \* the tables an older release may have left

VARIABLES
    at,             \* at[p]: the next statement of opener p
    before,         \* history: the table the openers found
    created         \* history: rows committed by create_key since

vars == <<dbvars, at, before, created>>

Row == [client : Clients, seq : 1 .. MaxSeq, valid : BOOLEAN]
Tables == SUBSET Row

ASSUME LegacyRows ==
    /\ MaxSeq \in Nat
    /\ Legacy \subseteq {t \in Tables : \A r, s \in t : r.seq = s.seq => r = s}

\* api_keys, its schema, and the renamed table while it exists.
Data == [schema : {"legacy", "current", "none"}, rows : Tables, old : Tables]

Labels == {"inspect", "dropInvalid", "dropOlder", "rename", "recreate", "copy",
           "dropOld", "commit", "open", "insertCommit", "closed"}

Init ==
    /\ before \in Legacy
    /\ DbInit([schema |-> "legacy", rows |-> before, old |-> {}])
    /\ at = [p \in Conns |-> "inspect"]
    /\ created = {}

\* One statement of p: from label, to label, with the data it leaves.
Statement(p, label, next, data) ==
    /\ at[p] = label
    /\ Write(p, data)
    /\ at' = [at EXCEPT ![p] = next]
    /\ UNCHANGED <<before, created>>

\* Skip the migration when the table has the constraints already.
Inspect(p) ==
    /\ at[p] = "inspect"
    /\ Select(p)
    /\ at' = [at EXCEPT ![p] = IF View(p).schema = "current" THEN "open" ELSE "dropInvalid"]
    /\ UNCHANGED <<before, created>>

\* Rows the CHECK constraints would refuse.
DropInvalid(p) ==
    Statement(p, "dropInvalid", "dropOlder",
              [View(p) EXCEPT !.rows = {r \in @ : r.valid}])

\* MAX(rowid) ... GROUP BY client_name: the newest row of each client stays.
Newest(rows) == {r \in rows : \A s \in rows : s.client = r.client => s.seq <= r.seq}

MutantDropOlder(p) ==
    Statement(p, "dropOlder", "rename",
              [View(p) EXCEPT !.rows = {r \in @ : \A s \in @ : s.client = r.client => r.seq <= s.seq}])
DropOlder(p) ==
    Statement(p, "dropOlder", "rename", [View(p) EXCEPT !.rows = Newest(@)])

Rename(p) ==
    Statement(p, "rename", "recreate",
              [schema |-> "none", rows |-> {}, old |-> View(p).rows])

Recreate(p) ==
    Statement(p, "recreate", "copy", [View(p) EXCEPT !.schema = "current"])

Copy(p) ==
    Statement(p, "copy", "dropOld", [View(p) EXCEPT !.rows = @ \cup View(p).old])

DropOld(p) ==
    Statement(p, "dropOld", "commit", [View(p) EXCEPT !.old = {}])

MutantCommitMigration(p) ==
    /\ at[p] \in {"dropOlder", "commit"}
    /\ Commit(p)
    /\ at' = [at EXCEPT ![p] = IF @ = "commit" THEN "open" ELSE @]
    /\ UNCHANGED <<before, created>>
CommitMigration(p) ==
    /\ at[p] = "commit"
    /\ Commit(p)
    /\ at' = [at EXCEPT ![p] = "open"]
    /\ UNCHANGED <<before, created>>

\* An opener may go on to create a key: for a client that has a row, create_key
\* deletes it in the same transaction.
CreateKey(p) ==
    /\ at[p] = "open"
    /\ \E c \in Clients, n \in 1 .. MaxSeq :
          /\ \A r \in before \cup created \cup View(p).rows : r.seq < n
          /\ Write(p, [View(p) EXCEPT
                         !.rows = {r \in @ : r.client # c}
                                  \cup {[client |-> c, seq |-> n, valid |-> TRUE]}])
    /\ at' = [at EXCEPT ![p] = "insertCommit"]
    /\ UNCHANGED <<before, created>>

CommitKey(p) ==
    /\ at[p] = "insertCommit"
    /\ Commit(p)
    /\ created' = created \cup (conn[p].view.rows \ committed.rows)
    /\ at' = [at EXCEPT ![p] = "open"]
    /\ UNCHANGED before

\* The process ends: its work is done, the first write of its transaction
\* times out on the lock, or it is killed at any point.  Its connection rolls
\* an open transaction back.
MutantEnd(p) ==
    /\ at[p] # "closed"
    /\ at' = [at EXCEPT ![p] = "closed"]
    /\ UNCHANGED <<dbvars, before, created>>
End(p) ==
    /\ at[p] # "closed"
    /\ Close(p)
    /\ at' = [at EXCEPT ![p] = "closed"]
    /\ UNCHANGED <<before, created>>

\* The next server or command opens the file.
Reopen(p) ==
    /\ at[p] = "closed"
    /\ at' = [at EXCEPT ![p] = "inspect"]
    /\ UNCHANGED <<dbvars, before, created>>

Migrate(p) ==
    \/ Inspect(p) \/ DropInvalid(p) \/ DropOlder(p) \/ Rename(p)
    \/ Recreate(p) \/ Copy(p) \/ DropOld(p) \/ CommitMigration(p)

Next == \E p \in Conns :
    Migrate(p) \/ CreateKey(p) \/ CommitKey(p) \/ End(p) \/ Reopen(p)

Spec == Init /\ [][Next]_vars

-----------------------------------------------------------------------------

\* Every variable has its type, and a process holds the write lock exactly
\* from its first write to its commit.
TypeOK ==
    /\ committed \in Data
    /\ conn \in [Conns -> Transactions(Data)]
    /\ at \in [Conns -> Labels]
    /\ before \in Legacy
    /\ created \in Tables
    /\ \A p \in Conns :
          Writing(p) <=> at[p] \notin {"inspect", "dropInvalid", "open", "closed"}

\* A crash or a second opener at any point leaves the table as it was found or
\* completely migrated: never without its rows, never half copied, and the
\* renamed table never survives (_migrate_api_keys is one transaction).
AllOrNothing ==
    /\ committed.old = {}
    /\ committed.schema \in {"legacy", "current"}
    /\ committed.schema = "legacy" => committed.rows = before

\* The migrated table has, for every client, the newest key ever stored with
\* valid limits, and no other: a late second migration takes no key away that
\* was created after the first.
NewestValidKeySurvives ==
    committed.schema = "current" =>
        committed.rows = Newest({r \in before \cup created : r.valid})

\* Openers that migrate statement by statement, die anywhere and create keys act
\* like openers that migrate in a single step, once, before any key is created.
MT == INSTANCE MigratedTable WITH schema <- committed.schema, rows <- committed.rows
MigratesAtOnce == MT!Spec
====
