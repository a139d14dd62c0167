---- MODULE KeyAdmin ----
(***************************************************************************)
(* demandops/manage_keys.py: `create` and `revoke` commands, each a process *)
(* with a connection of its own, interleaved statement by statement.  Any   *)
(* of them may crash, time out on the write lock or hit UNIQUE(client_name).*)
(*                                                                          *)
(* The database is a record whose `keys` field is the api_keys table: a set *)
(* of rows [key, client, active].  A key stands for the raw key and for its *)
(* hash; token_urlsafe draws no key twice.                                  *)
(***************************************************************************)
EXTENDS WalDb, Naturals, FiniteSets

CONSTANTS
    Clients,        \* client names
    Keys,           \* API keys, each drawn by at most one `create`
    NoKey,          \* the key of a command that has drawn none
    Procs           \* slots for manage_keys processes

ASSUME ProcsConnect == Procs \subseteq Conns
ASSUME NoKeyIsNoKey == NoKey \notin Keys

VARIABLES
    cli,            \* cli[p]: the command process p runs, and where it is
    drawn,          \* keys drawn so far
    issued,         \* history: keys that were ever committed
    shown           \* history: keys printed to an operator

clivars == <<cli, drawn, issued, shown>>

Row == [key : Keys, client : Clients, active : BOOLEAN]

Off == [at |-> "off"]
Labels == {"select", "delete", "insert", "update", "commit", "print"}
Job == [at : Labels, cmd : {"create", "revoke"}, client : Clients, key : Keys \cup {NoKey}]

At(p, label) == cli[p].at = label
Creating(p) == cli[p] # Off /\ cli[p].cmd = "create"

RowsOf(db, c) == {r \in db.keys : r.client = c}
Without(db, c) == [db EXCEPT !.keys = {r \in @ : r.client # c}]
With(db, row) == [db EXCEPT !.keys = @ \cup {row}]
MutantRevoked(db, c) ==
    [db EXCEPT !.keys = {IF r.client = c THEN [r EXCEPT !.active = ~@] ELSE r : r \in @}]
Revoked(db, c) ==
    [db EXCEPT !.keys = {IF r.client = c THEN [r EXCEPT !.active = FALSE] ELSE r : r \in @}]
KeysOf(db) == {r.key : r \in db.keys}

CliInit ==
    /\ cli = [p \in Procs |-> Off]
    /\ drawn = {}
    /\ issued = {}
    /\ shown = {}

Goto(p, label) == cli' = [cli EXCEPT ![p] = IF label = "off" THEN Off ELSE [@ EXCEPT !.at = label]]

\* Keys bounds the `create` commands: none is started without a key to draw.
KeyLeft == Cardinality({p \in Procs : Creating(p) /\ cli[p].key = NoKey}) < Cardinality(Keys \ drawn)

\* main() parses the arguments and opens the database.  create_key refuses
\* non-positive limits before it touches the database: such a command is none.
Start(p) ==
    /\ cli[p] = Off
    /\ \E c \in Clients, cmd \in {"create", "revoke"} :
          /\ cmd = "create" => KeyLeft
          /\ cli' = [cli EXCEPT ![p] =
                       [at |-> "select", cmd |-> cmd, client |-> c, key |-> NoKey]]
    /\ UNCHANGED <<dbvars, drawn, issued, shown>>

\* The SELECT of create_key and revoke_key.  It opens no transaction: what it
\* saw may be outdated by the time the next statement runs.
SelectRow(p) ==
    /\ At(p, "select")
    /\ Select(p)
    /\ LET found == RowsOf(View(p), cli[p].client) # {}
       IN Goto(p, CASE cli[p].cmd = "create" /\ found -> "delete"
                    [] cli[p].cmd = "create" /\ ~found -> "insert"
                    [] cli[p].cmd = "revoke" /\ found -> "update"
                    [] cli[p].cmd = "revoke" /\ ~found -> "off")
    /\ UNCHANGED <<drawn, issued, shown>>

\* DELETE FROM api_keys WHERE client_name = ?
MutantDeleteRow(p) ==
    /\ At(p, "delete")
    /\ MayWrite(p)
    /\ committed' = Without(committed, cli[p].client)
    /\ Goto(p, "insert")
    /\ UNCHANGED <<conn, drawn, issued, shown>>
DeleteRow(p) ==
    /\ At(p, "delete")
    /\ Write(p, Without(View(p), cli[p].client))
    /\ Goto(p, "insert")
    /\ UNCHANGED <<drawn, issued, shown>>

\* UNIQUE(client_name) lets no second row of a client in.
MutantUniqueAllows(p) == TRUE
UniqueAllows(p) == RowsOf(View(p), cli[p].client) = {}

\* Draw a key and INSERT its row.
InsertRow(p) ==
    /\ At(p, "insert")
    /\ UniqueAllows(p)
    /\ \E k \in Keys \ drawn :
          /\ Write(p, With(View(p), [key |-> k, client |-> cli[p].client, active |-> TRUE]))
          /\ cli' = [cli EXCEPT ![p].key = k, ![p].at = "commit"]
          /\ drawn' = drawn \cup {k}
    /\ UNCHANGED <<issued, shown>>

\* UPDATE api_keys SET is_active = 0 WHERE client_name = ?
UpdateRow(p) ==
    /\ At(p, "update")
    /\ Write(p, Revoked(View(p), cli[p].client))
    /\ Goto(p, "commit")
    /\ UNCHANGED <<drawn, issued, shown>>

\* commit(): create returns the key to main, which prints it; revoke is done.
CommitJob(p) ==
    /\ At(p, "commit")
    /\ Commit(p)
    /\ issued' = IF cli[p].cmd = "create" THEN issued \cup {cli[p].key} ELSE issued
    /\ Goto(p, IF cli[p].cmd = "create" THEN "print" ELSE "off")
    /\ UNCHANGED <<drawn, shown>>

PrintKey(p) ==
    /\ At(p, "print")
    /\ shown' = shown \cup {cli[p].key}
    /\ Goto(p, "off")
    /\ UNCHANGED <<dbvars, drawn, issued>>

Ends(p) == Close(p) /\ Goto(p, "off") /\ UNCHANGED <<drawn, issued, shown>>

\* sqlite3.OperationalError: another connection kept the write lock for the
\* whole busy timeout.  The exception ends the process.
MutantLockTimeout(p) == FALSE
LockTimeout(p) ==
    /\ \/ At(p, "delete") \/ At(p, "insert") \/ At(p, "update")
    /\ ~MayWrite(p)
    /\ Ends(p)

\* sqlite3.IntegrityError: another process created the client's row after the
\* SELECT found none.
MutantUniqueViolation(p) ==
    /\ At(p, "insert")
    /\ MayWrite(p)
    /\ ~UniqueAllows(p)
    /\ Goto(p, "print")
    /\ UNCHANGED <<dbvars, drawn, issued, shown>>
UniqueViolation(p) ==
    /\ At(p, "insert")
    /\ MayWrite(p)
    /\ ~UniqueAllows(p)
    /\ Ends(p)

\* The process is killed between two statements.
Crash(p) == cli[p] # Off /\ Ends(p)

CliStep(p) ==
    \/ SelectRow(p)
    \/ DeleteRow(p)
    \/ InsertRow(p)
    \/ UpdateRow(p)
    \/ CommitJob(p)
    \/ PrintKey(p)
    \/ LockTimeout(p)
    \/ UniqueViolation(p)

CliNext == \E p \in Procs : Start(p) \/ CliStep(p) \/ Crash(p)

-----------------------------------------------------------------------------

\* The commands alone, on a database that holds only the key table.

vars == <<dbvars, clivars>>

Init == DbInit([keys |-> {}]) /\ CliInit

Spec == Init /\ [][CliNext]_vars

\* A started process is scheduled until it ends; sqlite's busy handler gives up.
FairSpec == Spec /\ \A p \in Procs : WF_vars(CliStep(p))

-----------------------------------------------------------------------------

\* Every variable has its type.
TypeOK ==
    /\ committed \in [keys : SUBSET Row]
    /\ conn \in [Conns -> Transactions([keys : SUBSET Row])]
    /\ cli \in [Procs -> {Off} \cup Job]
    /\ drawn \subseteq Keys
    /\ issued \subseteq drawn
    /\ shown \subseteq issued

\* Rotation never leaves a client without a key: a client with a row keeps one
\* through every create, revoke, crash and rollback (create_key deletes the
\* old row before it inserts the new one).
ClientKeepsRow ==
    [][\A c \in Clients : RowsOf(committed, c) # {} => RowsOf(committed', c) # {}]_vars

\* A key that was revoked, or replaced by a rotation, never works again.
DeadKeysStayDead ==
    [][\A k \in issued :
          (\A r \in committed.keys : r.key = k => ~r.active)
          => (\A r \in committed'.keys : r.key = k => ~r.active)]_vars

\* Every started command ends.
CommandsEnd == \A p \in Procs : cli[p] # Off ~> cli[p] = Off
====
