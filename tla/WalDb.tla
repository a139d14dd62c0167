---- MODULE WalDb ----
(***************************************************************************)
(* The shared SQLite database as the code uses it: a WAL file opened by the *)
(* server and by the manage_keys processes, each through one sqlite3        *)
(* connection with the default (deferred, implicit) transactions.  External *)
(* to the repository; the code's use of it is get_db and the pairs          *)
(* execute / commit.                                                        *)
(*                                                                          *)
(*   idle   no transaction: a SELECT reads the last commit and ends         *)
(*   begun  BEGIN was issued for a write that then timed out on the lock;   *)
(*          nothing has been read yet, so no snapshot is held               *)
(*   read   a SELECT in `begun` took a snapshot; it lasts until commit      *)
(*   stale  as `read`, and another connection has committed since           *)
(*   write  the connection holds the write lock; view is its own data       *)
(***************************************************************************)
CONSTANT Conns      \* the connections

VARIABLES
    committed,      \* the database as last committed
    conn            \* conn[p]: the transaction of connection p

dbvars == <<committed, conn>>

Idle == [mode |-> "idle"]
Begun == [mode |-> "begun"]
Txn(mode, data) == [mode |-> mode, view |-> data]

Transactions(Data) == {Idle, Begun} \cup [mode : {"read", "stale", "write"}, view : Data]

DbInit(data) ==
    /\ committed = data
    /\ conn = [p \in Conns |-> Idle]

HasSnapshot(p) == conn[p] \notin {Idle, Begun}

Writing(p) == conn[p].mode = "write"

\* What a SELECT on p returns.
View(p) == IF HasSnapshot(p) THEN conn[p].view ELSE committed

\* A SELECT; its only effect is the snapshot it takes in a begun transaction.
Select(p) ==
    /\ conn' = [conn EXCEPT ![p] = IF @ = Begun THEN Txn("read", committed) ELSE @]
    /\ UNCHANGED committed

\* The first write of a transaction takes the lock; later ones have it.  A
\* transaction whose snapshot is not the last commit can never write.
MayWrite(p) ==
    /\ \A q \in Conns \ {p} : ~Writing(q)
    /\ conn[p].mode # "stale"

\* A write that succeeds and leaves p's transaction with the data given.
Write(p, data) ==
    /\ MayWrite(p)
    /\ conn' = [conn EXCEPT ![p] = Txn("write", data)]
    /\ UNCHANGED committed

\* A write that fails: after the busy timeout when no snapshot is held, at
\* once when one is.  Python has issued BEGIN and leaves the transaction open.
WriteFails(p) ==
    /\ ~MayWrite(p)
    /\ conn' = [conn EXCEPT ![p] = IF @ = Idle THEN Begun ELSE @]
    /\ UNCHANGED committed

\* Commit ends any transaction and publishes a writer's data.
Commit(p) ==
    /\ committed' = IF Writing(p) THEN conn[p].view ELSE committed
    /\ conn' = [q \in Conns |->
                  IF q = p THEN Idle
                  ELSE IF Writing(p) /\ conn[q].mode = "read"
                       THEN Txn("stale", conn[q].view)
                       ELSE conn[q]]

\* Closing the connection, by close(), by an exception that ends the process
\* or by a crash, rolls an open transaction back.
Close(p) ==
    /\ conn' = [conn EXCEPT ![p] = Idle]
    /\ UNCHANGED committed
====
