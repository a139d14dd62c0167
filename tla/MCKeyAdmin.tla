---- MODULE MCKeyAdmin ----
(* KeyAdmin for TLC, and the registry it implements.                        *)
EXTENDS KeyAdmin

RowOf(c) == CHOOSE r \in RowsOf(committed, c) : TRUE
HasRow(c) == RowsOf(committed, c) # {}

Registry == INSTANCE KeyRegistry WITH
    key <- [c \in Clients |-> IF HasRow(c) THEN RowOf(c).key ELSE NoKey],
    active <- [c \in Clients |-> HasRow(c) /\ RowOf(c).active]

\* Interleaved, crashing and failing commands on the shared file act like
\* create and revoke executed one at a time (create_key, revoke_key).
ImplementsRegistry == Registry!Spec
====
