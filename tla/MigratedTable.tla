---- MODULE MigratedTable ----
(***************************************************************************)
(* What opening the database promises about api_keys: the legacy table      *)
(* becomes, in one step and once, the table with the newest valid row of    *)
(* each client; keys are created in the migrated table only.                *)
(***************************************************************************)
EXTENDS Naturals

CONSTANTS Clients, MaxSeq, Legacy

VARIABLES schema, rows

vars == <<schema, rows>>

Init ==
    /\ schema = "legacy"
    /\ rows \in Legacy

\* The newest row of each client among those the CHECK constraints accept.
Migrate ==
    /\ schema = "legacy" /\ schema' = "current"
    /\ rows' = {r \in rows : r.valid /\ \A s \in rows :
                                 s.valid /\ s.client = r.client => s.seq <= r.seq}

\* create_key installs one new row and removes the client's old one.
Create(c) ==
    /\ schema = "current" /\ UNCHANGED schema
    /\ \E n \in 1 .. MaxSeq :
          /\ \A r \in rows : r.seq < n
          /\ rows' = {r \in rows : r.client # c}
                     \cup {[client |-> c, seq |-> n, valid |-> TRUE]}

Next == Migrate \/ \E c \in Clients : Create(c)

Spec == Init /\ [][Next]_vars
====
