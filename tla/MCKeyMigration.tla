---- MODULE MCKeyMigration ----
(* KeyMigration for TLC: every legacy table of at most three rows.          *)
EXTENDS KeyMigration

CONSTANTS alice, bob, p1, p2

MCClients == {alice, bob}
MCConns == {p1, p2}
MCMaxSeq == 4

MCRow == [client : MCClients, seq : 1 .. 3, valid : BOOLEAN]
MCLegacy == {t \in SUBSET MCRow : \A r, s \in t : r.seq = s.seq => r = s}
====
