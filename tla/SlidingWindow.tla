---- MODULE SlidingWindow ----
(***************************************************************************)
(* What the rate limiter promises, with no deque and no clock but the true  *)
(* one: a request is allowed when fewer than `limit` requests were allowed  *)
(* in the last Window seconds and refused otherwise, counted over the whole *)
(* history since the start.  A clock that may be wrong by MaxSkew widens    *)
(* the border between the two by as much; with MaxSkew = 0 it is exact.     *)
(***************************************************************************)
EXTENDS Integers, Sequences, FiniteSets

CONSTANTS Clients, Limits, Window, MaxSkew, MaxTime, NoTime

VARIABLES now, limit, accepted, refusedAt

vars == <<now, limit, accepted, refusedAt>>

YoungerThan(c, age) == {i \in 1 .. Len(accepted[c]) : now - accepted[c][i].at <= age}

Init ==
    /\ now = 0
    /\ limit \in [Clients -> Limits]
    /\ accepted = [c \in Clients |-> <<>>]
    /\ refusedAt = [c \in Clients |-> NoTime]

Allow(c) ==
    /\ Cardinality(YoungerThan(c, Window - MaxSkew)) < limit[c]
    /\ accepted' = [accepted EXCEPT
                      ![c] = Append(@, [at |-> now, limit |-> limit[c]])]
    /\ refusedAt' = [refusedAt EXCEPT ![c] = NoTime]
    /\ UNCHANGED <<now, limit>>

Refuse(c) ==
    /\ Cardinality(YoungerThan(c, Window + MaxSkew)) >= limit[c]
    /\ refusedAt' = [refusedAt EXCEPT ![c] = now]
    /\ UNCHANGED <<now, limit, accepted>>

Rekey(c) ==
    /\ \E l \in Limits : limit' = [limit EXCEPT ![c] = l]
    /\ UNCHANGED <<now, accepted, refusedAt>>

Restart ==
    /\ accepted' = [c \in Clients |-> <<>>]
    /\ UNCHANGED <<now, limit, refusedAt>>

Tick ==
    /\ now < MaxTime
    /\ now' = now + 1
    /\ UNCHANGED <<limit, accepted, refusedAt>>

Next ==
    \/ \E c \in Clients : Allow(c) \/ Refuse(c) \/ Rekey(c)
    \/ Restart
    \/ Tick

Spec == Init /\ [][Next]_vars
====
