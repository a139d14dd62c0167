---- MODULE RateLimiter ----
(***************************************************************************)
(* The per-client sliding-window rate limiter of demandops/security/auth.py *)
(* (class RateLimiter) as requires_auth drives it.  The limiter keeps one   *)
(* deque of wall-clock stamps per client; check() drops expired stamps from *)
(* the left, refuses when the deque is still full and otherwise appends.    *)
(*                                                                          *)
(* The code reads time.time(), a wall clock that can be stepped.  Here      *)
(* `now` is true time and the clock shows now - skew, where skew may change *)
(* at any moment inside 0..MaxSkew.  `accepted` and `refusedAt` are history *)
(* variables in true time: what a client observed, against which the deque  *)
(* is judged.  The limiter is in memory, so Restart empties it.             *)
(***************************************************************************)
EXTENDS Naturals, Integers, Sequences

CONSTANTS
    Clients,    \* client names
    Limits,     \* rate_limit values a key row may hold
    Window,     \* seconds a stamp counts, 60 in the code
    MaxSkew,    \* largest error of the wall clock
    MaxTime     \* bound on true time

ASSUME LimitsPositive == Limits \subseteq Nat \ {0}
ASSUME TimesNatural == Window \in Nat /\ MaxSkew \in Nat /\ MaxTime \in Nat

NoTime == -1

VARIABLES
    now,        \* true time, in ticks
    skew,       \* the wall clock shows now - skew
    limit,      \* limit[c]: rate_limit of the client's current key row
    windows,    \* windows[c]: self._windows, oldest stamp first
    accepted,   \* accepted[c]: every acceptance since start, [at, limit]
    refusedAt   \* refusedAt[c]: time of the last check if it was refused

vars == <<now, skew, limit, windows, accepted, refusedAt>>

Wall == now - skew
Cutoff == Wall - Window

MutantExpired(stamp) == stamp <= Cutoff
Expired(stamp) == stamp < Cutoff

\* The `while dq and dq[0] < cutoff: popleft()` loop stops after n pops.
MutantEvictsExactly(dq, n) == n = IF dq # <<>> /\ Expired(dq[1]) THEN 1 ELSE 0
EvictsExactly(dq, n) ==
    /\ \A i \in 1 .. n : Expired(dq[i])
    /\ n < Len(dq) => ~Expired(dq[n + 1])

Live(dq, n) == SubSeq(dq, n + 1, Len(dq))

MutantFull(c, n) == Len(windows[c]) - n > limit[c]
Full(c, n) == Len(windows[c]) - n >= limit[c]

Init ==
    /\ now = 0
    /\ skew \in 0 .. MaxSkew
    /\ limit \in [Clients -> Limits]
    /\ windows = [c \in Clients |-> <<>>]
    /\ accepted = [c \in Clients |-> <<>>]
    /\ refusedAt = [c \in Clients |-> NoTime]

\* check() returns True: room is left after eviction, the stamp is appended.
Allow(c) ==
    \E n \in 0 .. Len(windows[c]) :
        /\ EvictsExactly(windows[c], n)
        /\ ~Full(c, n)
        /\ windows' = [windows EXCEPT ![c] = Append(Live(windows[c], n), Wall)]
        /\ accepted' = [accepted EXCEPT
                          ![c] = Append(accepted[c], [at |-> now, limit |-> limit[c]])]
        /\ refusedAt' = [refusedAt EXCEPT ![c] = NoTime]
        /\ UNCHANGED <<now, skew, limit>>

\* check() returns False: still full after eviction, which is kept.
Refuse(c) ==
    \E n \in 0 .. Len(windows[c]) :
        /\ EvictsExactly(windows[c], n)
        /\ Full(c, n)
        /\ windows' = [windows EXCEPT ![c] = Live(windows[c], n)]
        /\ refusedAt' = [refusedAt EXCEPT ![c] = now]
        /\ UNCHANGED <<now, skew, limit, accepted>>

\* manage_keys create rotates the key, with a positive limit; the deque is kept
\* by client name.
MutantRekey(c) ==
    /\ \E l \in Limits \cup {0} : limit' = [limit EXCEPT ![c] = l]
    /\ UNCHANGED <<now, skew, windows, accepted, refusedAt>>
Rekey(c) ==
    /\ \E l \in Limits : limit' = [limit EXCEPT ![c] = l]
    /\ UNCHANGED <<now, skew, windows, accepted, refusedAt>>

\* The limiter lives in app.state: a restarted server starts an empty one.
Restart ==
    /\ windows' = [c \in Clients |-> <<>>]
    /\ accepted' = [c \in Clients |-> <<>>]
    /\ UNCHANGED <<now, skew, limit, refusedAt>>

\* Time passes; the wall clock may be stepped in either direction.
Tick ==
    /\ now < MaxTime
    /\ now' = now + 1
    /\ skew' \in 0 .. MaxSkew
    /\ UNCHANGED <<limit, windows, accepted, refusedAt>>

Next ==
    \/ \E c \in Clients : Allow(c)
    \/ \E c \in Clients : Refuse(c)
    \/ \E c \in Clients : Rekey(c)
    \/ Restart
    \/ Tick

Spec == Init /\ [][Next]_vars

-----------------------------------------------------------------------------

Acceptance == [at : Nat, limit : Limits]

\* Every variable has its type.
TypeOK ==
    /\ now \in Nat
    /\ skew \in 0 .. MaxSkew
    /\ limit \in [Clients -> Limits]
    /\ windows \in [Clients -> Seq(Int)]
    /\ accepted \in [Clients -> Seq(Acceptance)]
    /\ refusedAt \in [Clients -> Nat \cup {NoTime}]

\* An accepted request and the one `limit` acceptances before it are more than
\* a window apart in true time, up to the error of the clock: the lazily
\* evicted deque never forgets a stamp that still counts (RateLimiter.check),
\* whatever limits the client's key had in between.
WindowBound ==
    \A c \in Clients : \A i \in 1 .. Len(accepted[c]) :
        i > accepted[c][i].limit =>
            accepted[c][i].at - accepted[c][i - accepted[c][i].limit].at
                > Window - MaxSkew

\* A client refused twice in a row cannot have waited longer than the window
\* (plus the clock error) in between: the "Retry-After: 60" of requires_auth
\* is kept even when the key was rotated to a smaller limit meanwhile.
RetryAfterKept ==
    [][\A c \in Clients :
          refusedAt[c] # NoTime /\ refusedAt'[c] # NoTime =>
              refusedAt'[c] - refusedAt[c] <= Window + MaxSkew]_vars
====
