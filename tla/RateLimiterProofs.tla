---- MODULE RateLimiterProofs ----
(***************************************************************************)
(* Proofs about RateLimiter, for every set of clients, every set of limits, *)
(* every window and every bound on the clock's error.                       *)
(*                                                                          *)
(* The property needs an invariant about what was evicted: the deque is the *)
(* tail of the history of acceptances (Remembered) and every acceptance in  *)
(* front of it is older than the window (Forgotten).                        *)
(* The refinement needs one thing more, that the acceptances of a client are*)
(* in order (Ordered): the promise counts them all, the deque keeps a tail. *)
(***************************************************************************)
EXTENDS MCRateLimiter, SequenceTheorems, FiniteSetTheorems, TLAPS

Evicted(c) == Len(accepted[c]) - Len(windows[c])

\* The deque is the tail of the history, stamped with a clock off by MaxSkew.
Remembered(c) ==
    /\ Len(windows[c]) <= Len(accepted[c])
    /\ \A i \in 1 .. Len(windows[c]) :
          /\ accepted[c][Evicted(c) + i].at - MaxSkew <= windows[c][i]
          /\ windows[c][i] <= accepted[c][Evicted(c) + i].at

\* What was evicted no longer counts.
Forgotten(c) ==
    \A j \in 1 .. Evicted(c) : accepted[c][j].at < now - Window + MaxSkew

\* Acceptances lie in the past, and before a refusal that is still the last.
Past(c) ==
    \A j \in 1 .. Len(accepted[c]) :
        /\ accepted[c][j].at <= now
        /\ refusedAt[c] # NoTime => accepted[c][j].at <= refusedAt[c]

\* WindowBound, for one client.
Bound(c) ==
    \A i \in 1 .. Len(accepted[c]) :
        i > accepted[c][i].limit =>
            accepted[c][i].at - accepted[c][i - accepted[c][i].limit].at
                > Window - MaxSkew

IInv ==
    /\ TypeOK
    /\ \A c \in Clients : Remembered(c) /\ Forgotten(c) /\ Past(c) /\ Bound(c)

-----------------------------------------------------------------------------

\* The deque left by the eviction loop: its length and its elements.
LEMMA LiveProperties ==
    ASSUME NEW dq \in Seq(Int), NEW n \in 0 .. Len(dq)
    PROVE  /\ Live(dq, n) \in Seq(Int)
           /\ Len(Live(dq, n)) = Len(dq) - n
           /\ \A i \in 1 .. Len(dq) - n : Live(dq, n)[i] = dq[n + i]
<1> DEFINE L == Len(dq)
<1>1. L \in Nat /\ \A i \in 1 .. L : dq[i] \in Int
  BY LenProperties
<1>2. \A i \in n + 1 .. L : dq[i] \in Int
  BY <1>1
<1>3. n + 1 \in Int /\ L \in Int
  BY <1>1
<1>4. /\ SubSeq(dq, n + 1, L) \in Seq(Int)
      /\ Len(SubSeq(dq, n + 1, L)) = IF n + 1 <= L THEN L - (n + 1) + 1 ELSE 0
      /\ \A i \in 1 .. L - (n + 1) + 1 : SubSeq(dq, n + 1, L)[i] = dq[n + 1 + i - 1]
  <2> HIDE DEF L
  <2> QED BY <1>2, <1>3, SubSeqProperties
<1> HIDE DEF L
<1>5. (IF n + 1 <= L THEN L - (n + 1) + 1 ELSE 0) = L - n
  BY <1>1 DEF L
<1>6. L - (n + 1) + 1 = L - n /\ \A i \in 1 .. L - n : n + 1 + i - 1 = n + i
  BY <1>1
<1> QED
  BY <1>4, <1>5, <1>6 DEF Live, L

\* Appending one element: length, old elements and the new one.
LEMMA Appended ==
    ASSUME NEW S, NEW s \in Seq(S), NEW e \in S, NEW t, t = Append(s, e)
    PROVE  /\ t \in Seq(S)
           /\ Len(t) = Len(s) + 1
           /\ Len(s) \in Nat
           /\ \A i \in 1 .. Len(s) : t[i] = s[i]
           /\ t[Len(s) + 1] = e
BY AppendProperties, LenProperties

\* Where position k of a deque of length w lies in the history of length a.
LEMMA Position ==
    \A a, w \in Nat : w <= a =>
        a - w \in Nat /\ \A k \in 0 .. w : /\ a - w + k = a - (w - k)
                                          /\ a - w + k \in 0 .. a
                                          /\ w - k \in Nat
OBVIOUS

\* Every initial state satisfies the invariant.
LEMMA InitInv == Init => IInv
<1> SUFFICES ASSUME Init PROVE IInv
  OBVIOUS
<1>1. TypeOK
  BY LimitsPositive DEF Init, TypeOK, NoTime
<1>2. ASSUME NEW c \in Clients
      PROVE  Remembered(c) /\ Forgotten(c) /\ Past(c) /\ Bound(c)
  <2>1. windows[c] = <<>> /\ accepted[c] = <<>>
    BY DEF Init
  <2> QED
    BY <2>1 DEF Remembered, Forgotten, Past, Bound, Evicted
<1> QED
  BY <1>1, <1>2 DEF IInv

\* What eviction drops has left the window; what it keeps is still remembered.
LEMMA EvictionForgets ==
    ASSUME IInv, NEW c \in Clients, NEW n \in 0 .. Len(windows[c]),
           EvictsExactly(windows[c], n)
    PROVE  \A j \in 1 .. Evicted(c) + n :
              j <= Len(accepted[c]) /\ accepted[c][j].at < now - Window + MaxSkew
<1>1. /\ windows[c] \in Seq(Int) /\ accepted[c] \in Seq(Acceptance)
      /\ now \in Nat /\ skew \in 0 .. MaxSkew
      /\ Remembered(c) /\ Forgotten(c)
  BY DEF IInv, TypeOK
<1>2. /\ Len(windows[c]) \in Nat /\ Len(accepted[c]) \in Nat
      /\ \A i \in 1 .. Len(windows[c]) : windows[c][i] \in Int
      /\ \A i \in 1 .. Len(accepted[c]) : accepted[c][i] \in Acceptance
  BY <1>1, LenProperties
<1>3. \A i \in 1 .. Len(accepted[c]) : accepted[c][i].at \in Nat
  BY <1>2 DEF Acceptance
<1> SUFFICES ASSUME NEW j \in 1 .. Evicted(c) + n
             PROVE  j <= Len(accepted[c]) /\ accepted[c][j].at < now - Window + MaxSkew
  OBVIOUS
<1>4. Evicted(c) \in Nat /\ Evicted(c) + Len(windows[c]) = Len(accepted[c])
  BY <1>1, <1>2 DEF Remembered, Evicted
<1>5. j <= Len(accepted[c])
  BY <1>2, <1>4
<1>6. CASE j <= Evicted(c)
  BY <1>1, <1>4, <1>5, <1>6 DEF Forgotten
<1>7. CASE j > Evicted(c)
  <2> DEFINE i == j - Evicted(c)
  <2>1. i \in 1 .. n /\ i \in 1 .. Len(windows[c]) /\ Evicted(c) + i = j
    BY <1>2, <1>4, <1>7
  <2>2. windows[c][i] < now - skew - Window
    BY <2>1 DEF EvictsExactly, Expired, Cutoff, Wall
  <2>3. accepted[c][j].at - MaxSkew <= windows[c][i]
    BY <1>1, <2>1 DEF Remembered
  <2>4. accepted[c][j].at \in Nat /\ windows[c][i] \in Int
    BY <1>2, <1>3, <1>5, <2>1
  <2> HIDE DEF i
  <2> QED
    BY <1>1, <1>5, <2>2, <2>3, <2>4, TimesNatural
<1> QED
  BY <1>2, <1>4, <1>6, <1>7

\* A client whose deque, history and refusal are untouched keeps its conjuncts
\* as time goes on.
LEMMA Untouched ==
    ASSUME IInv, NEW c \in Clients, now' \in Nat, now <= now',
           windows'[c] = windows[c], accepted'[c] = accepted[c],
           refusedAt'[c] = refusedAt[c]
    PROVE  Remembered(c)' /\ Forgotten(c)' /\ Past(c)' /\ Bound(c)'
<1>1. /\ Remembered(c) /\ Forgotten(c) /\ Past(c) /\ Bound(c)
      /\ now \in Nat /\ accepted[c] \in Seq(Acceptance) /\ windows[c] \in Seq(Int)
  BY DEF IInv, TypeOK
<1>2. \A i \in 1 .. Len(accepted[c]) : accepted[c][i].at \in Nat
  <2>1. \A i \in 1 .. Len(accepted[c]) : accepted[c][i] \in Acceptance
    BY <1>1, LenProperties
  <2> QED
    BY <2>1 DEF Acceptance
<1>3. Remembered(c)'
  BY <1>1 DEF Remembered, Evicted
<1>4. Forgotten(c)'
  <2>1. Len(accepted[c]) \in Nat /\ Len(windows[c]) \in Nat
    BY <1>1, LenProperties
  <2> SUFFICES ASSUME NEW j \in 1 .. Evicted(c)
               PROVE  accepted[c][j].at < now' - Window + MaxSkew
    BY DEF Forgotten, Evicted
  <2>2. accepted[c][j].at < now - Window + MaxSkew /\ accepted[c][j].at \in Nat
    BY <1>1, <1>2, <2>1 DEF Forgotten, Evicted
  <2> QED
    BY <1>1, <2>2, TimesNatural
<1>5. Past(c)'
  <2> SUFFICES ASSUME NEW j \in 1 .. Len(accepted[c])
               PROVE  /\ accepted[c][j].at <= now'
                      /\ refusedAt[c] # NoTime => accepted[c][j].at <= refusedAt[c]
    BY DEF Past
  <2> QED
    BY <1>1, <1>2 DEF Past
<1>6. Bound(c)'
  BY <1>1 DEF Bound
<1> QED
  BY <1>3, <1>4, <1>5, <1>6

\* Allow: the new acceptance is `limit` or more places behind an evicted one.
LEMMA AllowInv ==
    ASSUME IInv, NEW c \in Clients, Allow(c)
    PROVE  IInv'
<1>1. /\ TypeOK /\ Remembered(c) /\ Past(c) /\ Bound(c)
      /\ windows[c] \in Seq(Int) /\ accepted[c] \in Seq(Acceptance)
      /\ now \in Nat /\ skew \in 0 .. MaxSkew /\ limit[c] \in Nat \ {0}
  BY LimitsPositive DEF IInv, TypeOK
<1>2. PICK n \in 0 .. Len(windows[c]) :
        /\ EvictsExactly(windows[c], n)
        /\ ~Full(c, n)
        /\ windows' = [windows EXCEPT ![c] = Append(Live(windows[c], n), Wall)]
        /\ accepted' = [accepted EXCEPT
                          ![c] = Append(accepted[c], [at |-> now, limit |-> limit[c]])]
        /\ refusedAt' = [refusedAt EXCEPT ![c] = NoTime]
        /\ UNCHANGED <<now, skew, limit>>
  BY DEF Allow
<1> DEFINE w == Live(windows[c], n)
           a == accepted[c]
           e == [at |-> now, limit |-> limit[c]]
<1>3. /\ w \in Seq(Int) /\ Len(w) = Len(windows[c]) - n
      /\ \A i \in 1 .. Len(windows[c]) - n : w[i] = windows[c][n + i]
  BY <1>1, LiveProperties
<1>4. e \in Acceptance /\ Wall \in Int /\ NoTime \in Nat \cup {NoTime}
  BY <1>1, TimesNatural DEF Acceptance, Wall, TypeOK
<1>5. /\ windows'[c] = Append(w, Wall) /\ accepted'[c] = Append(a, e)
  BY <1>1, <1>2 DEF TypeOK
<1>6. /\ windows'[c] \in Seq(Int) /\ Len(windows'[c]) = Len(w) + 1 /\ Len(w) \in Nat
      /\ \A i \in 1 .. Len(w) : windows'[c][i] = w[i]
      /\ windows'[c][Len(w) + 1] = Wall
  <2> DEFINE S == Int
  <2>1. w \in Seq(S) /\ Wall \in S
    BY <1>3, <1>4
  <2> HIDE DEF w, S
  <2>2. /\ windows'[c] \in Seq(S) /\ Len(windows'[c]) = Len(w) + 1 /\ Len(w) \in Nat
        /\ \A i \in 1 .. Len(w) : windows'[c][i] = w[i]
        /\ windows'[c][Len(w) + 1] = Wall
    BY <1>5, <2>1, Appended
  <2> QED
    BY <2>2 DEF S
<1>7. /\ accepted'[c] \in Seq(Acceptance) /\ Len(accepted'[c]) = Len(a) + 1 /\ Len(a) \in Nat
      /\ \A i \in 1 .. Len(a) : accepted'[c][i] = a[i]
      /\ accepted'[c][Len(a) + 1] = e
  <2>1. a \in Seq(Acceptance)
    BY <1>1
  <2> HIDE DEF a, e
  <2> QED
    BY <1>4, <1>5, <2>1, Appended
<1>8. TypeOK'
  <2>1. \A d \in Clients : windows'[d] \in Seq(Int)
    BY <1>1, <1>2, <1>6 DEF TypeOK
  <2>2. \A d \in Clients : accepted'[d] \in Seq(Acceptance)
    BY <1>1, <1>2, <1>7 DEF TypeOK
  <2>3. /\ DOMAIN windows' = Clients /\ DOMAIN accepted' = Clients
        /\ windows' = [d \in Clients |-> windows'[d]]
        /\ accepted' = [d \in Clients |-> accepted'[d]]
    BY <1>1, <1>2 DEF TypeOK
  <2>4. refusedAt' \in [Clients -> Nat \cup {NoTime}]
    BY <1>1, <1>2 DEF TypeOK
  <2> HIDE DEF w, a, e
  <2> QED
    BY <1>1, <1>2, <2>1, <2>2, <2>3, <2>4 DEF TypeOK
<1>9. \A i \in 1 .. Len(a) : a[i].at \in Nat /\ a[i].limit \in Nat \ {0}
  <2>1. \A i \in 1 .. Len(a) : a[i] \in Acceptance
    BY <1>1, LenProperties
  <2> QED
    BY <2>1, LimitsPositive DEF Acceptance
<1>10. e.at = now /\ e.limit = limit[c]
  OBVIOUS
<1>11. /\ Len(windows[c]) \in Nat /\ Evicted(c) \in Nat
       /\ Evicted(c) + Len(windows[c]) = Len(a)
       /\ \A i \in 1 .. Len(windows[c]) : windows[c][i] \in Int
       /\ n \in Nat /\ n <= Len(windows[c])
  BY <1>1, <1>7, LenProperties DEF Remembered, Evicted
<1>12. Evicted(c)' = Evicted(c) + n
  <2> HIDE DEF w, a, e
  <2> QED BY <1>3, <1>6, <1>7, <1>11 DEF Evicted, a
<1>13. \A j \in 1 .. Evicted(c) + n :
          j <= Len(a) /\ a[j].at < now - Window + MaxSkew
  BY <1>2, EvictionForgets
<1>14. now' = now /\ refusedAt'[c] = NoTime
  BY <1>1, <1>2 DEF TypeOK
<1>15. Len(windows[c]) - n < limit[c]
  BY <1>1, <1>2, <1>11 DEF Full
<1> HIDE DEF w, a, e
<1>16. /\ Len(w) \in Nat /\ Len(windows[c]) \in Nat /\ n \in Nat
       /\ n + Len(w) = Len(windows[c]) /\ Len(windows'[c]) = Len(w) + 1
  BY <1>3, <1>6, <1>11
<1>17. /\ Evicted(c) \in Nat /\ Evicted(c)' = Evicted(c) + n
       /\ Evicted(c) + Len(windows[c]) = Len(a)
  BY <1>11, <1>12 DEF a
<1>18. Remembered(c)'
  <2>1. Len(windows'[c]) <= Len(accepted'[c])
    BY <1>3, <1>6, <1>7, <1>11
  <2>2. ASSUME NEW i \in 1 .. Len(windows'[c])
        PROVE  /\ accepted'[c][Evicted(c)' + i].at - MaxSkew <= windows'[c][i]
               /\ windows'[c][i] <= accepted'[c][Evicted(c)' + i].at
    <3>1. CASE i <= Len(w)
      <4>1. /\ i \in 1 .. Len(w) /\ i \in 1 .. Len(windows[c]) - n
            /\ n + i \in 1 .. Len(windows[c])
        BY <1>16, <3>1
      <4>2. accepted'[c][Evicted(c)' + i] = a[Evicted(c) + (n + i)]
        <5>1. /\ Evicted(c)' + i = Evicted(c) + (n + i)
              /\ Evicted(c) + (n + i) \in 1 .. Len(a)
          BY <1>11, <1>12, <4>1
        <5> QED
          BY <1>7, <5>1
      <4>3. windows'[c][i] = windows[c][n + i]
        BY <1>3, <1>6, <4>1
      <4> QED
        BY <1>1, <4>1, <4>2, <4>3 DEF Remembered, a
    <3>2. CASE i = Len(w) + 1
      <4>1. windows'[c][i] = Wall
        BY <1>6, <3>2
      <4>2. Evicted(c)' + i = Len(a) + 1
        BY <1>16, <1>17, <3>2
      <4>3. accepted'[c][Evicted(c)' + i].at = now
        <5>1. accepted'[c][Evicted(c)' + i] = e
          BY <1>7, <4>2
        <5> QED
          BY <1>10, <5>1
      <4> QED
        BY <1>1, <4>1, <4>3, TimesNatural DEF Wall
    <3> QED
      BY <1>6, <3>1, <3>2
  <2> QED
    BY <2>1, <2>2 DEF Remembered
<1>19. Forgotten(c)'
  <2>1. \A j \in 1 .. Evicted(c) + n : accepted'[c][j] = a[j]
    BY <1>7, <1>11, <1>13
  <2> QED
    BY <1>12, <1>13, <1>14, <2>1 DEF Forgotten
<1>20. Len(a) \in Nat /\ Len(accepted'[c]) = Len(a) + 1
  BY <1>7
<1>21. Past(c)'
  <2> SUFFICES ASSUME NEW j \in 1 .. Len(accepted'[c])
               PROVE  accepted'[c][j].at <= now
    BY <1>14 DEF Past
  <2>1. CASE j <= Len(a)
    <3>1. j \in 1 .. Len(a)
      BY <1>20, <2>1
    <3>2. accepted'[c][j] = a[j]
      BY <1>7, <3>1
    <3>3. a[j].at <= now
      BY <1>1, <3>1 DEF Past, a
    <3> QED
      BY <3>2, <3>3
  <2>2. CASE j = Len(a) + 1
    <3>1. accepted'[c][j] = e
      BY <1>7, <2>2
    <3>2. accepted'[c][j].at = now
      BY <1>10, <3>1
    <3> QED
      BY <1>1, <3>2
  <2>3. j <= Len(a) \/ j = Len(a) + 1
    BY <1>20
  <2> QED
    BY <2>1, <2>2, <2>3
<1>22. Bound(c)'
  <2> SUFFICES ASSUME NEW i \in 1 .. Len(accepted'[c]), i > accepted'[c][i].limit
               PROVE  accepted'[c][i].at - accepted'[c][i - accepted'[c][i].limit].at
                          > Window - MaxSkew
    BY DEF Bound
  <2>1. CASE i <= Len(a)
    <3>1. accepted'[c][i] = a[i] /\ i \in 1 .. Len(a)
      BY <1>7, <2>1
    <3>2. i - a[i].limit \in 1 .. Len(a)
      BY <1>7, <1>9, <3>1
    <3>3. accepted'[c][i - a[i].limit] = a[i - a[i].limit]
      BY <1>7, <3>2
    <3> QED
      BY <1>1, <3>1, <3>3 DEF Bound, a
  <2>2. CASE i = Len(a) + 1
    <3>1. accepted'[c][i] = e
      BY <1>7, <2>2
    <3>2. i - limit[c] \in 1 .. Evicted(c) + n
      BY <1>1, <1>10, <1>11, <1>15, <2>2, <3>1
    <3>3. accepted'[c][i - limit[c]] = a[i - limit[c]]
      BY <1>1, <1>7, <1>13, <3>2
    <3>4. a[i - limit[c]].at < now - Window + MaxSkew /\ a[i - limit[c]].at \in Nat
      BY <1>7, <1>9, <1>13, <3>2
    <3>5. accepted'[c][i].at = now /\ accepted'[c][i].limit = limit[c]
      BY <1>10, <3>1
    <3>6. now - a[i - limit[c]].at > Window - MaxSkew
      BY <1>1, <3>4, TimesNatural
    <3> QED
      BY <3>3, <3>5, <3>6
  <2>3. i <= Len(a) \/ i = Len(a) + 1
    BY <1>20
  <2> QED
    BY <2>1, <2>2, <2>3
<1>23. ASSUME NEW d \in Clients, d # c
       PROVE  Remembered(d)' /\ Forgotten(d)' /\ Past(d)' /\ Bound(d)'
  <2>1. /\ windows'[d] = windows[d] /\ accepted'[d] = accepted[d]
        /\ refusedAt'[d] = refusedAt[d]
    BY <1>1, <1>2, <1>23 DEF TypeOK
  <2> QED
    BY <1>1, <1>14, <2>1, Untouched
<1> QED
  BY <1>8, <1>18, <1>19, <1>21, <1>22, <1>23 DEF IInv

\* Refuse: only evictions and the time of the refusal change.
LEMMA RefuseInv ==
    ASSUME IInv, NEW c \in Clients, Refuse(c)
    PROVE  IInv'
<1>1. /\ TypeOK /\ Remembered(c) /\ Past(c) /\ Bound(c)
      /\ windows[c] \in Seq(Int) /\ accepted[c] \in Seq(Acceptance)
      /\ now \in Nat /\ Len(windows[c]) \in Nat /\ Len(accepted[c]) \in Nat
  BY LenProperties DEF IInv, TypeOK
<1>2. PICK n \in 0 .. Len(windows[c]) :
        /\ EvictsExactly(windows[c], n)
        /\ windows' = [windows EXCEPT ![c] = Live(windows[c], n)]
        /\ refusedAt' = [refusedAt EXCEPT ![c] = now]
        /\ UNCHANGED <<now, skew, limit, accepted>>
  BY DEF Refuse
<1> DEFINE w == Live(windows[c], n)
<1>3. /\ w \in Seq(Int) /\ Len(w) = Len(windows[c]) - n
      /\ \A i \in 1 .. Len(windows[c]) - n : w[i] = windows[c][n + i]
  BY <1>1, LiveProperties
<1> HIDE DEF w
<1>4. windows' = [windows EXCEPT ![c] = w]
  BY <1>2 DEF w
<1>5. /\ windows'[c] = w /\ accepted' = accepted /\ now' = now /\ refusedAt'[c] = now
  BY <1>1, <1>2, <1>4 DEF TypeOK
<1>6. TypeOK'
  BY <1>1, <1>2, <1>3, <1>4 DEF TypeOK
<1>7. /\ Evicted(c) \in Nat /\ n \in Nat /\ Evicted(c)' = Evicted(c) + n
      /\ n + Len(w) = Len(windows[c]) /\ Len(w) \in Nat
      /\ Evicted(c) + Len(windows[c]) = Len(accepted[c])
  <2>1. Evicted(c)' = Len(accepted[c]) - Len(w)
    BY <1>5 DEF Evicted
  <2>2. Len(windows[c]) <= Len(accepted[c])
    BY <1>1 DEF Remembered
  <2>3. Len(w) = Len(windows[c]) - n
    BY <1>3
  <2>4. Len(windows[c]) \in Nat /\ Len(accepted[c]) \in Nat
    BY <1>1
  <2>5. /\ Len(accepted[c]) - Len(windows[c]) \in Nat
        /\ Len(accepted[c]) - (Len(windows[c]) - n) = Len(accepted[c]) - Len(windows[c]) + n
        /\ Len(windows[c]) - n \in Nat
    BY <2>2, <2>4, Position
  <2>6. Evicted(c) = Len(accepted[c]) - Len(windows[c])
    BY DEF Evicted
  <2>7. Evicted(c)' = Evicted(c) + n /\ Evicted(c) \in Nat
    BY <2>1, <2>3, <2>5, <2>6
  <2>8. Evicted(c) + Len(windows[c]) = Len(accepted[c])
    BY <2>4, <2>6
  <2>9. n \in Nat /\ n + Len(w) = Len(windows[c]) /\ Len(w) \in Nat
    BY <2>3, <2>4, <2>5
  <2> QED
    BY <2>7, <2>8, <2>9
<1>8. Remembered(c)'
  <2>1. Len(w) <= Len(accepted[c])
    BY <1>7
  <2>2. ASSUME NEW i \in 1 .. Len(w)
        PROVE  /\ accepted[c][Evicted(c)' + i].at - MaxSkew <= w[i]
               /\ w[i] <= accepted[c][Evicted(c)' + i].at
    <3>1. n + i \in 1 .. Len(windows[c]) /\ i \in 1 .. Len(windows[c]) - n
      BY <1>7
    <3>2. w[i] = windows[c][n + i]
      BY <1>3, <3>1
    <3>3. Evicted(c)' + i = Evicted(c) + (n + i)
      BY <1>7
    <3> QED
      BY <1>1, <3>1, <3>2, <3>3 DEF Remembered
  <2> QED
    BY <1>5, <2>1, <2>2 DEF Remembered
<1>9. Forgotten(c)'
  <2>1. \A j \in 1 .. Evicted(c) + n : accepted[c][j].at < now - Window + MaxSkew
    BY <1>2, EvictionForgets
  <2> QED
    BY <1>5, <1>7, <2>1 DEF Forgotten
<1>10. Past(c)'
  BY <1>1, <1>5 DEF Past
<1>11. Bound(c)'
  BY <1>1, <1>5 DEF Bound
<1>12. ASSUME NEW d \in Clients, d # c
       PROVE  Remembered(d)' /\ Forgotten(d)' /\ Past(d)' /\ Bound(d)'
  <2>1. /\ windows'[d] = windows[d] /\ accepted'[d] = accepted[d]
        /\ refusedAt'[d] = refusedAt[d]
    BY <1>1, <1>2, <1>12 DEF TypeOK
  <2> QED
    BY <1>1, <1>5, <2>1, Untouched
<1> QED
  BY <1>6, <1>8, <1>9, <1>10, <1>11, <1>12 DEF IInv

\* Rekey touches nothing the limiter remembers.
LEMMA RekeyInv ==
    ASSUME IInv, NEW c \in Clients, Rekey(c)
    PROVE  IInv'
<1>1. TypeOK' /\ now \in Nat /\ now' = now
  BY DEF IInv, TypeOK, Rekey
<1>2. ASSUME NEW d \in Clients
      PROVE  Remembered(d)' /\ Forgotten(d)' /\ Past(d)' /\ Bound(d)'
  BY <1>1, Untouched DEF Rekey
<1> QED
  BY <1>1, <1>2 DEF IInv

\* Restart forgets the deque and the history together.
LEMMA RestartInv ==
    ASSUME IInv, Restart
    PROVE  IInv'
<1>1. TypeOK'
  BY DEF IInv, TypeOK, Restart
<1>2. ASSUME NEW c \in Clients
      PROVE  Remembered(c)' /\ Forgotten(c)' /\ Past(c)' /\ Bound(c)'
  <2>1. windows'[c] = <<>> /\ accepted'[c] = <<>>
    BY DEF Restart
  <2> QED
    BY <2>1 DEF Remembered, Forgotten, Past, Bound, Evicted
<1> QED
  BY <1>1, <1>2 DEF IInv

\* Tick: what left the window stays out of it, whatever the clock shows.
LEMMA TickInv ==
    ASSUME IInv, Tick
    PROVE  IInv'
<1>1. TypeOK' /\ now' \in Nat /\ now <= now'
  BY DEF IInv, TypeOK, Tick
<1>2. ASSUME NEW c \in Clients
      PROVE  Remembered(c)' /\ Forgotten(c)' /\ Past(c)' /\ Bound(c)'
  BY <1>1, Untouched DEF Tick
<1> QED
  BY <1>1, <1>2 DEF IInv

\* A step that changes nothing keeps everything.
LEMMA StutterInv ==
    ASSUME IInv, UNCHANGED vars
    PROVE  IInv'
BY DEF IInv, vars, TypeOK, Remembered, Forgotten, Past, Bound, Evicted

\* The invariant holds throughout.
LEMMA Invariance == Spec => []IInv
<1>1. IInv /\ [Next]_vars => IInv'
  BY AllowInv, RefuseInv, RekeyInv, RestartInv, TickInv, StutterInv DEF Next
<1> QED
  BY InitInv, <1>1, PTL DEF Spec

-----------------------------------------------------------------------------

\* Types of the limiter's state (RateLimiter.__init__, check).
THEOREM TypeCorrect == Spec => []TypeOK
<1>1. IInv => TypeOK
  BY DEF IInv
<1> QED
  BY Invariance, <1>1, PTL

\* No request is accepted within a window of the one `limit` acceptances
\* before it, for every number of clients, limit, window and clock error
\* (RateLimiter.check).
THEOREM WindowBoundHolds == Spec => []WindowBound
<1>1. IInv => WindowBound
  BY DEF IInv, Bound, WindowBound
<1> QED
  BY Invariance, <1>1, PTL

\* A client that waits longer than the window plus the clock error after a
\* refusal is not refused again (RateLimiter.check, the Retry-After header).
THEOREM RetryAfterHolds == Spec => RetryAfterKept
<1> DEFINE Kept(c) == refusedAt[c] # NoTime /\ refusedAt'[c] # NoTime =>
                          refusedAt'[c] - refusedAt[c] <= Window + MaxSkew
<1>1. ASSUME IInv, NEW c \in Clients, refusedAt'[c] = refusedAt[c]
      PROVE  Kept(c)
  BY <1>1, TimesNatural DEF IInv, TypeOK, NoTime
<1>2. ASSUME IInv, NEW c \in Clients, Refuse(c), refusedAt[c] # NoTime
      PROVE  refusedAt'[c] - refusedAt[c] <= Window + MaxSkew
  <2>1. PICK n \in 0 .. Len(windows[c]) :
          /\ EvictsExactly(windows[c], n) /\ Full(c, n)
          /\ refusedAt' = [refusedAt EXCEPT ![c] = now]
    BY <1>2 DEF Refuse
  <2>2. /\ Remembered(c) /\ Past(c) /\ limit[c] \in Nat \ {0}
        /\ windows[c] \in Seq(Int) /\ accepted[c] \in Seq(Acceptance)
        /\ now \in Nat /\ skew \in 0 .. MaxSkew
        /\ refusedAt[c] \in Nat /\ refusedAt'[c] = now
    BY <1>2, <2>1, LimitsPositive DEF IInv, TypeOK
  <2>3. /\ Len(windows[c]) \in Nat /\ Len(accepted[c]) \in Nat
        /\ \A i \in 1 .. Len(windows[c]) : windows[c][i] \in Int
        /\ \A i \in 1 .. Len(accepted[c]) : accepted[c][i] \in Acceptance
    BY <2>2, LenProperties
  <2>4. n + 1 \in 1 .. Len(windows[c])
    BY <2>1, <2>2, <2>3 DEF Full
  <2>5. windows[c][n + 1] >= now - skew - Window
    <3>1. ~(windows[c][n + 1] < Cutoff)
      BY <2>1, <2>3, <2>4 DEF EvictsExactly, Expired
    <3> QED
      BY <2>2, <2>3, <2>4, <3>1, TimesNatural DEF Cutoff, Wall
  <2> DEFINE j == Evicted(c) + (n + 1)
  <2>6. j \in 1 .. Len(accepted[c])
    <3>1. Len(windows[c]) <= Len(accepted[c])
      BY <2>2 DEF Remembered
    <3>2. Len(windows[c]) \in Nat /\ Len(accepted[c]) \in Nat
      BY <2>3
    <3>3. n + 1 \in 0 .. Len(windows[c]) /\ n + 1 > 0
      BY <2>4, <3>2
    <3>4. Evicted(c) \in Nat /\ j \in 0 .. Len(accepted[c])
      BY <3>1, <3>2, <3>3, Position DEF Evicted
    <3> QED
      BY <3>2, <3>3, <3>4
  <2>7. windows[c][n + 1] <= accepted[c][j].at
    BY <2>2, <2>4 DEF Remembered
  <2>8. accepted[c][j].at <= refusedAt[c] /\ accepted[c][j].at \in Nat
    BY <1>2, <2>2, <2>3, <2>6 DEF Past, Acceptance
  <2>9. /\ windows[c][n + 1] \in Int /\ now \in Nat /\ skew \in 0 .. MaxSkew
        /\ refusedAt[c] \in Nat /\ refusedAt'[c] = now
    BY <2>2, <2>3, <2>4
  <2> HIDE DEF j
  <2>10. now - skew - Window <= refusedAt[c]
    BY <2>5, <2>7, <2>8, <2>9, TimesNatural
  <2> QED
    BY <2>9, <2>10, TimesNatural
<1>3. ASSUME IInv, [Next]_vars, NEW c \in Clients
      PROVE  Kept(c)
  <2>1. CASE \E d \in Clients : Allow(d)
    <3>1. refusedAt'[c] = NoTime \/ refusedAt'[c] = refusedAt[c]
      BY <1>3, <2>1 DEF Allow, IInv, TypeOK
    <3> QED
      BY <1>1, <1>3, <3>1
  <2>2. CASE \E d \in Clients : Refuse(d)
    <3>1. Refuse(c) \/ refusedAt'[c] = refusedAt[c]
      BY <1>3, <2>2 DEF Refuse, IInv, TypeOK
    <3> QED
      BY <1>1, <1>2, <1>3, <3>1
  <2>3. CASE \E d \in Clients : Rekey(d)
    BY <1>1, <1>3, <2>3 DEF Rekey
  <2>4. CASE Restart
    BY <1>1, <1>3, <2>4 DEF Restart
  <2>5. CASE Tick
    BY <1>1, <1>3, <2>5 DEF Tick
  <2>6. CASE UNCHANGED vars
    BY <1>1, <1>3, <2>6 DEF vars
  <2> QED
    BY <1>3, <2>1, <2>2, <2>3, <2>4, <2>5, <2>6 DEF Next
<1>4. IInv /\ [Next]_vars => \A c \in Clients : Kept(c)
  BY <1>3
<1> QED
  BY Invariance, <1>4, PTL DEF Spec, RetryAfterKept

-----------------------------------------------------------------------------

\* The history of acceptances is in the order of time.
Ordered ==
    \A c \in Clients : \A i, j \in 1 .. Len(accepted[c]) :
        i <= j => accepted[c][i].at <= accepted[c][j].at

\* Every step keeps the histories in order.
LEMMA OrderedStep ==
    ASSUME IInv, Ordered, [Next]_vars
    PROVE  Ordered'
<1> SUFFICES ASSUME NEW c \in Clients, NEW i \in 1 .. Len(accepted'[c]),
                    NEW j \in 1 .. Len(accepted'[c]), i <= j
             PROVE  accepted'[c][i].at <= accepted'[c][j].at
  BY DEF Ordered
<1>1. /\ accepted[c] \in Seq(Acceptance) /\ now \in Nat /\ Past(c) /\ Len(accepted[c]) \in Nat
  BY LenProperties DEF IInv, TypeOK
<1>2. CASE Allow(c)
  <2> DEFINE e == [at |-> now, limit |-> limit[c]]
  <2>1. accepted'[c] = Append(accepted[c], e) /\ e \in Acceptance /\ e.at = now
    BY <1>2 DEF Allow, IInv, TypeOK, Acceptance
  <2> HIDE DEF e
  <2>2. /\ Len(accepted'[c]) = Len(accepted[c]) + 1
        /\ \A k \in 1 .. Len(accepted[c]) : accepted'[c][k] = accepted[c][k]
        /\ accepted'[c][Len(accepted[c]) + 1] = e
    BY <1>1, <2>1, Appended
  <2>3. CASE j <= Len(accepted[c])
    <3>1. i \in 1 .. Len(accepted[c]) /\ j \in 1 .. Len(accepted[c])
      BY <1>1, <2>2, <2>3
    <3> QED
      BY <2>2, <3>1 DEF Ordered
  <2>4. CASE j = Len(accepted[c]) + 1 /\ i <= Len(accepted[c])
    <3>1. i \in 1 .. Len(accepted[c])
      BY <1>1, <2>2, <2>4
    <3> QED
      BY <1>1, <2>1, <2>2, <2>4, <3>1 DEF Past
  <2>5. CASE i = Len(accepted[c]) + 1
    <3>1. j = i
      BY <1>1, <2>2, <2>5
    <3> QED
      BY <1>1, <2>1, <2>2, <2>5, <3>1
  <2> QED
    BY <1>1, <2>2, <2>3, <2>4, <2>5
<1>3. CASE accepted'[c] = accepted[c]
  BY <1>3 DEF Ordered
<1>4. CASE Restart
  <2>1. accepted'[c] = <<>>
    BY <1>4 DEF Restart
  <2> QED
    BY <2>1
<1>5. Allow(c) \/ accepted'[c] = accepted[c] \/ Restart
  BY DEF Next, Allow, Refuse, Rekey, Tick, vars, IInv, TypeOK
<1> QED
  BY <1>2, <1>3, <1>4, <1>5

\* The histories are in order in every reachable state.
LEMMA AlwaysOrdered == Spec => []Ordered
<1>1. Init => Ordered
  BY DEF Init, Ordered
<1>2. IInv /\ Ordered /\ [Next]_vars => Ordered'
  BY OrderedStep
<1> QED
  BY <1>1, <1>2, Invariance, PTL DEF Spec

\* The promise counts with an instance of FiniteSets of its own.
LEMMA SameCardinality ==
    ASSUME NEW S
    PROVE  Promise!Cardinality(S) = Cardinality(S)
BY DEF Promise!Cardinality, Cardinality

\* An allowed request: what the deque has evicted is too old to count, and what
\* is left of it are fewer than the limit.
LEMMA AllowImplements ==
    ASSUME IInv, NEW c \in Clients, Allow(c)
    PROVE  Promise!Allow(c)
<1>1. PICK n \in 0 .. Len(windows[c]) : EvictsExactly(windows[c], n) /\ ~Full(c, n)
  BY DEF Allow
<1> DEFINE L == Len(accepted[c])
           W == Len(windows[c])
           Y == Promise!YoungerThan(c, Window - MaxSkew)
<1>2. /\ L \in Nat /\ W \in Nat /\ W <= L /\ now \in Nat /\ limit[c] \in Nat
      /\ Evicted(c) = L - W
      /\ \A i \in 1 .. L : accepted[c][i].at \in Nat
  <2>1. /\ windows[c] \in Seq(Int) /\ accepted[c] \in Seq(Acceptance) /\ now \in Nat
        /\ limit[c] \in Nat /\ Remembered(c)
    BY LimitsPositive DEF IInv, TypeOK
  <2>2. \A i \in 1 .. L : accepted[c][i] \in Acceptance
    BY <2>1
  <2> QED
    BY <2>1, <2>2, LenProperties DEF Remembered, Evicted, Acceptance
<1>3. Y \subseteq L - W + n + 1 .. L
  <2> SUFFICES ASSUME NEW i \in 1 .. L, now - accepted[c][i].at <= Window - MaxSkew
               PROVE  i \in L - W + n + 1 .. L
    BY DEF Promise!YoungerThan
  <2>1. ~(i \in 1 .. L - W + n)
    <3> SUFFICES ASSUME i \in 1 .. L - W + n PROVE FALSE
      OBVIOUS
    <3>1. accepted[c][i].at < now - Window + MaxSkew
      BY <1>1, <1>2, EvictionForgets
    <3>2. accepted[c][i].at \in Nat
      BY <1>2
    <3> HIDE DEF L
    <3> QED
      BY <1>2, <3>1, <3>2, TimesNatural
  <2> HIDE DEF L, W
  <2> QED
    BY <1>2, <2>1
<1>4. Cardinality(Y) < limit[c]
  <2>1. W - n < limit[c]
    BY <1>1, <1>2 DEF Full
  <2> HIDE DEF L, W, Y
  <2>2. /\ IsFiniteSet(L - W + n + 1 .. L)
        /\ Cardinality(L - W + n + 1 .. L) = W - n
    <3>1. L - W + n + 1 \in Int /\ L \in Int
      BY <1>2
    <3>2. n \in 0 .. W
      BY DEF W
    <3> DEFINE first == L - W + n + 1
    <3>3. /\ IsFiniteSet(first .. L)
          /\ Cardinality(first .. L) = IF first > L THEN 0 ELSE L - first + 1
      <4> HIDE DEF first
      <4> QED
        BY <3>1, FS_Interval DEF first
    <3>4. (IF first > L THEN 0 ELSE L - first + 1) = W - n
      BY <1>2, <3>2
    <3> QED
      BY <3>3, <3>4
  <2>3. /\ Cardinality(Y) <= W - n /\ IsFiniteSet(Y)
    BY <1>3, <2>2, FS_Subset
  <2>4. Cardinality(Y) \in Nat
    BY <2>3, FS_CardinalityType
  <2>5. n \in Nat
    BY <1>2 DEF W
  <2> QED
    BY <1>2, <2>1, <2>3, <2>4, <2>5
<1> QED
  <2>1. /\ accepted' = [accepted EXCEPT ![c] = Append(@, [at |-> now, limit |-> limit[c]])]
        /\ refusedAt' = [refusedAt EXCEPT ![c] = NoTime]
        /\ UNCHANGED <<now, limit>>
    BY DEF Allow, IInv, TypeOK
  <2> QED
    BY <1>4, <2>1, SameCardinality DEF Promise!Allow

\* A refused request: the stamps left in the deque fill the limit, and the first
\* of them has not expired, so none has.
LEMMA RefuseImplements ==
    ASSUME IInv, Ordered, NEW c \in Clients, Refuse(c)
    PROVE  Promise!Refuse(c)
<1>1. PICK n \in 0 .. Len(windows[c]) : EvictsExactly(windows[c], n) /\ Full(c, n)
  BY DEF Refuse
<1> DEFINE L == Len(accepted[c])
           W == Len(windows[c])
           Y == Promise!YoungerThan(c, Window + MaxSkew)
<1>2. /\ L \in Nat /\ W \in Nat /\ W <= L /\ now \in Nat /\ limit[c] \in Nat \ {0}
      /\ n \in Nat /\ n <= W /\ skew \in 0 .. MaxSkew
      /\ \A i \in 1 .. L : accepted[c][i].at \in Nat
      /\ \A i \in 1 .. W : windows[c][i] \in Int
      /\ \A i \in 1 .. W : windows[c][i] <= accepted[c][L - W + i].at
  <2>1. /\ windows[c] \in Seq(Int) /\ accepted[c] \in Seq(Acceptance) /\ now \in Nat
        /\ limit[c] \in Nat \ {0} /\ Remembered(c) /\ skew \in 0 .. MaxSkew
    BY LimitsPositive DEF IInv, TypeOK
  <2>2. \A i \in 1 .. L : accepted[c][i] \in Acceptance
    BY <2>1
  <2>3. L \in Nat /\ W \in Nat
    BY <2>1, LenProperties
  <2>4. n \in Nat /\ n <= W
    BY <2>3
  <2>5. /\ W <= L /\ \A i \in 1 .. L : accepted[c][i].at \in Nat
        /\ \A i \in 1 .. W : windows[c][i] <= accepted[c][L - W + i].at
    BY <2>1, <2>2 DEF Remembered, Evicted, Acceptance
  <2>6. \A i \in 1 .. W : windows[c][i] \in Int
    BY <2>1
  <2> HIDE DEF L, W
  <2> QED
    BY <2>1, <2>3, <2>4, <2>5, <2>6
<1>3. W - n >= limit[c] /\ n + 1 \in 1 .. W
  <2>1. W - n >= limit[c]
    BY <1>1 DEF Full
  <2> HIDE DEF W
  <2> QED
    BY <1>2, <2>1
<1> DEFINE first == L - W + (n + 1)
<1>4. first \in 1 .. L /\ now - accepted[c][first].at <= Window + MaxSkew
  <2>1. ~(windows[c][n + 1] < now - skew - Window)
    <3>1. ~Expired(windows[c][n + 1])
      BY <1>1, <1>2, <1>3 DEF EvictsExactly
    <3> QED
      BY <3>1 DEF Expired, Cutoff, Wall
  <2>2. windows[c][n + 1] <= accepted[c][first].at /\ windows[c][n + 1] \in Int
    BY <1>2, <1>3
  <2>3. first \in 1 .. L
    <3> HIDE DEF L, W
    <3> QED
      BY <1>2, <1>3
  <2>4. accepted[c][first].at \in Nat
    BY <1>2, <2>3
  <2> HIDE DEF first
  <2> QED
    BY <1>2, <2>1, <2>2, <2>3, <2>4, TimesNatural
<1>5. first .. L \subseteq Y /\ Y \subseteq 1 .. L
  <2>1. ASSUME NEW i \in first .. L
        PROVE  i \in 1 .. L /\ now - accepted[c][i].at <= Window + MaxSkew
    <3> HIDE DEF first, L
    <3>1. i \in 1 .. L /\ first <= i
      BY <1>2, <1>4
    <3>2. accepted[c][first].at <= accepted[c][i].at
      BY <1>4, <3>1 DEF Ordered, L
    <3>3. accepted[c][first].at \in Nat /\ accepted[c][i].at \in Nat
      BY <1>2, <1>4, <3>1
    <3>4. now \in Nat /\ now - accepted[c][first].at <= Window + MaxSkew
      BY <1>2, <1>4
    <3> QED
      BY <3>1, <3>2, <3>3, <3>4, TimesNatural
  <2> QED
    BY <2>1 DEF Promise!YoungerThan
<1>6. Cardinality(Y) >= limit[c]
  <2> HIDE DEF Y
  <2>1. IsFiniteSet(1 .. L)
    <3> HIDE DEF L
    <3>1. 1 \in Int /\ L \in Int
      BY <1>2
    <3> QED
      BY <3>1, FS_Interval
  <2>2. IsFiniteSet(Y)
    BY <1>5, <2>1, FS_Subset
  <2>3. IsFiniteSet(first .. L) /\ Cardinality(first .. L) = W - n
    <3> HIDE DEF L, W
    <3>1. first \in Int /\ L \in Int /\ ~(first > L) /\ L - first + 1 = W - n
      BY <1>2, <1>4
    <3> HIDE DEF first
    <3> QED
      BY <3>1, FS_Interval
  <2>4. Cardinality(first .. L) <= Cardinality(Y) /\ Cardinality(Y) \in Nat
    BY <1>5, <2>2, FS_Subset, FS_CardinalityType
  <2> HIDE DEF first, L, W
  <2> QED
    BY <1>2, <1>3, <2>3, <2>4
<1> QED
  <2>1. refusedAt' = [refusedAt EXCEPT ![c] = now] /\ UNCHANGED <<now, limit, accepted>>
    BY DEF Refuse
  <2> QED
    BY <1>6, <2>1, SameCardinality DEF Promise!Refuse

\* RateLimiter.check, its lazy eviction, refusals, key rotations and a clock
\* that errs included, implements the sliding window over the whole history.
THEOREM Refinement == Spec => ImplementsSlidingWindow
<1>1. Init => Promise!Init
  BY DEF Init, Promise!Init
<1>2. IInv /\ Ordered /\ [Next]_vars => [Promise!Next]_Promise!vars
  <2> SUFFICES ASSUME IInv, Ordered, [Next]_vars
               PROVE  [Promise!Next]_Promise!vars
    OBVIOUS
  <2>1. ASSUME NEW c \in Clients, Rekey(c)
        PROVE  Promise!Rekey(c)
    BY <2>1 DEF Rekey, Promise!Rekey
  <2>2. Restart => Promise!Restart
    BY DEF Restart, Promise!Restart
  <2>3. Tick => Promise!Tick
    BY DEF Tick, Promise!Tick
  <2>4. UNCHANGED vars => UNCHANGED Promise!vars
    BY DEF vars, Promise!vars
  <2> QED
    BY <2>1, <2>2, <2>3, <2>4, AllowImplements, RefuseImplements DEF Next, Promise!Next
<1> QED
  BY <1>1, <1>2, Invariance, AlwaysOrdered, PTL
     DEF Spec, ImplementsSlidingWindow, Promise!Spec
====
