---- MODULE GridProofs ----
(***************************************************************************)
(* Proofs about Grid, for every set of zones and names, however many hours, *)
(* lags and trips, and every window and split that the assumptions allow.   *)
(*                                                                          *)
(* The stages only add to what is there, so the invariant says of each file *)
(* which stage it is the outcome of (GInv).  The work is in what follows    *)
(* from it of one state: that the rows of a zone can be sorted (Positions), *)
(* that a zone with one row an hour has the row of hour h at place h + 1    *)
(* (HourPlace), and that counts add up to trips (RowsTotal).                *)
(***************************************************************************)
EXTENDS Grid, FiniteSetTheorems, TLAPS

TripsSound ==
    /\ adapter \in Adapters /\ stage \in Stages
    /\ trips \in [Cells -> 0 .. MaxTrips]
    /\ IsFiniteSet(TripsOf(Cells)) /\ TripsIn(Cells) <= MaxTrips
    /\ adapter = "taxi" => \A c \in Cells : c[3] = Outside => trips[c] = 0

Built ==
    history = IF stage = "collect" THEN {}
              ELSE UNION {Densified(z, h) : z \in Universe, h \in Hours}

Sorted(rank) == UNION {FeatureRows(SortedRows(z, rank)) : z \in Universe}

LastRow(rank, zh) ==
    CHOOSE r \in RowsAt(zh[1], zh[2]) :
        \A s \in RowsAt(zh[1], zh[2]) \ {r} : Before(rank, s, r)

Engineered ==
    IF stage \in {"engineered", "serving"}
    THEN \E rank \in Orders : features = Sorted(rank)
    ELSE features = {}

Loaded ==
    stage = "serving" =>
        \E rank \in Orders : lookup = [zh \in Universe \X Hours |-> LastRow(rank, zh).count]

GInv == TripsSound /\ Built /\ Engineered /\ Loaded

-----------------------------------------------------------------------------
(* Finite sets and orders.                                                 *)

\* Two sets with a one-to-one correspondence have as many elements.
LEMMA SameSize ==
    ASSUME NEW S, NEW T, IsFiniteSet(S), NEW f \in [S -> T],
           \A x, y \in S : f[x] = f[y] => x = y,
           \A y \in T : \E x \in S : f[x] = y
    PROVE  IsFiniteSet(T) /\ Cardinality(T) = Cardinality(S)
<1>1. f \in Bijection(S, T)
  BY DEF Bijection, Injection, Surjection, IsInjective
<1>2. ExistsBijection(S, T)
  BY <1>1 DEF ExistsBijection
<1> QED
  BY <1>2, FS_Bijection

\* An image of a finite set is finite.
LEMMA FiniteImage ==
    ASSUME NEW S, NEW T, IsFiniteSet(S), NEW f, \A y \in T : \E x \in S : f[x] = y
    PROVE  IsFiniteSet(T)
<1>1. CASE T = {}
  BY <1>1, FS_EmptySet
<1>2. CASE T # {}
  <2>1. PICK y0 \in T : TRUE
    BY <1>2
  <2> DEFINE g == [x \in S |-> IF f[x] \in T THEN f[x] ELSE y0]
  <2>2. g \in [S -> T]
    BY <2>1
  <2>3. \A y \in T : \E x \in S : g[x] = y
    OBVIOUS
  <2> HIDE DEF g
  <2>4. g \in Surjection(S, T)
    BY <2>2, <2>3 DEF Surjection
  <2> QED
    BY <2>4, FS_Surjection
<1> QED
  BY <1>1, <1>2

\* The numbers up to n are n.
LEMMA UpTo ==
    ASSUME NEW n \in Nat
    PROVE  /\ IsFiniteSet(1 .. n) /\ Cardinality(1 .. n) = n
           /\ IsFiniteSet(0 .. n - 1) /\ Cardinality(0 .. n - 1) = n
<1>1. PICK a \in Int, b \in Int, c \in Int : a = 0 /\ b = 1 /\ c = n - 1
  OBVIOUS
<1>2. IsFiniteSet(b .. n) /\ Cardinality(b .. n) = IF b > n THEN 0 ELSE n - b + 1
  BY FS_Interval
<1>3. IsFiniteSet(a .. c) /\ Cardinality(a .. c) = IF a > c THEN 0 ELSE c - a + 1
  BY FS_Interval
<1> QED
  BY <1>1, <1>2, <1>3

\* A strict total order on a finite set numbers its elements: each has a place,
\* the number of those before it, and no place is left out.
LEMMA Positions ==
    ASSUME NEW S, IsFiniteSet(S), NEW R,
           \A x \in S : <<x, x>> \notin R,
           \A x, y, z \in S : <<x, y>> \in R /\ <<y, z>> \in R => <<x, z>> \in R,
           \A x, y \in S : x = y \/ <<x, y>> \in R \/ <<y, x>> \in R
    PROVE  LET pos == [x \in S |-> Cardinality({y \in S : <<y, x>> \in R})]
           IN  /\ Cardinality(S) \in Nat
               /\ \A x \in S : pos[x] \in 0 .. Cardinality(S) - 1
               /\ \A x, y \in S : pos[x] = pos[y] => x = y
               /\ \A i \in 0 .. Cardinality(S) - 1 : \E x \in S : pos[x] = i
               /\ \A x \in S : pos[x] = Cardinality(S) - 1 =>
                                  \A y \in S \ {x} : <<y, x>> \in R
<1> DEFINE preds(x) == {y \in S : <<y, x>> \in R}
           pos == [x \in S |-> Cardinality(preds(x))]
           n == Cardinality(S)
<1>1. n \in Nat
  BY FS_CardinalityType
<1>2. ASSUME NEW x \in S
      PROVE  /\ preds(x) \subseteq S \ {x} /\ IsFiniteSet(preds(x))
             /\ Cardinality(preds(x)) \in 0 .. n - 1
             /\ Cardinality(preds(x)) = n - 1 => preds(x) = S \ {x}
  <2>1. preds(x) \subseteq S \ {x}
    OBVIOUS
  <2>2. IsFiniteSet(S \ {x}) /\ Cardinality(S \ {x}) = n - 1
    BY FS_RemoveElement
  <2> HIDE DEF preds
  <2>3. /\ IsFiniteSet(preds(x)) /\ Cardinality(preds(x)) <= Cardinality(S \ {x})
        /\ Cardinality(S \ {x}) = Cardinality(preds(x)) => S \ {x} = preds(x)
    BY <2>1, <2>2, FS_Subset
  <2>4. Cardinality(preds(x)) \in Nat
    BY <2>3, FS_CardinalityType
  <2> QED
    BY <1>1, <2>1, <2>2, <2>3, <2>4
<1>3. ASSUME NEW x \in S, NEW y \in S, <<x, y>> \in R
      PROVE  Cardinality(preds(x)) < Cardinality(preds(y))
  <2>1. preds(x) \cup {x} \subseteq preds(y) /\ x \notin preds(x)
    BY <1>3
  <2>2. IsFiniteSet(preds(x)) /\ IsFiniteSet(preds(y))
    BY <1>2
  <2>3. Cardinality(preds(x)) \in Nat /\ Cardinality(preds(y)) \in Nat
    BY <2>2, FS_CardinalityType
  <2> HIDE DEF preds
  <2>4. Cardinality(preds(x) \cup {x}) = Cardinality(preds(x)) + 1
    BY <2>1, <2>2, FS_AddElement
  <2>5. Cardinality(preds(x) \cup {x}) <= Cardinality(preds(y))
    BY <2>1, <2>2, FS_Subset
  <2> QED
    BY <2>3, <2>4, <2>5
<1>4. \A x \in S : pos[x] = Cardinality(preds(x))
  OBVIOUS
<1>5. pos \in [S -> 0 .. n - 1]
  BY <1>2
<1> HIDE DEF pos, n
<1>6. ASSUME NEW x \in S, NEW y \in S, pos[x] = pos[y]
      PROVE  x = y
  <2>1. ~(Cardinality(preds(x)) < Cardinality(preds(y))) /\ ~(Cardinality(preds(y)) < Cardinality(preds(x)))
    <3>1. Cardinality(preds(x)) \in 0 .. n - 1
      BY <1>2
    <3>2. Cardinality(preds(x)) = Cardinality(preds(y))
      BY <1>4, <1>6
    <3> HIDE DEF preds
    <3> QED
      BY <1>1, <3>1, <3>2
  <2> QED
    BY <1>3, <2>1
<1>7. pos \in Injection(S, 0 .. n - 1)
  BY <1>5, <1>6 DEF Injection, IsInjective
<1>8. IsFiniteSet(0 .. n - 1) /\ Cardinality(0 .. n - 1) = n
  BY <1>1, UpTo
<1>9. pos \in Surjection(S, 0 .. n - 1)
  BY <1>7, <1>8, FS_Injection DEF n
<1>10. \A i \in 0 .. n - 1 : \E x \in S : pos[x] = i
  BY <1>9 DEF Surjection
<1>11. \A x \in S : pos[x] = n - 1 => \A y \in S \ {x} : <<y, x>> \in R
  BY <1>2, <1>4
<1>12. \A x \in S : pos[x] \in 0 .. n - 1
  BY <1>5
<1> QED
  BY <1>1, <1>6, <1>10, <1>11, <1>12 DEF pos, n

-----------------------------------------------------------------------------
(* Trips and rows.                                                         *)

\* The constants that the hours are made of.
LEMMA Bounds ==
    /\ LastHour \in Nat /\ MaxTrips \in Nat /\ RollWindow \in Nat \ {0}
    /\ Lags \subseteq Nat \ {0}
    /\ TrainStart \in Nat /\ TrainEnd \in Nat /\ ValEnd \in Nat /\ TestEnd = LastHour + 1
    /\ TrainStart < TrainEnd /\ TrainEnd < ValEnd /\ ValEnd < TestEnd
    /\ \A reach \in Lags \cup {RollWindow} : reach <= TrainStart
    /\ Hours = 0 .. LastHour /\ Outside = LastHour + 1
BY HoursNatural, SplitsInOrder, WarmUp DEF Hours, Outside

\* The trips of some cells are no more than all.
LEMMA SomeTrips ==
    ASSUME TripsSound, NEW cells \in SUBSET Cells
    PROVE  /\ IsFiniteSet(TripsOf(cells)) /\ TripsIn(cells) \in 0 .. MaxTrips
           /\ TripsIn(cells) = 0 <=> \A c \in cells : trips[c] = 0
<1>1. TripsOf(cells) \subseteq TripsOf(Cells)
  BY DEF TripsOf
<1>2. IsFiniteSet(TripsOf(cells)) /\ TripsIn(cells) <= TripsIn(Cells)
  BY <1>1, FS_Subset DEF TripsSound, TripsIn
<1>3. TripsIn(cells) \in Nat /\ TripsIn(Cells) \in Nat /\ TripsIn(Cells) <= MaxTrips
  BY <1>2, FS_CardinalityType DEF TripsSound, TripsIn
<1>4. TripsIn(cells) = 0 <=> TripsOf(cells) = {}
  BY <1>2, FS_EmptySet DEF TripsIn
<1>5. TripsOf(cells) = {} <=> \A c \in cells : trips[c] = 0
  <2>1. \A c \in cells : trips[c] \in 0 .. MaxTrips
    BY DEF TripsSound
  <2>2. ASSUME NEW c \in cells, trips[c] # 0
        PROVE  TripsOf(cells) # {}
    <3>1. trips[c] >= 1 /\ 1 \in 1 .. MaxTrips
      BY <2>1, <2>2, Bounds
    <3>2. <<c, 1>> \in cells \X (1 .. MaxTrips)
      BY <3>1
    <3>3. <<c, 1>>[1] = c /\ <<c, 1>>[2] = 1
      OBVIOUS
    <3>4. <<c, 1>> \in TripsOf(cells)
      BY <3>1, <3>2, <3>3 DEF TripsOf
    <3> QED
      BY <3>4
  <2>3. ASSUME NEW ck \in TripsOf(cells)
        PROVE  ck[1] \in cells /\ trips[ck[1]] # 0
    <3>1. ck[1] \in cells /\ ck[2] \in 1 .. MaxTrips /\ ck[2] <= trips[ck[1]]
      BY DEF TripsOf
    <3> QED
      BY <2>1, <3>1
  <2> QED
    BY <2>2, <2>3
<1> QED
  BY <1>2, <1>3, <1>4, <1>5, Bounds

\* The pairs of one thing and the numbers up to its count are as many as that.
LEMMA UnitsOfOne ==
    ASSUME NEW x, NEW count \in 0 .. MaxTrips,
           NEW U, \A u : u \in U <=> \E k \in 1 .. count : u = <<x, k>>
    PROVE  IsFiniteSet(U) /\ Cardinality(U) = count
<1> DEFINE f == [k \in 1 .. count |-> <<x, k>>]
<1>1. f \in [1 .. count -> U]
  OBVIOUS
<1>2. \A j, k \in 1 .. count : f[j] = f[k] => j = k
  OBVIOUS
<1>3. \A u \in U : \E k \in 1 .. count : f[k] = u
  OBVIOUS
<1>4. IsFiniteSet(1 .. count) /\ Cardinality(1 .. count) = count
  BY Bounds, UpTo
<1> HIDE DEF f
<1> QED
  BY <1>1, <1>2, <1>3, <1>4, SameSize

\* A cell has the trips that are counted for it.
LEMMA CellTrips ==
    ASSUME TripsSound, NEW c \in Cells
    PROVE  TripsIn({c}) = trips[c]
<1>1. trips[c] \in 0 .. MaxTrips
  BY DEF TripsSound
<1>2. ASSUME NEW u
      PROVE  u \in TripsOf({c}) <=> \E k \in 1 .. trips[c] : u = <<c, k>>
  <2>1. u \in TripsOf({c}) <=> u \in {c} \X (1 .. MaxTrips) /\ u[2] <= trips[u[1]]
    BY DEF TripsOf
  <2>2. ASSUME NEW k \in 1 .. trips[c], u = <<c, k>>
        PROVE  u \in TripsOf({c})
    <3>1. k \in 1 .. MaxTrips /\ k <= trips[c]
      BY <1>1, Bounds
    <3> QED
      BY <2>1, <2>2, <3>1
  <2>3. ASSUME u \in TripsOf({c})
        PROVE  \E k \in 1 .. trips[c] : u = <<c, k>>
    <3>1. PICK k \in 1 .. MaxTrips : u = <<c, k>>
      BY <2>1, <2>3
    <3>2. k <= trips[c]
      BY <2>1, <2>3, <3>1
    <3>3. k \in 1 .. trips[c]
      BY <1>1, <3>2, Bounds
    <3> QED
      BY <3>1, <3>3
  <2> QED
    BY <2>2, <2>3
<1> QED
  BY <1>1, <1>2, UnitsOfOne DEF TripsIn

\* The cells of a zone and an hour.
LEMMA CellsAt ==
    ASSUME NEW z \in Zones, NEW g \in SUBSET Names, NEW h \in Hours \cup {Outside}
    PROVE  /\ {z} \X g \X {h} \subseteq Cells
           /\ \A n : <<z, n, h>> \in {z} \X g \X {h} <=> n \in g
           /\ \A c \in {z} \X g \X {h} : c[2] \in g /\ c = <<z, c[2], h>>
           /\ \A n : g = {n} => {z} \X g \X {h} = {<<z, n, h>>}
BY DEF Cells

\* A zone of the universe has a trip, and its groups are sets of names.
LEMMA ZonesAndGroups ==
    /\ Universe \subseteq Zones
    /\ Groups \subseteq SUBSET Names
    /\ adapter = "taxi" => Groups = {Names}
    /\ adapter # "taxi" => \A g : g \in Groups <=> \E n \in Names : g = {n}
BY DEF Universe, Cells, Groups

\* The rows of a zone and hour: those of the groups that have trips there, or a
\* zero row.
LEMMA DenseRows ==
    ASSUME TripsSound, NEW z \in Zones, NEW h \in Hours
    PROVE  /\ \A r : r \in Counted(z, h) <=>
                  \E g \in Groups : /\ TripsIn({z} \X g \X {h}) # 0
                                  /\ r = Row(z, g, h, TripsIn({z} \X g \X {h}))
           /\ \A r \in Densified(z, h) :
                 /\ r \in [zone : Zones, group : Groups \cup {{}}, hour : Hours,
                           count : 0 .. MaxTrips]
                 /\ r.zone = z /\ r.hour = h
           /\ Densified(z, h) # {}
           /\ \A r, s \in Densified(z, h) : r # s => /\ r.group \in Groups
                                                     /\ r.group # s.group
<1>1. ASSUME NEW g \in Groups
      PROVE  TripsIn({z} \X g \X {h}) \in 0 .. MaxTrips
  <2>1. g \in SUBSET Names
    BY ZonesAndGroups
  <2>2. {z} \X g \X {h} \in SUBSET Cells
    BY <2>1, CellsAt
  <2> QED
    BY <2>2, SomeTrips
<1>2. ASSUME NEW r
      PROVE  r \in Counted(z, h) <=>
                \E g \in Groups : /\ TripsIn({z} \X g \X {h}) # 0
                                /\ r = Row(z, g, h, TripsIn({z} \X g \X {h}))
  <2>1. \A g1, g2, n1, n2 : Row(z, g1, h, n1) = Row(z, g2, h, n2) => g1 = g2 /\ n1 = n2
    BY DEF Row
  <2>2. r \in Counted(z, h) <=>
           /\ \E g \in Groups : r = Row(z, g, h, TripsIn({z} \X g \X {h}))
           /\ ~\E g \in Groups : r = Row(z, g, h, 0)
    BY DEF Counted
  <2>3. ASSUME NEW g \in Groups, TripsIn({z} \X g \X {h}) # 0,
               r = Row(z, g, h, TripsIn({z} \X g \X {h}))
        PROVE  r \in Counted(z, h)
    <3> DEFINE count == TripsIn({z} \X g \X {h})
    <3>1. count # 0 /\ r = Row(z, g, h, count)
      BY <2>3
    <3>2. \E f \in Groups : r = Row(z, f, h, TripsIn({z} \X f \X {h}))
      BY <2>3
    <3> HIDE DEF count
    <3>3. ~\E f \in Groups : r = Row(z, f, h, 0)
      BY <2>1, <3>1
    <3> QED
      BY <2>2, <3>2, <3>3
  <2>4. ASSUME r \in Counted(z, h)
        PROVE  \E g \in Groups : /\ TripsIn({z} \X g \X {h}) # 0
                               /\ r = Row(z, g, h, TripsIn({z} \X g \X {h}))
    <3>1. PICK g \in Groups : r = Row(z, g, h, TripsIn({z} \X g \X {h}))
      BY <2>2, <2>4
    <3>2. r # Row(z, g, h, 0)
      BY <2>2, <2>4
    <3> QED
      BY <3>1, <3>2
  <2> QED
    BY <2>3, <2>4
<1>3. ASSUME NEW r \in Densified(z, h)
      PROVE  /\ r \in [zone : Zones, group : Groups \cup {{}}, hour : Hours,
                       count : 0 .. MaxTrips]
             /\ r.zone = z /\ r.hour = h
  <2>1. CASE Counted(z, h) = {}
    <3>1. r = Row(z, {}, h, 0)
      BY <2>1 DEF Densified
    <3> QED
      BY <3>1, Bounds DEF Row
  <2>2. CASE Counted(z, h) # {}
    <3>1. PICK g \in Groups : r = Row(z, g, h, TripsIn({z} \X g \X {h}))
      BY <1>2, <2>2 DEF Densified
    <3>2. PICK m \in 0 .. MaxTrips : m = TripsIn({z} \X g \X {h})
      BY <1>1
    <3> QED
      BY <3>1, <3>2 DEF Row
  <2> QED
    BY <2>1, <2>2
<1>4. Densified(z, h) # {}
  BY DEF Densified
<1>5. ASSUME NEW r \in Densified(z, h), NEW s \in Densified(z, h), r # s
      PROVE  r.group \in Groups /\ r.group # s.group
  <2>1. Counted(z, h) # {}
    BY <1>5 DEF Densified
  <2>2. r \in Counted(z, h) /\ s \in Counted(z, h)
    BY <2>1 DEF Densified
  <2>3. PICK g \in Groups : r = Row(z, g, h, TripsIn({z} \X g \X {h}))
    BY <1>2, <2>2
  <2>4. PICK f \in Groups : s = Row(z, f, h, TripsIn({z} \X f \X {h}))
    BY <1>2, <2>2
  <2>5. r.group = g /\ s.group = f
    BY <2>3, <2>4 DEF Row
  <2> QED
    BY <1>5, <2>3, <2>4, <2>5
<1> QED
  BY <1>2, <1>3, <1>4, <1>5

\* The rows of the history are those.
LEMMA HistoryRows ==
    ASSUME TripsSound, Built, stage # "collect"
    PROVE  /\ \A z \in Universe, h \in Hours : RowsAt(z, h) = Densified(z, h)
           /\ \A r \in history : r.zone \in Universe /\ r.hour \in Hours
           /\ history \subseteq [zone : Zones, group : Groups \cup {{}}, hour : Hours,
                                count : 0 .. MaxTrips]
<1>1. \A z \in Universe, h \in Hours : \A r \in Densified(z, h) :
          /\ r \in [zone : Zones, group : Groups \cup {{}}, hour : Hours, count : 0 .. MaxTrips]
          /\ r.zone = z /\ r.hour = h
  BY ZonesAndGroups, DenseRows
<1>2. \A r : r \in history <=> \E z \in Universe, h \in Hours : r \in Densified(z, h)
  BY DEF Built
<1>3. \A z \in Universe, h \in Hours : RowsAt(z, h) = Densified(z, h)
  BY <1>1, <1>2 DEF RowsAt
<1> QED
  BY <1>1, <1>2, <1>3

\* The rows of a zone are finitely many.
LEMMA FiniteRows ==
    ASSUME TripsSound, Built, stage # "collect", NEW z \in Universe
    PROVE  /\ IsFiniteSet(RowsOf(z))
           /\ \A h \in Hours : /\ RowsAt(z, h) \subseteq RowsOf(z) /\ RowsAt(z, h) # {}
                               /\ IsFiniteSet(RowsAt(z, h))
           /\ RowsOf(z) \subseteq history
           /\ \A r \in RowsOf(z) : r.hour \in Hours /\ r.zone = z /\ r \in RowsAt(z, r.hour)
<1> DEFINE full == {r \in RowsOf(z) : r.count # 0}
           zero == {Row(z, {}, h, 0) : h \in Hours}
<1>1. z \in Zones
  BY ZonesAndGroups
<1>2. \A r \in RowsOf(z) : r.hour \in Hours /\ r.zone = z /\ r \in RowsAt(z, r.hour)
  BY HistoryRows DEF RowsOf, RowsAt
<1>3. IsFiniteSet(zero)
  <2>1. PICK a \in Int, b \in Int : a = 0 /\ b = LastHour
    BY Bounds
  <2>2. IsFiniteSet(a .. b)
    BY FS_Interval
  <2>3. IsFiniteSet(Hours)
    BY <2>1, <2>2, Bounds
  <2> DEFINE f == [h \in Hours |-> Row(z, {}, h, 0)]
  <2>4. \A y \in zero : \E h \in Hours : f[h] = y
    OBVIOUS
  <2> HIDE DEF f, zero
  <2> QED
    BY <2>3, <2>4, FiniteImage
<1>4. IsFiniteSet(full)
  <2> DEFINE f == [ck \in TripsOf(Cells) |->
                     CHOOSE r \in full : ck[1][2] \in r.group /\ ck[1][3] = r.hour]
  <2>1. ASSUME NEW r \in full
        PROVE  \E ck \in TripsOf(Cells) : f[ck] = r
    <3>1. r \in RowsAt(z, r.hour) /\ r.hour \in Hours
      BY <1>2
    <3>2. r \in Densified(z, r.hour)
      BY <3>1, HistoryRows
    <3>3. r \in Counted(z, r.hour)
      BY <3>2 DEF Densified, Row
    <3>4. PICK g \in Groups : /\ TripsIn({z} \X g \X {r.hour}) # 0
                             /\ r = Row(z, g, r.hour, TripsIn({z} \X g \X {r.hour}))
      BY <1>1, <3>1, <3>3, DenseRows
    <3>5. r.group = g /\ g \in SUBSET Names
      BY <3>4, ZonesAndGroups DEF Row
    <3>6. {z} \X g \X {r.hour} \in SUBSET Cells
      BY <1>1, <3>1, <3>5, CellsAt
    <3>7. PICK c \in {z} \X g \X {r.hour} : trips[c] # 0
      BY <3>4, <3>6, SomeTrips
    <3>8. c \in Cells /\ c[2] \in r.group /\ c[3] = r.hour
      BY <3>5, <3>6, <3>7
    <3>9. <<c, 1>> \in TripsOf(Cells)
      <4>1. trips[c] \in 0 .. MaxTrips
        BY <3>8 DEF TripsSound
      <4>2. 1 \in 1 .. MaxTrips /\ 1 <= trips[c]
        BY <3>7, <4>1, Bounds
      <4> QED
        BY <3>8, <4>2 DEF TripsOf
    <3>10. ASSUME NEW s \in full, c[2] \in s.group, c[3] = s.hour
           PROVE  s = r
      <4>1. s \in Densified(z, r.hour)
        BY <1>2, <3>8, <3>10, HistoryRows
      <4>2. CASE s = r
        BY <4>2
      <4>3. CASE s # r
        <5>1. s.group \in Groups /\ r.group \in Groups /\ s.group # r.group
          BY <1>1, <3>1, <3>2, <4>1, <4>3, DenseRows
        <5> QED
          <6>1. c[2] \in s.group /\ c[2] \in r.group
            BY <3>8, <3>10
          <6>2. CASE adapter = "taxi"
            BY <5>1, <6>2, ZonesAndGroups
          <6>3. CASE adapter # "taxi"
            <7>1. \E m \in Names : s.group = {m}
              BY <5>1, <6>3, ZonesAndGroups
            <7>2. \E n \in Names : r.group = {n}
              BY <5>1, <6>3, ZonesAndGroups
            <7> QED
              BY <5>1, <6>1, <7>1, <7>2
          <6> QED
            BY <6>2, <6>3
      <4> QED
        BY <4>2, <4>3
    <3>11. f[<<c, 1>>] = r
      <4>1. <<c, 1>>[1] = c
        OBVIOUS
      <4>2. f[<<c, 1>>] = CHOOSE s \in full : c[2] \in s.group /\ c[3] = s.hour
        BY <3>9
      <4> QED
        BY <3>8, <3>10, <4>2
    <3> QED
      BY <3>9, <3>11
  <2>2. IsFiniteSet(TripsOf(Cells))
    BY DEF TripsSound
  <2> HIDE DEF f, full
  <2> QED
    BY <2>1, <2>2, FiniteImage
<1>5. RowsOf(z) \subseteq full \cup zero
  <2> SUFFICES ASSUME NEW r \in RowsOf(z), r.count = 0
               PROVE  r \in zero
    OBVIOUS
  <2>1. r \in Densified(z, r.hour) /\ r.hour \in Hours
    BY <1>2, HistoryRows
  <2>2. r \notin Counted(z, r.hour)
    <3>1. \A g : Row(z, g, r.hour, TripsIn({z} \X g \X {r.hour})).count = TripsIn({z} \X g \X {r.hour})
      BY DEF Row
    <3> SUFFICES ASSUME r \in Counted(z, r.hour)
                 PROVE  FALSE
      OBVIOUS
    <3>2. PICK h \in Hours : h = r.hour
      BY <2>1
    <3>3. r \in Counted(z, h)
      BY <3>2
    <3>4. PICK g \in Groups : /\ TripsIn({z} \X g \X {h}) # 0
                            /\ r = Row(z, g, h, TripsIn({z} \X g \X {h}))
      BY <1>1, <3>3, DenseRows
    <3> QED
      BY <3>1, <3>2, <3>4
  <2> QED
    BY <2>1, <2>2 DEF Densified
<1> HIDE DEF full, zero
<1>6. IsFiniteSet(full \cup zero)
  BY <1>3, <1>4, FS_Union
<1>7. IsFiniteSet(RowsOf(z))
  BY <1>5, <1>6, FS_Subset
<1>8. ASSUME NEW h \in Hours
      PROVE  RowsAt(z, h) \subseteq RowsOf(z) /\ RowsAt(z, h) # {} /\ IsFiniteSet(RowsAt(z, h))
  <2>1. RowsAt(z, h) \subseteq RowsOf(z)
    BY DEF RowsAt, RowsOf
  <2>2. RowsAt(z, h) # {}
    BY <1>1, HistoryRows, DenseRows
  <2> QED
    BY <1>7, <2>1, <2>2, FS_Subset
<1>9. RowsOf(z) \subseteq history
  BY DEF RowsOf
<1> QED
  BY <1>2, <1>7, <1>8, <1>9

-----------------------------------------------------------------------------
(* Sorting.                                                                *)

\* The order that a rank of the groups gives to the rows of a zone, or of a zone
\* and hour, is strict and total.
LEMMA RowsOrdered ==
    ASSUME TripsSound, Built, stage # "collect", NEW z \in Universe, NEW rank \in Orders
    PROVE  /\ \A r \in RowsOf(z) : ~Before(rank, r, r)
           /\ \A r, s, u \in RowsOf(z) :
                 Before(rank, r, s) /\ Before(rank, s, u) => Before(rank, r, u)
           /\ \A r, s \in RowsOf(z) : r = s \/ Before(rank, r, s) \/ Before(rank, s, r)
<1>1. \A r \in RowsOf(z) : r.hour \in Int /\ r.hour \in Hours /\ r.zone = z
                              /\ r \in RowsAt(z, r.hour)
  BY FiniteRows, Bounds
<1> DEFINE place(r) == rank[<<z, r.hour>>][r.group]
<1>2. ASSUME NEW r \in RowsOf(z), NEW s \in RowsOf(z), r.hour = s.hour, r # s
      PROVE  place(r) \in Int /\ place(s) \in Int /\ place(r) # place(s)
  <2>1. PICK h \in Hours : h = r.hour /\ h = s.hour
    BY <1>1, <1>2
  <2>2. r \in RowsAt(z, h) /\ s \in RowsAt(z, h)
    BY <1>1, <2>1
  <2>3. r.group \in Groups /\ s.group \in Groups /\ r.group # s.group
    <3>1. r \in Densified(z, h) /\ s \in Densified(z, h) /\ z \in Zones
      BY <2>2, HistoryRows, ZonesAndGroups
    <3> QED
      BY <1>2, <3>1, DenseRows
  <2>4. Cardinality(RowsAt(z, h)) > 1
    <3>1. IsFiniteSet(RowsAt(z, h))
      BY FiniteRows
    <3>2. Cardinality(RowsAt(z, h)) \in Nat
      BY <3>1, FS_CardinalityType
    <3>3. Cardinality(RowsAt(z, h)) # 0
      BY <2>2, <3>1, FS_EmptySet
    <3>4. Cardinality(RowsAt(z, h)) # 1
      BY <1>2, <2>2, <3>1, FS_Singleton
    <3> QED
      BY <3>2, <3>3, <3>4
  <2>5. <<z, h>> \in Ties
    BY <2>4 DEF Ties
  <2>6. rank[<<z, h>>] \in Bijection(Groups, 1 .. Cardinality(Groups))
    BY <2>5 DEF Orders
  <2> HIDE DEF place
  <2>7. place(r) = rank[<<z, h>>][r.group] /\ place(s) = rank[<<z, h>>][s.group]
    BY <2>1 DEF place
  <2> QED
    BY <2>3, <2>6, <2>7 DEF Bijection, Injection, IsInjective
<1>3. \A r, s \in RowsOf(z) :
          Before(rank, r, s)
             <=> (r.hour < s.hour \/ (r.hour = s.hour /\ r # s /\ place(r) < place(s)))
  BY <1>1 DEF Before
<1> HIDE DEF place
<1>4. \A r \in RowsOf(z) : ~Before(rank, r, r)
  BY <1>1, <1>3
<1>5. ASSUME NEW r \in RowsOf(z), NEW s \in RowsOf(z), NEW u \in RowsOf(z),
             Before(rank, r, s), Before(rank, s, u)
      PROVE  Before(rank, r, u)
  <2>1. r.hour \in Int /\ s.hour \in Int /\ u.hour \in Int
    BY <1>1
  <2>2. CASE r.hour < s.hour
    BY <1>3, <1>5, <2>1, <2>2
  <2>3. CASE ~(r.hour < s.hour)
    <3>1. r.hour = s.hour /\ r # s /\ place(r) < place(s)
      BY <1>3, <1>5, <2>3
    <3>2. CASE s.hour < u.hour
      BY <1>3, <2>1, <3>1, <3>2
    <3>3. CASE ~(s.hour < u.hour)
      <4>1. s.hour = u.hour /\ s # u /\ place(s) < place(u)
        BY <1>3, <1>5, <3>3
      <4>2. place(r) \in Int /\ place(s) \in Int /\ place(u) \in Int
        BY <1>2, <3>1, <4>1
      <4>3. place(r) < place(u) /\ r # u
        BY <3>1, <4>1, <4>2
      <4> QED
        BY <1>3, <3>1, <4>1, <4>3
    <3> QED
      BY <3>2, <3>3
  <2> QED
    BY <2>2, <2>3
<1>6. ASSUME NEW r \in RowsOf(z), NEW s \in RowsOf(z), r # s
      PROVE  Before(rank, r, s) \/ Before(rank, s, r)
  <2>1. r.hour \in Int /\ s.hour \in Int
    BY <1>1
  <2>2. CASE r.hour = s.hour
    <3>1. place(r) \in Int /\ place(s) \in Int /\ place(r) # place(s)
      BY <1>2, <1>6, <2>2
    <3>2. place(r) < place(s) \/ place(s) < place(r)
      BY <3>1
    <3> QED
      BY <1>3, <1>6, <2>2, <3>2
  <2>3. CASE r.hour # s.hour
    <3>1. r.hour < s.hour \/ s.hour < r.hour
      BY <2>1, <2>3
    <3> QED
      BY <1>3, <3>1
  <2> QED
    BY <2>2, <2>3
<1> QED
  BY <1>4, <1>5, <1>6

\* Where a row is when the rows of a zone are sorted, less one.
Place(rank, z, r) == Cardinality({s \in RowsOf(z) : Before(rank, s, r)})

\* Every place has its row, and every row its place.
LEMMA RowsSorted ==
    ASSUME TripsSound, Built, stage # "collect", NEW z \in Universe, NEW rank \in Orders
    PROVE  LET n == Cardinality(RowsOf(z))
               q == SortedRows(z, rank)
           IN  /\ n \in Nat /\ DOMAIN q = 1 .. n
               /\ \A i \in 1 .. n : q[i] \in RowsOf(z) /\ Place(rank, z, q[i]) = i - 1
               /\ \A r \in RowsOf(z) : /\ Place(rank, z, r) \in 0 .. n - 1
                                      /\ q[Place(rank, z, r) + 1] = r
<1> DEFINE S == RowsOf(z)
           n == Cardinality(S)
           R == {rs \in S \X S : Before(rank, rs[1], rs[2])}
           pos == [x \in S |-> Cardinality({y \in S : <<y, x>> \in R})]
           q == SortedRows(z, rank)
<1>1. IsFiniteSet(S)
  BY FiniteRows
<1>2. \A x, y \in S : <<x, y>> \in R <=> Before(rank, x, y)
  OBVIOUS
<1>3. /\ \A x \in S : <<x, x>> \notin R
      /\ \A x, y, u \in S : <<x, y>> \in R /\ <<y, u>> \in R => <<x, u>> \in R
      /\ \A x, y \in S : x = y \/ <<x, y>> \in R \/ <<y, x>> \in R
  <2> HIDE DEF R, S
  <2>1. /\ \A x \in S : ~Before(rank, x, x)
        /\ \A x, y, u \in S : Before(rank, x, y) /\ Before(rank, y, u) => Before(rank, x, u)
        /\ \A x, y \in S : x = y \/ Before(rank, x, y) \/ Before(rank, y, x)
    BY RowsOrdered DEF S
  <2> QED
    BY <1>2, <2>1
<1>4. \A x \in S : pos[x] = Place(rank, z, x)
  <2> SUFFICES ASSUME NEW x \in S
               PROVE  pos[x] = Place(rank, z, x)
    OBVIOUS
  <2>1. {y \in S : <<y, x>> \in R} = {s \in RowsOf(z) : Before(rank, s, x)}
    BY <1>2
  <2> QED
    BY <2>1 DEF Place
<1>5. q = [i \in 1 .. n |-> CHOOSE r \in S : Place(rank, z, r) = i - 1]
  BY DEF SortedRows, Place
<1> HIDE DEF S, R, q
<1>6. /\ n \in Nat
      /\ \A x \in S : pos[x] \in 0 .. n - 1
      /\ \A x, y \in S : pos[x] = pos[y] => x = y
      /\ \A i \in 0 .. n - 1 : \E x \in S : pos[x] = i
  BY <1>1, <1>3, Positions
<1> HIDE DEF pos, n
<1>7. ASSUME NEW i \in 1 .. n
      PROVE  q[i] \in S /\ Place(rank, z, q[i]) = i - 1
  <2>1. i - 1 \in 0 .. n - 1
    BY <1>6
  <2>2. \E r \in S : Place(rank, z, r) = i - 1
    BY <1>4, <1>6, <2>1
  <2> QED
    BY <1>5, <2>2
<1>8. ASSUME NEW r \in S
      PROVE  /\ Place(rank, z, r) \in 0 .. n - 1
             /\ q[Place(rank, z, r) + 1] = r
  <2>1. Place(rank, z, r) \in 0 .. n - 1
    BY <1>4, <1>6
  <2>2. PICK i \in 1 .. n : i = Place(rank, z, r) + 1
    BY <1>6, <2>1
  <2>3. q[i] \in S /\ Place(rank, z, q[i]) = Place(rank, z, r)
    BY <1>6, <1>7, <2>1, <2>2
  <2>4. q[i] = r
    BY <1>4, <1>6, <2>3
  <2> QED
    BY <2>1, <2>2, <2>4
<1>9. DOMAIN q = 1 .. n
  BY <1>5
<1> QED
  BY <1>6, <1>7, <1>8, <1>9 DEF S, q, n

\* A row at an earlier place is another row, and of no later hour.
LEMMA PlacesOrdered ==
    ASSUME TripsSound, Built, stage # "collect", NEW z \in Universe, NEW rank \in Orders,
           NEW i \in DOMAIN SortedRows(z, rank), NEW j \in DOMAIN SortedRows(z, rank), j < i
    PROVE  LET q == SortedRows(z, rank)
           IN  q[j] # q[i] /\ q[j].hour <= q[i].hour
<1> DEFINE S == RowsOf(z)
           q == SortedRows(z, rank)
           preds(r) == {s \in S : Before(rank, s, r)}
<1>1. PICK n \in Nat : DOMAIN q = 1 .. n /\ n = Cardinality(S)
  BY RowsSorted
<1>2. /\ q[i] \in S /\ Cardinality(preds(q[i])) = i - 1
      /\ q[j] \in S /\ Cardinality(preds(q[j])) = j - 1
  BY <1>1, RowsSorted DEF Place
<1>3. PICK x \in S, y \in S : x = q[j] /\ y = q[i]
  BY <1>2
<1>4. IsFiniteSet(S) /\ \A r \in S : r.hour \in Int
  BY FiniteRows, Bounds
<1>5. /\ \A r, s, u \in S : Before(rank, r, s) /\ Before(rank, s, u) => Before(rank, r, u)
      /\ \A r, s \in S : r = s \/ Before(rank, r, s) \/ Before(rank, s, r)
  BY RowsOrdered
<1>6. x # y
  <2>1. i \in Int /\ j \in Int /\ j - 1 # i - 1
    BY <1>1
  <2>2. Cardinality(preds(x)) = j - 1 /\ Cardinality(preds(y)) = i - 1
    BY <1>2, <1>3
  <2> HIDE DEF preds, q, S
  <2> QED
    BY <2>1, <2>2
<1>7. ~Before(rank, y, x)
  <2> SUFFICES ASSUME Before(rank, y, x)
               PROVE  FALSE
    OBVIOUS
  <2>1. preds(y) \subseteq preds(x)
    <3> HIDE DEF S
    <3> QED
      BY <1>5
  <2>2. IsFiniteSet(preds(x)) /\ preds(x) \subseteq S
    BY <1>4, FS_Subset
  <2>3. Cardinality(preds(y)) <= Cardinality(preds(x))
    <3> HIDE DEF preds
    <3> QED
      BY <2>1, <2>2, FS_Subset
  <2> QED
    BY <1>1, <1>2, <1>3, <2>3
<1>8. Before(rank, x, y)
  BY <1>5, <1>6, <1>7
<1>9. x.hour <= y.hour
  BY <1>4, <1>8 DEF Before
<1> QED
  BY <1>3, <1>6, <1>9

\* Every hour has a row, so k rows back is at most k hours back.
LEMMA RowsBack ==
    ASSUME TripsSound, Built, stage # "collect", NEW z \in Universe, NEW rank \in Orders,
           NEW i \in DOMAIN SortedRows(z, rank), NEW k \in Nat \ {0}, k < i
    PROVE  LET q == SortedRows(z, rank)
           IN  RecentCount(q[i], k, Shifted(q, i, k))
<1> DEFINE q == SortedRows(z, rank)
           j == i - k
<1>1. PICK n \in Nat : DOMAIN q = 1 .. n
  BY RowsSorted
<1>2. i \in 1 .. n /\ j \in 1 .. n /\ j < i
  BY <1>1
<1>3. q[i] \in RowsOf(z) /\ q[j] \in RowsOf(z)
  BY <1>1, <1>2, RowsSorted
<1>4. q[j] # q[i] /\ q[j].hour <= q[i].hour
  BY <1>1, <1>2, PlacesOrdered
<1>5. PICK a \in Hours, b \in Hours : a = q[j].hour /\ b = q[i].hour
  BY <1>3, FiniteRows
<1>6. a \in Nat /\ b \in Nat /\ b <= LastHour /\ a <= b
  BY <1>4, <1>5, Bounds
<1>7. a >= b - k
  <2> SUFFICES ASSUME a < b - k
               PROVE  FALSE
    BY <1>6
  <2> DEFINE H == a + 1 .. b - 1
             T == j + 1 .. i - 1
             place == [g \in H |-> CHOOSE m \in 1 .. n : q[m].hour = g]
  <2>1. ASSUME NEW g \in H
        PROVE  place[g] \in T /\ q[place[g]].hour = g
    <3>1. g \in Hours /\ a < g /\ g < b
      BY <1>6, Bounds
    <3>2. PICK r \in RowsOf(z) : r.hour = g
      <4>1. RowsAt(z, g) # {} /\ RowsAt(z, g) \subseteq RowsOf(z)
        BY <3>1, FiniteRows
      <4>2. \A r \in RowsAt(z, g) : r.hour = g
        BY DEF RowsAt
      <4> QED
        BY <4>1, <4>2
    <3>3. \E m \in 1 .. n : q[m].hour = g
      BY <1>1, <3>2, RowsSorted
    <3>4. place[g] \in 1 .. n /\ q[place[g]].hour = g
      BY <3>3
    <3> HIDE DEF place
    <3>5. PICK m \in 1 .. n : m = place[g]
      BY <3>4
    <3>6. ~(m <= j)
      <4>1. m # j
        BY <1>5, <1>6, <3>1, <3>4, <3>5
      <4>2. m < j => q[m].hour <= q[j].hour
        BY <1>1, <1>2, PlacesOrdered
      <4> QED
        BY <1>2, <1>5, <1>6, <3>1, <3>4, <3>5, <4>1, <4>2
    <3>7. ~(m >= i)
      <4>1. m # i
        BY <1>5, <1>6, <3>1, <3>4, <3>5
      <4>2. i < m => q[i].hour <= q[m].hour
        BY <1>1, <1>2, PlacesOrdered
      <4> QED
        BY <1>2, <1>5, <1>6, <3>1, <3>4, <3>5, <4>1, <4>2
    <3> QED
      BY <1>2, <3>4, <3>5, <3>6, <3>7
  <2>2. place \in [H -> T]
    <3>1. place = [g \in H |-> place[g]]
      OBVIOUS
    <3> HIDE DEF place
    <3> QED
      BY <2>1, <3>1
  <2>3. IsFiniteSet(H) /\ Cardinality(H) = b - a - 1
    <3>1. PICK c \in Int, d \in Int : c = a + 1 /\ d = b - 1
      BY <1>6
    <3>2. IsFiniteSet(c .. d) /\ Cardinality(c .. d) = IF c > d THEN 0 ELSE d - c + 1
      BY FS_Interval
    <3> QED
      BY <1>6, <3>1, <3>2
  <2>4. IsFiniteSet(T) /\ Cardinality(T) = k - 1
    <3>1. PICK c \in Int, d \in Int : c = j + 1 /\ d = i - 1
      BY <1>2
    <3>2. IsFiniteSet(c .. d) /\ Cardinality(c .. d) = IF c > d THEN 0 ELSE d - c + 1
      BY FS_Interval
    <3> QED
      BY <1>2, <3>1, <3>2
  <2>5. Cardinality(T) < Cardinality(H)
    BY <1>6, <2>3, <2>4
  <2> HIDE DEF place, H, T
  <2>6. PICK g \in H, h \in H : g # h /\ place[g] = place[h]
    BY <2>2, <2>3, <2>4, <2>5, FS_PigeonHole
  <2> QED
    BY <2>1, <2>6
<1>8. a \in b - k .. b
  BY <1>6, <1>7
<1>9. q[i].zone = z
  BY <1>3, FiniteRows
<1> QED
  BY <1>3, <1>4, <1>5, <1>8, <1>9 DEF RecentCount, Shifted

\* Of the rows of a zone and hour one is behind all others: it is the last.
LEMMA LastExists ==
    ASSUME TripsSound, Built, stage # "collect", NEW z \in Universe, NEW h \in Hours,
           NEW rank \in Orders
    PROVE  LastRow(rank, <<z, h>>) \in RowsAt(z, h)
<1> DEFINE S == RowsAt(z, h)
           R == {rs \in S \X S : Before(rank, rs[1], rs[2])}
           pos == [x \in S |-> Cardinality({y \in S : <<y, x>> \in R})]
<1>1. IsFiniteSet(S) /\ S # {} /\ S \subseteq RowsOf(z)
  BY FiniteRows
<1>2. \A x, y \in S : <<x, y>> \in R <=> Before(rank, x, y)
  OBVIOUS
<1>3. /\ \A x \in S : <<x, x>> \notin R
      /\ \A x, y, u \in S : <<x, y>> \in R /\ <<y, u>> \in R => <<x, u>> \in R
      /\ \A x, y \in S : x = y \/ <<x, y>> \in R \/ <<y, x>> \in R
  <2> HIDE DEF R, S
  <2>1. /\ \A x \in S : ~Before(rank, x, x)
        /\ \A x, y, u \in S : Before(rank, x, y) /\ Before(rank, y, u) => Before(rank, x, u)
        /\ \A x, y \in S : x = y \/ Before(rank, x, y) \/ Before(rank, y, x)
    BY <1>1, RowsOrdered
  <2> QED
    BY <1>2, <2>1
<1> HIDE DEF S, R
<1>4. /\ Cardinality(S) \in Nat
      /\ \A i \in 0 .. Cardinality(S) - 1 : \E x \in S : pos[x] = i
      /\ \A x \in S : pos[x] = Cardinality(S) - 1 => \A y \in S \ {x} : <<y, x>> \in R
  BY <1>1, <1>3, Positions
<1>5. Cardinality(S) # 0
  BY <1>1, FS_EmptySet
<1>6. Cardinality(S) - 1 \in 0 .. Cardinality(S) - 1
  BY <1>4, <1>5
<1>7. PICK x \in S : \A y \in S \ {x} : Before(rank, y, x)
  BY <1>2, <1>4, <1>6
<1>8. LastRow(rank, <<z, h>>) = CHOOSE r \in S : \A s \in S \ {r} : Before(rank, s, r)
  BY DEF LastRow, S
<1> QED
  BY <1>7, <1>8 DEF S

-----------------------------------------------------------------------------
(* Counts and trips.                                                       *)

\* The counts of the rows of a zone and hour add up to its trips.
LEMMA RowsTotal ==
    ASSUME TripsSound, NEW z \in Zones, NEW h \in Hours
    PROVE  Total(Densified(z, h)) = TripsAt(z, h)
<1> DEFINE cells == {z} \X Names \X {h}
           D == Densified(z, h)
           units == {rk \in D \X (1 .. MaxTrips) : rk[2] <= rk[1].count}
<1>1. /\ cells \in SUBSET Cells
      /\ \A n \in Names : <<z, n, h>> \in cells
      /\ \A c \in cells : c[2] \in Names /\ c = <<z, c[2], h>>
  BY CellsAt
<1>2. Total(D) = Cardinality(units) /\ TripsAt(z, h) = TripsIn(cells)
  BY DEF Total, TripsAt
<1>3. ASSUME NEW n \in Names
      PROVE  TripsIn({z} \X {n} \X {h}) = trips[<<z, n, h>>] /\ <<z, n, h>> \in Cells
  <2>1. {z} \X {n} \X {h} = {<<z, n, h>>}
    BY CellsAt
  <2> QED
    BY <1>1, <2>1, CellTrips
<1>7. \A r : r \in Counted(z, h) <=>
                \E g \in Groups : /\ TripsIn({z} \X g \X {h}) # 0
                                /\ r = Row(z, g, h, TripsIn({z} \X g \X {h}))
  BY DenseRows
<1>8. Counted(z, h) = {} => \A g \in Groups : TripsIn({z} \X g \X {h}) = 0
  <2> SUFFICES ASSUME NEW g \in Groups, TripsIn({z} \X g \X {h}) # 0
               PROVE  Counted(z, h) # {}
    OBVIOUS
  <2>1. Row(z, g, h, TripsIn({z} \X g \X {h})) \in Counted(z, h)
    BY <1>7
  <2> QED
    BY <2>1
<1>4. CASE Counted(z, h) = {}
  <2>1. D = {Row(z, {}, h, 0)}
    BY <1>4 DEF Densified
  <2>2. units = {}
    <3>1. Row(z, {}, h, 0).count = 0
      BY DEF Row
    <3> QED
      BY <2>1, <3>1
  <2>3. Cardinality(units) = 0
    BY <2>2, FS_EmptySet
  <2>4. \A g \in Groups : TripsIn({z} \X g \X {h}) = 0
    BY <1>4, <1>8
  <2>5. CASE adapter = "taxi"
    BY <1>2, <2>3, <2>4, <2>5, ZonesAndGroups
  <2>6. CASE adapter # "taxi"
    <3>1. \A n \in Names : trips[<<z, n, h>>] = 0
      BY <1>3, <2>4, <2>6, ZonesAndGroups
    <3>2. \A c \in cells : trips[c] = 0
      BY <1>1, <3>1
    <3>3. TripsIn(cells) = 0
      BY <1>1, <3>2, SomeTrips
    <3> QED
      BY <1>2, <2>3, <3>3
  <2> QED
    BY <2>5, <2>6
<1>5. CASE Counted(z, h) # {} /\ adapter = "taxi"
  <2> DEFINE count == TripsIn(cells)
             row == Row(z, Names, h, count)
  <2>1. D = {row}
    <3>1. D = Counted(z, h)
      BY <1>5 DEF Densified
    <3>2. \A r \in D : r = row
      <4>1. Groups = {Names}
        BY <1>5, ZonesAndGroups
      <4> HIDE DEF D
      <4> QED
        BY <1>7, <3>1, <4>1
    <3> QED
      BY <1>5, <3>1, <3>2
  <2>2. count \in 0 .. MaxTrips /\ row.count = count
    BY <1>1, SomeTrips DEF Row
  <2> HIDE DEF count, row, D
  <2>3. \A u : u \in units <=> \E k \in 1 .. count : u = <<row, k>>
    <3>1. ASSUME NEW u \in units
          PROVE  \E k \in 1 .. count : u = <<row, k>>
      <4>1. PICK k \in 1 .. MaxTrips : u = <<row, k>>
        BY <2>1
      <4>2. k <= count
        BY <2>2, <4>1
      <4>3. k \in 1 .. count
        BY <2>2, <4>2, Bounds
      <4> QED
        BY <4>1, <4>3
    <3>2. ASSUME NEW k \in 1 .. count
          PROVE  <<row, k>> \in units
      <4>1. k \in 1 .. MaxTrips /\ k <= count
        BY <2>2, Bounds
      <4> QED
        BY <2>1, <2>2, <4>1
    <3> QED
      BY <3>1, <3>2
  <2>4. Cardinality(units) = count
    <3> HIDE DEF units
    <3> QED
      BY <2>2, <2>3, UnitsOfOne
  <2> QED
    BY <1>2, <2>4 DEF count, D
<1>6. CASE Counted(z, h) # {} /\ adapter # "taxi"
  <2> DEFINE T == TripsOf(cells)
             f == [ck \in T |-> <<Row(z, {ck[1][2]}, h, trips[ck[1]]), ck[2]>>]
  <2>1. D = Counted(z, h)
    BY <1>6 DEF Densified
  <2>2. \A r : r \in D <=> \E n \in Names : /\ trips[<<z, n, h>>] # 0
                                         /\ r = Row(z, {n}, h, trips[<<z, n, h>>])
    <3>1. \A g : g \in Groups <=> \E n \in Names : g = {n}
      BY <1>6, ZonesAndGroups
    <3>2. ASSUME NEW r \in D
          PROVE  \E n \in Names : /\ trips[<<z, n, h>>] # 0
                                /\ r = Row(z, {n}, h, trips[<<z, n, h>>])
      <4>1. PICK g \in Groups : /\ TripsIn({z} \X g \X {h}) # 0
                              /\ r = Row(z, g, h, TripsIn({z} \X g \X {h}))
        BY <1>7, <2>1
      <4>2. PICK n \in Names : g = {n}
        BY <3>1
      <4> QED
        BY <1>3, <4>1, <4>2
    <3>3. ASSUME NEW n \in Names, trips[<<z, n, h>>] # 0
          PROVE  Row(z, {n}, h, trips[<<z, n, h>>]) \in D
      <4>1. PICK g \in Groups : g = {n}
        BY <3>1
      <4>2. TripsIn({z} \X g \X {h}) = trips[<<z, n, h>>]
        BY <1>3, <4>1
      <4> QED
        <5>1. Row(z, g, h, TripsIn({z} \X g \X {h})) \in Counted(z, h)
          BY <1>7, <3>3, <4>2
        <5> QED
          BY <2>1, <4>1, <4>2, <5>1
    <3> QED
      BY <3>2, <3>3
  <2>3. \A ck : ck \in T <=> \E n \in Names, k \in 1 .. MaxTrips :
                               ck = <<<<z, n, h>>, k>> /\ k <= trips[<<z, n, h>>]
    <3>1. ASSUME NEW ck \in T
          PROVE  \E n \in Names, k \in 1 .. MaxTrips :
                     ck = <<<<z, n, h>>, k>> /\ k <= trips[<<z, n, h>>]
      <4>1. PICK c \in cells, k \in 1 .. MaxTrips : ck = <<c, k>> /\ k <= trips[c]
        BY DEF TripsOf
      <4> QED
        BY <1>1, <4>1
    <3>2. ASSUME NEW n \in Names, NEW k \in 1 .. MaxTrips, k <= trips[<<z, n, h>>]
          PROVE  <<<<z, n, h>>, k>> \in T
      <4>1. PICK c \in cells : c = <<z, n, h>>
        BY <1>1
      <4>2. <<c, k>> \in TripsOf(cells)
        BY <3>2, <4>1 DEF TripsOf
      <4> QED
        BY <4>1, <4>2
    <3> QED
      BY <3>1, <3>2
  <2>4. \A n \in Names : trips[<<z, n, h>>] \in 0 .. MaxTrips
    BY <1>3 DEF TripsSound
  <2>5. \A u : u \in units <=> \E r \in D, k \in 1 .. MaxTrips : u = <<r, k>> /\ k <= r.count
    OBVIOUS
  <2>6. \A n, k : <<<<z, n, h>>, k>> \in T =>
            f[<<<<z, n, h>>, k>>] = <<Row(z, {n}, h, trips[<<z, n, h>>]), k>>
    OBVIOUS
  <2>7. IsFiniteSet(T) /\ Cardinality(T) = TripsIn(cells)
    BY <1>1, SomeTrips DEF TripsIn
  <2>8. DOMAIN f = T /\ f = [ck \in T |-> f[ck]]
    OBVIOUS
  <2>9. \A n, count : Row(z, {n}, h, count).count = count /\ Row(z, {n}, h, count).group = {n}
    BY DEF Row
  <2> HIDE DEF T, f, units, D, cells
  <2>10. ASSUME NEW ck \in T
         PROVE  f[ck] \in units
    <3>1. PICK n \in Names, k \in 1 .. MaxTrips :
              ck = <<<<z, n, h>>, k>> /\ k <= trips[<<z, n, h>>]
      BY <2>3
    <3>2. trips[<<z, n, h>>] # 0
      BY <2>4, <3>1
    <3>3. PICK r \in D : r = Row(z, {n}, h, trips[<<z, n, h>>])
      BY <2>2, <3>2
    <3>4. k <= r.count
      BY <2>9, <3>1, <3>3
    <3>5. f[ck] = <<r, k>>
      BY <2>6, <3>1, <3>3
    <3> QED
      BY <2>5, <3>4, <3>5
  <2>11. ASSUME NEW x \in T, NEW y \in T, f[x] = f[y]
         PROVE  x = y
    <3>1. PICK n \in Names, k \in 1 .. MaxTrips : x = <<<<z, n, h>>, k>>
      BY <2>3
    <3>2. PICK m \in Names, j \in 1 .. MaxTrips : y = <<<<z, m, h>>, j>>
      BY <2>3
    <3>3. <<Row(z, {n}, h, trips[<<z, n, h>>]), k>> = <<Row(z, {m}, h, trips[<<z, m, h>>]), j>>
      BY <2>6, <2>11, <3>1, <3>2
    <3>4. k = j /\ {n} = {m}
      <4>1. PICK r, s : /\ r = Row(z, {n}, h, trips[<<z, n, h>>])
                        /\ s = Row(z, {m}, h, trips[<<z, m, h>>])
        OBVIOUS
      <4>2. r.group = {n} /\ s.group = {m}
        BY <2>9, <4>1
      <4>3. <<r, k>> = <<s, j>>
        BY <3>3, <4>1
      <4> QED
        BY <4>2, <4>3
    <3> QED
      BY <3>1, <3>2, <3>4
  <2>12. ASSUME NEW u \in units
         PROVE  \E ck \in T : f[ck] = u
    <3>1. PICK r \in D, k \in 1 .. MaxTrips : u = <<r, k>> /\ k <= r.count
      BY <2>5
    <3>2. PICK n \in Names : r = Row(z, {n}, h, trips[<<z, n, h>>])
      BY <2>2
    <3>3. k <= trips[<<z, n, h>>]
      BY <2>9, <3>1, <3>2
    <3>4. <<<<z, n, h>>, k>> \in T
      BY <2>3, <3>3
    <3> QED
      BY <2>6, <3>1, <3>2, <3>4
  <2>13. f \in [T -> units]
    BY <2>8, <2>10
  <2>14. Cardinality(units) = Cardinality(T)
    BY <2>7, <2>11, <2>12, <2>13, SameSize
  <2> QED
    BY <1>2, <2>7, <2>14 DEF D
<1> QED
  BY <1>4, <1>5, <1>6

\* A zone with one row an hour has in it the trips of that hour.
LEMMA OneRow ==
    ASSUME TripsSound, Built, stage # "collect", NEW z \in Universe, OneRowAnHour(z),
           NEW h \in Hours
    PROVE  \E r \in history : /\ RowsAt(z, h) = {r}
                             /\ r.zone = z /\ r.hour = h /\ r.count = TripsAt(z, h)
<1>1. IsFiniteSet(RowsAt(z, h)) /\ Cardinality(RowsAt(z, h)) = 1
  BY FiniteRows DEF OneRowAnHour
<1>2. PICK r : RowsAt(z, h) = {r}
  BY <1>1, FS_Singleton
<1>3. r \in history /\ r.zone = z /\ r.hour = h
  BY <1>2 DEF RowsAt
<1>4. r.count \in 0 .. MaxTrips
  BY <1>3, HistoryRows
<1> DEFINE units == {rk \in {r} \X (1 .. MaxTrips) : rk[2] <= rk[1].count}
<1>5. \A u : u \in units <=> \E k \in 1 .. r.count : u = <<r, k>>
  <2>1. ASSUME NEW u \in units
        PROVE  \E k \in 1 .. r.count : u = <<r, k>>
    <3>1. PICK k \in 1 .. MaxTrips : u = <<r, k>> /\ k <= r.count
      OBVIOUS
    <3>2. k \in 1 .. r.count
      BY <1>4, <3>1, Bounds
    <3> QED
      BY <3>1, <3>2
  <2>2. ASSUME NEW k \in 1 .. r.count
        PROVE  <<r, k>> \in units
    <3>1. k \in 1 .. MaxTrips /\ k <= r.count
      BY <1>4, Bounds
    <3> QED
      BY <3>1
  <2> QED
    BY <2>1, <2>2
<1>6. Cardinality(units) = r.count
  BY <1>4, <1>5, UnitsOfOne
<1>7. Total(RowsAt(z, h)) = r.count
  BY <1>2, <1>6 DEF Total
<1>8. Total(RowsAt(z, h)) = TripsAt(z, h)
  BY RowsTotal, HistoryRows, ZonesAndGroups
<1> QED
  BY <1>2, <1>3, <1>7, <1>8

\* Sorted, the row of hour h is at place h + 1, whatever ties other zones have.
LEMMA HourPlace ==
    ASSUME TripsSound, Built, stage # "collect", NEW z \in Universe, OneRowAnHour(z),
           NEW rank \in Orders, NEW h \in Hours
    PROVE  /\ DOMAIN SortedRows(z, rank) = 1 .. LastHour + 1
           /\ RowsAt(z, h) = {SortedRows(z, rank)[h + 1]}
<1> DEFINE at == [g \in Hours |-> CHOOSE r : r \in RowsAt(z, g)]
           q == SortedRows(z, rank)
<1>1. ASSUME NEW g \in Hours
      PROVE  RowsAt(z, g) = {at[g]} /\ at[g] \in RowsOf(z) /\ at[g].hour = g
  <2>1. PICK r : RowsAt(z, g) = {r} /\ r.hour = g
    BY OneRow
  <2>2. at[g] = r
    BY <2>1
  <2> HIDE DEF at
  <2>3. r \in RowsOf(z)
    BY <2>1, FiniteRows
  <2> QED
    BY <2>1, <2>2, <2>3
<1>2. at = [g \in Hours |-> at[g]]
  OBVIOUS
<1> HIDE DEF at
<1>3. \A r \in RowsOf(z) : r.hour \in Hours /\ r = at[r.hour]
  BY <1>1, FiniteRows
<1>4. ASSUME NEW r \in RowsOf(z), NEW s \in RowsOf(z)
      PROVE  Before(rank, s, r) <=> s.hour < r.hour
  <2>1. s.hour = r.hour => s = r
    BY <1>3
  <2>2. s.hour \in Int /\ r.hour \in Int
    BY <1>3, Bounds
  <2> QED
    BY <2>1, <2>2 DEF Before
<1>5. Place(rank, z, at[h]) = h
  <2> DEFINE T == {s \in RowsOf(z) : Before(rank, s, at[h])}
             f == [g \in 0 .. h - 1 |-> at[g]]
  <2>1. h \in Nat /\ h <= LastHour
    BY Bounds
  <2>2. \A g \in 0 .. h - 1 : g \in Hours /\ g < h
    BY <2>1, Bounds
  <2>3. \A s : s \in T <=> s \in RowsOf(z) /\ s.hour < h
    BY <1>1, <1>4
  <2>4. \A g \in 0 .. h - 1 : f[g] \in T /\ f[g] = at[g] /\ f[g].hour = g
    BY <1>1, <2>2, <2>3
  <2>5. \A s \in T : s.hour \in 0 .. h - 1 /\ f[s.hour] = s
    <3> SUFFICES ASSUME NEW s \in T
                 PROVE  s.hour \in 0 .. h - 1 /\ f[s.hour] = s
      OBVIOUS
    <3>1. s.hour \in Hours /\ s = at[s.hour] /\ s.hour < h
      BY <1>3, <2>3
    <3>2. s.hour \in 0 .. h - 1
      BY <2>1, <3>1, Bounds
    <3> QED
      BY <3>1, <3>2
  <2>6. f = [g \in 0 .. h - 1 |-> f[g]]
    OBVIOUS
  <2> HIDE DEF f, T
  <2>7. f \in [0 .. h - 1 -> T]
    BY <2>4, <2>6
  <2>8. \A x, y \in 0 .. h - 1 : f[x] = f[y] => x = y
    BY <2>4
  <2>9. \A s \in T : \E g \in 0 .. h - 1 : f[g] = s
    BY <2>5
  <2>10. IsFiniteSet(0 .. h - 1) /\ Cardinality(0 .. h - 1) = h
    BY <2>1, UpTo
  <2>11. Cardinality(T) = h
    <3>1. PICK S : S = 0 .. h - 1
      OBVIOUS
    <3>2. /\ f \in [S -> T] /\ IsFiniteSet(S) /\ Cardinality(S) = h
          /\ \A x, y \in S : f[x] = f[y] => x = y
          /\ \A s \in T : \E g \in S : f[g] = s
      BY <2>7, <2>8, <2>9, <2>10, <3>1
    <3> QED
      BY <3>2, SameSize
  <2> QED
    BY <2>11 DEF Place, T
<1>6. q[h + 1] = at[h]
  <2>1. at[h] \in RowsOf(z)
    BY <1>1
  <2> QED
    BY <1>5, <2>1, RowsSorted
<1>7. Cardinality(RowsOf(z)) = LastHour + 1
  <2>1. at \in [Hours -> RowsOf(z)]
    BY <1>1, <1>2
  <2>2. \A x, y \in Hours : at[x] = at[y] => x = y
    BY <1>1
  <2>3. \A r \in RowsOf(z) : \E g \in Hours : at[g] = r
    BY <1>3
  <2>4. PICK n \in Nat : n = LastHour + 1 /\ Hours = 0 .. n - 1
    BY Bounds
  <2>5. IsFiniteSet(Hours) /\ Cardinality(Hours) = LastHour + 1
    BY <2>4, UpTo
  <2> QED
    BY <2>1, <2>2, <2>3, <2>5, SameSize
<1>8. DOMAIN q = 1 .. LastHour + 1
  BY <1>7, RowsSorted
<1> QED
  BY <1>1, <1>6, <1>8

-----------------------------------------------------------------------------
(* The stages.                                                             *)

\* What a stage after the first one reads is what the first has collected.
LEMMA SameTrips ==
    ASSUME UNCHANGED <<adapter, trips>>
    PROVE  /\ Universe' = Universe /\ Groups' = Groups
           /\ TripsOf(Cells)' = TripsOf(Cells) /\ TripsIn(Cells)' = TripsIn(Cells)
           /\ (UNION {Densified(z, h) : z \in Universe, h \in Hours})'
                 = UNION {Densified(z, h) : z \in Universe, h \in Hours}
           /\ history' = history => Orders' = Orders
<1>1. Universe' = Universe /\ Groups' = Groups
  BY DEF Universe, Groups, Cells, Hours, Outside
<1>2. TripsOf(Cells)' = TripsOf(Cells) /\ TripsIn(Cells)' = TripsIn(Cells)
  BY DEF TripsOf, TripsIn, Cells, Hours, Outside
<1>3. (UNION {Densified(z, h) : z \in Universe, h \in Hours})'
         = UNION {Densified(z, h) : z \in Universe, h \in Hours}
  BY <1>1 DEF Densified, Counted, Row, TripsIn, TripsOf, Hours
<1>4. history' = history => Orders' = Orders
  BY <1>1 DEF Orders, Ties, RowsAt, Hours
<1> QED
  BY <1>1, <1>2, <1>3, <1>4

\* And what is read of the same history is the same.
LEMMA SameHistory ==
    ASSUME UNCHANGED <<adapter, trips, history>>
    PROVE  /\ Orders' = Orders
           /\ \A rank : Sorted(rank)' = Sorted(rank)
           /\ \A rank : [zh \in Universe \X Hours |-> LastRow(rank, zh).count]'
                           = [zh \in Universe \X Hours |-> LastRow(rank, zh).count]
<1>1. Orders' = Orders /\ Universe' = Universe
  BY SameTrips
<1>2. ASSUME NEW rank
      PROVE  Sorted(rank)' = Sorted(rank)
  <2>1. \A z : SortedRows(z, rank)' = SortedRows(z, rank)
    BY DEF SortedRows, RowsOf, Before
  <2>2. \A z : FeatureRows(SortedRows(z, rank))' = FeatureRows(SortedRows(z, rank))
    BY <2>1 DEF FeatureRows, Kept, Features, Shifted, RollingMean
  <2> QED
    BY <1>1, <2>2 DEF Sorted
<1>3. ASSUME NEW rank
      PROVE  [zh \in Universe \X Hours |-> LastRow(rank, zh).count]'
                = [zh \in Universe \X Hours |-> LastRow(rank, zh).count]
  <2>1. \A zh : LastRow(rank, zh)' = LastRow(rank, zh)
    BY DEF LastRow, RowsAt, Before
  <2> QED
    BY <1>1, <2>1 DEF Hours
<1> QED
  BY <1>1, <1>2, <1>3

\* At first there are no trips.
LEMMA InitGInv == Init => GInv
<1> SUFFICES ASSUME Init
             PROVE  GInv
  OBVIOUS
<1>1. \A c \in Cells : trips[c] = 0
  BY DEF Init
<1>2. TripsOf(Cells) = {}
  <2> SUFFICES ASSUME NEW ck \in TripsOf(Cells)
               PROVE  FALSE
    OBVIOUS
  <2>1. ck[1] \in Cells /\ ck[2] \in 1 .. MaxTrips /\ ck[2] <= trips[ck[1]]
    BY DEF TripsOf
  <2>2. ck[2] <= 0
    BY <1>1, <2>1
  <2> QED
    BY <2>1, <2>2, Bounds
<1>3. IsFiniteSet(TripsOf(Cells)) /\ TripsIn(Cells) = 0
  BY <1>2, FS_EmptySet DEF TripsIn
<1>4. trips \in [Cells -> 0 .. MaxTrips]
  BY Bounds DEF Init
<1>5. TripsSound
  BY <1>1, <1>3, <1>4, Bounds DEF TripsSound, Init, Stages
<1> QED
  BY <1>5 DEF GInv, Built, Engineered, Loaded, Init

\* One more trip of a cell.
LEMMA StepTrip ==
    ASSUME GInv, NEW c \in Cells, Trip(c)
    PROVE  GInv'
<1> DEFINE new == <<c, trips[c] + 1>>
<1>1. TripsSound /\ trips \in [Cells -> 0 .. MaxTrips] /\ trips[c] \in 0 .. MaxTrips
  BY DEF GInv, TripsSound
<1>2. trips[c] < MaxTrips
  <2>1. TripsOf({c}) \subseteq TripsOf(Cells)
    BY DEF TripsOf
  <2>2. TripsIn({c}) <= TripsIn(Cells)
    BY <1>1, <2>1, FS_Subset DEF TripsSound, TripsIn
  <2>3. TripsIn({c}) = trips[c]
    BY <1>1, CellTrips
  <2>4. TripsIn(Cells) < MaxTrips /\ TripsIn(Cells) \in 0 .. MaxTrips
    BY <1>1, SomeTrips DEF Trip
  <2> QED
    BY <1>1, <2>2, <2>3, <2>4, Bounds
<1>3. /\ trips' \in [Cells -> 0 .. MaxTrips]
      /\ trips'[c] = trips[c] + 1
      /\ \A d \in Cells \ {c} : trips'[d] = trips[d]
  <2>1. trips' = [trips EXCEPT ![c] = trips[c] + 1]
    BY DEF Trip
  <2>2. trips[c] + 1 \in 0 .. MaxTrips
    BY <1>1, <1>2, Bounds
  <2> QED
    BY <1>1, <2>1, <2>2
<1>4. \A d \in Cells, k \in 1 .. MaxTrips :
          k <= trips'[d] <=> k <= trips[d] \/ (d = c /\ k = trips[c] + 1)
  <2> SUFFICES ASSUME NEW d \in Cells, NEW k \in 1 .. MaxTrips
               PROVE  k <= trips'[d] <=> k <= trips[d] \/ (d = c /\ k = trips[c] + 1)
    OBVIOUS
  <2>1. CASE d = c
    BY <1>1, <1>3, <2>1, Bounds
  <2>2. CASE d # c
    BY <1>3, <2>2
  <2> QED
    BY <2>1, <2>2
<1>5. TripsOf(Cells)' = TripsOf(Cells) \cup {new}
  <2>1. Cells' = Cells
    BY DEF Cells, Hours, Outside
  <2>2. TripsOf(Cells)' = {ck \in Cells \X (1 .. MaxTrips) : ck[2] <= trips'[ck[1]]}
    BY <2>1 DEF TripsOf
  <2>3. new \in Cells \X (1 .. MaxTrips)
    BY <1>1, <1>2, Bounds
  <2>4. \A d \in Cells, k \in 1 .. MaxTrips : <<d, k>> = new <=> (d = c /\ k = trips[c] + 1)
    OBVIOUS
  <2> HIDE DEF new
  <2>5. \A d \in Cells, k \in 1 .. MaxTrips :
            <<d, k>> \in TripsOf(Cells)' <=> <<d, k>> \in TripsOf(Cells) \cup {new}
    BY <1>4, <2>2, <2>4 DEF TripsOf
  <2>6. TripsOf(Cells)' \subseteq Cells \X (1 .. MaxTrips)
    BY <2>2
  <2>7. TripsOf(Cells) \cup {new} \subseteq Cells \X (1 .. MaxTrips)
    BY <2>3 DEF TripsOf
  <2> QED
    BY <2>5, <2>6, <2>7
<1>6. new \notin TripsOf(Cells)
  BY <1>1, Bounds DEF TripsOf
<1> HIDE DEF new
<1>7. /\ IsFiniteSet(TripsOf(Cells) \cup {new})
      /\ Cardinality(TripsOf(Cells) \cup {new}) = TripsIn(Cells) + 1
  BY <1>1, <1>6, FS_AddElement DEF TripsSound, TripsIn
<1>8. IsFiniteSet(TripsOf(Cells))' /\ TripsIn(Cells)' <= MaxTrips
  <2>1. TripsIn(Cells)' = Cardinality(TripsOf(Cells)')
    BY DEF TripsIn
  <2>2. TripsIn(Cells) < MaxTrips /\ TripsIn(Cells) \in 0 .. MaxTrips
    BY <1>1, SomeTrips DEF Trip
  <2> QED
    BY <1>5, <1>7, <2>1, <2>2, Bounds
<1>9. adapter' = adapter /\ stage' = stage /\ stage = "collect"
      /\ history' = history /\ features' = features
  BY DEF Trip
<1>10. adapter' = "taxi" => \A d \in Cells : d[3] = Outside => trips'[d] = 0
  BY <1>1, <1>3, <1>9 DEF TripsSound, Trip
<1>11. TripsSound'
  BY <1>1, <1>3, <1>8, <1>9, <1>10 DEF TripsSound, Cells, Hours, Outside
<1>12. Built' /\ Engineered' /\ Loaded'
  BY <1>9 DEF GInv, Built, Engineered, Loaded
<1> QED
  BY <1>11, <1>12 DEF GInv

\* Every step keeps the invariant.
LEMMA Inductive ==
    ASSUME GInv, [Next]_vars
    PROVE  GInv'
<1>1. CASE \E c \in Cells : Trip(c)
  BY <1>1, StepTrip
<1>2. ASSUME UNCHANGED <<adapter, trips>>, stage' \in Stages
      PROVE  TripsSound'
  BY <1>2, SameTrips DEF GInv, TripsSound, Cells, Hours, Outside
<1>3. CASE Prepare
  <2>1. Built'
    BY <1>3, SameTrips DEF Prepare, Built
  <2>2. Engineered' /\ Loaded'
    BY <1>3 DEF GInv, Prepare, Engineered, Loaded
  <2> QED
    BY <1>2, <1>3, <2>1, <2>2 DEF GInv, Prepare, Stages
<1>4. CASE Engineer
  <2>1. Built'
    BY <1>4, SameTrips DEF GInv, Engineer, Built
  <2>2. PICK rank \in Orders : features' = Sorted(rank)
    BY <1>4 DEF Engineer, Sorted
  <2>3. Sorted(rank)' = Sorted(rank) /\ Orders' = Orders
    BY <1>4, SameHistory DEF Engineer
  <2>4. Engineered' /\ Loaded'
    BY <1>4, <2>2, <2>3 DEF Engineer, Engineered, Loaded
  <2> QED
    BY <1>2, <1>4, <2>1, <2>4 DEF GInv, Engineer, Stages
<1>5. CASE LoadHistory
  <2>1. Built'
    BY <1>5, SameTrips DEF GInv, LoadHistory, Built
  <2>2. /\ Orders' = Orders /\ \A rank : Sorted(rank)' = Sorted(rank)
        /\ \A rank : [zh \in Universe \X Hours |-> LastRow(rank, zh).count]'
                        = [zh \in Universe \X Hours |-> LastRow(rank, zh).count]
    BY <1>5, SameHistory DEF LoadHistory
  <2>3. Engineered'
    BY <1>5, <2>2 DEF GInv, LoadHistory, Engineered
  <2>4. PICK rank \in Orders :
            lookup' = [zh \in Universe \X Hours |-> LastRow(rank, zh).count]
    BY <1>5 DEF LoadHistory, LastRow
  <2>5. Loaded'
    BY <1>5, <2>2, <2>4 DEF Loaded
  <2> QED
    BY <1>2, <1>5, <2>1, <2>3, <2>5 DEF GInv, LoadHistory, Stages
<1>6. CASE UNCHANGED vars
  <2>1. /\ adapter' = adapter /\ trips' = trips /\ history' = history
        /\ stage' = stage /\ features' = features /\ lookup' = lookup
    BY <1>6 DEF vars
  <2>2. /\ Orders' = Orders /\ \A rank : Sorted(rank)' = Sorted(rank)
        /\ \A rank : [zh \in Universe \X Hours |-> LastRow(rank, zh).count]'
                        = [zh \in Universe \X Hours |-> LastRow(rank, zh).count]
    BY <2>1, SameHistory
  <2>3. Built'
    <3>1. (UNION {Densified(z, h) : z \in Universe, h \in Hours})'
             = UNION {Densified(z, h) : z \in Universe, h \in Hours}
      BY <2>1, SameTrips
    <3>2. Built
      BY DEF GInv
    <3>3. CASE stage = "collect"
      BY <2>1, <3>2, <3>3 DEF Built
    <3>4. CASE stage # "collect"
      BY <2>1, <3>1, <3>2, <3>4 DEF Built
    <3> QED
      BY <3>3, <3>4
  <2>4. Engineered' /\ Loaded'
    BY <2>1, <2>2 DEF GInv, Engineered, Loaded
  <2>5. TripsSound'
    BY <1>2, <2>1 DEF GInv, TripsSound
  <2> QED
    BY <2>3, <2>4, <2>5 DEF GInv
<1> QED
  BY <1>1, <1>3, <1>4, <1>5, <1>6 DEF Next

\* What the pipeline makes of the trips, in every reachable state.
THEOREM Invariance == Spec => []GInv
<1>1. Init => GInv
  BY InitGInv
<1>2. GInv /\ [Next]_vars => GInv'
  BY Inductive
<1> QED
  BY <1>1, <1>2, PTL DEF Spec

-----------------------------------------------------------------------------
(* What the trips make of each property.                                   *)

\* A row of features is the outcome of the sorted rows of its zone.
LEMMA FeatureRow ==
    ASSUME TripsSound, Built, stage # "collect", NEW rank \in Orders, NEW f \in Sorted(rank)
    PROVE  \E z \in Universe : \E i \in DOMAIN SortedRows(z, rank) :
              LET q == SortedRows(z, rank)
              IN  /\ Kept(q, i)
                  /\ f = [row |-> q[i],
                          is |-> Features([l \in Lags |-> Shifted(q, i, l)], RollingMean(q, i))]
                  /\ f.row = q[i] /\ q[i] \in RowsOf(z)
<1>1. PICK z \in Universe : f \in FeatureRows(SortedRows(z, rank))
  BY DEF Sorted
<1> DEFINE q == SortedRows(z, rank)
<1>2. PICK i \in DOMAIN q :
          /\ Kept(q, i)
          /\ f = [row |-> q[i],
                  is |-> Features([l \in Lags |-> Shifted(q, i, l)], RollingMean(q, i))]
  BY <1>1 DEF FeatureRows
<1>3. q[i] \in RowsOf(z)
  BY RowsSorted
<1>4. f.row = q[i]
  <2> HIDE DEF q
  <2> QED
    BY <1>2
<1> QED
  BY <1>2, <1>3, <1>4

\* The trips, the files and the table of the service have their types, and the
\* rows of the warm-up are not in the training data (prepare).
THEOREM TypeCorrect == Spec => []TypeOK
<1>1. ASSUME GInv
      PROVE  TypeOK
  <2>1. TripsSound /\ Built
    BY <1>1 DEF GInv
  <2>2. history \subseteq [zone : Zones, group : Groups \cup {{}}, hour : Hours,
                           count : 0 .. MaxTrips]
    <3>1. CASE stage = "collect"
      BY <2>1, <3>1 DEF Built
    <3>2. CASE stage # "collect"
      BY <2>1, <3>2, HistoryRows
    <3> QED
      BY <3>1, <3>2
  <2>3. ASSUME NEW f \in features
        PROVE  f.row \in history /\ f.row.hour >= TrainStart
    <3>1. stage \in {"engineered", "serving"}
      BY <1>1, <2>3 DEF GInv, Engineered
    <3>2. PICK rank \in Orders : features = Sorted(rank)
      BY <1>1, <3>1 DEF GInv, Engineered
    <3>3. stage # "collect" /\ f \in Sorted(rank)
      BY <3>1, <3>2
    <3>4. PICK z \in Universe : \E i \in DOMAIN SortedRows(z, rank) :
              /\ Kept(SortedRows(z, rank), i)
              /\ f.row = SortedRows(z, rank)[i] /\ SortedRows(z, rank)[i] \in RowsOf(z)
      BY <2>1, <3>3, FeatureRow
    <3>5. PICK i \in DOMAIN SortedRows(z, rank) :
              /\ Kept(SortedRows(z, rank), i)
              /\ f.row = SortedRows(z, rank)[i] /\ SortedRows(z, rank)[i] \in RowsOf(z)
      BY <3>4
    <3>6. f.row.hour >= TrainStart
      BY <3>5 DEF Kept
    <3> QED
      BY <3>5, <3>6 DEF RowsOf
  <2>4. ASSUME stage = "serving"
        PROVE  lookup \in [Universe \X Hours -> 0 .. MaxTrips]
    <3>1. PICK rank \in Orders :
              lookup = [zh \in Universe \X Hours |-> LastRow(rank, zh).count]
      BY <1>1, <2>4 DEF GInv, Loaded
    <3>2. ASSUME NEW z \in Universe, NEW h \in Hours
          PROVE  LastRow(rank, <<z, h>>).count \in 0 .. MaxTrips
      <4>1. LastRow(rank, <<z, h>>) \in RowsAt(z, h)
        BY <2>1, <2>4, LastExists
      <4>2. LastRow(rank, <<z, h>>) \in history
        BY <4>1 DEF RowsAt
      <4> QED
        BY <2>2, <4>2
    <3> QED
      BY <3>1, <3>2
  <2> QED
    BY <2>1, <2>2, <2>3, <2>4 DEF TypeOK, TripsSound
<1> QED
  BY <1>1, Invariance, PTL

\* Whatever trips there are, and under whatever names a station has them, the
\* counts of a zone and hour add up to them (prepare_hourly_history of the three
\* adapters).
THEOREM TripsAlwaysCounted == Spec => []TripsCounted
<1>1. ASSUME GInv, stage # "collect", NEW z \in Universe, NEW h \in Hours
      PROVE  Total(RowsAt(z, h)) = TripsAt(z, h)
  <2>1. TripsSound /\ Built /\ z \in Zones
    BY <1>1, ZonesAndGroups DEF GInv
  <2>2. RowsAt(z, h) = Densified(z, h)
    BY <1>1, <2>1, HistoryRows
  <2> QED
    BY <2>1, <2>2, RowsTotal
<1>2. GInv => TripsCounted
  BY <1>1 DEF TripsCounted
<1> QED
  BY <1>2, Invariance, PTL

\* A zone with one row an hour: the rows its features shift to are the hours.
LEMMA PastRows ==
    ASSUME TripsSound, Built, stage # "collect", NEW z \in Universe, OneRowAnHour(z),
           NEW rank \in Orders, NEW h \in TrainStart .. LastHour
    PROVE  LET q == SortedRows(z, rank)
           IN  /\ h + 1 \in DOMAIN q /\ Kept(q, h + 1)
               /\ q[h + 1].zone = z /\ q[h + 1].hour = h
               /\ Features([l \in Lags |-> Shifted(q, h + 1, l)], RollingMean(q, h + 1))
                     = PastOf(z, h)
<1> DEFINE q == SortedRows(z, rank)
<1>1. ASSUME NEW g \in Hours
      PROVE  q[g + 1].zone = z /\ q[g + 1].hour = g /\ q[g + 1].count = TripsAt(z, g)
  <2>1. RowsAt(z, g) = {q[g + 1]}
    BY HourPlace
  <2>2. PICK r \in history : /\ RowsAt(z, g) = {r}
                             /\ r.zone = z /\ r.hour = g /\ r.count = TripsAt(z, g)
    BY OneRow
  <2> QED
    BY <2>1, <2>2
<1>2. h \in Hours /\ h \in Nat /\ h >= TrainStart /\ h <= LastHour
  BY Bounds
<1>3. DOMAIN q = 1 .. LastHour + 1
  BY <1>2, HourPlace
<1> HIDE DEF q
<1>4. ASSUME NEW k \in Nat \ {0}, k <= TrainStart
      PROVE  h - k \in Hours /\ Shifted(q, h + 1, k) = TripsAt(z, h - k) /\ k < h + 1
  <2>1. h - k \in Hours /\ k < h + 1
    BY <1>2, <1>4, Bounds
  <2>2. PICK g \in Hours : g = h - k
    BY <2>1
  <2>3. h + 1 - k = g + 1
    BY <1>2, <2>2, Bounds
  <2> QED
    BY <1>1, <2>1, <2>2, <2>3 DEF Shifted
<1>5. \A l \in Lags : l \in Nat \ {0} /\ l <= TrainStart
  BY Bounds
<1>6. \A k \in 1 .. RollWindow : k \in Nat \ {0} /\ k <= TrainStart
  BY Bounds
<1>7. Kept(q, h + 1)
  <2>1. \A reach \in Lags \cup {RollWindow} : reach < h + 1
    BY <1>2, Bounds
  <2>2. q[h + 1].hour >= TrainStart
    BY <1>1, <1>2
  <2> QED
    BY <2>1, <2>2 DEF Kept
<1>8. [l \in Lags |-> Shifted(q, h + 1, l)] = [l \in Lags |-> TripsAt(z, h - l)]
  BY <1>4, <1>5
<1>9. RollingMean(q, h + 1) = [k \in 1 .. RollWindow |-> TripsAt(z, h - k)]
  BY <1>4, <1>6 DEF RollingMean
<1>10. h + 1 \in DOMAIN q
  BY <1>2, <1>3, Bounds
<1> QED
  BY <1>1, <1>2, <1>7, <1>8, <1>9, <1>10 DEF PastOf, q

\* Such a zone has one row of features for every supported hour, of its past.
LEMMA OneFeature ==
    ASSUME GInv, stage \in {"engineered", "serving"}, NEW z \in Universe, OneRowAnHour(z),
           NEW h \in TrainStart .. LastHour
    PROVE  \E f : RowsOfHour(z, h) = {f} /\ f.is = PastOf(z, h) /\ f.row.hour = h
<1>1. TripsSound /\ Built /\ stage # "collect"
  BY DEF GInv
<1>2. PICK rank \in Orders : features = Sorted(rank)
  BY DEF GInv, Engineered
<1> DEFINE q == SortedRows(z, rank)
           f == [row |-> q[h + 1],
                 is |-> Features([l \in Lags |-> Shifted(q, h + 1, l)], RollingMean(q, h + 1))]
<1>3. /\ h + 1 \in DOMAIN q /\ Kept(q, h + 1)
      /\ q[h + 1].zone = z /\ q[h + 1].hour = h
      /\ Features([l \in Lags |-> Shifted(q, h + 1, l)], RollingMean(q, h + 1)) = PastOf(z, h)
  BY <1>1, PastRows
<1>4. f \in RowsOfHour(z, h)
  <2>1. f \in FeatureRows(q)
    BY <1>3 DEF FeatureRows
  <2>2. f \in features
    BY <1>2, <2>1 DEF Sorted
  <2>3. f.row = q[h + 1]
    OBVIOUS
  <2> QED
    BY <1>3, <2>2, <2>3 DEF RowsOfHour
<1>5. ASSUME NEW e \in RowsOfHour(z, h)
      PROVE  e = f
  <2>1. e \in Sorted(rank) /\ e.row.zone = z /\ e.row.hour = h
    BY <1>2 DEF RowsOfHour
  <2>2. PICK y \in Universe : \E i \in DOMAIN SortedRows(y, rank) :
            /\ e = [row |-> SortedRows(y, rank)[i],
                    is |-> Features([l \in Lags |-> Shifted(SortedRows(y, rank), i, l)],
                                    RollingMean(SortedRows(y, rank), i))]
            /\ e.row = SortedRows(y, rank)[i] /\ SortedRows(y, rank)[i] \in RowsOf(y)
    BY <1>1, <2>1, FeatureRow
  <2>3. PICK i \in DOMAIN SortedRows(y, rank) :
            /\ e = [row |-> SortedRows(y, rank)[i],
                    is |-> Features([l \in Lags |-> Shifted(SortedRows(y, rank), i, l)],
                                    RollingMean(SortedRows(y, rank), i))]
            /\ e.row = SortedRows(y, rank)[i] /\ SortedRows(y, rank)[i] \in RowsOf(y)
    BY <2>2
  <2>4. y = z
    BY <2>1, <2>3 DEF RowsOf
  <2>5. h \in Hours
    BY Bounds
  <2>6. DOMAIN q = 1 .. LastHour + 1
    BY <1>1, <2>5, HourPlace
  <2>7. PICK g \in Hours : i = g + 1
    <3>1. i \in 1 .. LastHour + 1
      BY <2>3, <2>4, <2>6
    <3>2. i - 1 \in Hours /\ i = (i - 1) + 1
      BY <3>1, Bounds
    <3> QED
      BY <3>2
  <2>8. RowsAt(z, g) = {q[g + 1]}
    BY <1>1, HourPlace
  <2>9. q[g + 1].hour = g
    BY <2>8 DEF RowsAt
  <2>10. i = h + 1
    BY <2>1, <2>3, <2>4, <2>7, <2>9
  <2> QED
    BY <2>3, <2>4, <2>10
<1>6. f.is = PastOf(z, h) /\ f.row.hour = h
  BY <1>3
<1> QED
  BY <1>4, <1>5, <1>6

\* Shifting by rows never leaves the zone nor reaches the hour's own row or a
\* later one, and goes no further back than the lag; as long as the zone has one
\* row an hour it is shifting by hours, for any lags and window that the warm-up
\* covers (engineer_features).
THEOREM FeaturesAlwaysFromThePast == Spec => []FeaturesFromThePast
<1>1. ASSUME GInv, stage \in {"engineered", "serving"}, NEW f \in features
      PROVE  /\ \A l \in Lags : RecentCount(f.row, l, f.is.lags[l])
             /\ \A k \in 1 .. RollWindow : RecentCount(f.row, k, f.is.mean[k])
  <2>1. TripsSound /\ Built /\ stage # "collect"
    BY <1>1 DEF GInv
  <2>2. PICK rank \in Orders : features = Sorted(rank)
    BY <1>1 DEF GInv, Engineered
  <2>9. PICK z \in Universe : \E i \in DOMAIN SortedRows(z, rank) :
            LET q == SortedRows(z, rank)
            IN  /\ Kept(q, i)
                /\ f = [row |-> q[i],
                        is |-> Features([l \in Lags |-> Shifted(q, i, l)], RollingMean(q, i))]
                /\ f.row = q[i] /\ q[i] \in RowsOf(z)
    BY <2>1, <2>2, FeatureRow
  <2> DEFINE q == SortedRows(z, rank)
  <2>3. PICK i \in DOMAIN q :
            /\ Kept(q, i)
            /\ f = [row |-> q[i],
                    is |-> Features([l \in Lags |-> Shifted(q, i, l)], RollingMean(q, i))]
            /\ f.row = q[i] /\ q[i] \in RowsOf(z)
    BY <2>9
  <2>4. i \in Int
    BY <2>1, RowsSorted
  <2>5. \A k \in Nat \ {0} : k < i => RecentCount(q[i], k, Shifted(q, i, k))
    BY <2>1, RowsBack
  <2>6. /\ \A l \in Lags : l \in Nat \ {0} /\ l < i
        /\ \A k \in 1 .. RollWindow : k \in Nat \ {0} /\ k < i
    BY <2>3, <2>4, Bounds DEF Kept
  <2> HIDE DEF q
  <2>7. /\ f.row = q[i]
        /\ f.is = Features([l \in Lags |-> Shifted(q, i, l)], RollingMean(q, i))
    BY <2>3 DEF q
  <2>8. /\ \A l \in Lags : f.is.lags[l] = Shifted(q, i, l)
        /\ \A k \in 1 .. RollWindow : f.is.mean[k] = Shifted(q, i, k)
    BY <2>7 DEF Features, RollingMean
  <2> QED
    BY <2>5, <2>6, <2>7, <2>8
<1>2. ASSUME GInv, stage \in {"engineered", "serving"}, NEW zh \in Supported,
             OneRowAnHour(zh[1]), NEW f \in RowsOfHour(zh[1], zh[2])
      PROVE  f.is = PastOf(zh[1], zh[2])
  <2>1. PICK z \in Universe, h \in TrainStart .. LastHour : z = zh[1] /\ h = zh[2]
    BY DEF Supported
  <2>2. OneRowAnHour(z) /\ f \in RowsOfHour(z, h)
    BY <1>2, <2>1
  <2>3. PICK e : RowsOfHour(z, h) = {e} /\ e.is = PastOf(z, h)
    BY <1>2, <2>2, OneFeature
  <2> QED
    BY <2>1, <2>2, <2>3
<1>3. GInv => FeaturesFromThePast
  BY <1>1, <1>2 DEF FeaturesFromThePast
<1> QED
  BY <1>3, Invariance, PTL

\* A set of three that an element is in one of: the one that has it.
LEMMA OneOfThree ==
    ASSUME NEW f, NEW A, NEW B, NEW C,
           \/ f \in A /\ f \notin B /\ f \notin C
           \/ f \notin A /\ f \in B /\ f \notin C
           \/ f \notin A /\ f \notin B /\ f \in C
    PROVE  Cardinality({s \in {A, B, C} : {f} \subseteq s}) = 1
<1>1. PICK D \in {A, B, C} : \A s \in {A, B, C} : f \in s <=> s = D
  OBVIOUS
<1>2. {s \in {A, B, C} : {f} \subseteq s} = {D}
  BY <1>1
<1> QED
  BY <1>2, FS_Singleton

\* For every zone with one row an hour and every supported hour, the service
\* answers with the features that training has for it, and that row of training
\* data is in one split, for all lags and windows and in whatever order the rows
\* of other zones are read (FeatureService.get_features, temporal_split).
THEOREM ServedAlwaysAsTrained == Spec => []ServedAsTrained
<1>1. ASSUME GInv, stage = "serving", NEW z \in Universe, NEW h \in TrainStart .. LastHour,
             OneRowAnHour(z)
      PROVE  GetFeatures(z, h) = PastOf(z, h)
  <2>1. TripsSound /\ Built /\ stage # "collect"
    BY <1>1 DEF GInv
  <2>2. PICK rank \in Orders :
            lookup = [zh \in Universe \X Hours |-> LastRow(rank, zh).count]
    BY <1>1 DEF GInv, Loaded
  <2>3. ASSUME NEW g \in Hours
        PROVE  Looked(z, g) # {} /\ CountOr0(z, g) = TripsAt(z, g)
    <3>1. LastRow(rank, <<z, g>>) \in RowsAt(z, g)
      BY <2>1, LastExists
    <3>2. PICK r \in history : RowsAt(z, g) = {r} /\ r.count = TripsAt(z, g)
      BY <1>1, <2>1, OneRow
    <3>3. LastRow(rank, <<z, g>>).count = TripsAt(z, g)
      BY <3>1, <3>2
    <3>4. <<z, g>> \in Universe \X Hours /\ DOMAIN lookup = Universe \X Hours
      BY <2>2
    <3>5. lookup[<<z, g>>] = TripsAt(z, g)
      BY <2>2, <3>3, <3>4
    <3>6. Looked(z, g) # {}
      BY <3>4 DEF Looked
    <3> QED
      BY <3>5, <3>6 DEF CountOr0
  <2>4. \A k \in Nat \ {0} : k <= TrainStart => h - k \in Hours
    BY Bounds
  <2>5. \A l \in Lags : h - l \in Hours
    BY <2>4, Bounds
  <2>6. \A k \in Offsets : h - k \in Hours
    BY <2>4, Bounds DEF Offsets
  <2>7. {k \in Offsets : Looked(z, h - k) # {}} = 1 .. RollWindow
    BY <2>3, <2>6 DEF Offsets
  <2>8. [l \in Lags |-> CountOr0(z, h - l)] = [l \in Lags |-> TripsAt(z, h - l)]
    BY <2>3, <2>5
  <2>9. [k \in 1 .. RollWindow |-> CountOr0(z, h - k)]
           = [k \in 1 .. RollWindow |-> TripsAt(z, h - k)]
    BY <2>3, <2>6 DEF Offsets
  <2> QED
    BY <2>7, <2>8, <2>9 DEF GetFeatures, PastOf
<1>2. ASSUME NEW f \in features, f.row.hour \in TrainStart .. LastHour
      PROVE  Cardinality({s \in Splits(features) : {f} \subseteq s}) = 1
  <2> DEFINE A == Between(features, TrainStart, TrainEnd)
             B == Between(features, TrainEnd, ValEnd)
             C == Between(features, ValEnd, TestEnd)
  <2>1. PICK h \in Int : h = f.row.hour /\ h >= TrainStart /\ h < TestEnd
    BY <1>2, Bounds
  <2>2. /\ f \in A <=> h >= TrainStart /\ h < TrainEnd
        /\ f \in B <=> h >= TrainEnd /\ h < ValEnd
        /\ f \in C <=> h >= ValEnd /\ h < TestEnd
    BY <2>1 DEF Between
  <2> HIDE DEF A, B, C
  <2>3. \/ f \in A /\ f \notin B /\ f \notin C
        \/ f \notin A /\ f \in B /\ f \notin C
        \/ f \notin A /\ f \notin B /\ f \in C
    BY <2>1, <2>2, Bounds
  <2>4. Cardinality({s \in {A, B, C} : {f} \subseteq s}) = 1
    BY <2>3, OneOfThree
  <2> QED
    BY <2>4 DEF Splits, A, B, C
<1>3. ASSUME GInv, stage = "serving", NEW zh \in Supported, OneRowAnHour(zh[1])
      PROVE  /\ {f.is : f \in RowsOfHour(zh[1], zh[2])} = {GetFeatures(zh[1], zh[2])}
             /\ Cardinality({s \in Splits(features) : RowsOfHour(zh[1], zh[2]) \subseteq s}) = 1
  <2>1. PICK z \in Universe, h \in TrainStart .. LastHour : z = zh[1] /\ h = zh[2]
    BY DEF Supported
  <2>2. PICK f : RowsOfHour(z, h) = {f} /\ f.is = PastOf(z, h) /\ f.row.hour = h
    BY <1>3, <2>1, OneFeature
  <2>3. f \in features
    BY <2>2 DEF RowsOfHour
  <2>4. GetFeatures(z, h) = PastOf(z, h)
    BY <1>1, <1>3, <2>1
  <2>5. Cardinality({s \in Splits(features) : {f} \subseteq s}) = 1
    BY <1>2, <2>2, <2>3
  <2> QED
    BY <2>1, <2>2, <2>4, <2>5
<1>4. GInv => ServedAsTrained
  BY <1>3 DEF ServedAsTrained
<1> QED
  BY <1>4, Invariance, PTL

\* The taxi grid has one row for every zone and hour, of all its trips then.
LEMMA TaxiRow ==
    ASSUME TripsSound, adapter = "taxi", NEW z \in Zones, NEW h \in Hours
    PROVE  \E r : /\ Densified(z, h) = {r}
                  /\ r.zone = z /\ r.hour = h /\ r.count = TripsAt(z, h)
<1> DEFINE n == TripsIn({z} \X Names \X {h})
<1>1. n = TripsAt(z, h)
  BY DEF TripsAt
<1>2. \A r : r \in Counted(z, h) <=> n # 0 /\ r = Row(z, Names, h, n)
  <2>1. \A r : r \in Counted(z, h) <=>
                  \E g \in Groups : /\ TripsIn({z} \X g \X {h}) # 0
                                  /\ r = Row(z, g, h, TripsIn({z} \X g \X {h}))
    BY DenseRows
  <2>2. Groups = {Names}
    BY ZonesAndGroups
  <2> QED
    BY <2>1, <2>2
<1>3. \A g, k : Row(z, g, h, k).zone = z /\ Row(z, g, h, k).hour = h /\ Row(z, g, h, k).count = k
  BY DEF Row
<1> HIDE DEF n
<1>4. CASE n = 0
  <2>1. Counted(z, h) = {}
    BY <1>2, <1>4
  <2>2. Densified(z, h) = {Row(z, {}, h, 0)}
    BY <2>1 DEF Densified
  <2>3. Row(z, {}, h, 0).count = TripsAt(z, h)
    BY <1>1, <1>3, <1>4
  <2> QED
    BY <1>3, <2>2, <2>3
<1>5. CASE n # 0
  <2>1. Counted(z, h) = {Row(z, Names, h, n)}
    BY <1>2, <1>5
  <2>2. Densified(z, h) = {Row(z, Names, h, n)}
    BY <2>1 DEF Densified
  <2>3. Row(z, Names, h, n).count = TripsAt(z, h)
    BY <1>1, <1>3
  <2> QED
    BY <1>3, <2>2, <2>3
<1> QED
  BY <1>4, <1>5

\* The rows of int_zone_hour_agg.
LEMMA AggRows ==
    \A a : a \in Agg <=> \E z \in Zones, h \in Hours :
                           /\ TripsAt(z, h) > 0
                           /\ a = [zone |-> z, hour |-> h, count |-> TripsAt(z, h)]
<1> DEFINE row(zh) == [zone |-> zh[1], hour |-> zh[2], count |-> TripsAt(zh[1], zh[2])]
<1>1. Agg = {row(zh) : zh \in {c \in Zones \X Hours : TripsAt(c[1], c[2]) > 0}}
  BY DEF Agg, TripsAt
<1>2. \A zh \in Zones \X Hours : \E z \in Zones, h \in Hours : zh = <<z, h>>
  OBVIOUS
<1>3. \A z \in Zones, h \in Hours :
          /\ <<z, h>> \in Zones \X Hours /\ <<z, h>>[1] = z /\ <<z, h>>[2] = h
          /\ row(<<z, h>>) = [zone |-> z, hour |-> h, count |-> TripsAt(z, h)]
  OBVIOUS
<1> HIDE DEF row
<1>4. ASSUME NEW a \in Agg
      PROVE  \E z \in Zones, h \in Hours :
                 /\ TripsAt(z, h) > 0
                 /\ a = [zone |-> z, hour |-> h, count |-> TripsAt(z, h)]
  <2>1. PICK zh \in Zones \X Hours : TripsAt(zh[1], zh[2]) > 0 /\ a = row(zh)
    BY <1>1
  <2>2. PICK z \in Zones, h \in Hours : zh = <<z, h>>
    BY <1>2
  <2> QED
    BY <1>3, <2>1, <2>2
<1>5. ASSUME NEW z \in Zones, NEW h \in Hours, TripsAt(z, h) > 0
      PROVE  [zone |-> z, hour |-> h, count |-> TripsAt(z, h)] \in Agg
  <2>1. PICK zh \in Zones \X Hours : zh = <<z, h>>
    BY <1>3
  <2>2. row(zh) \in Agg
    BY <1>1, <1>3, <1>5, <2>1
  <2> QED
    BY <1>3, <2>1, <2>2
<1> QED
  BY <1>4, <1>5

\* The counts that the dbt project has for a zone and hour.
LEMMA DbtCount ==
    ASSUME TripsSound, NEW z \in Zones, NEW h \in Hours
    PROVE  Coalesced(z, h) = TripsAt(z, h)
<1> DEFINE n == TripsAt(z, h)
           at == {b \in Agg : b.zone = z /\ b.hour = h}
           counts == {a.count : a \in at}
<1>1. n \in 0 .. MaxTrips
  <2>1. {z} \X Names \X {h} \in SUBSET Cells
    BY CellsAt
  <2> QED
    BY <2>1, SomeTrips DEF TripsAt
<1>2. \A a : a \in Agg <=> \E y \in Zones, g \in Hours :
                             /\ TripsAt(y, g) > 0
                             /\ a = [zone |-> y, hour |-> g, count |-> TripsAt(y, g)]
  BY AggRows
<1>3. n > 0 => counts = {n}
  <2> SUFFICES ASSUME n > 0
               PROVE  counts = {n}
    OBVIOUS
  <2> DEFINE row == [zone |-> z, hour |-> h, count |-> n]
  <2>1. row \in at
    BY <1>2
  <2>2. \A a \in at : a = row
    BY <1>2
  <2>3. at = {row}
    BY <2>1, <2>2
  <2> HIDE DEF at
  <2> QED
    BY <2>3
<1>4. n = 0 => counts = {}
  BY <1>2
<1> HIDE DEF n, at, counts
<1>5. Coalesced(z, h) = Max({0} \cup counts)
  BY DEF Coalesced, counts, at
<1>6. \E m \in {0} \cup counts : \A y \in {0} \cup counts : m >= y
  BY <1>1, <1>3, <1>4, Bounds
<1>7. /\ Max({0} \cup counts) \in {0} \cup counts
      /\ \A y \in {0} \cup counts : Max({0} \cup counts) >= y
  BY <1>6 DEF Max
<1>8. Max({0} \cup counts) = n
  <2>1. CASE n = 0
    BY <1>4, <1>7, <2>1
  <2>2. CASE n > 0
    <3>1. Max({0} \cup counts) \in {0, n} /\ Max({0} \cup counts) >= n
      BY <1>3, <1>7, <2>2
    <3> QED
      BY <1>1, <2>2, <3>1, Bounds
  <2> QED
    BY <1>1, <2>1, <2>2, Bounds
<1> QED
  BY <1>5, <1>8 DEF n

\* The mart of the dbt project is the grid that prepare builds for taxi. The one
\* takes its zones from the hours, the other from all trips: the filter of the
\* months is what makes them the same (TaxiAdapter.prepare_hourly_history).
THEOREM MartAlwaysIsGrid == Spec => []MartIsGrid
<1>1. ASSUME GInv, adapter = "taxi", stage # "collect"
      PROVE  Mart = {[zone |-> r.zone, hour |-> r.hour, count |-> r.count] : r \in history}
  <2> DEFINE cell(z, h) == [zone |-> z, hour |-> h, count |-> TripsAt(z, h)]
  <2>1. TripsSound /\ Built
    BY <1>1 DEF GInv
  <2>2. {a.zone : a \in Agg} = Universe
    <3>1. ASSUME NEW z \in Zones, NEW h \in Hours, TripsAt(z, h) > 0
          PROVE  z \in Universe
      <4>1. {z} \X Names \X {h} \in SUBSET Cells
        BY CellsAt
      <4>2. PICK c \in {z} \X Names \X {h} : trips[c] # 0
        BY <2>1, <3>1, <4>1, SomeTrips DEF TripsAt
      <4>3. c \in Cells /\ c[1] = z
        BY <4>1, <4>2
      <4>4. trips[c] > 0
        BY <2>1, <4>2, <4>3, Bounds DEF TripsSound
      <4> QED
        BY <4>3, <4>4 DEF Universe
    <3>2. ASSUME NEW z \in Universe
          PROVE  \E h \in Hours : TripsAt(z, h) > 0
      <4>1. PICK c \in Cells : trips[c] > 0 /\ c[1] = z
        BY DEF Universe
      <4>2. trips[c] # 0
        BY <4>1
      <4>3. c[3] # Outside
        BY <1>1, <2>1, <4>2 DEF TripsSound
      <4>4. c[3] \in Hours /\ z \in Zones /\ c = <<z, c[2], c[3]>> /\ c[2] \in Names
        BY <4>1, <4>3 DEF Cells
      <4>5. PICK h \in Hours : h = c[3]
        BY <4>4
      <4>6. {z} \X Names \X {h} \in SUBSET Cells /\ c \in {z} \X Names \X {h}
        BY <4>4, <4>5, CellsAt
      <4>7. TripsAt(z, h) # 0 /\ TripsAt(z, h) \in 0 .. MaxTrips
        BY <2>1, <4>2, <4>6, SomeTrips DEF TripsAt
      <4> QED
        BY <4>7, Bounds
    <3>3. \A a : a \in Agg <=> \E z \in Zones, h \in Hours :
                                 /\ TripsAt(z, h) > 0
                                 /\ a = [zone |-> z, hour |-> h, count |-> TripsAt(z, h)]
      BY AggRows
    <3>4. ASSUME NEW a \in Agg
          PROVE  a.zone \in Universe
      <4>1. PICK z \in Zones, h \in Hours :
                TripsAt(z, h) > 0 /\ a = [zone |-> z, hour |-> h, count |-> TripsAt(z, h)]
        BY <3>3
      <4> QED
        BY <3>1, <4>1
    <3>5. ASSUME NEW z \in Universe
          PROVE  \E a \in Agg : a.zone = z
      <4>1. PICK h \in Hours : TripsAt(z, h) > 0
        BY <3>2
      <4>2. z \in Zones
        BY ZonesAndGroups
      <4>3. cell(z, h) \in Agg
        BY <3>3, <4>1, <4>2
      <4> QED
        BY <4>3
    <3> QED
      BY <3>4, <3>5
  <2>3. ASSUME NEW z \in Universe, NEW h \in Hours
        PROVE  /\ Coalesced(z, h) = TripsAt(z, h)
               /\ {[zone |-> r.zone, hour |-> r.hour, count |-> r.count] : r \in Densified(z, h)}
                     = {cell(z, h)}
    <3>1. z \in Zones
      BY ZonesAndGroups
    <3>2. PICK r : /\ Densified(z, h) = {r}
                   /\ r.zone = z /\ r.hour = h /\ r.count = TripsAt(z, h)
      BY <1>1, <2>1, <3>1, TaxiRow
    <3> QED
      BY <2>1, <3>1, <3>2, DbtCount
  <2>4. Mart = {cell(z, h) : z \in Universe, h \in Hours}
    BY <2>2, <2>3, Bounds DEF Mart, HourSpine
  <2>5. \A r : r \in history <=> \E z \in Universe, h \in Hours : r \in Densified(z, h)
    BY <1>1, <2>1 DEF Built
  <2>6. {[zone |-> r.zone, hour |-> r.hour, count |-> r.count] : r \in history}
           = {cell(z, h) : z \in Universe, h \in Hours}
    <3> DEFINE part(r) == [zone |-> r.zone, hour |-> r.hour, count |-> r.count]
    <3>1. ASSUME NEW r \in history
          PROVE  \E z \in Universe, h \in Hours : part(r) = cell(z, h)
      <4>1. PICK z \in Universe, h \in Hours : r \in Densified(z, h)
        BY <2>5
      <4> QED
        BY <2>3, <4>1
    <3>2. ASSUME NEW z \in Universe, NEW h \in Hours
          PROVE  \E r \in history : part(r) = cell(z, h)
      <4>1. PICK r \in Densified(z, h) :
                [zone |-> r.zone, hour |-> r.hour, count |-> r.count] = cell(z, h)
        BY <2>3
      <4> QED
        BY <2>5, <4>1
    <3> HIDE DEF cell, part
    <3>3. {part(r) : r \in history} = {cell(z, h) : z \in Universe, h \in Hours}
      BY <3>1, <3>2
    <3> QED
      BY <3>3 DEF part
  <2> QED
    BY <2>4, <2>6
<1>2. GInv => MartIsGrid
  BY <1>1 DEF MartIsGrid
<1> QED
  BY <1>2, Invariance, PTL
====
