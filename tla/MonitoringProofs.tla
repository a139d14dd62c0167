---- MODULE MonitoringProofs ----
(***************************************************************************)
(* Proofs about Monitoring, for every set of hours, errors, windows and     *)
(* batch sizes and every bound.                                             *)
(*                                                                          *)
(* The log, the counters and the drift buffer are written in different      *)
(* orders, so the invariant says of each what it is of the predictions made *)
(* so far: the buffer is the run of the last of them (Sampling), the log    *)
(* has some of them (Types), the counters differ from both by the requests  *)
(* that failed (Counting).                                                  *)
(* Matching says that a matched number is in the log on both sides of the   *)
(* open transaction, which is what a restart leaves and a report reads.     *)
(***************************************************************************)
EXTENDS Monitoring, FiniteSetTheorems, SequenceTheorems, WellFoundedInduction, TLAPS

LogRow ==
    [hour : {LoggedText(hour) : hour \in Hours}, actual : Errors \cup {NoActual},
     day : 0 .. MaxDay, record : Nat]

Memory ==
    [since : Nat, detector : Detectors, buffer : Seq(Nat), drift : Seq(Nat),
     mae : [pairs : SUBSET Nat, over : BOOLEAN], alert : BOOLEAN,
     ok : Nat, errors : Nat, predictions : Nat, failed : [Places -> Nat]]

Types ==
    /\ log \in Seq(LogRow) /\ saved \in Seq(LogRow)
    /\ Len(log) = Len(saved)
    /\ \A i \in 1 .. Len(log) : log[i] = [saved[i] EXCEPT !.actual = log[i].actual]
    /\ mem \in Memory /\ mem.since <= records
    /\ today \in 0 .. MaxDay
    /\ records \in Nat /\ failures \in Nat /\ replies \in Nat
    /\ matched \subseteq 1 .. Len(log)
    /\ \A i \in 1 .. Len(log) : log[i].record <= records

\* The last predictions after the first `since` of `made`, BufMax of them at most.
Latest(since, made) ==
    LET size == IF made - since <= BufMax THEN made - since ELSE BufMax
    IN  [j \in 1 .. size |-> made - size + j]

Sampling ==
    mem.buffer = IF mem.detector = "none" THEN <<>> ELSE Latest(mem.since, records)

Here(rows, since) == {i \in 1 .. Len(rows) : rows[i].record > since}

Counting ==
    LET f == mem.failed
    IN  /\ mem.predictions = Cardinality(Here(log, mem.since)) + f["insert"] + f["batch"]
        /\ mem.ok = replies + f["insert"] + f["usage"]
        /\ mem.errors = f["compute"] + f["insert"] + f["batch"] + f["usage"]

Matching ==
    \A i \in matched : log[i].actual # NoActual /\ saved[i].actual # NoActual

IInv == Types /\ Sampling /\ Counting /\ DriftOfRecentRun /\ AlertHasReason /\ Matching

-----------------------------------------------------------------------------
(* The operators of the model.                                             *)

\* What the library's Max and Min choose of two numbers.
LEMMA OfTwo ==
    ASSUME NEW a \in Int, NEW b \in Int
    PROVE  /\ Max({a, b}) = IF a >= b THEN a ELSE b
           /\ Min({a, b}) = IF a <= b THEN a ELSE b
<1>1. Max({a, b}) = IF a >= b THEN a ELSE b
  <2> DEFINE m == IF a >= b THEN a ELSE b
  <2>1. m \in {a, b} /\ \A y \in {a, b} : m >= y
    OBVIOUS
  <2>2. \A x \in {a, b} : (\A y \in {a, b} : x >= y) => x = m
    OBVIOUS
  <2> QED
    BY <2>1, <2>2 DEF Max
<1>2. Min({a, b}) = IF a <= b THEN a ELSE b
  <2> DEFINE m == IF a <= b THEN a ELSE b
  <2>1. m \in {a, b} /\ \A y \in {a, b} : m <= y
    OBVIOUS
  <2>2. \A x \in {a, b} : (\A y \in {a, b} : x <= y) => x = m
    OBVIOUS
  <2> QED
    BY <2>1, <2>2 DEF Min
<1> QED
  BY <1>1, <1>2

\* The constants that the sizes are made of.
LEMMA Sizes ==
    /\ BufMax \in Nat \ {0} /\ MinSamples \in 1 .. BufMax /\ MaxDay \in Nat
    /\ Errors \subseteq Nat /\ NaN = -1 /\ NoActual = -2
    /\ NaN \notin Errors /\ NoActual \notin Errors
BY MonitoringAssumption DEF NaN, NoActual

\* Only an item by id finds a row: a zone and hour is bound as another text
\* than the log has.
LEMMA TargetById ==
    ASSUME NEW rows \in Seq(LogRow), NEW item \in Items
    PROVE  Target(rows, item) =
               IF item.by = "id" /\ item.id <= Len(rows) THEN item.id ELSE 0
<1>1. CASE item.by = "id"
  BY <1>1 DEF Target
<1>2. CASE item.by # "id"
  <2>1. \A i \in DOMAIN rows : rows[i].hour # BoundText(item.hour)
    <3> SUFFICES ASSUME NEW i \in DOMAIN rows
                 PROVE  rows[i].hour # BoundText(item.hour)
      OBVIOUS
    <3>0. rows[i] \in LogRow
      OBVIOUS
    <3>1. PICK hour \in Hours : rows[i].hour = LoggedText(hour)
      BY <3>0 DEF LogRow
    <3>2. LoggedText(hour)[2] = "T" /\ BoundText(item.hour)[2] = " "
      BY DEF LoggedText, BoundText
    <3> QED
      BY <3>1, <3>2
  <2>2. {0} \cup {i \in DOMAIN rows : rows[i].hour = BoundText(item.hour)} = {0, 0}
    BY <2>1
  <2>3. Max({0, 0}) = 0
    BY OfTwo
  <2> QED
    BY <1>2, <2>2, <2>3 DEF Target
<1> QED
  BY <1>1, <1>2

\* Some number is the greatest of those up to n that a set has.
LEMMA Greatest ==
    ASSUME NEW n \in Nat, NEW S \in SUBSET (1 .. n), S # {}
    PROVE  \E k \in S : \A j \in S : j <= k
<1> DEFINE Less == OpToRel(<, Nat)
           T == {n - x : x \in S}
<1>1. IsWellFoundedOn(Less, Nat)
  BY NatLessThanWellFounded
<1>2. T \subseteq Nat /\ T # {}
  <2>1. \A x \in S : x \in 1 .. n /\ n - x \in Nat
    OBVIOUS
  <2> QED
    BY <2>1
<1> HIDE DEF Less
<1>3. PICK t \in T : \A u \in T : ~ (<<u, t>> \in Less)
  <2> HIDE DEF T
  <2> QED
    BY <1>1, <1>2, WFMin
<1>4. \A u \in T : ~(u < t)
  BY <1>2, <1>3 DEF Less, OpToRel
<1>5. PICK k \in S : t = n - k
  BY <1>3
<1>6. ASSUME NEW j \in S
      PROVE  j <= k
  <2>1. ~(n - j < n - k)
    BY <1>4, <1>5
  <2> QED
    BY <2>1
<1> QED
  BY <1>5, <1>6

\* The last item for a row is one of them, and none after it is.
LEMMA LastItem ==
    ASSUME NEW rows, NEW items \in Submissions, NEW i, ItemsFor(rows, items, i) # {}
    PROVE  \E k \in ItemsFor(rows, items, i) :
              /\ \A j \in ItemsFor(rows, items, i) : j <= k
              /\ LastFor(rows, items, i) = items[k].value
              /\ items[k] \in Items
<1> DEFINE for == ItemsFor(rows, items, i)
<1>1. PICK n \in 1 .. MaxItems : items \in [1 .. n -> Items]
  BY DEF Submissions
<1>2. n \in Nat /\ for \in SUBSET (1 .. n)
  BY <1>1 DEF ItemsFor
<1>3. for \in SUBSET Int /\ for # {}
  BY <1>2
<1>4. PICK k \in for : \A j \in for : j <= k
  BY <1>2, <1>3, Greatest
<1> HIDE DEF for
<1>5. Max(for) = k
  <2>1. \A x \in for : (\A y \in for : x >= y) => x = k
    BY <1>3, <1>4
  <2>2. \A y \in for : k >= y
    BY <1>3, <1>4
  <2> QED
    BY <1>4, <2>1, <2>2 DEF Max
<1>6. items[k] \in Items
  BY <1>1, <1>2, <1>4
<1> QED
  BY <1>4, <1>5, <1>6 DEF for, LastFor

\* A submission leaves every row but its actual; a row that items are for has the
\* stored value of the last of them, the other rows are as they were.
LEMMA UpdatedRows ==
    ASSUME NEW rows \in Seq(LogRow), NEW items \in Submissions
    PROVE  /\ Updated(rows, items) \in Seq(LogRow)
           /\ Len(Updated(rows, items)) = Len(rows)
           /\ \A i \in 1 .. Len(rows) :
                 /\ Updated(rows, items)[i]
                        = [rows[i] EXCEPT !.actual = Updated(rows, items)[i].actual]
                 /\ Updated(rows, items)[i].record = rows[i].record
                 /\ Updated(rows, items)[i].day = rows[i].day
                 /\ Updated(rows, items)[i].hour = rows[i].hour
                 /\ ItemsFor(rows, items, i) # {} =>
                       Updated(rows, items)[i].actual = Stored(LastFor(rows, items, i))
                 /\ ItemsFor(rows, items, i) = {} => Updated(rows, items)[i] = rows[i]
<1> DEFINE new == Updated(rows, items)
           For(i) == ItemsFor(rows, items, i)
<1>1. new = [i \in 1 .. Len(rows) |->
               IF For(i) = {} THEN rows[i]
               ELSE [rows[i] EXCEPT !.actual = Stored(LastFor(rows, items, i))]]
  BY DEF Updated
<1>2. ASSUME NEW i \in 1 .. Len(rows), For(i) # {}
      PROVE  Stored(LastFor(rows, items, i)) \in Errors \cup {NoActual}
  <2>1. LastFor(rows, items, i) \in Errors \cup {NaN}
    BY <1>2, LastItem DEF Items
  <2> QED
    BY <2>1 DEF Stored
<1>3. ASSUME NEW i \in 1 .. Len(rows)
      PROVE  /\ new[i] \in LogRow
             /\ new[i] = [rows[i] EXCEPT !.actual = new[i].actual]
             /\ new[i].record = rows[i].record /\ new[i].day = rows[i].day
             /\ new[i].hour = rows[i].hour
             /\ For(i) # {} => new[i].actual = Stored(LastFor(rows, items, i))
             /\ For(i) = {} => new[i] = rows[i]
  <2>1. rows[i] \in LogRow
    OBVIOUS
  <2>2. CASE For(i) = {}
    <3>1. new[i] = rows[i]
      BY <1>1, <2>2
    <3>2. rows[i] = [rows[i] EXCEPT !.actual = rows[i].actual]
      BY <2>1 DEF LogRow
    <3> QED
      BY <2>1, <2>2, <3>1, <3>2
  <2>3. CASE For(i) # {}
    <3>1. PICK a \in Errors \cup {NoActual} : a = Stored(LastFor(rows, items, i))
      BY <1>2, <2>3
    <3>2. new[i] = [rows[i] EXCEPT !.actual = a]
      BY <1>1, <2>3, <3>1
    <3>3. [rows[i] EXCEPT !.actual = a] \in LogRow
      BY <2>1 DEF LogRow
    <3>4. /\ [rows[i] EXCEPT !.actual = a].actual = a
          /\ [rows[i] EXCEPT !.actual = a].record = rows[i].record
          /\ [rows[i] EXCEPT !.actual = a].day = rows[i].day
          /\ [rows[i] EXCEPT !.actual = a].hour = rows[i].hour
      BY <2>1 DEF LogRow
    <3> QED
      BY <2>3, <3>1, <3>2, <3>3, <3>4
  <2> QED
    BY <2>2, <2>3
<1>4. new \in [1 .. Len(rows) -> LogRow]
  BY <1>1, <1>3
<1>5. new \in Seq(LogRow) /\ Len(new) = Len(rows)
  BY <1>4, LenProperties, SeqDef
<1> QED
  BY <1>3, <1>5

\* A function on 1 .. n is a sequence.
LEMMA FunctionSeq ==
    ASSUME NEW n \in Nat, NEW S, NEW f \in [1 .. n -> S]
    PROVE  f \in Seq(S) /\ Len(f) = n /\ DOMAIN f = 1 .. n
<1>1. f \in Seq(S)
  BY SeqDef
<1>2. DOMAIN f = 1 .. Len(f) /\ Len(f) \in Nat
  BY <1>1, LenProperties
<1>3. DOMAIN f = 1 .. n
  OBVIOUS
<1> QED
  BY <1>1, <1>2, <1>3

\* The run of the latest predictions stays one when the next ones are pushed.
LEMMA PushedLatest ==
    ASSUME NEW since \in Nat, NEW made \in Nat, since <= made, NEW n \in Nat
    PROVE  Pushed(Latest(since, made), [i \in 1 .. n |-> made + i]) = Latest(since, made + n)
<1> DEFINE l == IF made - since <= BufMax THEN made - since ELSE BufMax
           m == IF made + n - since <= BufMax THEN made + n - since ELSE BufMax
           d == IF 0 >= l + n - BufMax THEN 0 ELSE l + n - BufMax
           first == [j \in 1 .. l |-> made - l + j]
           next == [i \in 1 .. n |-> made + i]
           all == first \o next
           last == [j \in 1 .. m |-> made + n - m + j]
<1>1. l \in Nat /\ m \in Nat /\ d \in Nat /\ m = l + n - d /\ made + n - m = made - l + d
  BY Sizes
<1>2. Latest(since, made) = first
  BY DEF Latest
<1>3. Latest(since, made + n) = last
  BY Sizes DEF Latest
<1>4. Max({0, l + n - BufMax}) = d
  <2>1. 0 \in Int /\ l + n - BufMax \in Int
    BY <1>1, Sizes
  <2> QED
    BY <2>1, OfTwo
<1>10. (\A j \in 1 .. l : first[j] = made - l + j) /\ DOMAIN first = 1 .. l
  OBVIOUS
<1>11. (\A j \in 1 .. n : next[j] = made + j) /\ DOMAIN next = 1 .. n
  OBVIOUS
<1>12. (\A j \in 1 .. m : last[j] = made + n - m + j) /\ DOMAIN last = 1 .. m
  OBVIOUS
<1> HIDE DEF l, m, d
<1>13. first \in [1 .. l -> Int] /\ next \in [1 .. n -> Int] /\ last \in [1 .. m -> Int]
  <2>1. \A j \in Int : made - l + j \in Int /\ made + j \in Int /\ made + n - m + j \in Int
    BY <1>1
  <2> QED
    BY <2>1
<1> HIDE DEF first, next, last
<1>5. first \in Seq(Int) /\ Len(first) = l /\ next \in Seq(Int) /\ Len(next) = n
      /\ last \in Seq(Int) /\ Len(last) = m
  BY <1>1, <1>13, FunctionSeq
<1>6. all \in Seq(Int) /\ Len(all) = l + n
      /\ \A j \in 1 .. l + n : all[j] = IF j <= l THEN first[j] ELSE next[j - l]
  BY <1>5, ConcatProperties
<1>7. ASSUME NEW j \in 1 .. l + n
      PROVE  all[j] = made - l + j
  <2>1. CASE j <= l
    <3>1. j \in 1 .. l
      BY <1>1, <2>1
    <3> QED
      BY <1>6, <1>10, <2>1, <3>1
  <2>2. CASE ~(j <= l)
    <3>1. j - l \in 1 .. n /\ made + (j - l) = made - l + j
      BY <1>1, <2>2
    <3> QED
      BY <1>6, <1>11, <2>2, <3>1
  <2> QED
    BY <2>1, <2>2
<1> HIDE DEF all
<1>8. /\ SubSeq(all, 1 + d, l + n) \in Seq(Int)
      /\ Len(SubSeq(all, 1 + d, l + n)) = IF 1 + d <= l + n THEN (l + n) - (1 + d) + 1 ELSE 0
      /\ \A j \in 1 .. (l + n) - (1 + d) + 1 :
            SubSeq(all, 1 + d, l + n)[j] = all[(1 + d) + j - 1]
  <2>1. \A j \in 1 + d .. l + n : all[j] \in Int
    BY <1>1, <1>6, ElementOfSeq
  <2>2. 1 + d \in Int /\ l + n \in Int
    BY <1>1
  <2> QED
    BY <2>1, <2>2, SubSeqProperties
<1>9. SubSeq(all, 1 + d, l + n) = last
  <2>1. Len(SubSeq(all, 1 + d, l + n)) = m /\ (l + n) - (1 + d) + 1 = m
    BY <1>1, <1>8
  <2>2. ASSUME NEW j \in 1 .. m
        PROVE  SubSeq(all, 1 + d, l + n)[j] = last[j]
    <3>1. (1 + d) + j - 1 \in 1 .. l + n /\ made - l + ((1 + d) + j - 1) = made + n - m + j
      BY <1>1
    <3>2. SubSeq(all, 1 + d, l + n)[j] = made - l + ((1 + d) + j - 1)
      BY <1>7, <1>8, <2>1, <3>1
    <3> QED
      BY <1>12, <3>1, <3>2
  <2> QED
    BY <1>5, <1>8, <2>1, <2>2, SeqEqual
<1>14. Pushed(first, next) = SubSeq(all, 1 + d, l + n)
  <2>1. Max({0, Len(all) - BufMax}) = d
    <3>1. Len(all) - BufMax = l + n - BufMax
      BY <1>1, <1>6, Sizes
    <3> QED
      BY <1>4, <3>1
  <2>2. Pushed(first, next) = SubSeq(all, 1 + Max({0, Len(all) - BufMax}), Len(all))
    BY DEF Pushed, all
  <2> QED
    BY <1>6, <2>1, <2>2
<1> QED
  BY <1>2, <1>3, <1>9, <1>14 DEF next

\* What a run of the latest predictions has.
LEMMA LatestRun ==
    ASSUME NEW since \in Nat, NEW made \in Nat, since <= made
    PROVE  LET n == IF made - since <= BufMax THEN made - since ELSE BufMax
           IN  /\ n \in 0 .. BufMax
               /\ Latest(since, made) \in Seq(Nat) /\ Len(Latest(since, made)) = n
               /\ \A j \in 1 .. n : Latest(since, made)[j] = made - n + j
               /\ Range(Latest(since, made)) = made - n + 1 .. made
               /\ since <= made - n
<1> DEFINE n == IF made - since <= BufMax THEN made - since ELSE BufMax
<1>1. n \in 0 .. BufMax /\ since <= made - n /\ made - n \in Nat
  BY Sizes
<1>2. Latest(since, made) = [j \in 1 .. n |-> made - n + j]
  BY DEF Latest
<1> HIDE DEF n
<1>3. Latest(since, made) \in [1 .. n -> Nat]
  BY <1>1, <1>2
<1>4. Latest(since, made) \in Seq(Nat) /\ Len(Latest(since, made)) = n
  BY <1>1, <1>3, LenProperties, SeqDef
<1>5. Range(Latest(since, made)) = {made - n + j : j \in 1 .. n}
  BY <1>2 DEF Range
<1>6. {made - n + j : j \in 1 .. n} = made - n + 1 .. made
  <2>1. \A j \in 1 .. n : made - n + j \in made - n + 1 .. made
    BY <1>1
  <2>2. \A r \in made - n + 1 .. made : r - (made - n) \in 1 .. n /\ made - n + (r - (made - n)) = r
    BY <1>1
  <2> QED
    BY <2>1, <2>2
<1>7. \A j \in 1 .. n : Latest(since, made)[j] = made - n + j
  BY <1>2
<1> QED
  BY <1>1, <1>4, <1>5, <1>6, <1>7 DEF n

\* The rows of this process are finitely many.
LEMMA HereFinite ==
    ASSUME NEW rows \in Seq(LogRow), NEW since \in Nat
    PROVE  IsFiniteSet(Here(rows, since)) /\ Cardinality(Here(rows, since)) \in Nat
<1>1. Len(rows) \in Nat
  OBVIOUS
<1>2. IsFiniteSet(1 .. Len(rows))
  BY <1>1, FS_Interval
<1>3. Here(rows, since) \in SUBSET (1 .. Len(rows))
  BY DEF Here
<1>4. IsFiniteSet(Here(rows, since))
  BY <1>2, <1>3, FS_Subset
<1> QED
  BY <1>4, FS_CardinalityType

\* Every row that a prediction of this process adds counts.
LEMMA HereAppended ==
    ASSUME NEW rows \in Seq(LogRow), NEW more \in Seq(LogRow), NEW since \in Nat,
           \A i \in 1 .. Len(more) : more[i].record > since
    PROVE  Cardinality(Here(rows \o more, since)) = Cardinality(Here(rows, since)) + Len(more)
<1> DEFINE old == Here(rows, since)
           new == Len(rows) + 1 .. Len(rows) + Len(more)
<1>1. Len(rows) \in Nat /\ Len(more) \in Nat
  OBVIOUS
<1>2. /\ rows \o more \in Seq(LogRow) /\ Len(rows \o more) = Len(rows) + Len(more)
      /\ \A i \in 1 .. Len(rows) + Len(more) :
            (rows \o more)[i] = IF i <= Len(rows) THEN rows[i] ELSE more[i - Len(rows)]
  BY ConcatProperties
<1>3. Here(rows \o more, since) = old \cup new
  <2>1. ASSUME NEW i \in 1 .. Len(rows) + Len(more)
        PROVE  (rows \o more)[i].record > since <=> i \in old \cup new
    <3>1. CASE i <= Len(rows)
      <4>1. i \in 1 .. Len(rows) /\ i \notin new /\ (rows \o more)[i] = rows[i]
        BY <1>1, <1>2, <3>1
      <4> QED
        BY <4>1 DEF Here
    <3>2. CASE ~(i <= Len(rows))
      <4>1. i - Len(rows) \in 1 .. Len(more) /\ i \in new
        BY <1>1, <3>2
      <4>2. (rows \o more)[i] = more[i - Len(rows)]
        BY <1>2, <3>2
      <4> QED
        BY <4>1, <4>2
    <3> QED
      BY <3>1, <3>2
  <2>2. old \cup new \subseteq 1 .. Len(rows) + Len(more)
    <3>1. 1 .. Len(rows) \subseteq 1 .. Len(rows) + Len(more)
      BY <1>1
    <3>2. new \subseteq 1 .. Len(rows) + Len(more)
      BY <1>1
    <3> QED
      BY <3>1, <3>2 DEF Here
  <2>3. Here(rows \o more, since)
           = {i \in 1 .. Len(rows) + Len(more) : (rows \o more)[i].record > since}
    BY <1>2 DEF Here
  <2> QED
    BY <2>1, <2>2, <2>3
<1>4. IsFiniteSet(old) /\ Cardinality(old) \in Nat
  BY HereFinite
<1>5. IsFiniteSet(new) /\ Cardinality(new) = Len(more)
  <2>1. PICK a \in Int, b \in Int : a = Len(rows) + 1 /\ b = Len(rows) + Len(more)
    BY <1>1
  <2>2. IsFiniteSet(a .. b) /\ Cardinality(a .. b) = IF a > b THEN 0 ELSE b - a + 1
    BY FS_Interval
  <2>3. new = a .. b
    BY <2>1
  <2> QED
    BY <1>1, <2>1, <2>2, <2>3
<1>6. old \cap new = {}
  BY <1>1 DEF Here
<1>7. Cardinality(old \cap new) = 0
  BY <1>6, FS_EmptySet
<1> HIDE DEF old, new
<1>8. Cardinality(old \cup new) = Cardinality(old) + Cardinality(new) - Cardinality(old \cap new)
  BY <1>4, <1>5, FS_Union
<1> QED
  BY <1>1, <1>3, <1>4, <1>5, <1>7, <1>8 DEF old

-----------------------------------------------------------------------------
(* The invariant.                                                          *)

\* An empty log and the memory of a new process.
LEMMA InitIInv == Init => IInv
<1> SUFFICES ASSUME Init
             PROVE  IInv
  OBVIOUS
<1>1. PICK d \in Detectors : mem = Fresh(d, 0)
  BY DEF Init
<1>2. log = <<>> /\ saved = <<>> /\ today = 0 /\ records = 0 /\ failures = 0 /\ replies = 0
      /\ matched = {}
  BY DEF Init
<1>3. Len(log) = 0 /\ Len(saved) = 0 /\ log \in Seq(LogRow) /\ saved \in Seq(LogRow)
  BY <1>2, EmptySeq
<1>4. mem \in Memory
  BY <1>1 DEF Fresh, Memory, Places
<1>5. Types
  BY <1>1, <1>2, <1>3, <1>4, Sizes DEF Types, Fresh
<1>6. Sampling
  <2>1. Latest(0, 0) = <<>>
    BY Sizes DEF Latest
  <2> QED
    BY <1>1, <1>2, <2>1 DEF Sampling, Fresh
<1>7. Counting
  <2>1. Here(log, mem.since) = {}
    BY <1>3 DEF Here
  <2>2. Cardinality(Here(log, mem.since)) = 0
    BY <2>1, FS_EmptySet
  <2> QED
    BY <1>1, <1>2, <2>2 DEF Counting, Fresh, Places
<1>8. DriftOfRecentRun /\ AlertHasReason /\ Matching
  BY <1>1, <1>2 DEF DriftOfRecentRun, AlertHasReason, Matching, Fresh
<1> QED
  BY <1>5, <1>6, <1>7, <1>8 DEF IInv

\* A restart forgets the sample and the counters with the predictions that
\* they were of, and keeps what is committed.
LEMMA StepRestart ==
    ASSUME IInv, Restart
    PROVE  IInv'
<1>1. PICK d \in Detectors : mem' = Fresh(d, records)
  BY DEF Restart
<1>2. log' = saved /\ saved' = saved /\ replies' = 0 /\ today' = today /\ records' = records
      /\ failures' = failures /\ matched' = matched
  BY DEF Restart
<1>3. Types
  BY DEF IInv
<1>4. mem' \in Memory
  BY <1>1, <1>3 DEF Fresh, Memory, Types, Places
<1>5. ASSUME NEW i \in 1 .. Len(saved)
      PROVE  /\ saved[i] = [saved[i] EXCEPT !.actual = saved[i].actual]
             /\ saved[i].record <= records
  <2>1. saved[i] \in LogRow /\ i \in 1 .. Len(log)
    BY <1>3 DEF Types
  <2>2. saved[i].record = log[i].record
    BY <1>3, <2>1 DEF Types, LogRow
  <2> QED
    BY <1>3, <2>1, <2>2 DEF Types, LogRow
<1>6. Types'
  <2>1. log' \in Seq(LogRow) /\ saved' \in Seq(LogRow) /\ Len(log') = Len(saved')
    BY <1>2, <1>3 DEF Types
  <2>2. /\ \A i \in 1 .. Len(log') : log'[i] = [saved'[i] EXCEPT !.actual = log'[i].actual]
        /\ \A i \in 1 .. Len(log') : log'[i].record <= records'
    BY <1>2, <1>5
  <2>3. mem'.since <= records'
    BY <1>1, <1>2, <1>3 DEF Types, Fresh
  <2>4. /\ today' \in 0 .. MaxDay /\ matched' \subseteq 1 .. Len(log')
        /\ records' \in Nat /\ failures' \in Nat /\ replies' \in Nat
    BY <1>2, <1>3 DEF Types
  <2> QED
    BY <1>4, <2>1, <2>2, <2>3, <2>4 DEF Types
<1>7. Sampling'
  <2>1. Latest(records, records) = <<>>
    BY <1>3, Sizes DEF Latest, Types
  <2> QED
    BY <1>1, <1>2, <2>1 DEF Sampling, Fresh
<1>8. Counting'
  <2>1. Here(saved, records) = {}
    <3> SUFFICES ASSUME NEW i \in 1 .. Len(saved)
                 PROVE  ~(saved[i].record > records)
      BY DEF Here
    <3>1. saved[i] \in LogRow /\ records \in Nat
      BY <1>3 DEF Types
    <3>2. saved[i].record \in Nat
      BY <3>1 DEF LogRow
    <3>3. saved[i].record <= records
      BY <1>5
    <3> QED
      BY <3>1, <3>2, <3>3
  <2>2. Cardinality(Here(saved, records)) = 0
    BY <2>1, FS_EmptySet
  <2>3. mem'.since = records /\ mem'.ok = 0 /\ mem'.errors = 0 /\ mem'.predictions = 0
        /\ \A p \in Places : mem'.failed[p] = 0
    BY <1>1 DEF Fresh
  <2> QED
    BY <1>2, <2>2, <2>3 DEF Counting, Places
<1>9. DriftOfRecentRun' /\ AlertHasReason'
  BY <1>1 DEF DriftOfRecentRun, AlertHasReason, Fresh
<1>10. Matching'
  BY <1>2 DEF IInv, Matching
<1> QED
  BY <1>6, <1>7, <1>8, <1>9, <1>10 DEF IInv

\* The clock is of no prediction.
LEMMA StepNextDay ==
    ASSUME IInv, NextDay
    PROVE  IInv'
<1>1. today' \in 0 .. MaxDay
  BY Sizes DEF IInv, Types, NextDay
<1>2. UNCHANGED <<log, saved, mem, records, failures, replies, matched>>
  BY DEF NextDay
<1> QED
  BY <1>1, <1>2 DEF IInv, Types, Sampling, Counting, DriftOfRecentRun, AlertHasReason, Matching

\* A failed request is one error more.
LEMMA StepComputeFails ==
    ASSUME IInv, ComputeFails
    PROVE  IInv'
<1>1. mem' = [mem EXCEPT !.errors = @ + 1, !.failed["compute"] = @ + 1]
      /\ failures' = failures + 1
  BY DEF ComputeFails
<1>2. UNCHANGED <<log, saved, today, records, replies, matched>>
  BY DEF ComputeFails
<1>3. mem \in Memory
  BY DEF IInv, Types
<1>4. /\ mem'.since = mem.since /\ mem'.detector = mem.detector /\ mem'.buffer = mem.buffer
      /\ mem'.drift = mem.drift /\ mem'.mae = mem.mae /\ mem'.alert = mem.alert
      /\ mem'.ok = mem.ok /\ mem'.errors = mem.errors + 1
      /\ mem'.predictions = mem.predictions
      /\ mem'.failed = [mem.failed EXCEPT !["compute"] = @ + 1]
  BY <1>1, <1>3 DEF Memory
<1>9. /\ mem.failed \in [Places -> Nat] /\ mem'.failed \in [Places -> Nat]
      /\ mem'.failed["compute"] = mem.failed["compute"] + 1
      /\ \A p \in {"insert", "batch", "usage"} : mem'.failed[p] = mem.failed[p]
  BY <1>3, <1>4 DEF Memory, Places
<1>8. mem' \in Memory
  <2>1. PICK e \in Nat : e = mem.errors + 1
    BY <1>3 DEF Memory
  <2>2. PICK f \in [Places -> Nat] : f = [mem.failed EXCEPT !["compute"] = @ + 1]
    BY <1>4, <1>9
  <2>3. mem' = [mem EXCEPT !.errors = e, !.failed = f]
    BY <1>1, <2>1, <2>2
  <2> QED
    BY <1>3, <2>3 DEF Memory
<1>5. Types'
  BY <1>1, <1>2, <1>4, <1>8 DEF IInv, Types
<1>6. Sampling' /\ DriftOfRecentRun' /\ AlertHasReason' /\ Matching'
  BY <1>2, <1>4 DEF IInv, Sampling, DriftOfRecentRun, AlertHasReason, Matching
<1>7. Counting'
  <2>1. /\ mem.failed["compute"] \in Nat /\ mem.failed["insert"] \in Nat
        /\ mem.failed["batch"] \in Nat /\ mem.failed["usage"] \in Nat
    BY <1>9 DEF Places
  <2>2. /\ mem'.failed["insert"] = mem.failed["insert"]
        /\ mem'.failed["batch"] = mem.failed["batch"]
        /\ mem'.failed["usage"] = mem.failed["usage"]
    BY <1>9
  <2> QED
    BY <1>2, <1>4, <1>9, <2>1, <2>2 DEF IInv, Counting
<1> QED
  BY <1>5, <1>6, <1>7 DEF IInv

\* A drift report is of the buffer, which is a run long enough.
LEMMA StepDrift ==
    ASSUME IInv, Drift
    PROVE  IInv'
<1>1. mem' = [mem EXCEPT !.drift = mem.buffer] /\ mem.detector = "fitting"
      /\ Len(mem.buffer) >= MinSamples
  BY DEF Drift
<1>2. UNCHANGED <<log, saved, today, records, failures, replies, matched>>
  BY DEF Drift
<1>3. mem \in Memory
  BY DEF IInv, Types
<1>0. mem.buffer \in Seq(Nat)
  BY <1>3 DEF Memory
<1>4. /\ mem' \in Memory
      /\ mem'.since = mem.since /\ mem'.detector = mem.detector /\ mem'.buffer = mem.buffer
      /\ mem'.drift = mem.buffer /\ mem'.mae = mem.mae /\ mem'.alert = mem.alert
      /\ mem'.ok = mem.ok /\ mem'.errors = mem.errors /\ mem'.predictions = mem.predictions
      /\ mem'.failed = mem.failed
  BY <1>0, <1>1, <1>3 DEF Memory
<1>5. Types'
  BY <1>2, <1>4 DEF IInv, Types
<1>6. Sampling' /\ Counting' /\ AlertHasReason' /\ Matching'
  BY <1>2, <1>4 DEF IInv, Sampling, Counting, AlertHasReason, Matching
<1>7. DriftOfRecentRun'
  <2> DEFINE d == mem.buffer
             n == Len(d)
  <2>1. mem.since \in Nat /\ records \in Nat /\ mem.since <= records
    BY <1>3 DEF IInv, Types, Memory
  <2>2. d = Latest(mem.since, records)
    BY <1>1 DEF IInv, Sampling
  <2>3. /\ n \in 0 .. BufMax /\ d \in Seq(Nat)
        /\ \A j \in 1 .. n : d[j] = records - n + j
        /\ mem.since <= records - n
    <3> DEFINE size == IF records - mem.since <= BufMax THEN records - mem.since ELSE BufMax
               run == Latest(mem.since, records)
    <3>1. /\ size \in 0 .. BufMax /\ run \in Seq(Nat) /\ Len(run) = size
          /\ \A j \in 1 .. size : run[j] = records - size + j
          /\ mem.since <= records - size
      BY <2>1, LatestRun
    <3> HIDE DEF size, run
    <3>2. d = run /\ n = size
      BY <2>2, <3>1 DEF run
    <3> QED
      BY <3>1, <3>2
  <2>4. n \in MinSamples .. BufMax /\ n >= 1
    BY <1>1, <2>3, Sizes
  <2> HIDE DEF n
  <2>5. d[1] = records - n + 1 /\ d[n] = records
    <3>1. 1 \in 1 .. n /\ n \in 1 .. n
      BY <2>4, Sizes
    <3> QED
      BY <2>1, <2>3, <2>4, <3>1
  <2>6. \A i \in 1 .. n : d[i] = d[1] + i - 1
    BY <2>1, <2>3, <2>4, <2>5
  <2>7. mem.since < d[1] /\ d[n] <= records
    BY <2>1, <2>3, <2>4, <2>5
  <2>8. DOMAIN d = 1 .. n
    BY <2>3 DEF n
  <2> HIDE DEF d
  <2>9. mem'.drift = d /\ Len(d) = n /\ mem'.since = mem.since /\ records' = records
    BY <1>2, <1>4 DEF d, n
  <2> QED
    BY <2>4, <2>6, <2>7, <2>8, <2>9 DEF DriftOfRecentRun
<1> QED
  BY <1>5, <1>6, <1>7 DEF IInv

\* The alert is raised only beside an error gauge that is over the limit.
LEMMA StepQuality ==
    ASSUME IInv, NEW days \in Windows, Quality(days)
    PROVE  IInv'
<1> DEFINE pairs == Pairs(days)
           enough == Cardinality(pairs) >= Required
           over == enough /\ Over(pairs)
<1>1. mem' = [mem EXCEPT !.mae = IF enough THEN [pairs |-> pairs, over |-> over] ELSE @,
                         !.alert = IF over /\ DriftRaises THEN @ ELSE over]
  BY DEF Quality
<1>2. UNCHANGED <<log, saved, today, records, failures, replies, matched>>
  BY DEF Quality
<1>3. mem \in Memory
  BY DEF IInv, Types
<1>4. pairs \in SUBSET Nat
  BY DEF Pairs, IInv, Types
<1>5. over \in BOOLEAN /\ (over => enough)
  OBVIOUS
<1> HIDE DEF pairs, over, enough
<1>6. /\ mem'.since = mem.since /\ mem'.detector = mem.detector /\ mem'.buffer = mem.buffer
      /\ mem'.drift = mem.drift /\ mem'.ok = mem.ok /\ mem'.errors = mem.errors
      /\ mem'.predictions = mem.predictions /\ mem'.failed = mem.failed
      /\ mem'.mae = IF enough THEN [pairs |-> pairs, over |-> over] ELSE mem.mae
      /\ mem'.alert = IF over /\ DriftRaises THEN mem.alert ELSE over
  BY <1>1, <1>3 DEF Memory
<1>7. mem' \in Memory
  <2>1. (IF enough THEN [pairs |-> pairs, over |-> over] ELSE mem.mae)
           \in [pairs : SUBSET Nat, over : BOOLEAN]
    BY <1>3, <1>4, <1>5 DEF Memory
  <2>2. (IF over /\ DriftRaises THEN mem.alert ELSE over) \in BOOLEAN
    BY <1>3, <1>5 DEF Memory
  <2> QED
    BY <1>1, <1>3, <2>1, <2>2 DEF Memory
<1>8. Types'
  BY <1>2, <1>6, <1>7 DEF IInv, Types
<1>9. Sampling' /\ Counting' /\ DriftOfRecentRun' /\ Matching'
  BY <1>2, <1>6 DEF IInv, Sampling, Counting, DriftOfRecentRun, Matching
<1>10. AlertHasReason'
  BY <1>5, <1>6 DEF IInv, AlertHasReason
<1> QED
  BY <1>8, <1>9, <1>10 DEF IInv

\* What a submission leaves matched has a number in the log.
LEMMA StillMatched ==
    ASSUME IInv, NEW items \in Submissions,
           NEW i \in (matched \ IdsGiven(items, {NaN})) \cup IdsGiven(items, Errors)
    PROVE  i \in 1 .. Len(log) /\ Updated(log, items)[i].actual # NoActual
<1>1. log \in Seq(LogRow) /\ matched \subseteq 1 .. Len(log) /\ DOMAIN log = 1 .. Len(log)
  BY DEF IInv, Types
<1>2. i \in 1 .. Len(log)
  BY <1>1 DEF IdsGiven
<1>3. /\ ItemsFor(log, items, i) # {} =>
            Updated(log, items)[i].actual = Stored(LastFor(log, items, i))
      /\ ItemsFor(log, items, i) = {} => Updated(log, items)[i] = log[i]
  BY <1>1, <1>2, UpdatedRows
<1>4. CASE ItemsFor(log, items, i) # {}
  <2>1. LastFor(log, items, i) \in Errors \cup {NaN}
    BY <1>4, LastItem DEF Items
  <2>2. LastFor(log, items, i) \in Errors
    BY <1>1, <1>2, <1>4, <2>1 DEF IdsGiven
  <2> QED
    BY <1>2, <1>3, <1>4, <2>2, Sizes DEF Stored
<1>5. CASE ItemsFor(log, items, i) = {}
  <2>1. i \in matched
    BY <1>5 DEF IdsGiven
  <2> QED
    BY <1>2, <1>3, <1>5, <2>1 DEF IInv, Matching
<1> QED
  BY <1>4, <1>5

\* What the rows of a submission keep.
LEMMA StepUpdated ==
    ASSUME IInv, NEW items \in Submissions,
           log' = Updated(log, items), saved' = log' \/ saved' = saved,
           matched' \subseteq (matched \ IdsGiven(items, {NaN})) \cup IdsGiven(items, Errors),
           failures' \in Nat,
           UNCHANGED <<today, mem, records, replies>>
    PROVE  Types' /\ Sampling' /\ Counting' /\ DriftOfRecentRun' /\ AlertHasReason'
<1>1. Types
  BY DEF IInv
<1>2. /\ log' \in Seq(LogRow) /\ Len(log') = Len(log)
      /\ \A i \in 1 .. Len(log) :
            /\ log'[i] = [log[i] EXCEPT !.actual = log'[i].actual]
            /\ log'[i].record = log[i].record
  BY <1>1, UpdatedRows DEF Types
<1>3. Types'
  <2>1. saved' \in Seq(LogRow) /\ Len(log') = Len(saved')
    BY <1>1, <1>2 DEF Types
  <2>2. ASSUME NEW i \in 1 .. Len(log')
        PROVE  log'[i] = [saved'[i] EXCEPT !.actual = log'[i].actual]
    <3>1. log'[i] \in LogRow /\ saved[i] \in LogRow /\ i \in 1 .. Len(log)
      BY <1>1, <1>2 DEF Types
    <3>2. CASE saved' = log'
      BY <3>1, <3>2 DEF LogRow
    <3>3. CASE saved' = saved
      <4>1. log[i] = [saved[i] EXCEPT !.actual = log[i].actual]
        BY <1>1, <3>1 DEF Types
      <4>2. log'[i] = [log[i] EXCEPT !.actual = log'[i].actual]
        BY <1>2, <3>1
      <4>3. PICK a, b : a = log[i].actual /\ b = log'[i].actual
        OBVIOUS
      <4>4. [[saved[i] EXCEPT !.actual = a] EXCEPT !.actual = b] = [saved[i] EXCEPT !.actual = b]
        BY <3>1 DEF LogRow
      <4> QED
        BY <3>3, <4>1, <4>2, <4>3, <4>4
    <3> QED
      BY <3>2, <3>3
  <2>3. matched' \subseteq 1 .. Len(log')
    BY <1>2, StillMatched
  <2>4. \A i \in 1 .. Len(log') : log'[i].record <= records'
    BY <1>1, <1>2 DEF Types
  <2> QED
    BY <1>1, <1>2, <2>1, <2>2, <2>3, <2>4 DEF Types
<1>4. Counting'
  <2>1. Here(log', mem.since) = Here(log, mem.since)
    BY <1>2 DEF Here
  <2>2. mem' = mem /\ replies' = replies
    OBVIOUS
  <2> QED
    BY <2>1, <2>2 DEF IInv, Counting
<1>5. Sampling' /\ DriftOfRecentRun' /\ AlertHasReason'
  BY DEF IInv, Sampling, DriftOfRecentRun, AlertHasReason
<1> QED
  BY <1>3, <1>4, <1>5

\* After the commit both sides have the numbers that were matched.
LEMMA StepSubmitActuals ==
    ASSUME IInv, NEW items \in Submissions, SubmitActuals(items)
    PROVE  IInv'
<1>1. log' = Updated(log, items) /\ saved' = log'
      /\ matched' = (matched \ IdsGiven(items, {NaN})) \cup IdsGiven(items, Errors)
  BY DEF SubmitActuals
<1>2. failures' \in Nat /\ UNCHANGED <<today, mem, records, replies>>
  BY DEF SubmitActuals, IInv, Types
<1>3. Types' /\ Sampling' /\ Counting' /\ DriftOfRecentRun' /\ AlertHasReason'
  BY <1>1, <1>2, StepUpdated
<1>4. Matching'
  BY <1>1, StillMatched DEF Matching
<1> QED
  BY <1>3, <1>4 DEF IInv

\* A failed submission writes numbers into the open transaction only; a match
\* that it overwrites with NULL there is no match any more.
LEMMA StepSubmissionFails ==
    ASSUME IInv, NEW items \in Submissions, SubmissionFails(items)
    PROVE  IInv'
<1>1. log' = Updated(log, items) /\ saved' = saved
      /\ matched' = matched \ IdsGiven(items, {NaN}) /\ failures' = failures + 1
  BY DEF SubmissionFails
<1>2. failures' \in Nat /\ UNCHANGED <<today, mem, records, replies>>
  BY <1>1 DEF SubmissionFails, IInv, Types
<1>3. Types' /\ Sampling' /\ Counting' /\ DriftOfRecentRun' /\ AlertHasReason'
  BY <1>1, <1>2, StepUpdated
<1>4. Matching'
  BY <1>1, StillMatched DEF IInv, Matching
<1> QED
  BY <1>3, <1>4 DEF IInv

\* A prediction request: the sample gets all its records, the log the first
\* `logged` of them, the counters what was counted before it ended.
LEMMA StepPredict ==
    ASSUME IInv, NEW batch \in BOOLEAN, NEW n \in Nat \ {0}, NEW hours \in [1 .. n -> Hours],
           NEW logged \in 0 .. n, NEW answered \in BOOLEAN,
           Predict(batch, hours, logged, answered)
    PROVE  IInv'
<1> DEFINE new == [i \in 1 .. n |-> records + i]
           rows == [i \in 1 .. logged |-> Row(hours[i], records + i)]
           place == IF logged = n THEN "usage" ELSE IF batch THEN "batch" ELSE "insert"
           noted == IF answered THEN mem.failed ELSE [mem.failed EXCEPT ![place] = @ + 1]
<1>1. Len(hours) = n
  BY FunctionSeq
<1>2. /\ answered => logged = n
      /\ log' = log \o rows
      /\ saved' = IF logged > 0 THEN log' ELSE saved
      /\ mem' = Sampled(Noted(Counted(batch, n, logged, answered), place, answered),
                        new, answered)
      /\ records' = records + n
      /\ failures' = IF answered THEN failures ELSE failures + 1
      /\ replies' = IF answered THEN replies + 1 ELSE replies
      /\ today' = today /\ matched' = matched
  BY <1>1 DEF Predict
<1>3. Types
  BY DEF IInv
<1>4. mem \in Memory /\ records \in Nat /\ mem.since \in Nat /\ mem.since <= records
      /\ log \in Seq(LogRow) /\ saved \in Seq(LogRow) /\ today \in 0 .. MaxDay
  BY <1>3 DEF Types, Memory
<1>5. rows \in Seq(LogRow) /\ Len(rows) = logged
      /\ \A i \in 1 .. logged : /\ rows[i].record = records + i
                              /\ rows[i] = [rows[i] EXCEPT !.actual = rows[i].actual]
  <2>1. \A i \in 1 .. logged : /\ Row(hours[i], records + i) \in LogRow
                             /\ Row(hours[i], records + i).record = records + i
    <3> SUFFICES ASSUME NEW i \in 1 .. logged
                 PROVE  /\ Row(hours[i], records + i) \in LogRow
                        /\ Row(hours[i], records + i).record = records + i
      OBVIOUS
    <3>1. hours[i] \in Hours /\ records + i \in Nat
      BY <1>4
    <3> QED
      BY <1>4, <3>1 DEF Row, LogRow
  <2>2. rows \in [1 .. logged -> LogRow]
    BY <2>1
  <2>3. rows \in Seq(LogRow) /\ Len(rows) = logged
    BY <2>2, FunctionSeq
  <2>4. \A row \in LogRow : row = [row EXCEPT !.actual = row.actual]
    BY DEF LogRow
  <2>5. \A i \in 1 .. logged : rows[i] = Row(hours[i], records + i)
    OBVIOUS
  <2> HIDE DEF rows
  <2> QED
    BY <2>1, <2>3, <2>4, <2>5
<1>6. /\ mem'.since = mem.since /\ mem'.detector = mem.detector
      /\ mem'.buffer = IF mem.detector = "none" THEN mem.buffer ELSE Pushed(mem.buffer, new)
      /\ mem'.drift = mem.drift /\ mem'.mae = mem.mae /\ mem'.alert = mem.alert
      /\ mem'.ok = IF batch /\ logged < n THEN mem.ok ELSE mem.ok + 1
      /\ mem'.errors = IF answered THEN mem.errors ELSE mem.errors + 1
      /\ mem'.predictions = mem.predictions + (IF n <= logged + 1 THEN n ELSE logged + 1)
      /\ mem' = [since |-> mem'.since, detector |-> mem'.detector, buffer |-> mem'.buffer,
                 drift |-> mem'.drift, mae |-> mem'.mae, alert |-> mem'.alert,
                 ok |-> mem'.ok, errors |-> mem'.errors, predictions |-> mem'.predictions,
                 failed |-> mem'.failed]
      /\ mem'.failed = noted
  <2>1. Min({n, logged + 1}) = IF n <= logged + 1 THEN n ELSE logged + 1
    <3>1. n \in Int /\ logged + 1 \in Int
      OBVIOUS
    <3> QED
      BY <3>1, OfTwo
  <2> DEFINE c == Counted(batch, n, logged, answered)
             m == Noted(c, place, answered)
  <2>2. c = [mem EXCEPT !.predictions = @ + Min({n, logged + 1}),
                        !.ok = IF batch /\ logged < n THEN @ ELSE @ + 1,
                        !.errors = IF answered THEN @ ELSE @ + 1]
    BY DEF Counted
  <2>3. /\ c.since = mem.since /\ c.detector = mem.detector /\ c.buffer = mem.buffer
        /\ c.drift = mem.drift /\ c.mae = mem.mae /\ c.alert = mem.alert
        /\ c.ok = IF batch /\ logged < n THEN mem.ok ELSE mem.ok + 1
        /\ c.errors = IF answered THEN mem.errors ELSE mem.errors + 1
        /\ c.predictions = mem.predictions + Min({n, logged + 1})
        /\ c.failed = mem.failed
        /\ c = [since |-> c.since, detector |-> c.detector, buffer |-> c.buffer,
                drift |-> c.drift, mae |-> c.mae, alert |-> c.alert, ok |-> c.ok,
                errors |-> c.errors, predictions |-> c.predictions, failed |-> c.failed]
    BY <1>4, <2>2 DEF Memory
  <2> HIDE DEF c
  <2>4. m = [c EXCEPT !.failed = noted]
    <3>1. CASE answered
      BY <2>3, <3>1 DEF Noted
    <3>2. CASE ~answered
      <4>1. m = [c EXCEPT !.failed[place] = @ + 1]
        BY <3>2 DEF Noted
      <4>2. [c EXCEPT !.failed[place] = @ + 1]
                = [c EXCEPT !.failed = [c.failed EXCEPT ![place] = @ + 1]]
        BY <2>3
      <4> QED
        BY <2>3, <3>2, <4>1, <4>2
    <3> QED
      BY <3>1, <3>2
  <2> HIDE DEF place, noted
  <2>5. /\ m.since = c.since /\ m.detector = c.detector /\ m.buffer = c.buffer
        /\ m.drift = c.drift /\ m.mae = c.mae /\ m.alert = c.alert
        /\ m.ok = c.ok /\ m.errors = c.errors /\ m.predictions = c.predictions
        /\ m.failed = noted
        /\ m = [since |-> m.since, detector |-> m.detector, buffer |-> m.buffer,
                drift |-> m.drift, mae |-> m.mae, alert |-> m.alert, ok |-> m.ok,
                errors |-> m.errors, predictions |-> m.predictions, failed |-> m.failed]
    BY <2>3, <2>4
  <2> HIDE DEF m, new
  <2>6. mem' = IF m.detector = "none" THEN m ELSE [m EXCEPT !.buffer = Pushed(@, new)]
    BY <1>2 DEF m, c, Sampled
  <2>7. /\ mem'.since = m.since /\ mem'.detector = m.detector
        /\ mem'.buffer = IF m.detector = "none" THEN m.buffer ELSE Pushed(m.buffer, new)
        /\ mem'.drift = m.drift /\ mem'.mae = m.mae /\ mem'.alert = m.alert
        /\ mem'.ok = m.ok /\ mem'.errors = m.errors /\ mem'.predictions = m.predictions
        /\ mem'.failed = m.failed
        /\ mem' = [since |-> mem'.since, detector |-> mem'.detector, buffer |-> mem'.buffer,
                   drift |-> mem'.drift, mae |-> mem'.mae, alert |-> mem'.alert,
                   ok |-> mem'.ok, errors |-> mem'.errors, predictions |-> mem'.predictions,
                   failed |-> mem'.failed]
    BY <2>5, <2>6
  <2> QED
    BY <2>1, <2>3, <2>5, <2>7
<1>7. Sampling'
  <2>1. CASE mem.detector = "none"
    BY <1>6, <2>1 DEF IInv, Sampling
  <2>2. CASE mem.detector # "none"
    <3>1. mem.buffer = Latest(mem.since, records)
      BY <2>2 DEF IInv, Sampling
    <3>2. Pushed(Latest(mem.since, records), new) = Latest(mem.since, records + n)
      BY <1>4, PushedLatest
    <3> QED
      BY <1>2, <1>6, <2>2, <3>1, <3>2 DEF Sampling
  <2> QED
    BY <2>1, <2>2
<1>18. /\ place \in Places /\ mem.failed \in [Places -> Nat] /\ noted \in [Places -> Nat]
       /\ \A p \in Places : noted[p] = IF ~answered /\ p = place THEN mem.failed[p] + 1
                                                               ELSE mem.failed[p]
  <2>1. place \in Places /\ mem.failed \in [Places -> Nat]
    BY <1>4 DEF Memory, Places
  <2> HIDE DEF place
  <2> QED
    BY <2>1
<1> HIDE DEF new, rows, noted
<1>8. records' \in Nat /\ mem'.since <= records' /\ records <= records'
  BY <1>2, <1>4, <1>6
<1>9. mem' \in Memory
  <2>1. mem'.buffer \in Seq(Nat)
    <3>1. Latest(mem.since, records') \in Seq(Nat)
      BY <1>4, <1>6, <1>8, LatestRun
    <3> QED
      BY <1>4, <1>6, <1>7, <3>1, EmptySeq DEF Sampling
  <2>2. mem'.ok \in Nat /\ mem'.errors \in Nat /\ mem'.predictions \in Nat
    <3>1. mem.ok \in Nat /\ mem.errors \in Nat /\ mem.predictions \in Nat
      BY <1>4 DEF Memory
    <3> QED
      BY <1>6, <3>1
  <2>3. /\ mem'.since \in Nat /\ mem'.detector \in Detectors /\ mem'.drift \in Seq(Nat)
        /\ mem'.mae \in [pairs : SUBSET Nat, over : BOOLEAN] /\ mem'.alert \in BOOLEAN
        /\ mem'.failed \in [Places -> Nat]
    BY <1>4, <1>6, <1>18 DEF Memory
  <2> QED
    BY <1>6, <2>1, <2>2, <2>3 DEF Memory
<1>10. /\ log' \in Seq(LogRow) /\ Len(log') = Len(log) + logged
       /\ \A i \in 1 .. Len(log) + logged :
             log'[i] = IF i <= Len(log) THEN log[i] ELSE rows[i - Len(log)]
  <2>1. /\ log \o rows \in Seq(LogRow) /\ Len(log \o rows) = Len(log) + Len(rows)
        /\ \A i \in 1 .. Len(log) + Len(rows) :
              (log \o rows)[i] = IF i <= Len(log) THEN log[i] ELSE rows[i - Len(log)]
    <3>1. log \in Seq(LogRow) /\ rows \in Seq(LogRow)
      BY <1>4, <1>5
    <3> QED
      BY <3>1, ConcatProperties
  <2> QED
    BY <1>2, <1>5, <2>1
<1>11. Len(log) \in Nat /\ Len(saved) = Len(log)
  BY <1>3, <1>4 DEF Types
<1>12. logged = 0 => log' = log
  <2> SUFFICES ASSUME logged = 0
               PROVE  log' = log
    OBVIOUS
  <2>1. \A i \in 1 .. Len(log') : log'[i] = log[i]
    BY <1>10, <1>11
  <2>2. Len(log') = Len(log)
    BY <1>10, <1>11
  <2> QED
    BY <1>4, <1>10, <2>1, <2>2, SeqEqual
<1>13. Types'
  <2>1. ASSUME NEW i \in 1 .. Len(log')
        PROVE  /\ log'[i].record <= records'
               /\ log'[i] = [saved'[i] EXCEPT !.actual = log'[i].actual]
    <3>1. log'[i] \in LogRow /\ i \in 1 .. Len(log) + logged
      BY <1>10
    <3>2. \A row \in LogRow : row = [row EXCEPT !.actual = row.actual]
      BY DEF LogRow
    <3>3. log'[i].record <= records'
      <4>1. CASE i <= Len(log)
        <5>1. i \in 1 .. Len(log) /\ log'[i] = log[i]
          BY <1>10, <1>11, <3>1, <4>1
        <5>2. log[i] \in LogRow /\ log[i].record <= records
          BY <1>3, <1>4, <5>1 DEF Types
        <5>3. log[i].record \in Nat
          BY <5>2 DEF LogRow
        <5> QED
          BY <1>4, <1>8, <5>1, <5>2, <5>3
      <4>2. CASE ~(i <= Len(log))
        <5>1. i - Len(log) \in 1 .. logged /\ log'[i] = rows[i - Len(log)]
          BY <1>10, <1>11, <3>1, <4>2
        <5>2. log'[i].record = records + (i - Len(log))
          BY <1>5, <5>1
        <5> QED
          BY <1>2, <1>4, <5>1, <5>2
      <4> QED
        BY <4>1, <4>2
    <3>4. CASE logged > 0
      BY <1>2, <3>1, <3>2, <3>3, <3>4
    <3>5. CASE ~(logged > 0)
      <4>1. logged = 0
        BY <3>5
      <4>2. log' = log /\ saved' = saved
        BY <1>2, <1>12, <4>1
      <4> QED
        BY <1>3, <3>3, <4>2 DEF Types
    <3> QED
      BY <3>4, <3>5
  <2>2. saved' \in Seq(LogRow) /\ Len(log') = Len(saved')
    <3>1. CASE logged > 0
      BY <1>2, <1>10, <3>1
    <3>2. CASE ~(logged > 0)
      BY <1>2, <1>4, <1>11, <1>12, <3>2
    <3> QED
      BY <3>1, <3>2
  <2>3. matched' \subseteq 1 .. Len(log')
    <3>1. matched \subseteq 1 .. Len(log)
      BY <1>3 DEF Types
    <3>2. 1 .. Len(log) \subseteq 1 .. Len(log')
      BY <1>10, <1>11
    <3> QED
      BY <1>2, <3>1, <3>2
  <2>4. failures' \in Nat /\ replies' \in Nat
    BY <1>2, <1>3 DEF Types
  <2>5. today' \in 0 .. MaxDay
    BY <1>2, <1>4
  <2> QED
    BY <1>8, <1>9, <1>10, <2>1, <2>2, <2>3, <2>4, <2>5 DEF Types
<1>14. Counting'
  <2>1. PICK c \in Nat : c = Cardinality(Here(log, mem.since))
    BY <1>4, HereFinite
  <2>2. \A i \in 1 .. Len(rows) : rows[i].record > mem.since
    <3> SUFFICES ASSUME NEW i \in 1 .. logged
                 PROVE  records + i > mem.since
      BY <1>5
    <3> QED
      BY <1>4
  <2>3. Cardinality(Here(log', mem.since)) = c + logged
    BY <1>2, <1>4, <1>5, <2>1, <2>2, HereAppended
  <2>4. PICK compute \in Nat, insert \in Nat, many \in Nat, usage \in Nat :
            /\ mem.failed["compute"] = compute /\ mem.failed["insert"] = insert
            /\ mem.failed["batch"] = many /\ mem.failed["usage"] = usage
    BY <1>18 DEF Places
  <2>5. /\ mem.predictions = c + insert + many /\ mem.ok = replies + insert + usage
        /\ mem.errors = compute + insert + many + usage /\ replies \in Nat
    BY <1>3, <2>1, <2>4 DEF IInv, Counting, Types
  <2>6. /\ noted["compute"] = compute
        /\ noted["insert"] = IF ~answered /\ "insert" = place THEN insert + 1 ELSE insert
        /\ noted["batch"] = IF ~answered /\ "batch" = place THEN many + 1 ELSE many
        /\ noted["usage"] = IF ~answered /\ "usage" = place THEN usage + 1 ELSE usage
    BY <1>18, <2>4 DEF Places
  <2>7. /\ place = "usage" <=> logged = n
        /\ place = "batch" <=> logged # n /\ batch
        /\ place = "insert" <=> logged # n /\ ~batch
    OBVIOUS
  <2> HIDE DEF place
  <2>9. /\ mem'.ok = IF batch /\ logged < n THEN mem.ok ELSE mem.ok + 1
        /\ mem'.errors = IF answered THEN mem.errors ELSE mem.errors + 1
        /\ mem'.predictions = mem.predictions + (IF n <= logged + 1 THEN n ELSE logged + 1)
    BY <1>6
  <2>10. n \in Nat /\ logged \in Nat /\ logged <= n /\ c \in Nat
    BY <2>1
  <2> HIDE DEF noted
  <2>8. /\ mem'.predictions = c + logged + noted["insert"] + noted["batch"]
        /\ mem'.ok = replies' + noted["insert"] + noted["usage"]
        /\ mem'.errors = noted["compute"] + noted["insert"] + noted["batch"] + noted["usage"]
    <3>1. CASE answered
      <4>1. logged = n /\ replies' = replies + 1
        BY <1>2, <3>1
      <4> QED
        BY <2>5, <2>6, <2>9, <2>10, <3>1, <4>1
    <3>2. CASE ~answered /\ logged = n
      <4>1. replies' = replies
        BY <1>2, <3>2
      <4> QED
        BY <2>5, <2>6, <2>7, <2>9, <2>10, <3>2, <4>1
    <3>3. CASE ~answered /\ logged # n
      <4>1. replies' = replies /\ logged < n /\ logged + 1 <= n
        BY <1>2, <2>10, <3>3
      <4>2. mem'.predictions = mem.predictions + logged + 1
        BY <2>5, <2>9, <2>10, <4>1
      <4> QED
        BY <2>5, <2>6, <2>7, <2>9, <2>10, <3>3, <4>1, <4>2
    <3> QED
      BY <3>1, <3>2, <3>3
  <2> QED
    BY <1>6, <2>3, <2>8 DEF Counting
<1>15. DriftOfRecentRun'
  <2>1. mem'.drift = mem.drift /\ mem'.since = mem.since
    BY <1>6
  <2>2. CASE mem.drift = <<>>
    BY <2>1, <2>2 DEF DriftOfRecentRun
  <2>3. CASE mem.drift # <<>>
    <3> DEFINE d == mem.drift
    <3>1. /\ Len(d) \in MinSamples .. BufMax
          /\ \A i \in DOMAIN d : d[i] = d[1] + i - 1
          /\ mem.since < d[1] /\ d[Len(d)] <= records
      BY <2>3 DEF IInv, DriftOfRecentRun
    <3>2. d \in Seq(Nat)
      BY <1>4 DEF Memory
    <3>3. d[Len(d)] \in Nat
      <4>1. Len(d) \in 1 .. Len(d)
        BY <3>1, Sizes
      <4> QED
        BY <3>2, <4>1
    <3>4. d[Len(d)] <= records'
      BY <1>4, <1>8, <3>1, <3>3
    <3> HIDE DEF d
    <3>5. mem'.drift = d
      BY <2>1 DEF d
    <3> QED
      BY <2>1, <3>1, <3>4, <3>5 DEF DriftOfRecentRun
  <2> QED
    BY <2>2, <2>3
<1>16. AlertHasReason'
  BY <1>6 DEF IInv, AlertHasReason
<1>17. Matching'
  <2> SUFFICES ASSUME NEW i \in matched
               PROVE  log'[i].actual # NoActual /\ saved'[i].actual # NoActual
    BY <1>2 DEF Matching
  <2>1. i \in 1 .. Len(log) /\ log[i].actual # NoActual /\ saved[i].actual # NoActual
    BY <1>3 DEF IInv, Matching, Types
  <2>2. log'[i] = log[i]
    BY <1>10, <1>11, <2>1
  <2> QED
    BY <1>2, <2>1, <2>2
<1> QED
  BY <1>7, <1>13, <1>14, <1>15, <1>16, <1>17 DEF IInv

\* Every handler, a restart and the clock keep the invariant.
LEMMA Inductive == IInv /\ [Next]_vars => IInv'
<1> SUFFICES ASSUME IInv, [Next]_vars
             PROVE  IInv'
  OBVIOUS
<1>1. ASSUME NEW hour \in Hours, NEW logged \in {0, 1}, NEW answered \in BOOLEAN,
             Predict(FALSE, <<hour>>, logged, answered)
      PROVE  IInv'
  <2>1. PICK n \in Nat \ {0} : n = 1
    OBVIOUS
  <2>2. PICK hours \in [1 .. n -> Hours] : hours = <<hour>>
    <3>1. <<hour>> \in [1 .. 1 -> Hours]
      OBVIOUS
    <3> QED
      BY <2>1, <3>1
  <2>3. logged \in 0 .. n
    BY <2>1
  <2>4. Predict(FALSE, hours, logged, answered)
    BY <1>1, <2>2
  <2> QED
    BY <2>3, <2>4, StepPredict
<1>2. ASSUME NEW n \in BatchSizes, NEW hours \in [1 .. n -> Hours],
             NEW logged \in 0 .. n, NEW answered \in BOOLEAN,
             Predict(TRUE, hours, logged, answered)
      PROVE  IInv'
  <2>1. n \in Nat \ {0}
    BY MonitoringAssumption
  <2> QED
    BY <1>2, <2>1, StepPredict
<1>3. CASE ComputeFails
  BY <1>3, StepComputeFails
<1>4. ASSUME NEW items \in Submissions, SubmitActuals(items) \/ SubmissionFails(items)
      PROVE  IInv'
  BY <1>4, StepSubmitActuals, StepSubmissionFails
<1>5. ASSUME NEW days \in Windows, Quality(days)
      PROVE  IInv'
  BY <1>5, StepQuality
<1>6. CASE Drift
  BY <1>6, StepDrift
<1>7. CASE Restart
  BY <1>7, StepRestart
<1>8. CASE NextDay
  BY <1>8, StepNextDay
<1>9. CASE UNCHANGED vars
  BY <1>9 DEF vars, IInv, Types, Sampling, Counting, DriftOfRecentRun, AlertHasReason, Matching
<1> QED
  BY <1>1, <1>2, <1>3, <1>4, <1>5, <1>6, <1>7, <1>8, <1>9 DEF Next

\* The invariant holds of every execution.
THEOREM Invariance == Spec => []IInv
BY InitIInv, Inductive, PTL DEF Spec

-----------------------------------------------------------------------------
(* The properties.                                                         *)

\* Every variable keeps its type, and the server's rows differ from the
\* committed ones in actuals only, whatever requests fail.
THEOREM TypeCorrect == Spec => []TypeOK
<1>1. IInv => TypeOK
  <2> SUFFICES ASSUME IInv
               PROVE  TypeOK
    OBVIOUS
  <2>1. log \in Seq(LogRow) /\ DOMAIN log = 1 .. Len(log)
    BY DEF IInv, Types
  <2>2. \A i \in DOMAIN log : log[i].actual \in Errors \cup {NoActual}
    <3>1. \A i \in DOMAIN log : log[i] \in LogRow
      BY <2>1
    <3> QED
      BY <3>1 DEF LogRow
  <2>3. mem.detector \in Detectors /\ mem.alert \in BOOLEAN
    BY DEF IInv, Types, Memory
  <2> QED
    BY <2>1, <2>2, <2>3 DEF IInv, Types, TypeOK
<1> QED
  BY <1>1, Invariance, PTL

\* CountersOff: the counters exceed the logged predictions and the answered
\* requests by exactly the requests that failed after they were counted.
THEOREM CountersAlwaysOff == Spec => []CountersOff
<1>1. IInv => CountersOff
  <2> SUFFICES ASSUME IInv
               PROVE  CountersOff
    OBVIOUS
  <2>1. DOMAIN log = 1 .. Len(log)
    BY DEF IInv, Types
  <2>2. LoggedHere = Here(log, mem.since)
    BY <2>1 DEF LoggedHere, Here
  <2> QED
    BY <2>2 DEF IInv, Counting, CountersOff
<1> QED
  BY <1>1, Invariance, PTL

\* No logged prediction of this process is missing from the drift sample unless
\* maxlen later ones are in it (DriftDetector.add, called before the INSERT).
THEOREM LoggedAlwaysSampled == Spec => []LoggedAreSampled
<1>1. IInv => LoggedAreSampled
  <2> SUFFICES ASSUME IInv, mem.detector # "none", NEW i \in LoggedHere
               PROVE  \/ log[i].record \in Range(mem.buffer)
                      \/ BufMax = Cardinality({r \in Range(mem.buffer) : r > log[i].record})
    BY DEF LoggedAreSampled
  <2> DEFINE size == IF records - mem.since <= BufMax THEN records - mem.since ELSE BufMax
             run == Latest(mem.since, records)
             own == log[i].record
  <2>1. mem.since \in Nat /\ records \in Nat /\ mem.since <= records
    BY DEF IInv, Types, Memory
  <2>2. own \in Nat /\ own > mem.since /\ own <= records
    <3>1. i \in 1 .. Len(log) /\ log[i] \in LogRow
      BY DEF LoggedHere, IInv, Types
    <3> QED
      BY <3>1 DEF LoggedHere, IInv, Types, LogRow
  <2>3. size \in 0 .. BufMax /\ Range(run) = records - size + 1 .. records
    BY <2>1, LatestRun
  <2>4. mem.buffer = run
    BY DEF IInv, Sampling
  <2>5. size = BufMax \/ size = records - mem.since
    OBVIOUS
  <2> HIDE DEF size, run, own
  <2>6. CASE own > records - size
    BY <2>1, <2>2, <2>3, <2>4, <2>6 DEF own
  <2>7. CASE ~(own > records - size)
    <3>1. size = BufMax
      BY <2>1, <2>2, <2>3, <2>5, <2>7
    <3>2. {r \in Range(run) : r > own} = records - size + 1 .. records
      BY <2>1, <2>2, <2>3, <2>7
    <3>3. PICK a \in Int : a = records - size + 1
      BY <2>1, <2>3
    <3>4. Cardinality(a .. records) = IF a > records THEN 0 ELSE records - a + 1
      BY <2>1, FS_Interval
    <3>5. Cardinality(a .. records) = size
      BY <2>1, <2>3, <3>3, <3>4
    <3> QED
      BY <2>4, <3>1, <3>2, <3>3, <3>5 DEF own
  <2> QED
    BY <2>1, <2>2, <2>3, <2>6, <2>7
<1> QED
  BY <1>1, Invariance, PTL

\* The drift gauges are always of a run of consecutive predictions of this
\* process, of min_samples to maxlen of them (compute_drift).
THEOREM DriftAlwaysOfRecentRun == Spec => []DriftOfRecentRun
<1>1. IInv => DriftOfRecentRun
  BY DEF IInv
<1> QED
  BY <1>1, Invariance, PTL

\* The alert gauge is never 1 beside an error gauge within the limit, though a
\* report of too few pairs, or one whose drift computation raises, sets one of
\* the two (GET /monitoring/quality).
THEOREM AlertAlwaysHasReason == Spec => []AlertHasReason
<1>1. IInv => AlertHasReason
  BY DEF IInv
<1> QED
  BY <1>1, Invariance, PTL

\* A quality report counts every matched number of its window, unless a later
\* item made it NaN, and none older, whatever other submissions failed and however
\* often the server restarted (submit_actuals, compute_quality).
THEOREM ReportsCountMatched == Spec => ReportCountsMatched
<1> DEFINE Counts ==
             mem'.mae # mem.mae /\ mem'.mae.pairs # {} =>
                \E days \in Windows :
                   /\ {i \in matched : log[i].day + days >= today} \subseteq mem'.mae.pairs
                   /\ \A i \in mem'.mae.pairs : log[i].day + days >= today
<1>1. IInv /\ [Next]_vars => [Counts]_vars
  <2> SUFFICES ASSUME IInv, Next, mem'.mae # mem.mae, mem'.mae.pairs # {}
               PROVE  \E days \in Windows :
                         /\ {i \in matched : log[i].day + days >= today} \subseteq mem'.mae.pairs
                         /\ \A i \in mem'.mae.pairs : log[i].day + days >= today
    OBVIOUS
  <2>1. mem \in Memory /\ log \in Seq(LogRow) /\ today \in Nat
    BY Sizes DEF IInv, Types
  <2>2. \E days \in Windows : Quality(days)
    <3>1. ASSUME NEW batch, NEW hours, NEW logged, NEW answered,
                 Predict(batch, hours, logged, answered)
          PROVE  FALSE
      <4> DEFINE c == Counted(batch, Len(hours), logged, answered)
                 m(p) == Noted(c, p, answered)
      <4>1. /\ c.mae = mem.mae
            /\ \A b : [c EXCEPT !.buffer = b].mae = c.mae
            /\ \A p : /\ [c EXCEPT !.failed[p] = @ + 1].mae = c.mae
                      /\ \A b : [[c EXCEPT !.failed[p] = @ + 1] EXCEPT !.buffer = b].mae = c.mae
        BY <2>1 DEF Counted, Memory
      <4>2. PICK new, p : mem' = Sampled(m(p), new, answered)
        BY <3>1 DEF Predict
      <4> HIDE DEF c
      <4>3. m(p).mae = mem.mae /\ \A b : [m(p) EXCEPT !.buffer = b].mae = m(p).mae
        BY <4>1 DEF Noted
      <4> HIDE DEF m
      <4>4. mem'.mae = m(p).mae
        BY <4>2, <4>3 DEF Sampled
      <4> QED
        BY <4>3, <4>4
    <3>2. ~ComputeFails /\ ~Drift
      BY <2>1 DEF ComputeFails, Drift, Memory
    <3>3. ~Restart
      BY DEF Restart, Fresh
    <3>4. ~NextDay /\ ~\E items \in Submissions : SubmitActuals(items) \/ SubmissionFails(items)
      BY DEF NextDay, SubmitActuals, SubmissionFails
    <3> QED
      BY <3>1, <3>2, <3>3, <3>4 DEF Next
  <2>3. PICK days \in Windows : Quality(days)
    BY <2>2
  <2>4. mem'.mae.pairs = Pairs(days)
    <3> DEFINE enough == Cardinality(Pairs(days)) >= Required
               over == enough /\ Over(Pairs(days))
    <3>1. mem'.mae = IF enough THEN [pairs |-> Pairs(days), over |-> over] ELSE mem.mae
      BY <2>1, <2>3 DEF Quality, Memory
    <3> HIDE DEF over, enough
    <3> QED
      BY <3>1
  <2>5. days \in Nat
    BY MonitoringAssumption
  <2>6. ASSUME NEW i \in 1 .. Len(log)
        PROVE  InWindow(log[i], days) <=> log[i].day + days >= today
    <3>1. log[i] \in LogRow
      BY <2>1
    <3>2. log[i].day \in Nat
      BY <3>1, Sizes DEF LogRow
    <3> QED
      BY <2>1, <2>5, <3>2 DEF InWindow
  <2>7. \A i \in matched : i \in 1 .. Len(log) /\ log[i].actual # NoActual
    BY DEF IInv, Types, Matching
  <2>8. Pairs(days) = {i \in 1 .. Len(log) : log[i].actual # NoActual /\ InWindow(log[i], days)}
    BY <2>1 DEF Pairs
  <2> QED
    BY <2>4, <2>6, <2>7, <2>8
<1> QED
  BY <1>1, Invariance, PTL DEF Spec, ReportCountsMatched
====
