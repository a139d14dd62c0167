---- MODULE Grid ----
(***************************************************************************)
(* From trips to features: the hourly grid that the adapters build, the     *)
(* lags and rolling mean that engineer_features adds for training, and the  *)
(* same features as FeatureService rebuilds them for a request.             *)
(*                                                                          *)
(* Hour 0 is the first of the grid; Outside stands for trips before or after*)
(* it.  A rolling mean is the counts it is the mean of, by how many hours   *)
(* before they are.  The calendar features are left out: both sides take    *)
(* them from hour_ts alone.  Fares and distances are not features.          *)
(***************************************************************************)
EXTENDS Integers, FiniteSets, FiniteSetsExt, Functions

CONSTANTS
    Adapters,       \* "taxi", "station" (tfl and citibike)
    Zones,          \* zone or station ids
    Names,          \* names a station may appear under
    LastHour,       \* the grid has the hours 0 .. LastHour
    Lags,           \* features.lag_hours
    RollWindow,     \* features.rolling_windows has this one
    TrainStart,     \* split.train_start
    TrainEnd,       \* split.train_end
    ValEnd,         \* split.val_end
    TestEnd,        \* split.test_end
    MaxTrips        \* bound on the trips in the raw files

ASSUME AdaptersKnown == Adapters \subseteq {"taxi", "station"}
ASSUME HoursNatural ==
    /\ LastHour \in Nat /\ MaxTrips \in Nat /\ RollWindow \in Nat \ {0}
    /\ Lags \subseteq Nat \ {0} /\ Lags # {}
    /\ {TrainStart, TrainEnd, ValEnd, TestEnd} \subseteq Nat
\* In every file of configs/ the months before train_start are a warm-up.
ASSUME WarmUp == \A reach \in Lags \cup {RollWindow} : reach <= TrainStart

\* So that no split is empty; every test_end is the hour after the grid's last.
ASSUME SplitsInOrder ==
    TrainStart < TrainEnd /\ TrainEnd < ValEnd /\ ValEnd < TestEnd /\ TestEnd = LastHour + 1

VARIABLES
    adapter,        \* the adapter in use
    trips,          \* trips[c]: trips of zone, name and hour c in the raw files
    stage,          \* how far the pipeline has come
    history,        \* hourly_history.parquet: its rows
    features,       \* features.parquet: its rows
    lookup          \* FeatureService._lookup

vars == <<adapter, trips, stage, history, features, lookup>>

Hours == 0 .. LastHour
Outside == LastHour + 1
Cells == Zones \X Names \X (Hours \cup {Outside})
Stages == {"collect", "prepared", "engineered", "serving"}

\* The k-th trip of a cell is the pair of the cell and k.
TripsOf(cells) == {ck \in cells \X (1 .. MaxTrips) : ck[2] <= trips[ck[1]]}
TripsIn(cells) == Cardinality(TripsOf(cells))

Init ==
    /\ adapter \in Adapters
    /\ trips = [c \in Cells |-> 0]
    /\ stage = "collect"
    /\ history = {}
    /\ features = {}
    /\ lookup = <<>>

\* A row of a raw file that survives _parse_csv, or the filters of taxi.
Trip(c) ==
    /\ stage = "collect"
    /\ TripsIn(Cells) < MaxTrips
    /\ adapter = "taxi" => c[3] # Outside
    /\ trips' = [trips EXCEPT ![c] = @ + 1]
    /\ UNCHANGED <<adapter, stage, history, features, lookup>>

\* The zone universe: every zone with a trip, in the grid's hours or not.
Universe == {c[1] : c \in {d \in Cells : trips[d] > 0}}

\* taxi counts by zone and hour; the others by zone, name and hour.
Groups == IF adapter = "taxi" THEN {Names} ELSE {{n} : n \in Names}

Row(z, group, h, n) == [zone |-> z, group |-> group, hour |-> h, count |-> n]

Counted(z, h) ==
    {Row(z, g, h, TripsIn({z} \X g \X {h})) : g \in Groups} \ {Row(z, g, h, 0) : g \in Groups}

\* LEFT JOIN of zones x hours with the counts; an hour without gets a zero row.
MutantDensified(z, h) ==
    IF Counted(z, h) = {} THEN {Row(z, {}, h, 0)} ELSE {CHOOSE r \in Counted(z, h) : TRUE}
Densified(z, h) ==
    IF Counted(z, h) = {} THEN {Row(z, {}, h, 0)} ELSE Counted(z, h)

\* prepare_hourly_history; with no trip at all there is nothing to build.
Prepare ==
    /\ stage = "collect"
    /\ Universe # {}
    /\ history' = UNION {Densified(z, h) : z \in Universe, h \in Hours}
    /\ stage' = "prepared"
    /\ UNCHANGED <<adapter, trips, features, lookup>>

\* dbt_demandops over the same trips: int_zone_hour_agg has a row for every zone
\* and hour with a trip in range; int_zone_hour_dense crosses its zones with all
\* hours and fills the counts in; mart_training_features adds calendar columns.
Agg ==
    {[zone |-> zh[1], hour |-> zh[2], count |-> TripsIn({zh[1]} \X Names \X {zh[2]})] :
        zh \in {c \in Zones \X Hours : TripsIn({c[1]} \X Names \X {c[2]}) > 0}}

Coalesced(z, h) == Max({0} \cup {a.count : a \in {b \in Agg : b.zone = z /\ b.hour = h}})

\* generate_hour_spine; generate_series includes its last hour.
MutantHourSpine == 0 .. LastHour - 1
HourSpine == 0 .. LastHour

Mart ==
    {[zone |-> z, hour |-> h, count |-> Coalesced(z, h)] :
        z \in {a.zone : a \in Agg}, h \in HourSpine}

RowsAt(z, h) == {r \in history : r.zone = z /\ r.hour = h}

\* Nothing orders two rows of one zone and hour, in the file or by a sort.
Ties == {zh \in Universe \X Hours : Cardinality(RowsAt(zh[1], zh[2])) > 1}
Orders == [Ties -> Bijection(Groups, 1 .. Cardinality(Groups))]

Before(rank, r, s) ==
    \/ r.hour < s.hour
    \/ r.hour = s.hour /\ r # s /\ rank[<<r.zone, r.hour>>][r.group] < rank[<<r.zone, r.hour>>][s.group]

RowsOf(z) == {r \in history : r.zone = z}

\* The rows of a zone as engineer_features sorts them: the i-th has i - 1 before.
SortedRows(z, rank) ==
    [i \in 1 .. Cardinality(RowsOf(z)) |->
        CHOOSE r \in RowsOf(z) : Cardinality({s \in RowsOf(z) : Before(rank, s, r)}) = i - 1]

\* shift(lag) counts rows, not hours.
MutantShifted(q, i, lag) == q[i - lag + 1].count
Shifted(q, i, lag) == q[i - lag].count

\* shift(1), then the mean of the last RollWindow rows.
RollingMean(q, i) == [k \in 1 .. RollWindow |-> Shifted(q, i, k)]

Features(lags, mean) == [lags |-> lags, mean |-> mean]

\* Warm-up rows are dropped, and rows whose shift reaches before the first.
MutantKept(q, i) == \A reach \in Lags \cup {RollWindow} : reach < i
Kept(q, i) ==
    /\ q[i].hour >= TrainStart
    /\ \A reach \in Lags \cup {RollWindow} : reach < i

FeatureRows(q) ==
    {[row |-> q[i], is |-> Features([l \in Lags |-> Shifted(q, i, l)], RollingMean(q, i))] :
        i \in {j \in DOMAIN q : Kept(q, j)}}

Engineer ==
    /\ stage = "prepared"
    /\ \E rank \in Orders :
          features' = UNION {FeatureRows(SortedRows(z, rank)) : z \in Universe}
    /\ stage' = "engineered"
    /\ UNCHANGED <<adapter, trips, history, lookup>>

\* FeatureService: the last row of a zone and hour in the file wins.
LoadHistory ==
    /\ stage = "engineered"
    /\ \E rank \in Orders :
          lookup' = [zh \in Universe \X Hours |->
                        (CHOOSE r \in RowsAt(zh[1], zh[2]) :
                            \A s \in RowsAt(zh[1], zh[2]) \ {r} : Before(rank, s, r)).count]
    /\ stage' = "serving"
    /\ UNCHANGED <<adapter, trips, history, features>>

Next ==
    \/ \E c \in Cells : Trip(c)
    \/ Prepare \/ Engineer \/ LoadHistory

Spec == Init /\ [][Next]_vars

\* temporal_split: half-open, train and validation share a bound, and so on.
Between(rows, from, to) == {f \in rows : f.row.hour >= from /\ f.row.hour < to}

Splits(rows) ==
    {Between(rows, TrainStart, TrainEnd), Between(rows, TrainEnd, ValEnd), Between(rows, ValEnd, TestEnd)}

\* get_features, for an hour of the supported range.
Supported == Universe \X (TrainStart .. LastHour)

Looked(z, h) == {<<z, h>>} \cap DOMAIN lookup
CountOr0(z, h) == IF Looked(z, h) # {} THEN lookup[<<z, h>>] ELSE 0

MutantOffsets == 0 .. RollWindow - 1
Offsets == 1 .. RollWindow

GetFeatures(z, h) ==
    LET found == {k \in Offsets : Looked(z, h - k) # {}}
    IN  Features([l \in Lags |-> CountOr0(z, h - l)], [k \in found |-> CountOr0(z, h - k)])

-----------------------------------------------------------------------------

\* Every variable has its type, and training rows begin at train_start.
TypeOK ==
    /\ adapter \in Adapters /\ stage \in Stages
    /\ trips \in [Cells -> 0 .. MaxTrips]
    /\ history \subseteq [zone : Zones, group : Groups \cup {{}}, hour : Hours,
                          count : 0 .. MaxTrips]
    /\ \A f \in features : f.row \in history /\ f.row.hour >= TrainStart
    /\ stage = "serving" => lookup \in [Universe \X Hours -> 0 .. MaxTrips]

TripsAt(z, h) == TripsIn({z} \X Names \X {h})

\* The sum of the counts of some rows.
Total(rows) == Cardinality({rk \in rows \X (1 .. MaxTrips) : rk[2] <= rk[1].count})

\* The grid neither loses a trip nor counts one twice, for stations that
\* appear under several names too (group_by, LEFT JOIN and COALESCE).
TripsCounted ==
    stage # "collect" =>
        \A z \in Universe, h \in Hours : Total(RowsAt(z, h)) = TripsAt(z, h)

OneRowAnHour(z) == \A h \in Hours : Cardinality(RowsAt(z, h)) = 1

\* What the features of zone z at hour h are meant to be.
PastOf(z, h) ==
    Features([l \in Lags |-> TripsAt(z, h - l)], [k \in 1 .. RollWindow |-> TripsAt(z, h - k)])

RowsOfHour(z, h) == {f \in features : f.row.zone = z /\ f.row.hour = h}

\* n is the count of another row of the same zone, of the same hour or of up to
\* k hours before.
RecentCount(row, k, n) ==
    \E r \in RowsOf(row.zone) \ {row} :
        r.hour \in row.hour - k .. row.hour /\ r.count = n

\* The features of every training row are counts of other rows of its own zone,
\* none later than its hour nor further back than its lag: no leakage from the
\* target, from the future or from the zone next to it in the sorted frame
\* (engineer_features).  In a zone with one row an hour they are the trips so
\* many hours before, exactly; with two rows they may be those of another hour,
\* its own included (see IdenticalLagFeatures).
FeaturesFromThePast ==
    stage \in {"engineered", "serving"} =>
        /\ \A f \in features :
              /\ \A l \in Lags : RecentCount(f.row, l, f.is.lags[l])
              /\ \A k \in 1 .. RollWindow : RecentCount(f.row, k, f.is.mean[k])
        /\ \A zh \in Supported :
              OneRowAnHour(zh[1]) =>
                  \A f \in RowsOfHour(zh[1], zh[2]) : f.is = PastOf(zh[1], zh[2])

\* For every full hour of the supported range, in a zone with one row an hour (a
\* taxi zone, or a station that keeps its name), there is one training row, in
\* one of the three splits, and FeatureService answers with the features of that
\* row: "no gaps, no overlaps" (splits.py).
ServedAsTrained ==
    stage = "serving" =>
        \A zh \in Supported :
            LET rows == RowsOfHour(zh[1], zh[2])
            IN  OneRowAnHour(zh[1]) =>
                    /\ {f.is : f \in rows} = {GetFeatures(zh[1], zh[2])}
                    /\ Cardinality({s \in Splits(features) : rows \subseteq s}) = 1

\* "FeatureService reconstructs identical lag features at inference time"
\* (README.md), "ensuring train-serve parity" (feature_service.py): of whatever
\* zone, since "every (zone_id, hour_ts) pair has exactly one row" (README.md).
IdenticalLagFeatures ==
    stage = "serving" =>
        \A zh \in Supported : \A f \in RowsOfHour(zh[1], zh[2]) : f.is = GetFeatures(zh[1], zh[2])

\* "The dbt mart produces the same dense zone x hour grid as prepare.py"
\* (DECISIONS.md): the two take their zones, and the zero rows of an hour
\* without trips, from different tables.
MartIsGrid ==
    adapter = "taxi" /\ stage # "collect" =>
        Mart = {[zone |-> r.zone, hour |-> r.hour, count |-> r.count] : r \in history}
====
