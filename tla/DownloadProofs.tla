---- MODULE DownloadProofs ----
(***************************************************************************)
(* Proofs about Download, for every number of months and files and every    *)
(* adapter.                                                                 *)
(*                                                                          *)
(* What a run leaves behind it is known only together with where it is: no  *)
(* .tmp file behind its place (NoTmpBehind), a zip under every extracted CSV*)
(* (ZipFirst), and the CSVs of a month all there or none, the month being   *)
(* extracted excepted (Extracted).                                          *)
(***************************************************************************)
EXTENDS Download, TLAPS

\* A file the adapter fetches; citibike extracts the others.
Fetched(f) == f[2] = 0 \/ adapter # "citibike"

\* The files a run has passed.
Behind(f) == f[1] < month \/ (f[1] = month /\ f[2] < part)

Types ==
    /\ adapter \in Adapters
    /\ disk \in [Files -> Contents] /\ tmp \in [Files -> Contents]
    /\ at \in {"idle", "file", "fetch", "rename", "extract", "done"}
    /\ month \in 1 .. Months + 1 /\ part \in 0 .. Parts
    /\ grid \subseteq DataFiles
    /\ cut \in BOOLEAN

\* Where the run is.
Placed ==
    /\ Running => month <= Months /\ FirstPart <= part
    /\ at = "done" => month = Months + 1
    /\ at \in {"fetch", "rename"} => Fetched(Current) /\ disk[Current] = "absent"
    /\ at = "rename" => tmp[Current] = "complete"
    /\ at = "extract" => ~Fetched(Current) /\ disk[Current] = "partial"

\* A .tmp file stands for a file still to be fetched, here or ahead.
NoTmpBehind ==
    \A f \in Files : tmp[f] # "absent" =>
        /\ disk[f] = "absent"
        /\ FirstPart <= f[2] /\ Fetched(f)
        /\ at # "idle" => ~Behind(f)

\* A CSV comes out of a zip that stays.
ZipFirst ==
    adapter = "citibike" =>
        /\ \A f \in DataFiles : Exists(f) => Exists(<<f[1], 0>>)
        /\ Running /\ part > 0 => Exists(<<month, 0>>)

Whole(m) ==
    \/ \A f \in DataOf(m) : disk[f] = "absent"
    \/ \A f \in DataOf(m) : disk[f] = "complete"

\* Of the month being extracted, the CSVs before the current one are written.
UpToHere ==
    \A f \in DataOf(month) :
        disk[f] = IF f[2] < part THEN "complete"
                  ELSE IF f[2] = part /\ at = "extract" THEN "partial" ELSE "absent"

Extracted ==
    adapter = "citibike" /\ ~cut =>
        \A m \in 1 .. Months :
            IF Running /\ month = m /\ part > 0 THEN UpToHere ELSE Whole(m)

IInv ==
    /\ Types
    /\ Placed
    /\ NoTmpBehind
    /\ ZipFirst
    /\ Extracted
    /\ FetchedFilesWhole
    /\ GridFromAllData

-----------------------------------------------------------------------------

\* Paths are pairs of a month and a part.
LEMMA Paths ==
    /\ \A f \in Files : f[1] \in 1 .. Months /\ f[2] \in 0 .. Parts /\ f = <<f[1], f[2]>>
    /\ \A m \in 1 .. Months, p \in 0 .. Parts : <<m, p>> \in Files
    /\ \A f \in DataFiles : f \in Files /\ f[2] > 0
    /\ \A f \in Files : f[2] > 0 => f \in DataFiles
    /\ \A m \in 1 .. Months, p \in 1 .. Parts : <<m, p>> \in DataOf(m)
    /\ Months \in Nat \ {0} /\ Parts \in Nat \ {0}
BY LayoutPositive DEF Files, DataFiles, DataOf

\* The adapter names the first part it looks for.
LEMMA FirstParts ==
    ASSUME Types
    PROVE  /\ FirstPart \in 0 .. Parts /\ adapter \in {"direct", "citibike"}
           /\ adapter = "citibike" <=> FirstPart = 0
           /\ FirstPart \in {0, 1}
BY AdaptersKnown, Paths DEF Types, FirstPart

\* A run moves to the next file of its month, to the first of the next month,
\* or is done; it passes the current file and nothing that is fetched besides.
LEMMA Moves ==
    ASSUME Types, month <= Months, FirstPart <= part, NextFile, UNCHANGED adapter
    PROVE  /\ month' \in 1 .. Months + 1 /\ part' \in 0 .. Parts
           /\ at' \in {"file", "done"}
           /\ at' = "done" => month' = Months + 1
           /\ at' = "file" => month' <= Months /\ FirstPart' <= part'
           /\ FirstPart' = FirstPart
           /\ \/ part < Parts /\ part' = part + 1 /\ month' = month /\ at' = "file"
              \/ part = Parts /\ part' = FirstPart /\ month' = month + 1
           /\ \A f \in Files : Behind(f)' => Behind(f) \/ f = Current \/ f[2] < FirstPart
<1>1. /\ month \in 1 .. Months /\ part \in 0 .. Parts /\ Months \in Nat /\ Parts \in Nat
      /\ FirstPart' = FirstPart /\ FirstPart \in 0 .. Parts
  BY Paths, FirstParts DEF Types, FirstPart
<1>2. CASE part < Parts
  <2>1. part' = part + 1 /\ month' = month /\ at' = "file"
    BY <1>2 DEF NextFile
  <2>2. \A f \in Files : Behind(f)' => Behind(f) \/ f = Current
    BY <1>1, <2>1, Paths DEF Behind, Current
  <2> QED
    BY <1>1, <1>2, <2>1, <2>2
<1>3. CASE ~(part < Parts)
  <2>1. part' = FirstPart /\ month' = month + 1 /\ part = Parts
        /\ at' = IF month + 1 > Months THEN "done" ELSE "file"
    BY <1>1, <1>3 DEF NextFile, ToMonth
  <2>2. \A f \in Files : Behind(f)' => Behind(f) \/ f = Current \/ f[2] < FirstPart
    BY <1>1, <2>1, Paths DEF Behind, Current
  <2> QED
    BY <1>1, <1>3, <2>1, <2>2
<1> QED
  BY <1>2, <1>3

\* A run that is under way works on a file of a configured month.
LEMMA Here ==
    ASSUME IInv, Running
    PROVE  /\ Current \in Files /\ Current[1] = month /\ Current[2] = part
           /\ month \in 1 .. Months /\ part \in 0 .. Parts /\ FirstPart <= part
           /\ Fetched(Current) <=> part = 0 \/ adapter # "citibike"
           /\ ~Behind(Current)
BY Paths DEF IInv, Types, Placed, Current, Fetched, Behind

\* Types and the place of the run.
LEMMA StepPlaced ==
    ASSUME IInv, [Next]_vars
    PROVE  Types' /\ Placed'
<1> USE DEF IInv
<1>1. Types /\ Placed
  OBVIOUS
<1>2. ASSUME Start
      PROVE  Types' /\ Placed'
  BY <1>1, <1>2, Paths, FirstParts
     DEF Start, Types, Placed, ToMonth, Running, FirstPart, Contents
<1>3. ASSUME SkipMonth
      PROVE  Types' /\ Placed'
  BY <1>1, <1>3, Paths, FirstParts, Here
     DEF SkipMonth, Types, Placed, ToMonth, Running, FirstPart, Contents
<1>4. ASSUME SkipFile
      PROVE  Types' /\ Placed'
  BY <1>1, <1>4, Paths, Moves, Here
     DEF SkipFile, Types, Placed, Running
<1>5. ASSUME BeginFetch
      PROVE  Types' /\ Placed'
  BY <1>1, <1>5, Paths, FirstParts, Here
     DEF BeginFetch, Stay, Types, Placed, Running, ToFetch, Fetched, Current, Exists, Contents, FirstPart
<1>6. ASSUME EndFetch
      PROVE  Types' /\ Placed'
  BY <1>1, <1>6, Paths, Here
     DEF EndFetch, Stay, Types, Placed, Running, Fetched, Current, Contents, FirstPart
<1>7. ASSUME Publish
      PROVE  Types' /\ Placed'
  BY <1>1, <1>7, Paths, Moves, Here
     DEF Publish, Types, Placed, Running, Contents
<1>8. ASSUME FetchFails
      PROVE  Types' /\ Placed'
  BY <1>1, <1>8, Paths, Here
     DEF FetchFails, Stay, Types, Placed, Running, Contents
<1>9. ASSUME OpenCsv
      PROVE  Types' /\ Placed'
  BY <1>1, <1>9, Paths, Here
     DEF OpenCsv, Stay, Types, Placed, Running, Fetched, Current, Contents, FirstPart
<1>10. ASSUME WriteCsv
      PROVE  Types' /\ Placed'
  BY <1>1, <1>10, Paths, Moves, Here
     DEF WriteCsv, Types, Placed, Running, Contents
<1>11. ASSUME Kill
      PROVE  Types' /\ Placed'
  BY <1>1, <1>11 DEF Kill, Stay, Types, Placed, Running, Extracting
<1>12. ASSUME Prepare
      PROVE  Types' /\ Placed'
  <2>1. Found \subseteq DataFiles
    BY DEF Found
  <2> QED
    BY <1>1, <1>12, <2>1 DEF Prepare, Types, Placed, Running
<1>13. CASE UNCHANGED vars
  BY <1>1, <1>13 DEF vars, Types, Placed, Running, Fetched, Current, FirstPart
<1> QED
  BY <1>2, <1>3, <1>4, <1>5, <1>6, <1>7, <1>8, <1>9, <1>10, <1>11, <1>12, <1>13 DEF Next

\* What a step does to the disk: it publishes a whole .tmp file, opens a CSV
\* that is not there, or completes the CSV it has opened.
LEMMA DiskSteps ==
    ASSUME IInv, [Next]_vars
    PROVE  /\ adapter' = adapter
           /\ \A f \in Files : disk'[f] = disk[f] \/
                 /\ Running /\ f = Current
                 /\ \/ at = "rename" /\ disk'[f] = "complete"
                    \/ at = "file" /\ part > 0 /\ disk[f] = "absent" /\ disk'[f] = "partial"
                       /\ adapter = "citibike"
                    \/ at = "extract" /\ disk[f] = "partial" /\ disk'[f] = "complete"
           /\ \A f \in Files : tmp'[f] = tmp[f] \/
                 (Running /\ f = Current /\ disk[f] = "absent" /\ Fetched(f))
<1>1. Types /\ Placed
  BY DEF IInv
<1>2. CASE Publish
  BY <1>1, <1>2, Here, Paths DEF Publish, Types, Placed, Running
<1>3. CASE OpenCsv
  BY <1>1, <1>3, Here, Paths DEF OpenCsv, Types, Placed, Running, Exists
<1>4. CASE WriteCsv
  BY <1>1, <1>4, Here, Paths DEF WriteCsv, Types, Placed, Running
<1>5. CASE BeginFetch
  <2>1. Fetched(Current) /\ disk[Current] = "absent"
    BY <1>1, <1>5, Here DEF BeginFetch, ToFetch, FirstPart, Exists, Running
  <2> QED
    BY <1>1, <1>5, <2>1, Here DEF BeginFetch, Types, Running
<1>6. CASE EndFetch \/ FetchFails
  BY <1>1, <1>6, Here DEF EndFetch, FetchFails, Types, Placed, Running
<1>7. CASE Start \/ SkipMonth \/ SkipFile \/ Kill \/ Prepare \/ UNCHANGED vars
  BY <1>7 DEF Start, SkipMonth, SkipFile, Kill, Prepare, vars
<1> QED
  BY <1>2, <1>3, <1>4, <1>5, <1>6, <1>7 DEF Next

\* A fetched file appears under its name only by a rename of a complete one.
LEMMA StepFetchedFilesWhole ==
    ASSUME IInv, [Next]_vars
    PROVE  FetchedFilesWhole'
<1> SUFFICES ASSUME NEW f \in Files, f[2] = 0 \/ adapter' # "citibike"
             PROVE  disk'[f] # "partial"
  BY DEF FetchedFilesWhole
<1>1. disk[f] # "partial" /\ adapter' = adapter
  BY DiskSteps DEF IInv, FetchedFilesWhole
<1> QED
  BY <1>1, DiskSteps, Here, Paths

\* No step removes or cuts off a complete file.
LEMMA StepCompleteFilesStay ==
    ASSUME IInv, [Next]_vars
    PROVE  \A f \in Files : disk[f] = "complete" => disk'[f] = "complete"
BY DiskSteps

\* A .tmp file that is left behind is at the run's place or ahead.
LEMMA StepNoTmpBehind ==
    ASSUME IInv, [Next]_vars
    PROVE  NoTmpBehind'
<1> SUFFICES ASSUME NEW f \in Files, tmp'[f] # "absent"
             PROVE  /\ disk'[f] = "absent" /\ FirstPart' <= f[2] /\ Fetched(f)'
                    /\ at' # "idle" => ~(Behind(f)')
  BY DEF NoTmpBehind
<1>1. /\ Types /\ Placed /\ NoTmpBehind
      /\ adapter' = adapter /\ FirstPart' = FirstPart /\ (Fetched(f)' <=> Fetched(f))
  BY DiskSteps DEF IInv, FirstPart, Fetched
<1>2. f[1] \in 1 .. Months /\ f[2] \in 0 .. Parts /\ FirstPart \in {0, 1} /\ FirstPart \in 0 .. Parts
  BY <1>1, Paths, FirstParts
<1>3. CASE Start
  <2>1. tmp[f] # "absent" /\ month' = 1 /\ part' = FirstPart /\ disk' = disk
    BY <1>3 DEF Start, ToMonth
  <2> QED
    BY <1>1, <1>2, <2>1 DEF NoTmpBehind, Behind
<1>4. CASE SkipMonth
  <2>1. /\ tmp[f] # "absent" /\ month' = month + 1 /\ part' = 0 /\ disk' = disk
        /\ part = 0 /\ Exists(<<month, 0>>) /\ month \in 1 .. Months /\ adapter = "citibike"
        /\ at # "idle"
    BY <1>4, Here DEF SkipMonth, ToMonth, FirstPart, Running, IInv, ZipFirst, DataOf, Exists
  <2>2. f[2] = 0 /\ f # <<month, 0>> /\ ~Behind(f)
    BY <1>1, <2>1 DEF NoTmpBehind, Fetched, Exists
  <2> QED
    BY <1>1, <1>2, <2>1, <2>2, Paths DEF NoTmpBehind, Behind
<1>5. CASE SkipFile
  <2>1. /\ tmp[f] # "absent" /\ disk' = disk /\ f # Current /\ at # "idle"
        /\ NextFile /\ month <= Months /\ FirstPart <= part
    BY <1>1, <1>5, Here DEF SkipFile, Exists, NoTmpBehind, Running
  <2> QED
    BY <1>1, <1>2, <2>1, Moves DEF NoTmpBehind
<1>6. CASE BeginFetch \/ EndFetch
  <2>1. /\ month' = month /\ part' = part /\ disk' = disk /\ at # "idle" /\ Running
    BY <1>6 DEF BeginFetch, EndFetch, Stay, Running
  <2>2. CASE f = Current
    <3>1. Fetched(f) /\ disk[f] = "absent" /\ FirstPart <= f[2]
      BY <1>1, <1>6, <2>1, <2>2, Here
         DEF BeginFetch, EndFetch, ToFetch, Exists, FirstPart, Placed
    <3> QED
      BY <1>1, <2>1, <2>2, <3>1, Here DEF Behind
  <2>3. CASE f # Current
    <3>1. tmp'[f] = tmp[f]
      BY <2>3, DiskSteps
    <3> QED
      BY <1>1, <2>1, <3>1 DEF NoTmpBehind, Behind
  <2> QED
    BY <2>2, <2>3
<1>7. CASE Publish
  <2>1. /\ Running /\ NextFile /\ month <= Months /\ FirstPart <= part
    BY <1>1, <1>7, Here DEF Publish, Running
  <2>2. f # Current
    BY <1>1, <1>7 DEF Publish, Types
  <2>3. tmp'[f] = tmp[f] /\ disk'[f] = disk[f]
    BY <2>2, DiskSteps
  <2> QED
    BY <1>1, <1>2, <2>1, <2>2, <2>3, Moves DEF NoTmpBehind, Running
<1>8. CASE FetchFails
  <2>1. f # Current /\ at' = "idle" /\ disk' = disk
    BY <1>1, <1>8 DEF FetchFails, Types, Stay
  <2> QED
    BY <1>1, <2>1, DiskSteps DEF NoTmpBehind
<1>9. CASE OpenCsv
  <2>1. /\ tmp[f] # "absent" /\ month' = month /\ part' = part /\ at # "idle" /\ Running
        /\ adapter = "citibike" /\ part > 0
    BY <1>9 DEF OpenCsv, Stay, Running
  <2>2. f # Current
    BY <1>1, <2>1, Here DEF NoTmpBehind
  <2> QED
    BY <1>1, <2>1, <2>2, DiskSteps DEF NoTmpBehind, Behind
<1>10. CASE WriteCsv
  <2>1. /\ tmp[f] # "absent" /\ NextFile /\ month <= Months /\ FirstPart <= part /\ Running
        /\ ~Fetched(Current)
    BY <1>1, <1>10, Here DEF WriteCsv, Running, Placed
  <2>2. f # Current /\ disk'[f] = disk[f]
    BY <1>1, <2>1, DiskSteps DEF NoTmpBehind
  <2> QED
    BY <1>1, <1>2, <2>1, <2>2, Moves DEF NoTmpBehind, Running
<1>11. CASE Kill \/ Prepare \/ UNCHANGED vars
  BY <1>1, <1>11 DEF Kill, Stay, Prepare, vars, NoTmpBehind, Behind, Running
<1> QED
  BY <1>3, <1>4, <1>5, <1>6, <1>7, <1>8, <1>9, <1>10, <1>11 DEF Next

\* No step opens a CSV of a month whose zip is not there.
LEMMA StepZipFirst ==
    ASSUME IInv, [Next]_vars
    PROVE  ZipFirst'
<1>1. /\ Types /\ Placed /\ ZipFirst /\ adapter' = adapter
      /\ \A f \in Files : Exists(f) => Exists(f)'
  BY DiskSteps DEF IInv, Exists
<1> SUFFICES ASSUME adapter = "citibike"
             PROVE  /\ \A f \in DataFiles : Exists(f)' => Exists(<<f[1], 0>>)'
                    /\ Running' /\ part' > 0 => Exists(<<month, 0>>)'
  BY <1>1 DEF ZipFirst, Exists
<1>2. FirstPart = 0 /\ Months \in Nat /\ Parts \in Nat \ {0}
  BY Paths DEF FirstPart
<1>3. ASSUME NEW f \in DataFiles, Exists(f)'
      PROVE  Exists(<<f[1], 0>>)'
  <2>1. <<f[1], 0>> \in Files /\ f \in Files /\ f = <<f[1], f[2]>>
    BY <1>2, Paths
  <2>2. CASE disk'[f] = disk[f]
    BY <1>1, <1>3, <2>1, <2>2 DEF ZipFirst, Exists
  <2>3. CASE disk'[f] # disk[f] /\ at = "rename"
    <3>1. f = Current /\ Running
      BY <2>1, <2>3, DiskSteps
    <3>2. part = 0
      BY <1>1, <2>3, <3>1, Here DEF Placed, Fetched
    <3> QED
      BY <3>1, <3>2, Here, Paths
  <2>4. CASE disk'[f] # disk[f] /\ at # "rename"
    <3>1. f = Current /\ Running /\ part > 0
      BY <1>1, <2>1, <2>4, DiskSteps, Here, Paths
    <3> QED
      BY <1>1, <2>1, <3>1, Here DEF ZipFirst
  <2> QED
    BY <2>2, <2>3, <2>4
<1>4. ASSUME Running', part' > 0
      PROVE  Exists(<<month, 0>>)'
  <2>1. ASSUME NextFile, Running
        PROVE  month' = month /\ month' \in 1 .. Months /\ part = part' - 1
    BY <1>1, <1>2, <1>4, <2>1, Moves, Here
  <2>2. CASE Start \/ SkipMonth
    BY <1>2, <1>4, <2>2 DEF Start, SkipMonth, ToMonth, FirstPart
  <2>3. CASE SkipFile
    <3>1. Exists(<<month, 0>>) /\ <<month, 0>> \in Files
      BY <1>1, <1>2, <2>1, <2>3, Here, Paths DEF SkipFile, Running, ZipFirst, Current
    <3> QED
      BY <1>1, <2>1, <2>3, <3>1 DEF SkipFile, Running
  <2>4. CASE Publish
    <3>1. Fetched(Current) /\ Current = <<month, 0>> /\ month' = month
      BY <1>1, <1>2, <2>1, <2>4, Here DEF Publish, Running, Placed, Fetched, Current
    <3> QED
      BY <1>1, <2>4, <3>1, Here DEF Publish, Running, Placed, Types, Exists
  <2>5. CASE WriteCsv
    <3>1. Exists(<<month, 0>>) /\ <<month, 0>> \in Files
      BY <1>1, <1>2, <2>1, <2>5, Here, Paths DEF WriteCsv, Running, ZipFirst, Placed, Fetched
    <3> QED
      BY <1>1, <2>1, <2>5, <3>1 DEF WriteCsv, Running
  <2>6. CASE BeginFetch \/ EndFetch \/ FetchFails \/ OpenCsv \/ Kill \/ Prepare \/ UNCHANGED vars
    <3>1. Running /\ month' = month /\ part' = part
      BY <1>4, <2>6 DEF BeginFetch, EndFetch, FetchFails, OpenCsv, Kill, Prepare, Stay, vars, Running
    <3>2. Exists(<<month, 0>>) /\ <<month, 0>> \in Files
      BY <1>1, <1>2, <1>4, <3>1, Here, Paths DEF ZipFirst
    <3> QED
      BY <1>1, <3>1, <3>2
  <2> QED
    BY <2>2, <2>3, <2>4, <2>5, <2>6 DEF Next
<1> QED
  BY <1>3, <1>4

\* Until a run is killed in the middle of a zip, the CSVs of a month are all
\* there or none; those of the month being extracted are written in order.
LEMMA StepExtracted ==
    ASSUME IInv, [Next]_vars
    PROVE  Extracted'
<1> SUFFICES ASSUME adapter' = "citibike", ~cut', NEW m \in 1 .. Months
             PROVE  IF Running' /\ month' = m /\ part' > 0 THEN UpToHere' ELSE Whole(m)'
  BY DEF Extracted
<1>1. /\ Types /\ Placed /\ ZipFirst /\ adapter = "citibike"
      /\ Months \in Nat \ {0} /\ Parts \in Nat \ {0} /\ FirstPart = 0
  BY Paths, DiskSteps DEF IInv, FirstPart
<1>2. ~cut
  <2>1. cut \in BOOLEAN /\ (cut => cut')
    BY <1>1 DEF Types, Next, Start, SkipMonth, SkipFile, BeginFetch, EndFetch, Publish,
                FetchFails, OpenCsv, WriteCsv, Kill, Prepare, vars
  <2> QED
    BY <2>1
<1>3. \A k \in 1 .. Months :
          IF Running /\ month = k /\ part > 0 THEN UpToHere ELSE Whole(k)
  BY <1>1, <1>2 DEF IInv, Extracted
<1>4. \A k \in 1 .. Months : \A f \in DataOf(k) : f \in Files /\ f[1] = k /\ f[2] \in 1 .. Parts
  BY Paths DEF DataOf
<1>5. CASE Start \/ Prepare \/ UNCHANGED vars
  BY <1>1, <1>3, <1>5
     DEF Start, Prepare, vars, ToMonth, FirstPart, Whole, UpToHere, Running
<1>6. CASE SkipMonth
  BY <1>1, <1>3, <1>6 DEF SkipMonth, ToMonth, FirstPart, Whole, Running
<1>7. ASSUME Running, part = 0, month' = month, part' = 1, at' = "file",
             \A f \in DataOf(month) : disk[f] = "absent" /\ disk'[f] = "absent",
             \A f \in DataFiles : disk'[f] = disk[f]
      PROVE  IF Running' /\ month' = m /\ part' > 0 THEN UpToHere' ELSE Whole(m)'
  <2>1. CASE month = m
    BY <1>4, <1>7, <2>1 DEF UpToHere, Running
  <2>2. CASE month # m
    BY <1>3, <1>7, <2>2 DEF Whole, DataOf
  <2> QED
    BY <2>1, <2>2
<1>8. CASE SkipFile
  <2>1. Running /\ NextFile /\ disk' = disk /\ at = "file" /\ Exists(Current)
    BY <1>8 DEF SkipFile, Running
  <2>2. part = 0
    <3> SUFFICES ASSUME part # 0 PROVE FALSE
      OBVIOUS
    <3>1. UpToHere /\ Current \in DataOf(month)
      BY <1>3, <2>1, Here, Paths DEF Current
    <3> QED
      BY <2>1, <3>1, Here DEF UpToHere, Exists
  <2>3. \A f \in DataOf(month) : disk[f] = "absent"
    BY <1>8, <2>2 DEF SkipFile, Exists
  <2>4. part' = 1 /\ month' = month /\ at' = "file"
    BY <1>1, <2>1, <2>2 DEF NextFile
  <2> QED
    BY <1>7, <2>1, <2>2, <2>3, <2>4
<1>9. CASE Publish
  <2>1. Running /\ NextFile /\ at = "rename" /\ Fetched(Current) /\ disk[Current] = "absent"
    BY <1>1, <1>9 DEF Publish, Running, Placed
  <2>2. part = 0 /\ Current = <<month, 0>>
    BY <1>1, <2>1, Here DEF Current
  <2>3. \A f \in DataFiles : disk'[f] = disk[f]
    BY <2>2, DiskSteps, Paths
  <2>4. \A f \in DataOf(month) : disk[f] = "absent"
    BY <1>1, <2>1, <2>2, Paths DEF ZipFirst, Exists, DataOf
  <2>5. part' = 1 /\ month' = month /\ at' = "file"
    BY <1>1, <2>1, <2>2 DEF NextFile
  <2> QED
    BY <1>7, <2>1, <2>2, <2>3, <2>4, <2>5 DEF DataOf
<1>10. CASE BeginFetch \/ EndFetch \/ FetchFails
  <2>1. Running /\ part = 0 /\ disk' = disk /\ part' = 0 /\ month' = month
    BY <1>1, <1>10, Here
       DEF BeginFetch, EndFetch, FetchFails, ToFetch, Stay, Running, Placed
  <2> QED
    BY <1>3, <2>1 DEF Whole
<1>11. CASE OpenCsv
  <2>1. /\ Running /\ part > 0 /\ at' = "extract" /\ month' = month /\ part' = part
        /\ disk' = [disk EXCEPT ![Current] = "partial"] /\ at = "file"
    BY <1>11 DEF OpenCsv, Stay, Running
  <2>2. Current \in Files /\ Current = <<month, part>> /\ disk \in [Files -> Contents]
    BY <1>1, <2>1, Here DEF Current, Types
  <2>3. CASE month = m
    <3>1. UpToHere
      BY <1>3, <2>1, <2>3
    <3>2. \A f \in DataOf(month) : f[2] = part => f = Current
      BY <1>4, <2>2, Paths DEF DataOf
    <3> QED
      BY <1>4, <2>1, <2>2, <2>3, <3>1, <3>2, Here DEF UpToHere, Running
  <2>4. CASE month # m
    BY <1>3, <1>4, <2>1, <2>2, <2>4 DEF Whole
  <2> QED
    BY <2>3, <2>4
<1>12. CASE WriteCsv
  <2>1. /\ Running /\ NextFile /\ at = "extract" /\ part > 0
        /\ disk' = [disk EXCEPT ![Current] = "complete"]
    BY <1>1, <1>12, Here DEF WriteCsv, Running, Placed
  <2>2. /\ Current \in Files /\ Current = <<month, part>> /\ disk \in [Files -> Contents]
        /\ month \in 1 .. Months /\ part \in 0 .. Parts
    BY <1>1, <2>1, Here DEF Current, Types
  <2>3. UpToHere
    BY <1>3, <2>1, <2>2
  <2>4. \A f \in DataOf(month) : disk'[f] = IF f[2] < part + 1 THEN "complete" ELSE "absent"
    BY <1>4, <2>1, <2>2, <2>3, Paths DEF UpToHere
  <2>5. \A k \in 1 .. Months \ {month} : \A f \in DataOf(k) : disk'[f] = disk[f]
    BY <1>4, <2>1, <2>2
  <2>6. CASE part < Parts
    <3>1. part' = part + 1 /\ month' = month /\ at' = "file"
      BY <2>1, <2>6 DEF NextFile
    <3>2. CASE month = m
      <4>1. UpToHere'
        BY <2>4, <3>1 DEF UpToHere
      <4>2. Running' /\ month' = m /\ part' > 0
        BY <2>2, <3>1, <3>2 DEF Running
      <4> QED
        BY <4>1, <4>2
    <3>3. CASE month # m
      BY <1>3, <2>5, <3>1, <3>3 DEF Whole
    <3> QED
      BY <3>2, <3>3
  <2>7. CASE ~(part < Parts)
    <3>1. part' = 0 /\ month' = month + 1
      BY <1>1, <2>1, <2>7 DEF NextFile, ToMonth
    <3>2. CASE month = m
      BY <1>1, <1>4, <2>2, <2>4, <2>7, <3>1, <3>2 DEF Whole
    <3>3. CASE month # m
      BY <1>3, <2>5, <3>1, <3>3 DEF Whole
    <3> QED
      BY <3>2, <3>3
  <2> QED
    BY <2>6, <2>7
<1>13. CASE Kill
  <2>1. Running /\ ~Extracting /\ at' = "idle" /\ disk' = disk
    BY <1>13 DEF Kill, Stay
  <2>2. CASE month = m /\ part > 0
    <3>1. UpToHere /\ part = 1 /\ at # "extract"
      <4>1. at = "file"
        BY <1>1, <2>1, <2>2, Here DEF Extracting, Placed, Running, Types
      <4> QED
        BY <1>1, <1>3, <2>1, <2>2, <4>1, Here DEF Extracting
    <3> QED
      BY <1>4, <2>1, <2>2, <3>1 DEF UpToHere, Whole, Running
  <2>3. CASE ~(month = m /\ part > 0)
    BY <1>3, <2>1, <2>3 DEF Whole, Running
  <2> QED
    BY <2>2, <2>3
<1> QED
  BY <1>5, <1>6, <1>8, <1>9, <1>10, <1>11, <1>12, <1>13 DEF Next

\* What prepare finds, once every extraction came to its end, is every file.
LEMMA FoundIsAll ==
    ASSUME IInv, ~Running, Found # {}, ~cut
    PROVE  \A f \in DataFiles : f \in Found /\ disk[f] = "complete"
<1>1. Types /\ FetchedFilesWhole /\ adapter \in {"direct", "citibike"}
  BY FirstParts DEF IInv
<1>2. CASE adapter = "citibike"
  <2>1. \A m \in 1 .. Months : Whole(m)
    BY <1>2 DEF IInv, Extracted
  <2>2. ASSUME NEW f \in DataFiles
        PROVE  disk[f] = "complete"
    <3>1. f \in DataOf(f[1]) /\ f[1] \in 1 .. Months
      BY Paths DEF DataOf
    <3>2. PICK g \in DataOf(f[1]) : Exists(g)
      BY <3>1, <2>2, Paths DEF Found, DataOf
    <3> QED
      BY <2>1, <3>1, <3>2 DEF Whole, Exists
  <2>3. \A m \in 1 .. Months : \E f \in DataOf(m) : Exists(f)
    <3> SUFFICES ASSUME NEW m \in 1 .. Months
                 PROVE  \E f \in DataOf(m) : Exists(f)
      OBVIOUS
    <3>1. <<m, 1>> \in DataOf(m) /\ <<m, 1>> \in DataFiles
      BY Paths DEF DataOf
    <3> QED
      BY <2>2, <3>1 DEF Exists
  <2> QED
    BY <1>2, <2>2, <2>3 DEF Found, Exists
<1>3. CASE adapter # "citibike"
  <2>1. Found = DataFiles /\ \A f \in DataFiles : Exists(f)
    BY <1>3 DEF Found
  <2> QED
    BY <1>1, <1>3, <2>1, Paths DEF FetchedFilesWhole, Exists, Types, Contents
<1> QED
  BY <1>2, <1>3

\* The grid is built from what prepare found, and complete files stay.
LEMMA StepGridFromAllData ==
    ASSUME IInv, [Next]_vars
    PROVE  GridFromAllData'
<1>1. CASE Prepare
  <2>1. grid' = Found /\ disk' = disk /\ ~Running /\ Found # {} /\ cut' = cut
    BY <1>1 DEF Prepare
  <2> QED
    BY <2>1, FoundIsAll DEF GridFromAllData, AllData
<1>2. CASE ~Prepare
  <2>1. grid' = grid /\ (cut => cut')
    BY <1>2 DEF IInv, Types, Next, Start, SkipMonth, SkipFile, BeginFetch, EndFetch, Publish,
                FetchFails, OpenCsv, WriteCsv, Kill, vars
  <2>2. \A f \in DataFiles : disk[f] = "complete" => disk'[f] = "complete"
    BY StepCompleteFilesStay, Paths
  <2> QED
    BY <2>1, <2>2 DEF IInv, GridFromAllData, AllData
<1> QED
  BY <1>1, <1>2

\* Nothing is downloaded yet.
LEMMA InitIInv == Init => IInv
<1> SUFFICES ASSUME Init PROVE IInv
  OBVIOUS
<1>1. Types
  <2>1. 1 \in 1 .. Months + 1 /\ 0 \in 0 .. Parts
    BY Paths
  <2>2. "absent" \in Contents /\ "idle" \in {"idle", "file", "fetch", "rename", "extract", "done"}
    BY DEF Contents
  <2> QED
    BY <2>1, <2>2 DEF Init, Types
<1>2. Placed /\ NoTmpBehind /\ ZipFirst
  BY Paths DEF Init, Placed, NoTmpBehind, ZipFirst, Running, Exists
<1>3. Extracted /\ FetchedFilesWhole /\ GridFromAllData
  BY Paths DEF Init, Extracted, FetchedFilesWhole, GridFromAllData, Running, Whole, DataOf
<1> QED
  BY <1>1, <1>2, <1>3 DEF IInv

\* The invariant holds in every reachable state.
LEMMA Inductive == Spec => []IInv
<1>1. IInv /\ [Next]_vars => IInv'
  BY StepPlaced, StepNoTmpBehind, StepZipFirst, StepExtracted, StepFetchedFilesWhole,
     StepGridFromAllData DEF IInv
<1> QED
  BY <1>1, InitIInv, PTL DEF Spec

-----------------------------------------------------------------------------

\* Type correctness, for every adapter, number of months and of files a month;
\* a rename finds a whole .tmp file.
THEOREM TypeCorrect == Spec => []TypeOK
<1>1. IInv => TypeOK
  BY DEF IInv, Types, Placed, TypeOK
<1> QED
  BY <1>1, Inductive, PTL

\* Only complete files are visible under the name of a fetched file.
THEOREM FetchedFilesAreWhole == Spec => []FetchedFilesWhole
<1>1. IInv => FetchedFilesWhole
  BY DEF IInv
<1> QED
  BY <1>1, Inductive, PTL

\* A download that ends well leaves no .tmp file of any run before it: what is
\* left of one lies ahead of every later run until that run passes it.
THEOREM NoTmpAfterSuccess == Spec => []SuccessLeavesNoTmp
<1>1. IInv => SuccessLeavesNoTmp
  <2> SUFFICES ASSUME IInv, at = "done", NEW f \in Files
               PROVE  tmp[f] = "absent"
    BY DEF SuccessLeavesNoTmp
  <2>1. Behind(f)
    BY Paths DEF IInv, Placed, Behind
  <2> QED
    BY <2>1 DEF IInv, NoTmpBehind
<1> QED
  BY <1>1, Inductive, PTL

\* Repeated, failing and killed downloads never touch a complete file.
THEOREM CompleteFilesAlwaysStay == Spec => CompleteFilesStay
<1>1. IInv /\ [Next]_vars =>
        [\A f \in Files : disk[f] = "complete" => disk'[f] = "complete"]_vars
  BY StepCompleteFilesStay
<1> QED
  BY <1>1, Inductive, PTL DEF Spec, CompleteFilesStay

\* Unless an extraction was cut short, every grid has all the data of every
\* configured month.
THEOREM GridHasAllData == Spec => []GridFromAllData
<1>1. IInv => GridFromAllData
  BY DEF IInv
<1> QED
  BY <1>1, Inductive, PTL
====
