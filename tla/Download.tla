---- MODULE Download ----
(***************************************************************************)
(* The download step of the pipeline (demandops/data/adapters) and what the *)
(* prepare step then finds in raw_dir.  taxi and tfl fetch every file of a  *)
(* month under its own name; citibike fetches one zip per month and extracts*)
(* its CSVs, or skips the month when it sees any CSV of it.  A fetch goes to*)
(* a .tmp file that is renamed when complete.                               *)
(*                                                                          *)
(* One download runs at a time; prepare runs when none does.  A run may     *)
(* fail or be killed between any two effects on the disk.                   *)
(***************************************************************************)
EXTENDS Naturals, FiniteSets

CONSTANTS
    Adapters,       \* adapters the configuration may name
    Months,         \* months 1 .. Months are configured
    Parts           \* files of a month (CSVs of a zip)

ASSUME AdaptersKnown == Adapters \subseteq {"direct", "citibike"}
ASSUME LayoutPositive == Months \in Nat \ {0} /\ Parts \in Nat \ {0}

VARIABLES
    adapter,        \* the adapter in use
    disk,           \* disk[f]: what is at the path of file f
    tmp,            \* tmp[f]: what is at its .tmp path
    at,             \* the next statement of the running download
    month,          \* the month and the part it works on
    part,
    grid,           \* history: files the last successful prepare was built from
    cut             \* history: a run ended while it was extracting a zip

vars == <<adapter, disk, tmp, at, month, part, grid, cut>>

\* <<m, 0>> is the zip of month m, <<m, p>> its p-th data file.
Files == (1 .. Months) \X (0 .. Parts)
DataFiles == (1 .. Months) \X (1 .. Parts)
Contents == {"absent", "partial", "complete"}

Current == <<month, part>>
Exists(f) == disk[f] # "absent"
DataOf(m) == {f \in DataFiles : f[1] = m}
Running == at \notin {"idle", "done"}

Init ==
    /\ adapter \in Adapters
    /\ disk = [f \in Files |-> "absent"]
    /\ tmp = [f \in Files |-> "absent"]
    /\ at = "idle" /\ month = 1 /\ part = 0
    /\ grid = {}
    /\ cut = FALSE

FirstPart == IF adapter = "citibike" THEN 0 ELSE 1

ToMonth(m) ==
    /\ month' = m
    /\ part' = FirstPart
    /\ at' = IF m > Months THEN "done" ELSE "file"

\* On to the next file of the month or, after the last, to the next month.
NextFile ==
    IF part < Parts
    THEN at' = "file" /\ part' = part + 1 /\ UNCHANGED month
    ELSE ToMonth(month + 1)

Stay(next) == at' = next /\ UNCHANGED <<month, part>>

Start ==
    /\ ~Running
    /\ ToMonth(1)
    /\ UNCHANGED <<adapter, disk, tmp, grid, cut>>

\* citibike skips a month when the glob finds any of its CSVs...
SkipMonth ==
    /\ at = "file" /\ adapter = "citibike" /\ part = 0
    /\ \E f \in DataOf(month) : Exists(f)
    /\ ToMonth(month + 1)
    /\ UNCHANGED <<adapter, disk, tmp, grid, cut>>

\* ... and otherwise its zip when there is one.  Any adapter skips a file that
\* exists.
SkipFile ==
    /\ at = "file"
    /\ Exists(Current)
    /\ part = 0 => \A f \in DataOf(month) : ~Exists(f)
    /\ NextFile
    /\ UNCHANGED <<adapter, disk, tmp, grid, cut>>

\* A file to fetch: the zip, or a data file of the other adapters.
ToFetch == part = FirstPart \/ adapter # "citibike"

\* urlretrieve opens the .tmp file for writing, whatever an earlier run left.
MutantFetchInPlace ==
    /\ at = "file"
    /\ ~Exists(Current)
    /\ ToFetch
    /\ part = 0 => \A f \in DataOf(month) : ~Exists(f)
    /\ disk' = [disk EXCEPT ![Current] = "partial"]
    /\ Stay("fetch")
    /\ UNCHANGED <<adapter, tmp, grid, cut>>
MutantRefetch ==
    /\ at = "file"
    /\ ToFetch
    /\ disk' = [disk EXCEPT ![Current] = "partial"]
    /\ Stay("fetch")
    /\ UNCHANGED <<adapter, tmp, grid, cut>>
BeginFetch ==
    /\ at = "file"
    /\ ~Exists(Current)
    /\ ToFetch
    /\ part = 0 => \A f \in DataOf(month) : ~Exists(f)
    /\ tmp' = [tmp EXCEPT ![Current] = "partial"]
    /\ Stay("fetch")
    /\ UNCHANGED <<adapter, disk, grid, cut>>

\* All bytes arrived; a short answer raises ContentTooShortError instead.
MutantEndFetch ==
    /\ at = "fetch"
    /\ Stay("rename")
    /\ UNCHANGED <<adapter, disk, tmp, grid, cut>>
EndFetch ==
    /\ at = "fetch"
    /\ tmp' = [tmp EXCEPT ![Current] = "complete"]
    /\ Stay("rename")
    /\ UNCHANGED <<adapter, disk, grid, cut>>

MutantPublish ==
    /\ at = "rename"
    /\ disk' = [disk EXCEPT ![Current] = tmp[Current]]
    /\ NextFile
    /\ UNCHANGED <<adapter, tmp, grid, cut>>
Publish ==
    /\ at = "rename"
    /\ disk' = [disk EXCEPT ![Current] = tmp[Current]]
    /\ tmp' = [tmp EXCEPT ![Current] = "absent"]
    /\ NextFile
    /\ UNCHANGED <<adapter, grid, cut>>

\* Any exception of the fetch or the rename removes the .tmp file and ends the
\* run.
FetchFails ==
    /\ at \in {"fetch", "rename"}
    /\ tmp' = [tmp EXCEPT ![Current] = "absent"]
    /\ Stay("idle")
    /\ UNCHANGED <<adapter, disk, grid, cut>>

\* _extract_csvs opens the CSV under its own name and then writes it.
OpenCsv ==
    /\ at = "file" /\ adapter = "citibike" /\ part > 0
    /\ ~Exists(Current)
    /\ disk' = [disk EXCEPT ![Current] = "partial"]
    /\ Stay("extract")
    /\ UNCHANGED <<adapter, tmp, grid, cut>>

WriteCsv ==
    /\ at = "extract"
    /\ disk' = [disk EXCEPT ![Current] = "complete"]
    /\ NextFile
    /\ UNCHANGED <<adapter, tmp, grid, cut>>

\* _extract_csvs has opened a CSV of the month and has not written all of them.
Extracting == at = "extract" \/ (at = "file" /\ adapter = "citibike" /\ part > 1)

\* The process is killed, or an exception that nothing handles ends it.
Kill ==
    /\ Running
    /\ Stay("idle")
    /\ cut' = (cut \/ Extracting)
    /\ UNCHANGED <<adapter, disk, tmp, grid>>

\* What prepare_hourly_history reads: citibike the CSVs it finds, at least one
\* a month; the others every file, by name.
MutantFound == {f \in DataFiles : Exists(f)}
Found ==
    IF adapter = "citibike" /\ \A m \in 1 .. Months : \E f \in DataOf(m) : Exists(f)
    THEN {f \in DataFiles : Exists(f)}
    ELSE IF \A f \in DataFiles : Exists(f) THEN DataFiles ELSE {}

\* prepare loads the raw files; it raises FileNotFoundError when it misses one.
Prepare ==
    /\ ~Running
    /\ Found # {}
    /\ grid' = Found
    /\ UNCHANGED <<adapter, disk, tmp, at, month, part, cut>>

Next ==
    \/ Start \/ SkipMonth \/ SkipFile
    \/ BeginFetch \/ EndFetch \/ Publish \/ FetchFails
    \/ OpenCsv \/ WriteCsv
    \/ Kill \/ Prepare

Spec == Init /\ [][Next]_vars

-----------------------------------------------------------------------------

\* Every variable has its type, and a rename finds a whole .tmp file.
TypeOK ==
    /\ adapter \in Adapters
    /\ disk \in [Files -> Contents] /\ tmp \in [Files -> Contents]
    /\ at \in {"idle", "file", "fetch", "rename", "extract", "done"}
    /\ month \in 1 .. Months + 1 /\ part \in 0 .. Parts
    /\ grid \subseteq DataFiles
    /\ at = "rename" => tmp[Current] = "complete"
    /\ at = "extract" => disk[Current] = "partial"

\* A fetched file is absent or complete at its own path at every moment,
\* through failures, kills and repeated runs (_atomic_download: "only complete
\* files are visible to the pipeline").
FetchedFilesWhole ==
    \A f \in Files : (f[2] = 0 \/ adapter # "citibike") => disk[f] # "partial"

\* A run that ends well leaves no .tmp file, not even one of an earlier run
\* that was killed ("interrupted downloads are cleaned up").
SuccessLeavesNoTmp == at = "done" => \A f \in Files : tmp[f] = "absent"

\* Repeating the download is harmless: a complete file is never opened again
\* (DatasetAdapter.download: "Idempotent -- skips existing files").
CompleteFilesStay ==
    [][\A f \in Files : disk[f] = "complete" => disk'[f] = "complete"]_vars

AllData == \A f \in DataFiles : f \in grid /\ disk[f] = "complete"

\* The grid is built from every file of every month, each complete, unless a
\* citibike extraction was cut short: no missing file becomes a month of zeros.
GridFromAllData == grid # {} /\ ~cut => AllData

\* The same with no reservation: "Missing files would corrupt the dense grid
\* with synthetic zeros" (prepare_hourly_history raises for them).
GridNeverPartial == grid # {} => AllData
====
