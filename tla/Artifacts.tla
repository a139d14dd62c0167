---- MODULE Artifacts ----
(***************************************************************************)
(* The files that prepare (demandops/data/prepare.py) and train             *)
(* (training/train.py) leave for the server, and the server's startup that  *)
(* loads them (serving/app.py, FeatureService).  Every file is written in   *)
(* place, one after the other; nothing ties the files of one run together.  *)
(*                                                                          *)
(* The two jobs run one at a time (make pipeline), each may fail or be      *)
(* killed anywhere; the server starts, crashes and restarts at any moment.  *)
(* A data file stands for the zones in it, the model, schema and reference  *)
(* files for the version of FEATURE_COLUMNS they were written with.         *)
(***************************************************************************)
EXTENDS Naturals, Sequences

CONSTANTS
    Datasets,       \* what prepare may find in the raw data: sets of zones
    MaxVersion,     \* FEATURE_COLUMNS has versions 1 .. MaxVersion
    Baselines,      \* models trained before lightgbm
    ModelNames,     \* serving.model_name: "lightgbm", "baseline"
    RefsPaths       \* artifacts.reference_distributions_path: "own" where train
                    \*   writes them, "default" where it is not configured

ASSUME ModelNamesKnown == ModelNames \subseteq {"lightgbm", "baseline"}
ASSUME RefsPathsKnown == RefsPaths \subseteq {"own", "default"}
ASSUME DatasetsNotEmpty == {} \notin Datasets
ASSUME VersionsPositive == MaxVersion \in Nat \ {0} /\ Baselines \in Nat

VARIABLES
    files,          \* files[f]: Missing, Torn or Whole(content)
    code,           \* version of FEATURE_COLUMNS deployed
    job,            \* the prepare or train run under way
    srv,            \* the server process
    whole,          \* history: kinds of job whose files are all of one run
    trained         \* history: the version of the last train to write them all

vars == <<files, code, job, srv, whole, trained>>

Kinds == {"prepare", "train"}
DataFiles == {"universe", "history", "features"}
FileNames == DataFiles \cup {"schema", "refs", "model"}
Versions == 1 .. MaxVersion

Missing == [is |-> "missing"]
Torn == [is |-> "torn"]
Whole(content) == [is |-> "whole", content |-> content]
IsWhole(f) == files[f].is = "whole"

NoJob == [kind |-> "none"]

Down == [at |-> "down"]

\* The process that an exception of its startup handler ended.
Failed == [at |-> "failed", sound |-> srv.sound, fresh |-> srv.fresh]

\* The drift detector: none, or the version of its reference distributions, or
\* those of another dataset.
None == 0
Foreign == MaxVersion + 1
Loading == {"history", "schema", "universe", "service", "model", "refs"}

Init ==
    /\ files = [f \in FileNames |-> Missing]
    /\ code = 1
    /\ job = NoJob
    /\ srv = Down
    /\ whole = {}
    /\ trained = 0

StartJob(kind, zones, todo, fits) ==
    /\ job = NoJob
    /\ job' = [kind |-> kind, zones |-> zones, version |-> code,
               todo |-> todo, open |-> FALSE, fits |-> fits]
    /\ UNCHANGED <<files, code, srv, whole, trained>>

\* prepare: the adapter has produced a history over some zones.
PrepareOrder == <<"universe", "history", "features">>
StartPrepare == \E zones \in Datasets : StartJob("prepare", zones, PrepareOrder, 0)

\* train_all: train_model once per configured model, lightgbm last.
StartTrain == StartJob("train", {}, <<>>, Baselines + 1)

\* train_model reads features.parquet, fits, and then saves the schema, the
\* reference distributions and, for lightgbm, the model.
MutantFit ==
    /\ job.kind = "train" /\ job.todo = <<>> /\ job.fits > 0
    /\ IsWhole("features")
    /\ job' = [job EXCEPT !.fits = @ - 1,
                          !.todo = IF job.fits = 1 THEN <<"schema", "model">> ELSE <<"schema">>]
    /\ UNCHANGED <<files, code, srv, whole, trained>>
Fit ==
    /\ job.kind = "train" /\ job.todo = <<>> /\ job.fits > 0
    /\ IsWhole("features")
    /\ job' = [job EXCEPT !.fits = @ - 1,
                          !.todo = <<"schema", "refs">>
                                   \o (IF job.fits = 1 THEN <<"model">> ELSE <<>>)]
    /\ UNCHANGED <<files, code, srv, whole, trained>>

Writing == job # NoJob /\ job.todo # <<>>

\* A server that is still loading may mix the files of two runs.
Unsettle(kind) ==
    IF srv.at \in Loading THEN [srv EXCEPT !.sound = @ \ {kind}] ELSE srv

\* A write truncates the file; the schemas of HourlyHistory and Features were
\* validated just before, or the run ended (Abort).
OpenFile ==
    /\ Writing /\ ~job.open
    /\ files' = [files EXCEPT ![Head(job.todo)] = Torn]
    /\ job' = [job EXCEPT !.open = TRUE]
    /\ whole' = whole \ {job.kind}
    /\ srv' = Unsettle(job.kind)
    /\ UNCHANGED <<code, trained>>

\* What is in the features is in Grid; here the file is there or not.
MutantContent(f) == CASE f = "universe" -> UNION Datasets
                      [] f = "history" -> job.zones
                      [] f = "features" -> None
                      [] OTHER -> job.version
Content(f) == CASE f \in {"universe", "history"} -> job.zones
                [] f = "features" -> None
                [] OTHER -> job.version

\* The last write of a run.
Completes == job.fits = 0 /\ Tail(job.todo) = <<>>

MutantFillFile ==
    /\ Writing /\ job.open
    /\ job' = [job EXCEPT !.open = FALSE, !.todo = Tail(@)]
    /\ whole' = IF Completes THEN whole \cup {job.kind} ELSE whole
    /\ trained' = IF Completes /\ job.kind = "train" THEN job.version ELSE trained
    /\ UNCHANGED <<files, code, srv>>
FillFile ==
    /\ Writing /\ job.open
    /\ files' = [files EXCEPT ![Head(job.todo)] = Whole(Content(Head(job.todo)))]
    /\ job' = [job EXCEPT !.open = FALSE, !.todo = Tail(@)]
    /\ whole' = IF Completes THEN whole \cup {job.kind} ELSE whole
    /\ trained' = IF Completes /\ job.kind = "train" THEN job.version ELSE trained
    /\ UNCHANGED <<code, srv>>

FinishJob ==
    /\ job # NoJob /\ job.todo = <<>> /\ job.fits = 0
    /\ job' = NoJob
    /\ UNCHANGED <<files, code, srv, whole, trained>>

\* A validation fails, a file cannot be read, MLflow raises, or the process is
\* killed.
Abort ==
    /\ job # NoJob
    /\ job' = NoJob
    /\ UNCHANGED <<files, code, srv, whole, trained>>

\* A release changes FEATURE_COLUMNS; running processes keep theirs.
Deploy ==
    /\ code < MaxVersion
    /\ code' = code + 1
    /\ UNCHANGED <<files, job, srv, whole, trained>>

-----------------------------------------------------------------------------

\* model 0 is no model, or a baseline that was never fitted.  History: sound,
\* the jobs whose files were of one run when it started, and which wrote none
\* since; fresh: both were, the train with this very code; own: the path of the
\* reference distributions is configured.
Boot ==
    /\ srv.at \in {"down", "failed"}
    /\ srv' = [at |-> "history", version |-> code,
               history |-> {}, schema |-> 0, universe |-> {}, service |-> FALSE,
               artifact |-> FALSE, model |-> 0, detector |-> None, own |-> FALSE,
               sound |-> whole, fresh |-> whole = Kinds /\ trained = code]
    /\ UNCHANGED <<files, code, job, whole, trained>>

Load(label, next) ==
    /\ srv.at = label
    /\ srv' = next
    /\ UNCHANGED <<files, code, job, whole, trained>>

\* FeatureService reads its three files; whatever it raises leaves no service.
ReadFile(f, next) ==
    Load(f, IF IsWhole(f)
            THEN [srv EXCEPT !.at = next, ![f] = files[f].content]
            ELSE [srv EXCEPT !.at = "service"])

ReadHistory == ReadFile("history", "schema")
ReadSchema == ReadFile("schema", "universe")
ReadUniverse == ReadFile("universe", "service")

\* The columns of the persisted schema must be FEATURE_COLUMNS.
MutantServiceReady == srv.universe # {}
ServiceReady == srv.universe # {} /\ srv.schema = srv.version

BuildService ==
    Load("service", IF ServiceReady
                    THEN [srv EXCEPT !.at = "model", !.service = TRUE]
                    ELSE [srv EXCEPT !.at = "model", !.history = {}, !.schema = 0,
                                     !.universe = {}])

\* lightgbm comes from its file; a missing or unreadable one is logged.  Any
\* other model is created, not fitted, and counts as loaded.
LoadLightgbm ==
    /\ "lightgbm" \in ModelNames
    /\ Load("model",
            IF IsWhole("model")
            THEN [srv EXCEPT !.at = "refs", !.artifact = TRUE, !.model = files["model"].content]
            ELSE [srv EXCEPT !.at = "refs"])

CreateBaseline ==
    /\ "baseline" \in ModelNames
    /\ Load("model", [srv EXCEPT !.at = "refs", !.artifact = TRUE])

\* Without reference distributions there is no drift detector; a torn file
\* raises out of the startup, and the server does not come up.
LoadOwnRefs ==
    /\ "own" \in RefsPaths
    /\ Load("refs",
            IF files["refs"] = Torn THEN Failed
            ELSE [srv EXCEPT !.at = "up", !.own = TRUE,
                             !.detector = IF IsWhole("refs") THEN files["refs"].content
                                          ELSE None])

\* tfl.yaml and citibike.yaml name no path: the server opens the file of the
\* taxi pipeline, if there is one.
LoadDefaultRefs ==
    /\ "default" \in RefsPaths
    /\ \E found \in {None, Foreign} : Load("refs", [srv EXCEPT !.at = "up", !.detector = found])

Crash ==
    /\ srv.at \notin {"down", "failed"}
    /\ srv' = Down
    /\ UNCHANGED <<files, code, job, whole, trained>>

Next ==
    \/ StartPrepare \/ StartTrain \/ Fit \/ OpenFile \/ FillFile
    \/ FinishJob \/ Abort \/ Deploy
    \/ Boot \/ ReadHistory \/ ReadSchema \/ ReadUniverse \/ BuildService
    \/ LoadLightgbm \/ CreateBaseline \/ LoadOwnRefs \/ LoadDefaultRefs \/ Crash

Spec == Init /\ [][Next]_vars

-----------------------------------------------------------------------------

Up == srv.at = "up"

\* GET /health: healthy, or degraded.
Healthy == Up /\ srv.service /\ srv.artifact

\* predict gets past the feature service for these zones only.
Served == IF Up /\ srv.service THEN srv.universe ELSE {}

Contents(f) == CASE f \in {"universe", "history"} -> Datasets
                 [] f = "features" -> {None}
                 [] OTHER -> Versions

\* Every variable has its type, and a torn file is the one being written or was
\* left by a run that ended before its last write.
TypeOK ==
    /\ \A f \in FileNames : files[f] \in {Missing, Torn} \cup {Whole(x) : x \in Contents(f)}
    /\ code \in Versions /\ trained \in 0 .. MaxVersion
    /\ whole \subseteq Kinds
    /\ job.kind \in Kinds \cup {"none"}
    /\ srv.at \in Loading \cup {"down", "failed", "up"}
    /\ \A f \in DataFiles : "prepare" \in whole => IsWhole(f)
    /\ \A f \in FileNames \ DataFiles : "train" \in whole => IsWhole(f)

\* The zones a server answers for are those it has history for, unless a prepare
\* run ended, or was at work while it loaded, between its first and its last
\* write (prepare, FeatureService: the zone universe is a contract between two
\* files, written one by one).
ServedZonesHaveHistory ==
    Up /\ "prepare" \in srv.sound => Served \subseteq srv.history

\* A healthy server, whose schema file has the deployed FEATURE_COLUMNS, has a
\* model trained with them (or a baseline), and a drift detector that knows them
\* when its path is configured, over any releases and failed runs: the check of
\* the one file stands in for checks of the other two.  Not so if a train run
\* ended, or was at work while the server loaded, between its first and its last
\* write; that exception is SchemaCheckCatches.
ModelMatchesColumns ==
    Healthy /\ "train" \in srv.sound =>
        /\ srv.model \in {0, srv.version}
        /\ srv.own => srv.detector = srv.version

\* The startup has ended, with a server or with an exception.
Started == srv.at \in {"up", "failed"}

\* After one prepare and one train with the deployed code, and until a job writes
\* again, no startup fails, every server is healthy, and it measures drift against
\* that train exactly when the path of the reference distributions is configured:
\* whatever failed, was torn or crashed before (graceful degradation ends).
FreshPipelineIsHealthy ==
    Started /\ srv.fresh /\ srv.sound = Kinds =>
        Healthy /\ (srv.own <=> srv.detector = srv.version)

\* "Computes drift metrics against training reference distributions"
\* (drift_detector.py): a detector beside a fresh pipeline has those of the
\* training, whatever the configuration names.
DriftAgainstTraining ==
    Up /\ srv.fresh /\ srv.sound = Kinds => srv.detector \in {None, srv.version}

\* "The startup validation catches it immediately instead of silently serving
\* predictions with wrong feature alignment" (DECISIONS.md, 10), with no
\* reservation: no healthy server has a model of other columns.
SchemaCheckCatches == Healthy => srv.model \in {0, srv.version}
====
