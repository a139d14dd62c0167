---- MODULE ArtifactsProofs ----
(***************************************************************************)
(* Proofs about Artifacts, for every number of versions and models and every*)
(* set of datasets.                                                         *)
(*                                                                          *)
(* What the server may conclude from the files it loads rests on what the   *)
(* jobs have written (Written, Finished), and on a job that writes while it *)
(* loads being noticed (the history field `sound`): what a server has loaded*)
(* then comes from the files as they are now (Loaded).                      *)
(***************************************************************************)
EXTENDS Artifacts, TLAPS

PrepareTodos ==
    {PrepareOrder, <<"history", "features">>, <<"features">>, <<>>}
FitTodos == {<<"schema", "refs">>, <<"refs">>, <<>>}
LastTodos ==
    {<<"schema", "refs", "model">>, <<"refs", "model">>, <<"model">>, <<>>}

Run ==
    [kind : Kinds, zones : Datasets \cup {{}}, version : Versions,
     todo : PrepareTodos \cup FitTodos \cup LastTodos,
     open : BOOLEAN, fits : 0 .. Baselines + 1]

Server ==
    [at : Loading \cup {"up"}, version : Versions, history : Datasets \cup {{}},
     schema : 0 .. MaxVersion, universe : Datasets \cup {{}}, service : BOOLEAN,
     artifact : BOOLEAN, model : 0 .. MaxVersion, detector : 0 .. MaxVersion + 1,
     own : BOOLEAN, sound : SUBSET Kinds, fresh : BOOLEAN]

\* A process that an exception of its startup ended.
Ended == [at : {"failed"}, sound : SUBSET Kinds, fresh : BOOLEAN]

\* A process there is.
Alive == srv.at \in Loading \cup {"up"}

Types ==
    /\ files = [f \in FileNames |-> files[f]]
    /\ \A f \in FileNames : files[f] \in {Missing, Torn} \cup {Whole(x) : x \in Contents(f)}
    /\ code \in Versions /\ trained \in 0 .. MaxVersion
    /\ whole \subseteq Kinds
    /\ job = NoJob \/ job \in Run
    /\ srv = Down \/ srv \in Server \/ srv \in Ended

Has(f, content) == files[f] = Whole(content)

\* What the job under way has written; the last model of a train rewrites what
\* the earlier ones wrote.
Written ==
    /\ job # NoJob /\ job.open => job.kind \notin whole
    /\ job.kind = "prepare" =>
          /\ job.todo \in PrepareTodos /\ job.zones \in Datasets /\ job.fits = 0
          /\ job.todo # PrepareOrder => Has("universe", job.zones)
          /\ job.todo \in {<<"features">>, <<>>} => Has("history", job.zones)
          /\ job.todo = <<>> => Has("features", None)
    /\ job.kind = "train" /\ job.fits > 0 => job.todo \in FitTodos
    /\ job.kind = "train" /\ job.fits = 0 =>
          /\ job.todo \in LastTodos
          /\ job.todo # <<"schema", "refs", "model">> => Has("schema", job.version)
          /\ job.todo \in {<<"model">>, <<>>} => Has("refs", job.version)
          /\ job.todo = <<>> => Has("model", job.version)

\* What a job leaves that has written its last file.
Finished ==
    /\ "prepare" \in whole =>
          \E zones \in Datasets :
              Has("universe", zones) /\ Has("history", zones) /\ Has("features", None)
    /\ "train" \in whole =>
          trained \in Versions /\ Has("schema", trained) /\ Has("refs", trained)
                               /\ Has("model", trained)

\* What the server under way to "up" has loaded, when no job has disturbed it.
Loaded ==
    srv.at \in Loading =>
        /\ srv.sound \subseteq whole
        /\ "prepare" \in srv.sound /\ srv.at \in {"schema", "universe"} =>
              Has("history", srv.history)
        /\ "train" \in srv.sound =>
              srv.schema \in {0, trained} /\ srv.model \in {0, trained}
        /\ srv.at \in {"history", "schema", "universe"} => srv.universe = {}
        /\ srv.at \in {"history", "schema", "universe", "service"} => ~srv.service
        /\ srv.detector = None /\ ~srv.own

\* What it may rely on.
Sound ==
    Alive =>
        /\ srv.service => srv.schema = srv.version
        /\ "prepare" \in srv.sound => srv.universe \in {{}, srv.history}
        /\ srv.at = "up" /\ "train" \in srv.sound /\ srv.service =>
              srv.model \in {0, srv.version} /\ (srv.own => srv.detector = srv.version)

\* A server that starts from two jobs that wrote all their files does not fail,
\* and loads everything.
NoFailure == srv.at = "failed" => ~(srv.fresh /\ srv.sound = Kinds)
Fresh ==
    Alive /\ srv.fresh /\ srv.sound = Kinds =>
        /\ srv.at # "up" => trained = srv.version
        /\ srv.at \in {"universe", "service"} => srv.schema = srv.version
        /\ srv.at = "service" => srv.universe # {}
        /\ srv.at \in {"model", "refs", "up"} => srv.service
        /\ srv.at \in {"refs", "up"} => srv.artifact
        /\ srv.at = "up" => (srv.own <=> srv.detector = srv.version)

IInv == Types /\ Written /\ Finished /\ Loaded /\ Sound /\ Fresh /\ NoFailure

-----------------------------------------------------------------------------

\* What the lists of files to write begin with, and what is left of them.
LEMMA Todos ==
    /\ Head(PrepareOrder) = "universe" /\ Tail(PrepareOrder) = <<"history", "features">>
    /\ Head(<<"history", "features">>) = "history"
    /\ Tail(<<"history", "features">>) = <<"features">>
    /\ Head(<<"schema", "refs", "model">>) = "schema"
    /\ Tail(<<"schema", "refs", "model">>) = <<"refs", "model">>
    /\ Head(<<"refs", "model">>) = "refs" /\ Tail(<<"refs", "model">>) = <<"model">>
    /\ Head(<<"schema", "refs">>) = "schema" /\ Tail(<<"schema", "refs">>) = <<"refs">>
    /\ \A f \in FileNames : Head(<<f>>) = f /\ Tail(<<f>>) = <<>>
    /\ <<"schema", "refs">> \o <<"model">> = <<"schema", "refs", "model">>
    /\ <<"schema", "refs">> \o <<>> = <<"schema", "refs">>
<1>1. ASSUME NEW a \in FileNames, NEW b \in FileNames, NEW c \in FileNames
      PROVE  <<a, b>> \o <<c>> = <<a, b, c>>
  <2> DEFINE s == <<a, b>> \o <<c>>
  <2>1. s \in Seq(FileNames) /\ Len(s) = 3
    OBVIOUS
  <2>2. s[1] = a /\ s[2] = b /\ s[3] = c
    OBVIOUS
  <2> HIDE DEF s
  <2>3. s = <<a, b, c>>
    BY <2>1, <2>2
  <2>4. QED
    BY <2>3 DEF s
<1>2. \A a, b, c \in FileNames :
          /\ Head(<<a, b, c>>) = a /\ Head(<<a, b>>) = a /\ Head(<<a>>) = a
          /\ <<a, b>> \o <<>> = <<a, b>>
  OBVIOUS
<1>3. /\ \A a, b, c \in FileNames : Tail(<<a, b, c>>) = <<b, c>>
      /\ \A a, b \in FileNames : Tail(<<a, b>>) = <<b>>
      /\ \A a \in FileNames : Tail(<<a>>) = <<>>
  OBVIOUS
<1>4. {"universe", "history", "features", "schema", "refs", "model"} \subseteq FileNames
  BY DEF FileNames, DataFiles
<1>5. QED
  BY <1>1, <1>2, <1>3, <1>4 DEF PrepareOrder

\* A file that is whole has a content of its kind; the three states differ.
LEMMA Contained ==
    ASSUME Types, NEW f \in FileNames
    PROVE  /\ IsWhole(f) <=> \E x \in Contents(f) : Has(f, x)
           /\ IsWhole(f) => Has(f, files[f].content) /\ files[f].content \in Contents(f)
           /\ \A x : Has(f, x) => IsWhole(f) /\ files[f].content = x /\ files[f] # Torn
BY DEF Types, IsWhole, Has, Whole, Missing, Torn

\* A run under way has one of the two kinds, and no run none.
LEMMA JobOrNone ==
    ASSUME Types
    PROVE  /\ job = NoJob => job.kind = "none"
           /\ job # NoJob => job \in Run /\ job.kind \in Kinds
           /\ job = NoJob <=> job.kind \notin Kinds
BY DEF Types, NoJob, Run, Kinds

\* The next file of a run is one of its kind, and the rest is a list of that kind.
LEMMA NextFile ==
    ASSUME Types, Written, Writing
    PROVE  /\ job \in Run
           /\ Head(job.todo) \in FileNames
           /\ Tail(job.todo) \in PrepareTodos \cup FitTodos \cup LastTodos
           /\ job.kind = "prepare" => Head(job.todo) \in DataFiles
           /\ job.kind = "train" => Head(job.todo) \in FileNames \ DataFiles
           /\ job.kind \in Kinds
<1>1. job \in Run /\ job.kind \in Kinds /\ job.todo # <<>>
  BY JobOrNone DEF Writing
<1>2. CASE job.kind = "prepare"
  <2>1. job.todo \in PrepareTodos
    BY <1>2 DEF Written
  <2>2. QED
    BY <1>1, <1>2, <2>1, Todos DEF PrepareTodos, FileNames, DataFiles
<1>3. CASE job.kind = "train"
  <2>1. job.todo \in FitTodos \cup LastTodos
    BY <1>1, <1>3 DEF Written, Run
  <2>2. QED
    BY <1>1, <1>3, <2>1, Todos DEF FitTodos, LastTodos, FileNames, DataFiles
<1>4. QED
  BY <1>1, <1>2, <1>3 DEF Kinds

\* A step of a job that leaves alone what a server may have loaded from.
LEMMA KeepServer ==
    ASSUME Types, Loaded, Sound, Fresh, NoFailure,
           srv' = srv,
           srv.at \in Loading => srv.sound \subseteq whole',
           "prepare" \in whole => files'["history"] = files["history"],
           "train" \in whole => trained' = trained
    PROVE  Loaded' /\ Sound' /\ Fresh' /\ NoFailure'
<1>1. Loaded'
  BY DEF Loaded, Has
<1>2. Sound' /\ NoFailure'
  BY DEF Sound, Alive, NoFailure
<1>3. Fresh'
  <2>1. srv.at \in Loading /\ srv.sound = Kinds => trained' = trained
    BY DEF Loaded, Kinds
  <2>2. QED
    BY <2>1 DEF Fresh, Alive
<1>4. QED
  BY <1>1, <1>2, <1>3

\* A step of the server that leaves the jobs alone.
LEMMA KeepJobs ==
    ASSUME Types, Written, Finished, UNCHANGED <<files, code, job, whole, trained>>,
           srv' = Down \/ srv' \in Server \/ srv' \in Ended
    PROVE  Types' /\ Written' /\ Finished'
BY DEF Types, Written, Finished, Has

-----------------------------------------------------------------------------

\* The invariant holds at the start.
LEMMA Initially == Init => IInv
<1> SUFFICES ASSUME Init PROVE IInv
  OBVIOUS
<1>1. Types
  BY VersionsPositive DEF Init, Types, Versions, Kinds
<1>2. Written /\ Finished
  BY DEF Init, Written, Finished, NoJob
<1>3. Loaded /\ Sound /\ Fresh /\ NoFailure
  BY DEF Init, Loaded, Sound, Fresh, NoFailure, Alive, Down, Loading
<1>4. QED
  BY <1>1, <1>2, <1>3 DEF IInv

\* A job that starts has written nothing.
LEMMA StepStart ==
    ASSUME IInv, StartPrepare \/ StartTrain
    PROVE  IInv'
<1>1. PICK kind \in Kinds, zones \in Datasets \cup {{}},
           todo \in {PrepareOrder, <<>>}, fits \in 0 .. Baselines + 1 :
        /\ StartJob(kind, zones, todo, fits)
        /\ kind = "prepare" => zones \in Datasets /\ todo = PrepareOrder /\ fits = 0
        /\ kind = "train" => todo = <<>> /\ fits = Baselines + 1
  <2>1. CASE StartPrepare
    BY <2>1, VersionsPositive DEF StartPrepare, Kinds
  <2>2. CASE StartTrain
    BY <2>2, VersionsPositive DEF StartTrain, Kinds
  <2>3. QED
    BY <2>1, <2>2
<1>2. /\ job' = [kind |-> kind, zones |-> zones, version |-> code,
                 todo |-> todo, open |-> FALSE, fits |-> fits]
      /\ job' \in Run
  BY <1>1 DEF StartJob, Run, IInv, Types, PrepareTodos, FitTodos
<1>3. UNCHANGED <<files, code, srv, whole, trained>>
  BY <1>1 DEF StartJob
<1>4. Types'
  BY <1>2, <1>3 DEF IInv, Types
<1>5. Written'
  BY <1>1, <1>2, <1>3, VersionsPositive, Todos DEF Written, PrepareTodos, FitTodos, PrepareOrder
<1>6. Finished' /\ Loaded' /\ Sound' /\ Fresh' /\ NoFailure'
  <2>1. srv.at \in Loading => srv.sound \subseteq whole'
    BY <1>3 DEF IInv, Loaded
  <2>2. QED
    BY <1>3, <2>1, KeepServer DEF IInv, Finished, Has
<1>7. QED
  BY <1>4, <1>5, <1>6 DEF IInv

\* Fitting a model plans the files of that model.
LEMMA StepFit ==
    ASSUME IInv, Fit
    PROVE  IInv'
<1>1. job \in Run /\ job.kind = "train" /\ job # NoJob
  BY JobOrNone DEF Fit, Kinds, IInv, NoJob
<1>2. /\ job' \in Run /\ job'.kind = job.kind /\ job'.fits = job.fits - 1
      /\ job'.version = job.version /\ job'.open = job.open
      /\ job'.todo = IF job.fits = 1 THEN <<"schema", "refs", "model">>
                                     ELSE <<"schema", "refs">>
  <2> DEFINE todo == IF job.fits = 1 THEN <<"schema", "refs", "model">>
                                     ELSE <<"schema", "refs">>
  <2>1. job' = [job EXCEPT !.fits = job.fits - 1, !.todo = todo]
    BY Todos DEF Fit
  <2>2. todo \in FitTodos \cup LastTodos
    BY DEF FitTodos, LastTodos
  <2>3. job.fits - 1 \in 0 .. Baselines + 1
    BY <1>1, VersionsPositive DEF Fit, Run
  <2> HIDE DEF todo
  <2>4. QED
    BY <1>1, <2>1, <2>2, <2>3 DEF Run, todo
<1>3. UNCHANGED <<files, code, srv, whole, trained>>
  BY DEF Fit
<1>4. Types'
  BY <1>2, <1>3 DEF IInv, Types
<1>5. Written'
  <2>1. job.fits \in 0 .. Baselines + 1 /\ job.fits > 0
    BY <1>1 DEF Run, Fit
  <2>2. CASE job.fits = 1
    <3>1. job'.fits = 0 /\ job'.todo = <<"schema", "refs", "model">>
      BY <1>2, <2>2
    <3>2. job'.todo \notin {<<"model">>, <<>>}
      BY <3>1
    <3>3. QED
      BY <1>1, <1>2, <1>3, <3>1, <3>2 DEF IInv, Written, LastTodos
  <2>3. CASE job.fits # 1
    <3>1. job'.fits > 0 /\ job'.todo = <<"schema", "refs">>
      BY <1>2, <2>1, <2>3, VersionsPositive
    <3>2. QED
      BY <1>1, <1>2, <1>3, <3>1 DEF IInv, Written, FitTodos
  <2>4. QED
    BY <2>2, <2>3
<1>6. Finished' /\ Loaded' /\ Sound' /\ Fresh' /\ NoFailure'
  <2>1. srv.at \in Loading => srv.sound \subseteq whole'
    BY <1>3 DEF IInv, Loaded
  <2>2. QED
    BY <1>3, <2>1, KeepServer DEF IInv, Finished, Has
<1>7. QED
  BY <1>4, <1>5, <1>6 DEF IInv

\* Writing a file of the job's kind leaves those of the other kind.
LEMMA WriteElsewhere ==
    ASSUME Types, Written, Writing,
           NEW content, files' = [files EXCEPT ![Head(job.todo)] = content]
    PROVE  /\ \A f \in FileNames : f # Head(job.todo) => files'[f] = files[f]
           /\ job.kind # "prepare" => \A f \in DataFiles : files'[f] = files[f]
           /\ job.kind # "train" => \A f \in FileNames \ DataFiles : files'[f] = files[f]
<1>1. Head(job.todo) \in FileNames
  BY NextFile
<1>2. \A f \in FileNames : f # Head(job.todo) => files'[f] = files[f]
  BY <1>1 DEF Types
<1>3. /\ job.kind \in Kinds
      /\ job.kind = "prepare" => Head(job.todo) \in DataFiles
      /\ job.kind = "train" => Head(job.todo) \in FileNames \ DataFiles
  BY NextFile
<1>4. DataFiles \subseteq FileNames
  BY DEF FileNames
<1>5. QED
  BY <1>2, <1>3, <1>4 DEF Kinds

\* Truncating the next file leaves the earlier ones of this run as they are; a
\* server that is loading no longer relies on the jobs of this kind.
LEMMA StepOpen ==
    ASSUME IInv, OpenFile
    PROVE  IInv'
<1>1. Types /\ Written /\ Writing
  BY DEF IInv, OpenFile
<1>2. job \in Run /\ Head(job.todo) \in FileNames /\ job.kind \in Kinds /\ job # NoJob
  BY <1>1, NextFile DEF Writing
<1>3. /\ job' \in Run /\ job'.kind = job.kind /\ job'.zones = job.zones
      /\ job'.version = job.version /\ job'.todo = job.todo /\ job'.fits = job.fits
  BY <1>2 DEF OpenFile, Run
<1>4. /\ files' = [files EXCEPT ![Head(job.todo)] = Torn]
      /\ whole' = whole \ {job.kind} /\ UNCHANGED <<code, trained>>
  BY DEF OpenFile
<1>5. /\ srv.at \in Loading =>
            srv \in Server /\ srv' = [srv EXCEPT !.sound = @ \ {job.kind}] /\ srv' \in Server
      /\ srv.at \notin Loading => srv' = srv
  <2>1. srv.at \in Loading => srv \in Server
    BY DEF IInv, Types, Down, Ended, Loading
  <2>2. srv' = IF srv.at \in Loading THEN [srv EXCEPT !.sound = @ \ {job.kind}] ELSE srv
    BY DEF OpenFile, Unsettle
  <2>3. srv \in Server => [srv EXCEPT !.sound = @ \ {job.kind}] \in Server
    BY DEF Server
  <2>4. QED
    BY <2>1, <2>2, <2>3
<1>6. Types'
  BY <1>2, <1>3, <1>4, <1>5 DEF IInv, Types
<1>7. /\ \A f \in FileNames : f # Head(job.todo) => files'[f] = files[f]
      /\ job.kind # "prepare" => \A f \in DataFiles : files'[f] = files[f]
      /\ job.kind # "train" => \A f \in FileNames \ DataFiles : files'[f] = files[f]
  BY <1>1, <1>4, WriteElsewhere
<1>8. Written'
  <2>1. job.todo # <<>> /\ job'.kind \notin whole'
    BY <1>1, <1>3, <1>4 DEF Writing
  <2>2. CASE job.kind = "prepare"
    <3>1. job.todo \in PrepareTodos
      BY <1>1, <2>2 DEF Written
    <3>2. QED
      BY <1>1, <1>3, <1>7, <2>1, <2>2, <3>1, Todos
         DEF Written, Has, PrepareTodos, FileNames, DataFiles
  <2>3. CASE job.kind = "train" /\ job.fits > 0
    BY <1>1, <1>3, <2>1, <2>3 DEF Written, Run
  <2>4. CASE job.kind = "train" /\ job.fits = 0
    <3>1. job.todo \in LastTodos
      BY <1>1, <2>4 DEF Written
    <3>2. QED
      BY <1>1, <1>3, <1>7, <2>1, <2>4, <3>1, Todos
         DEF Written, Has, LastTodos, FileNames, DataFiles
  <2>5. QED
    BY <1>2, <2>2, <2>3, <2>4, VersionsPositive DEF Run, Kinds
<1>9. Finished'
  <2>1. "prepare" \in whole' => "prepare" \in whole /\ \A f \in DataFiles : files'[f] = files[f]
    BY <1>4, <1>7
  <2>2. "train" \in whole' =>
            "train" \in whole /\ \A f \in FileNames \ DataFiles : files'[f] = files[f]
    BY <1>4, <1>7
  <2>3. QED
    BY <1>4, <2>1, <2>2 DEF IInv, Finished, Has, DataFiles, FileNames
<1>10. CASE srv.at \in Loading
  <2>1. /\ srv'.sound = srv.sound \ {job.kind}
        /\ srv'.at = srv.at /\ srv'.version = srv.version /\ srv'.history = srv.history
        /\ srv'.schema = srv.schema /\ srv'.universe = srv.universe
        /\ srv'.service = srv.service /\ srv'.artifact = srv.artifact
        /\ srv'.model = srv.model /\ srv'.detector = srv.detector /\ srv'.own = srv.own
    BY <1>5, <1>10 DEF Server
  <2>2. srv.at # "up" /\ srv.at # "failed" /\ Alive
    BY <1>10 DEF Loading, Alive
  <2>3. Loaded'
    <3>1. "prepare" \in srv'.sound => "prepare" \in srv.sound /\ files'["history"] = files["history"]
      BY <1>7, <2>1 DEF DataFiles
    <3>2. QED
      BY <1>4, <1>10, <2>1, <3>1 DEF IInv, Loaded, Has
  <2>4. Sound'
    BY <2>1, <2>2 DEF IInv, Sound
  <2>5. srv'.sound # Kinds
    BY <1>2, <2>1
  <2>6. QED
    BY <1>6, <1>8, <1>9, <2>1, <2>2, <2>3, <2>4, <2>5 DEF IInv, Fresh, NoFailure
<1>11. CASE srv.at \notin Loading
  <2>1. srv' = srv
    BY <1>5, <1>11
  <2>2. Loaded' /\ Sound' /\ NoFailure'
    BY <1>11, <2>1 DEF IInv, Loaded, Sound, Alive, NoFailure
  <2>3. Fresh'
    BY <1>4, <1>11, <2>1 DEF IInv, Fresh, Alive
  <2>4. QED
    BY <1>6, <1>8, <1>9, <2>2, <2>3 DEF IInv
<1>12. QED
  BY <1>10, <1>11

\* What a job writes is of the kind of the file.
LEMMA ContentTyped ==
    ASSUME Types, Written, Writing
    PROVE  Content(Head(job.todo)) \in Contents(Head(job.todo))
<1>1. job \in Run /\ Head(job.todo) \in FileNames
  BY NextFile
<1>2. Head(job.todo) \in {"universe", "history"} => job.zones \in Datasets
  BY NextFile DEF Written, Kinds, DataFiles
<1>3. QED
  BY <1>1, <1>2 DEF Content, Contents, Run, FileNames, DataFiles

\* A file written whole joins those of its run.
LEMMA StepFill ==
    ASSUME IInv, FillFile
    PROVE  IInv'
<1>1. Types /\ Written /\ Writing
  BY DEF IInv, FillFile
<1>2. job \in Run /\ Head(job.todo) \in FileNames
  BY <1>1, NextFile
<1>3. /\ job' \in Run /\ job'.kind = job.kind /\ job'.zones = job.zones
      /\ job'.version = job.version /\ job'.todo = Tail(job.todo) /\ job'.fits = job.fits
  <2>1. Tail(job.todo) \in PrepareTodos \cup FitTodos \cup LastTodos
    BY <1>1, NextFile
  <2>2. QED
    BY <1>2, <2>1 DEF FillFile, Run
<1>4. /\ files' = [files EXCEPT ![Head(job.todo)] = Whole(Content(Head(job.todo)))]
      /\ whole' = IF Completes THEN whole \cup {job.kind} ELSE whole
      /\ trained' = IF Completes /\ job.kind = "train" THEN job.version ELSE trained
      /\ job.kind \in Kinds /\ job.kind \notin whole
      /\ UNCHANGED <<code, srv>>
  BY <1>1, NextFile DEF FillFile, Writing, Written
<1>5. Types'
  <2>1. whole' \subseteq Kinds /\ trained' \in 0 .. MaxVersion
    BY <1>2, <1>4, VersionsPositive DEF IInv, Types, Run, Versions
  <2>2. QED
    BY <1>1, <1>2, <1>3, <1>4, <2>1, ContentTyped DEF IInv, Types
<1>6. /\ \A f \in FileNames : f # Head(job.todo) => files'[f] = files[f]
      /\ job.kind # "prepare" => \A f \in DataFiles : files'[f] = files[f]
      /\ job.kind # "train" => \A f \in FileNames \ DataFiles : files'[f] = files[f]
  BY <1>1, <1>4, WriteElsewhere
<1>7. files'[Head(job.todo)] = Whole(Content(Head(job.todo)))
  BY <1>1, <1>2, <1>4 DEF Types
<1>8. Written'
  <2>1. job.todo # <<>> /\ job'.open = FALSE
    BY <1>1, <1>2 DEF Writing, FillFile, Run
  <2>2. CASE job.kind = "prepare"
    <3>1. job.todo \in PrepareTodos
      BY <1>1, <2>2 DEF Written
    <3>2. job' \in Run /\ job'.open = FALSE /\ job'.kind = "prepare"
          /\ job.zones \in Datasets /\ job'.zones = job.zones /\ job'.fits = 0
      BY <1>1, <1>3, <2>1, <2>2 DEF Written
    <3>3. CASE job.todo = PrepareOrder
      <4>1. job'.todo = <<"history", "features">> /\ Has("universe", job.zones)'
        BY <1>3, <1>7, <3>3, Todos DEF Has, Content, IInv
      <4>2. QED
        BY <3>2, <4>1 DEF Written, PrepareTodos, Has
    <3>4. CASE job.todo = <<"history", "features">>
      <4>1. job'.todo = <<"features">> /\ Has("history", job.zones)'
        BY <1>3, <1>7, <3>4, Todos DEF Has, Content
      <4>2. Has("universe", job.zones)'
        BY <1>1, <1>3, <1>6, <2>2, <3>4, Todos DEF Written, Has, PrepareOrder, FileNames, DataFiles
      <4>3. QED
        BY <3>2, <4>1, <4>2 DEF Written, PrepareTodos, Has
    <3>5. CASE job.todo = <<"features">>
      <4>1. job'.todo = <<>> /\ Has("features", None)'
        BY <1>3, <1>7, <3>5, Todos DEF Has, Content, FileNames, DataFiles
      <4>2. Has("universe", job.zones)' /\ Has("history", job.zones)'
        BY <1>1, <1>3, <1>6, <2>2, <3>5, Todos DEF Written, Has, PrepareOrder, FileNames, DataFiles
      <4>3. QED
        BY <3>2, <4>1, <4>2 DEF Written, PrepareTodos, Has
    <3>6. QED
      BY <2>1, <3>1, <3>3, <3>4, <3>5 DEF PrepareTodos
  <2>3. CASE job.kind = "train" /\ job.fits > 0
    <3>1. job.todo \in FitTodos
      BY <1>1, <2>3 DEF Written
    <3>2. Tail(job.todo) \in FitTodos
      BY <2>1, <3>1, Todos DEF FitTodos, FileNames, DataFiles
    <3>3. QED
      BY <1>1, <1>3, <2>1, <2>3, <3>2 DEF Written, Run
  <2>4. CASE job.kind = "train" /\ job.fits = 0
    <3>1. job.todo \in LastTodos
      BY <1>1, <2>4 DEF Written
    <3>2. job' \in Run /\ job'.open = FALSE /\ job'.kind = "train"
          /\ job'.version = job.version /\ job'.fits = 0
      BY <1>1, <1>3, <2>1, <2>4 DEF Written
    <3>3. CASE job.todo = <<"schema", "refs", "model">>
      <4>1. job'.todo = <<"refs", "model">> /\ Has("schema", job.version)'
        BY <1>3, <1>7, <3>3, Todos DEF Has, Content
      <4>2. QED
        BY <3>2, <4>1 DEF Written, LastTodos, Has
    <3>4. CASE job.todo = <<"refs", "model">>
      <4>1. job'.todo = <<"model">> /\ Has("refs", job.version)'
        BY <1>3, <1>7, <3>4, Todos DEF Has, Content
      <4>2. Has("schema", job.version)'
        BY <1>1, <1>3, <1>6, <2>4, <3>4, Todos DEF Written, Has, FileNames, DataFiles
      <4>3. QED
        BY <3>2, <4>1, <4>2 DEF Written, LastTodos, Has
    <3>5. CASE job.todo = <<"model">>
      <4>1. job'.todo = <<>> /\ Has("model", job.version)'
        BY <1>3, <1>7, <3>5, Todos DEF Has, Content, FileNames, DataFiles
      <4>2. Has("schema", job.version)' /\ Has("refs", job.version)'
        BY <1>1, <1>3, <1>6, <2>4, <3>5, Todos DEF Written, Has, FileNames, DataFiles
      <4>3. QED
        BY <3>2, <4>1, <4>2 DEF Written, LastTodos, Has
    <3>6. QED
      BY <2>1, <3>1, <3>3, <3>4, <3>5 DEF LastTodos
  <2>5. QED
    BY <1>2, <2>2, <2>3, <2>4, VersionsPositive DEF Run, Kinds
<1>9. Finished'
  <2>1. CASE Completes /\ job.kind = "prepare"
    <3>1. job'.kind = "prepare" /\ job'.todo = <<>> /\ job'.todo # PrepareOrder
      BY <1>3, <2>1 DEF Completes, PrepareOrder
    <3>2. job'.zones \in Datasets /\ Has("universe", job.zones)' /\ Has("history", job.zones)'
          /\ Has("features", None)'
      BY <1>8, <3>1 DEF Written, Has
    <3>3. "train" \in whole' =>
              "train" \in whole /\ \A f \in FileNames \ DataFiles : files'[f] = files[f]
      BY <1>4, <1>6, <2>1
    <3>4. trained' = trained
      BY <1>4, <2>1
    <3>5. QED
      BY <3>2, <3>3, <3>4 DEF IInv, Finished, Has, DataFiles, FileNames
  <2>2. CASE Completes /\ job.kind = "train"
    <3>1. job'.kind = "train" /\ job'.fits = 0 /\ job'.todo = <<>>
          /\ job'.todo # <<"schema", "refs", "model">>
      BY <1>3, <2>2 DEF Completes
    <3>2. Has("schema", job.version)' /\ Has("refs", job.version)' /\ Has("model", job.version)'
      BY <1>8, <3>1 DEF Written, Has
    <3>3. trained' = job'.version /\ job'.version \in Versions
      BY <1>3, <1>4, <2>2 DEF Run
    <3>4. "prepare" \in whole' =>
              "prepare" \in whole /\ \A f \in DataFiles : files'[f] = files[f]
      BY <1>4, <1>6, <2>2
    <3>5. QED
      BY <3>2, <3>3, <3>4 DEF IInv, Finished, Has, DataFiles
  <2>3. CASE ~Completes
    <3>1. whole' = whole /\ trained' = trained
      BY <1>4, <2>3
    <3>2. "prepare" \in whole => \A f \in DataFiles : files'[f] = files[f]
      BY <1>4, <1>6
    <3>3. "train" \in whole => \A f \in FileNames \ DataFiles : files'[f] = files[f]
      BY <1>4, <1>6
    <3>4. QED
      BY <3>1, <3>2, <3>3 DEF IInv, Finished, Has, DataFiles, FileNames
  <2>4. QED
    BY <1>4, <2>1, <2>2, <2>3 DEF Kinds
<1>10. Loaded' /\ Sound' /\ Fresh' /\ NoFailure'
  <2>1. "prepare" \in whole => files'["history"] = files["history"]
    BY <1>4, <1>6 DEF DataFiles
  <2>2. "train" \in whole => trained' = trained
    BY <1>4
  <2>3. srv.at \in Loading => srv.sound \subseteq whole'
    BY <1>4 DEF IInv, Loaded
  <2>4. QED
    BY <1>1, <1>4, <2>1, <2>2, <2>3, KeepServer DEF IInv
<1>11. QED
  BY <1>5, <1>8, <1>9, <1>10 DEF IInv

\* A job that ends leaves its files as they are, and a release all of them.
LEMMA StepEnd ==
    ASSUME IInv, FinishJob \/ Abort \/ Deploy
    PROVE  IInv'
<1>1. UNCHANGED <<files, srv, whole, trained>> /\ (job' = NoJob \/ job' = job)
  BY DEF FinishJob, Abort, Deploy
<1>2. code' \in Versions
  BY VersionsPositive DEF IInv, Types, FinishJob, Abort, Deploy, Versions
<1>3. Types'
  BY <1>1, <1>2 DEF IInv, Types
<1>4. Written'
  BY <1>1, <1>3 DEF IInv, Types, Written, NoJob, Kinds, Has
<1>5. Finished'
  BY <1>1 DEF IInv, Finished, Has
<1>6. Loaded' /\ Sound' /\ Fresh' /\ NoFailure'
  <2>1. srv.at \in Loading => srv.sound \subseteq whole'
    BY <1>1 DEF IInv, Loaded
  <2>2. QED
    BY <1>1, <2>1, KeepServer DEF IInv
<1>7. QED
  BY <1>3, <1>4, <1>5, <1>6 DEF IInv

-----------------------------------------------------------------------------

\* A server that loads is a process, and what it relies on has been written.
LEMMA WhileLoading ==
    ASSUME IInv, srv.at \in Loading
    PROVE  /\ srv \in Server /\ Alive /\ srv.at # "up"
           /\ srv.sound \subseteq whole /\ srv.detector = None /\ ~srv.own
BY DEF IInv, Types, Loaded, Down, Ended, Alive, Loading

\* A process that is killed leaves nothing to rely on.
LEMMA ServerDown ==
    ASSUME IInv, UNCHANGED <<files, code, job, whole, trained>>, srv' = Down
    PROVE  IInv'
<1>1. Types' /\ Written' /\ Finished'
  BY KeepJobs DEF IInv
<1>2. Loaded' /\ Sound' /\ Fresh' /\ NoFailure'
  BY DEF Loaded, Sound, Fresh, NoFailure, Alive, Down, Loading
<1>3. QED
  BY <1>1, <1>2 DEF IInv

\* A server starts with nothing loaded, relying on the jobs that wrote all files.
LEMMA StepBoot ==
    ASSUME IInv, Boot
    PROVE  IInv'
<1>1. /\ srv' = [at |-> "history", version |-> code,
                 history |-> {}, schema |-> 0, universe |-> {}, service |-> FALSE,
                 artifact |-> FALSE, model |-> 0, detector |-> None, own |-> FALSE,
                 sound |-> whole, fresh |-> whole = Kinds /\ trained = code]
      /\ UNCHANGED <<files, code, job, whole, trained>>
  BY DEF Boot
<1>2. srv' \in Server
  BY <1>1, VersionsPositive DEF IInv, Types, Server, Loading, None
<1>3. Types' /\ Written' /\ Finished'
  BY <1>1, <1>2, KeepJobs DEF IInv
<1>4. Loaded' /\ Sound' /\ Fresh' /\ NoFailure'
  BY <1>1 DEF Loaded, Sound, Fresh, NoFailure, Loading
<1>5. QED
  BY <1>3, <1>4 DEF IInv

\* A file of a job that wrote all of them is whole, and has the content of that
\* job.
LEMMA Sources ==
    ASSUME IInv
    PROVE  /\ "prepare" \in whole =>
                 /\ IsWhole("history") /\ IsWhole("universe")
                 /\ files["universe"].content = files["history"].content
                 /\ files["universe"].content # {}
           /\ "train" \in whole =>
                 /\ IsWhole("schema") /\ IsWhole("model") /\ IsWhole("refs")
                 /\ files["schema"].content = trained /\ files["model"].content = trained
                 /\ files["refs"].content = trained
                 /\ files["refs"] # Torn
                 /\ trained \in Versions
<1>1. {"history", "universe", "schema", "model", "refs"} \subseteq FileNames
  BY DEF FileNames, DataFiles
<1>2. "train" \in whole =>
          /\ IsWhole("schema") /\ IsWhole("model") /\ IsWhole("refs")
          /\ files["schema"].content = trained /\ files["model"].content = trained
          /\ files["refs"].content = trained
          /\ files["refs"] # Torn
          /\ trained \in Versions
  BY <1>1, Contained DEF IInv, Finished
<1>3. CASE "prepare" \in whole
  <2>1. PICK zones \in Datasets : Has("universe", zones) /\ Has("history", zones)
    BY <1>3 DEF IInv, Finished
  <2>2. zones # {}
    BY DatasetsNotEmpty
  <2>3. IsWhole("history") /\ IsWhole("universe")
        /\ files["universe"].content = zones /\ files["history"].content = zones
    BY <1>1, <2>1, Contained DEF IInv
  <2>4. QED
    BY <1>2, <2>2, <2>3
<1>4. QED
  BY <1>2, <1>3

\* Reading a file that is not whole skips to the service without it.
LEMMA StepReadHistory ==
    ASSUME IInv, ReadHistory
    PROVE  IInv'
<1>1. /\ srv.at = "history" /\ UNCHANGED <<files, code, job, whole, trained>>
      /\ srv' = IF IsWhole("history")
                THEN [srv EXCEPT !.at = "schema", !.history = files["history"].content]
                ELSE [srv EXCEPT !.at = "service"]
  BY DEF ReadHistory, ReadFile, Load
<1>2. srv.at \in Loading
  BY <1>1 DEF Loading
<1>3. srv \in Server /\ Alive /\ srv.sound \subseteq whole
  BY <1>2, WhileLoading
<1>4. IsWhole("history") =>
          Has("history", files["history"].content) /\ files["history"].content \in Datasets
  BY Contained DEF IInv, FileNames, DataFiles, Contents
<1>5. srv' \in Server
  BY <1>1, <1>3, <1>4 DEF Server, Loading
<1>6. Types' /\ Written' /\ Finished'
  BY <1>1, <1>5, KeepJobs DEF IInv
<1>7. /\ srv'.at = IF IsWhole("history") THEN "schema" ELSE "service"
      /\ srv'.history = IF IsWhole("history") THEN files["history"].content ELSE srv.history
      /\ srv'.version = srv.version /\ srv'.schema = srv.schema
      /\ srv'.universe = srv.universe /\ srv'.service = srv.service
      /\ srv'.artifact = srv.artifact /\ srv'.model = srv.model
      /\ srv'.detector = srv.detector /\ srv'.own = srv.own
      /\ srv'.sound = srv.sound /\ srv'.fresh = srv.fresh
  BY <1>1, <1>3 DEF Server
<1>8. Loaded'
  BY <1>1, <1>2, <1>4, <1>7 DEF IInv, Loaded, Has
<1>9. Sound'
  BY <1>1, <1>2, <1>3, <1>7 DEF IInv, Sound, Loaded
<1>10. Fresh'
  <2>1. srv.fresh /\ srv.sound = Kinds => srv'.at = "schema"
    BY <1>3, <1>7, Sources DEF Kinds
  <2>2. QED
    BY <1>1, <1>3, <1>7, <2>1 DEF IInv, Fresh
<1>11. QED
  BY <1>6, <1>7, <1>8, <1>9, <1>10 DEF IInv, NoFailure

\* The schema read is that of the last train that wrote all its files.
LEMMA StepReadSchema ==
    ASSUME IInv, ReadSchema
    PROVE  IInv'
<1>1. /\ srv.at = "schema" /\ UNCHANGED <<files, code, job, whole, trained>>
      /\ srv' = IF IsWhole("schema")
                THEN [srv EXCEPT !.at = "universe", !.schema = files["schema"].content]
                ELSE [srv EXCEPT !.at = "service"]
  BY DEF ReadSchema, ReadFile, Load
<1>2. srv.at \in Loading
  BY <1>1 DEF Loading
<1>3. srv \in Server /\ Alive /\ srv.sound \subseteq whole
  BY <1>2, WhileLoading
<1>4. IsWhole("schema") => files["schema"].content \in 0 .. MaxVersion
  <2>1. IsWhole("schema") => files["schema"].content \in Versions
    BY Contained DEF IInv, FileNames, DataFiles, Contents
  <2>2. QED
    BY <2>1, VersionsPositive DEF Versions
<1>5. srv' \in Server
  BY <1>1, <1>3, <1>4 DEF Server, Loading
<1>6. Types' /\ Written' /\ Finished'
  BY <1>1, <1>5, KeepJobs DEF IInv
<1>7. /\ srv'.at = IF IsWhole("schema") THEN "universe" ELSE "service"
      /\ srv'.schema = IF IsWhole("schema") THEN files["schema"].content ELSE srv.schema
      /\ srv'.version = srv.version /\ srv'.history = srv.history
      /\ srv'.universe = srv.universe /\ srv'.service = srv.service
      /\ srv'.artifact = srv.artifact /\ srv'.model = srv.model
      /\ srv'.detector = srv.detector /\ srv'.own = srv.own
      /\ srv'.sound = srv.sound /\ srv'.fresh = srv.fresh
  BY <1>1, <1>3 DEF Server
<1>8. Loaded'
  BY <1>1, <1>2, <1>3, <1>7, Sources DEF IInv, Loaded, Has
<1>9. Sound'
  BY <1>1, <1>2, <1>3, <1>7 DEF IInv, Sound, Loaded
<1>10. Fresh'
  <2>1. srv.fresh /\ srv.sound = Kinds => srv'.at = "universe" /\ srv'.schema = trained
    BY <1>3, <1>7, Sources DEF Kinds
  <2>2. QED
    BY <1>1, <1>3, <1>7, <2>1 DEF IInv, Fresh
<1>11. QED
  BY <1>6, <1>7, <1>8, <1>9, <1>10 DEF IInv, NoFailure

\* The universe read is the one written with the history.
LEMMA StepReadUniverse ==
    ASSUME IInv, ReadUniverse
    PROVE  IInv'
<1>1. /\ srv.at = "universe" /\ UNCHANGED <<files, code, job, whole, trained>>
      /\ srv' = IF IsWhole("universe")
                THEN [srv EXCEPT !.at = "service", !.universe = files["universe"].content]
                ELSE [srv EXCEPT !.at = "service"]
  BY DEF ReadUniverse, ReadFile, Load
<1>2. srv.at \in Loading
  BY <1>1 DEF Loading
<1>3. srv \in Server /\ Alive /\ srv.sound \subseteq whole
  BY <1>2, WhileLoading
<1>4. IsWhole("universe") => files["universe"].content \in Datasets
  BY Contained DEF IInv, FileNames, DataFiles, Contents
<1>5. srv' \in Server
  BY <1>1, <1>3, <1>4 DEF Server, Loading
<1>6. Types' /\ Written' /\ Finished'
  BY <1>1, <1>5, KeepJobs DEF IInv
<1>7. /\ srv'.at = "service"
      /\ srv'.universe = IF IsWhole("universe") THEN files["universe"].content
                                                ELSE srv.universe
      /\ srv'.version = srv.version /\ srv'.history = srv.history
      /\ srv'.schema = srv.schema /\ srv'.service = srv.service
      /\ srv'.artifact = srv.artifact /\ srv'.model = srv.model
      /\ srv'.detector = srv.detector /\ srv'.own = srv.own
      /\ srv'.sound = srv.sound /\ srv'.fresh = srv.fresh
  BY <1>1, <1>3 DEF Server
<1>8. Loaded'
  BY <1>1, <1>2, <1>7 DEF IInv, Loaded, Has
<1>9. Sound'
  <2>1. "prepare" \in srv.sound => srv'.universe = srv'.history
    <3>1. ASSUME "prepare" \in srv.sound PROVE srv.history = files["history"].content
      BY <1>1, <1>2, <3>1, Contained DEF IInv, Loaded, FileNames, DataFiles
    <3>2. QED
      BY <1>3, <1>7, <3>1, Sources
  <2>2. QED
    BY <1>1, <1>2, <1>3, <1>7, <2>1 DEF IInv, Sound, Loaded
<1>10. Fresh'
  <2>1. srv.fresh /\ srv.sound = Kinds => srv'.universe # {}
    BY <1>3, <1>7, Sources DEF Kinds
  <2>2. QED
    BY <1>1, <1>3, <1>7, <2>1 DEF IInv, Fresh
<1>11. QED
  BY <1>6, <1>7, <1>8, <1>9, <1>10 DEF IInv, NoFailure

\* The service is ready when the universe is there and the schema is FEATURE_COLUMNS.
LEMMA StepBuildService ==
    ASSUME IInv, BuildService
    PROVE  IInv'
<1>1. /\ srv.at = "service" /\ UNCHANGED <<files, code, job, whole, trained>>
      /\ srv' = IF ServiceReady
                THEN [srv EXCEPT !.at = "model", !.service = TRUE]
                ELSE [srv EXCEPT !.at = "model", !.history = {}, !.schema = 0,
                                 !.universe = {}]
  BY DEF BuildService, Load
<1>2. srv.at \in Loading
  BY <1>1 DEF Loading
<1>3. srv \in Server /\ Alive /\ srv.sound \subseteq whole
  BY <1>2, WhileLoading
<1>4. srv' \in Server
  <2>1. CASE ServiceReady
    BY <1>1, <1>3, <2>1 DEF Server, Loading
  <2>2. CASE ~ServiceReady
    <3>1. 0 \in 0 .. MaxVersion /\ {} \in Datasets \cup {{}} /\ "model" \in Loading
      BY VersionsPositive DEF Loading
    <3>2. srv' = [srv EXCEPT !.at = "model", !.history = {}, !.schema = 0, !.universe = {}]
      BY <1>1, <2>2
    <3>3. QED
      BY <1>3, <3>1, <3>2 DEF Server
  <2>3. QED
    BY <2>1, <2>2
<1>5. Types' /\ Written' /\ Finished'
  BY <1>1, <1>4, KeepJobs DEF IInv
<1>6. /\ srv'.at = "model"
      /\ ServiceReady => /\ srv'.service
                         /\ srv'.history = srv.history /\ srv'.schema = srv.schema
                         /\ srv'.universe = srv.universe
      /\ ~ServiceReady => /\ srv'.service = srv.service
                          /\ srv'.history = {} /\ srv'.schema = 0 /\ srv'.universe = {}
      /\ srv'.version = srv.version
      /\ srv'.artifact = srv.artifact /\ srv'.model = srv.model
      /\ srv'.detector = srv.detector /\ srv'.own = srv.own
      /\ srv'.sound = srv.sound /\ srv'.fresh = srv.fresh
  BY <1>1, <1>3 DEF Server
<1>7. Loaded'
  BY <1>1, <1>2, <1>3, <1>6 DEF IInv, Loaded
<1>8. Sound'
  BY <1>1, <1>2, <1>3, <1>6 DEF IInv, Sound, Loaded, ServiceReady
<1>9. Fresh'
  <2>1. srv.fresh /\ srv.sound = Kinds => ServiceReady
    BY <1>1, <1>3 DEF IInv, Fresh, ServiceReady
  <2>2. QED
    BY <1>1, <1>3, <1>6, <2>1 DEF IInv, Fresh
<1>10. QED
  BY <1>5, <1>6, <1>7, <1>8, <1>9 DEF IInv, NoFailure

\* The model is that of the last train that wrote all its files, or none was
\* loaded.
LEMMA StepModel ==
    ASSUME IInv, LoadLightgbm \/ CreateBaseline
    PROVE  IInv'
<1>1. /\ srv.at = "model" /\ UNCHANGED <<files, code, job, whole, trained>>
      /\ \/ IsWhole("model") /\ srv' = [srv EXCEPT !.at = "refs", !.artifact = TRUE,
                                                   !.model = files["model"].content]
         \/ ~IsWhole("model") /\ srv' = [srv EXCEPT !.at = "refs"]
         \/ srv' = [srv EXCEPT !.at = "refs", !.artifact = TRUE]
  BY DEF LoadLightgbm, CreateBaseline, Load
<1>2. srv.at \in Loading
  BY <1>1 DEF Loading
<1>3. srv \in Server /\ Alive /\ srv.sound \subseteq whole
  BY <1>2, WhileLoading
<1>4. IsWhole("model") => files["model"].content \in 0 .. MaxVersion
  <2>1. IsWhole("model") => files["model"].content \in Versions
    BY Contained DEF IInv, FileNames, DataFiles, Contents
  <2>2. QED
    BY <2>1, VersionsPositive DEF Versions
<1>5. /\ srv' \in Server /\ srv'.at = "refs"
      /\ \/ IsWhole("model") /\ srv'.model = files["model"].content
         \/ srv'.model = srv.model
      /\ IsWhole("model") => srv'.artifact
      /\ srv'.version = srv.version /\ srv'.history = srv.history
      /\ srv'.schema = srv.schema /\ srv'.universe = srv.universe
      /\ srv'.service = srv.service
      /\ srv'.detector = srv.detector /\ srv'.own = srv.own
      /\ srv'.sound = srv.sound /\ srv'.fresh = srv.fresh
  BY <1>1, <1>3, <1>4 DEF Server, Loading
<1>6. Types' /\ Written' /\ Finished'
  BY <1>1, <1>5, KeepJobs DEF IInv
<1>7. Loaded'
  BY <1>1, <1>2, <1>3, <1>5, Sources DEF IInv, Loaded
<1>8. Sound'
  BY <1>3, <1>5 DEF IInv, Sound
<1>9. Fresh'
  <2>1. srv.sound = Kinds => IsWhole("model")
    BY <1>3, Sources DEF Kinds
  <2>2. QED
    BY <1>1, <1>3, <1>5, <2>1 DEF IInv, Fresh
<1>10. QED
  BY <1>5, <1>6, <1>7, <1>8, <1>9 DEF IInv, NoFailure

\* A server that comes up on the path of the last train has its distributions.
LEMMA StepRefs ==
    ASSUME IInv, LoadOwnRefs \/ LoadDefaultRefs
    PROVE  IInv'
<1>1. CASE LoadOwnRefs /\ files["refs"] = Torn
  <2>1. /\ srv.at = "refs" /\ UNCHANGED <<files, code, job, whole, trained>>
        /\ srv' = [at |-> "failed", sound |-> srv.sound, fresh |-> srv.fresh]
    BY <1>1 DEF LoadOwnRefs, Load, Failed
  <2>2. srv \in Server /\ srv.sound \subseteq whole
    BY <2>1, WhileLoading DEF Loading
  <2>3. srv' \in Ended
    BY <2>1, <2>2 DEF Server, Ended
  <2>4. Types' /\ Written' /\ Finished'
    BY <2>1, <2>3, KeepJobs DEF IInv
  <2>5. Loaded' /\ Sound' /\ Fresh'
    BY <2>1 DEF Loaded, Sound, Fresh, Alive, Loading
  <2>6. srv.sound # Kinds
    BY <1>1, <2>2, Sources DEF Kinds
  <2>7. QED
    BY <2>1, <2>4, <2>5, <2>6 DEF IInv, NoFailure
<1>2. CASE (LoadOwnRefs /\ files["refs"] # Torn) \/ LoadDefaultRefs
  <2>1. srv.at = "refs" /\ UNCHANGED <<files, code, job, whole, trained>>
    BY <1>2 DEF LoadOwnRefs, LoadDefaultRefs, Load
  <2>2. srv.at \in Loading
    BY <2>1 DEF Loading
  <2>3. /\ srv \in Server /\ Alive /\ srv.at # "up"
        /\ srv.sound \subseteq whole /\ srv.own = FALSE
    BY <2>2, WhileLoading DEF Server
  <2> DEFINE held == IF IsWhole("refs") THEN files["refs"].content ELSE None
  <2>4. PICK own \in BOOLEAN, found \in {held, None, Foreign} :
            /\ srv' = [srv EXCEPT !.at = "up", !.own = own, !.detector = found]
            /\ own => found = held
            /\ ~own => found \in {None, Foreign}
    <3>1. CASE LoadOwnRefs /\ files["refs"] # Torn
      BY <3>1 DEF LoadOwnRefs, Load
    <3>2. CASE LoadDefaultRefs
      <4>1. PICK found \in {None, Foreign} : srv' = [srv EXCEPT !.at = "up", !.detector = found]
        BY <3>2 DEF LoadDefaultRefs, Load
      <4>2. srv' = [srv EXCEPT !.at = "up", !.own = FALSE, !.detector = found]
        BY <2>3, <4>1 DEF Server
      <4>3. QED
        BY <4>1, <4>2
    <3>3. QED
      BY <1>2, <3>1, <3>2
  <2>5. found \in 0 .. MaxVersion + 1
    <3>1. IsWhole("refs") => files["refs"].content \in Versions
      BY Contained DEF IInv, FileNames, DataFiles, Contents
    <3>2. QED
      BY <2>4, <3>1, VersionsPositive DEF Versions, None, Foreign
  <2>6. /\ srv' \in Server /\ srv'.at = "up" /\ srv'.own = own /\ srv'.detector = found
        /\ srv'.version = srv.version /\ srv'.history = srv.history
        /\ srv'.schema = srv.schema /\ srv'.universe = srv.universe
        /\ srv'.service = srv.service
        /\ srv'.artifact = srv.artifact /\ srv'.model = srv.model
        /\ srv'.sound = srv.sound /\ srv'.fresh = srv.fresh
    BY <2>3, <2>4, <2>5 DEF Server
  <2>7. Types' /\ Written' /\ Finished'
    BY <2>1, <2>6, KeepJobs DEF IInv
  <2>8. Loaded'
    BY <2>6 DEF Loaded, Loading
  <2>9. Sound'
    <3>1. ASSUME "train" \in srv.sound, srv.service
          PROVE  srv.model \in {0, srv.version} /\ (own => found = srv.version)
      <4>1. trained \in Versions /\ IsWhole("refs") /\ files["refs"].content = trained
        BY <2>3, <3>1, Sources
      <4>2. srv.schema \in {0, trained} /\ srv.model \in {0, trained}
        BY <2>2, <3>1 DEF IInv, Loaded
      <4>3. srv.schema = srv.version /\ srv.version # 0
        BY <2>3, <3>1 DEF IInv, Sound, Server, Versions
      <4>4. QED
        BY <2>4, <4>1, <4>2, <4>3
    <3>2. QED
      BY <2>3, <2>6, <3>1 DEF IInv, Sound
  <2>10. Fresh'
    <3>1. srv.sound = Kinds => IsWhole("refs") /\ files["refs"].content = trained
      BY <2>3, Sources DEF Kinds
    <3>2. srv.version \notin {None, Foreign}
      BY <2>3, VersionsPositive DEF Server, Versions, None, Foreign
    <3>3. srv.fresh /\ srv.sound = Kinds =>
              trained = srv.version /\ srv.service /\ srv.artifact
      BY <2>1, <2>3 DEF IInv, Fresh
    <3>4. srv.fresh /\ srv.sound = Kinds => (own <=> found = srv.version)
      BY <2>4, <3>1, <3>2, <3>3
    <3>5. QED
      BY <2>6, <3>3, <3>4 DEF Fresh
  <2>11. QED
    BY <2>6, <2>7, <2>8, <2>9, <2>10 DEF IInv, NoFailure
<1>3. QED
  BY <1>1, <1>2

\* Every step keeps the invariant.
LEMMA Inductive == IInv /\ [Next]_vars => IInv'
<1> SUFFICES ASSUME IInv, [Next]_vars PROVE IInv'
  OBVIOUS
<1>1. CASE StartPrepare \/ StartTrain
  BY <1>1, StepStart
<1>2. CASE Fit
  BY <1>2, StepFit
<1>3. CASE OpenFile
  BY <1>3, StepOpen
<1>4. CASE FillFile
  BY <1>4, StepFill
<1>5. CASE FinishJob \/ Abort \/ Deploy
  BY <1>5, StepEnd
<1>6. CASE Boot
  BY <1>6, StepBoot
<1>7. CASE ReadHistory
  BY <1>7, StepReadHistory
<1>8. CASE ReadSchema
  BY <1>8, StepReadSchema
<1>9. CASE ReadUniverse
  BY <1>9, StepReadUniverse
<1>10. CASE BuildService
  BY <1>10, StepBuildService
<1>11. CASE LoadLightgbm \/ CreateBaseline
  BY <1>11, StepModel
<1>12. CASE LoadOwnRefs \/ LoadDefaultRefs
  BY <1>12, StepRefs
<1>13. CASE Crash
  BY <1>13, ServerDown DEF Crash
<1>14. CASE UNCHANGED vars
  BY <1>14 DEF vars, IInv, Types, Written, Finished, Loaded, Sound, Fresh, NoFailure,
               Alive, Has
<1>15. QED
  BY <1>1, <1>2, <1>3, <1>4, <1>5, <1>6, <1>7, <1>8, <1>9, <1>10, <1>11, <1>12,
     <1>13, <1>14 DEF Next

\* The invariant holds in every state.
LEMMA Invariant == Spec => []IInv
BY Initially, Inductive, PTL DEF Spec

-----------------------------------------------------------------------------

\* TypeOK: the variables have their types, and a torn file is the one being
\* written or was left by a run that ended before its last write.
THEOREM TypeCorrect == Spec => []TypeOK
<1>1. IInv => TypeOK
  <2> SUFFICES ASSUME IInv PROVE TypeOK
    OBVIOUS
  <2>1. \A f \in FileNames : files[f] \in {Missing, Torn} \cup {Whole(x) : x \in Contents(f)}
    BY DEF IInv, Types
  <2>2. code \in Versions /\ trained \in 0 .. MaxVersion /\ whole \subseteq Kinds
    BY DEF IInv, Types
  <2>3. job.kind \in Kinds \cup {"none"}
    BY JobOrNone DEF IInv
  <2>4. srv.at \in Loading \cup {"down", "failed", "up"}
    BY DEF IInv, Types, Server, Ended, Down
  <2>5. \A f \in DataFiles : "prepare" \in whole => IsWhole(f)
    BY Contained DEF IInv, Finished, DataFiles, FileNames
  <2>6. \A f \in FileNames \ DataFiles : "train" \in whole => IsWhole(f)
    BY Contained DEF IInv, Finished, DataFiles, FileNames
  <2>7. QED
    BY <2>1, <2>2, <2>3, <2>4, <2>5, <2>6 DEF TypeOK
<1>2. QED
  BY Invariant, <1>1, PTL

\* ServedZonesHaveHistory: the server answers for no zone it has no history of,
\* unless a prepare run ended, or was at work while it loaded, between its first
\* and its last write.
THEOREM ServedZonesAlwaysHaveHistory == Spec => []ServedZonesHaveHistory
<1>1. IInv => ServedZonesHaveHistory
  BY DEF IInv, Sound, ServedZonesHaveHistory, Served, Up, Alive
<1>2. QED
  BY Invariant, <1>1, PTL

\* ModelMatchesColumns: a healthy server has no model of other columns than it
\* computes, and a detector of just these when its path is configured, though
\* only the schema file is compared; a train run that ended, or was at work while
\* the server loaded, between its first and its last write is excepted.
THEOREM ModelAlwaysMatchesColumns == Spec => []ModelMatchesColumns
<1>1. IInv => ModelMatchesColumns
  BY DEF IInv, Sound, ModelMatchesColumns, Healthy, Up, Alive
<1>2. QED
  BY Invariant, <1>1, PTL

\* FreshPipelineIsHealthy: after one prepare and one train with the deployed code
\* no startup fails and every server is healthy, whatever failed or crashed
\* before; it has the detector of that train exactly when the path is configured.
THEOREM FreshPipelineAlwaysHealthy == Spec => []FreshPipelineIsHealthy
<1>1. IInv => FreshPipelineIsHealthy
  BY DEF IInv, Fresh, NoFailure, FreshPipelineIsHealthy, Started, Healthy, Up, Alive
<1>2. QED
  BY Invariant, <1>1, PTL
====
