------------------------------ MODULE Training ------------------------------
(***************************************************************************)
(* Step 2, ml/: a model is fitted to the saved splits and its artefacts    *)
(* are written one by one over those of the run before, under the one      *)
(* identifier there is.  Meanwhile requests to the API load the directory, *)
(* each for itself, and Step 1 may be saving other splits.                 *)
(*                                                                         *)
(* A split is the set of its customers; a fitted model is the number of    *)
(* its run.  Artefacts that nothing reads back (the feature names and      *)
(* specification, coefficients, metrics, ablation, reports) are left out.  *)
(***************************************************************************)
EXTENDS Integers, Sequences

CONSTANTS
  Datasets,    \* customer -> split: what Step 1 may assign
  Request,     \* requests to the API, one answer each
  MaxPreps,    \* bound: runs of Step 1
  MaxRuns,     \* bound: models fitted
  None,        \* no such file
  Torn         \* a file opened for writing and not yet written

Split == <<"train", "val", "test", "demo">>
SplitName == {Split[k] : k \in DOMAIN Split}
Part == <<"model", "preprocessor", "calibrator", "metadata">>
PartName == {Part[k] : k \in DOMAIN Part}
Calibration == {"none", "sigmoid", "isotonic"}
Output == {"test", "demo", "table"}

ASSUME TrainingAssumption ==
  /\ \A d \in Datasets : \A c \in DOMAIN d : d[c] \in SplitName
  /\ MaxPreps \in Nat /\ MaxRuns \in Nat
  /\ None # Torn /\ {None, Torn} \cap Nat = {}

VARIABLES
  preps,       \* runs of Step 1 so far
  unsaved,     \* splits it has yet to save, in order
  file,        \* split -> its customers on disk, or None
  stage,       \* where run_step2 is
  position,    \* which of its splits or parts
  data,        \* split -> what it read
  fitted,      \* run -> the data and the calibration of its model
  artefact,    \* part -> run, Torn or None
  settled,     \* history: the last save begun has ended
  scored,      \* output -> run whose predictions it has, or None
  request      \* request -> its progress and the parts it holds

vars == <<preps, unsaved, file, stage, position, data, fitted, artefact, settled,
          scored, request>>
step1 == <<preps, unsaved, file>>
directory == <<artefact, settled, request>>

Empty == [n \in SplitName |-> None]
NoParts == [p \in PartName |-> None]
Runs == DOMAIN fitted
Last == Len(fitted)

Init ==
  /\ preps = 0 /\ unsaved = <<>> /\ file = Empty
  /\ stage = "idle" /\ position = 1 /\ data = Empty
  /\ fitted = <<>>
  /\ artefact = NoParts /\ settled = FALSE
  /\ scored = [o \in Output |-> None]
  /\ request = [q \in Request |-> [at |-> "new", held |-> NoParts, quiet |-> FALSE]]

-----------------------------------------------------------------------------
(* Step 1 saves its splits one after the other (see DataPreparation).      *)

Members(d, n) == {c \in DOMAIN d : d[c] = n}

Prepare ==
  /\ unsaved = <<>> /\ preps < MaxPreps
  /\ preps' = preps + 1
  /\ \E d \in Datasets : unsaved' = [k \in DOMAIN Split |-> Members(d, Split[k])]
  /\ UNCHANGED <<file, stage, position, data, fitted, scored, directory>>

BeingSaved == Split[1 + Len(Split) - Len(unsaved)]

\* An empty split is passed over, and its file of a former run stays.
SaveSplit ==
  /\ unsaved # <<>>
  /\ file' = IF Head(unsaved) = {} THEN file
             ELSE [file EXCEPT ![BeingSaved] = Head(unsaved)]
  /\ unsaved' = Tail(unsaved)
  /\ UNCHANGED <<preps, stage, position, data, fitted, scored, directory>>

\* Step 1 is killed, in the middle of a file: it has some of its rows.
SavingKilled ==
  /\ unsaved # <<>> /\ Head(unsaved) # {}
  /\ \E rows \in SUBSET Head(unsaved) \ {Head(unsaved)} :
       file' = [file EXCEPT ![BeingSaved] = rows]
  /\ unsaved' = <<>>
  /\ UNCHANGED <<preps, stage, position, data, fitted, scored, directory>>

-----------------------------------------------------------------------------
(* run_step2: load, check, fit.                                            *)

At(s) == stage = s
GoTo(s) == stage' = s /\ position' = 1

Start ==
  /\ At("idle") /\ Last < MaxRuns
  /\ GoTo("load")
  /\ data' = Empty
  /\ UNCHANGED <<step1, fitted, scored, directory>>

\* A split without a file is left out.
LoadSplit ==
  /\ At("load") /\ position \in DOMAIN Split
  /\ data' = [data EXCEPT ![Split[position]] = file[Split[position]]]
  /\ position' = position + 1
  /\ UNCHANGED <<step1, stage, fitted, scored, directory>>

Loaded == At("load") /\ position > Len(Split)

Disjoint(d, m, n) == d[m] # None /\ d[n] # None => d[m] \cap d[n] = {}

\* Fault: only a split and the next one are compared.
IsolatedFromNext(d) ==
  \A k \in 1..(Len(Split) - 1) : Disjoint(d, Split[k], Split[k + 1])

\* assert_customer_split_isolation
Isolated(d) == \A m, n \in SplitName : m # n => Disjoint(d, m, n)

\* A missing split raises as an overlap does, before anything is written.
Fit ==
  /\ Loaded
  /\ Isolated(data) /\ None \notin {data["train"], data["val"], data["test"]}
  /\ \E c \in Calibration :
       fitted' = Append(fitted, [data |-> data, calibration |-> c])
  /\ GoTo("save")
  /\ UNCHANGED <<step1, data, scored, directory>>

FitFails ==
  /\ Loaded
  /\ ~Isolated(data) \/ None \in {data["train"], data["val"], data["test"]}
  /\ GoTo("idle")
  /\ UNCHANGED <<step1, data, fitted, scored, directory>>

-----------------------------------------------------------------------------
(* TrainedLogisticModel.save: part by part, in place.                      *)

Loading(q) == request[q].at \notin {"new", "answered", "failed"}

Disturbed ==
  [q \in Request |-> [request[q] EXCEPT !.quiet = @ /\ ~Loading(q)]]

Uncalibrated(p) == p = "calibrator" /\ fitted[Last].calibration = "none"

OpenPart ==
  /\ At("save") /\ position \in DOMAIN Part
  /\ LET p == Part[position]
     IN  ~Uncalibrated(p) /\ artefact' = [artefact EXCEPT ![p] = Torn]
  /\ stage' = "write"
  /\ settled' = FALSE /\ request' = Disturbed
  /\ UNCHANGED <<step1, position, data, fitted, scored>>

WritePart ==
  /\ At("write")
  /\ artefact' = [artefact EXCEPT ![Part[position]] = Last]
  /\ stage' = "save" /\ position' = position + 1
  /\ settled' = (position = Len(Part))
  /\ request' = Disturbed
  /\ UNCHANGED <<step1, data, fitted, scored>>

\* Fault: a calibrator of a former run is left where it is.
KeptCalibrator == artefact["calibrator"]

\* "Remove any stale calibrator artifact from a previous run."
RemovedCalibrator == None

RemoveCalibrator ==
  /\ At("save") /\ position \in DOMAIN Part /\ Uncalibrated(Part[position])
  /\ artefact' = [artefact EXCEPT !["calibrator"] = RemovedCalibrator]
  /\ position' = position + 1
  /\ request' = Disturbed
  /\ UNCHANGED <<step1, stage, data, fitted, settled, scored>>

Saved ==
  /\ At("save") /\ position > Len(Part)
  /\ GoTo("test")
  /\ UNCHANGED <<step1, data, fitted, scored, directory>>

-----------------------------------------------------------------------------
(* Predictions, by the model in memory.                                    *)

PredictTest ==
  /\ At("test")
  /\ scored' = [scored EXCEPT !["test"] = Last]
  /\ GoTo("demo")
  /\ UNCHANGED <<step1, data, fitted, directory>>

\* Without a demo split the file of a former run stays.
PredictDemo ==
  /\ At("demo")
  /\ scored' = IF data["demo"] = None THEN scored ELSE [scored EXCEPT !["demo"] = Last]
  /\ GoTo("table")
  /\ UNCHANGED <<step1, data, fitted, directory>>

\* Only if asked for; an error of the database is printed and passed over.
InsertPredictions ==
  /\ At("table")
  /\ scored' \in {scored, [scored EXCEPT !["table"] = Last]}
  /\ GoTo("idle")
  /\ UNCHANGED <<step1, data, fitted, directory>>

\* The process is killed, or a report or the ablation raises.
Crash ==
  /\ ~At("idle")
  /\ GoTo("idle")
  /\ UNCHANGED <<step1, data, fitted, scored, directory>>

-----------------------------------------------------------------------------
(* A request: PredictionService loads the model when it first needs it.    *)

Moves(q, at) == request' = [request EXCEPT ![q].at = at]
OnlyRequests == UNCHANGED <<step1, stage, position, data, fitted, artefact, settled, scored>>

BeginRequest(q) ==
  /\ request[q].at = "new"
  /\ request' = [request EXCEPT ![q].at = "model", ![q].quiet = settled]
  /\ OnlyRequests

\* The part a request reads, the next one, and those it may do without.
Reading == {"model", "preprocessor", "calibrator", "metadata"}
After == [model |-> "preprocessor", preprocessor |-> "exists",
          calibrator |-> "metadata", metadata |-> "scoring"]
Readable(p) ==
  artefact[p] # Torn /\ (artefact[p] = None => p = "metadata")

ReadPart(q) ==
  LET p == request[q].at
  IN  /\ p \in Reading /\ Readable(p)
      /\ request' = [request EXCEPT ![q].at = After[p], ![q].held[p] = artefact[p]]
      /\ OnlyRequests

ReadFails(q) ==
  /\ request[q].at \in Reading /\ ~Readable(request[q].at)
  /\ Moves(q, "failed")
  /\ OnlyRequests

FindCalibrator(q) ==
  /\ request[q].at = "exists"
  /\ Moves(q, IF artefact["calibrator"] = None THEN "metadata" ELSE "calibrator")
  /\ OnlyRequests

\* Without metadata the calibration is "none".
Chosen(held) ==
  IF held["metadata"] = None THEN "none" ELSE fitted[held["metadata"]].calibration
Kind(held) == fitted[held["calibrator"]].calibration

\* An isotonic prediction asks the calibrator for a method that only an
\* isotonic one has; otherwise parts that do not belong together may pass.
Scorable(held) ==
  (Chosen(held) = "isotonic" /\ held["calibrator"] # None) => Kind(held) = "isotonic"

Score(q) ==
  /\ request[q].at = "scoring" /\ Scorable(request[q].held)
  /\ Moves(q, "answered")
  /\ OnlyRequests

\* Features of a preprocessor of another run need not fit the model.
ScoreFails(q) ==
  /\ request[q].at = "scoring"
  /\ \/ ~Scorable(request[q].held)
     \/ request[q].held["model"] # request[q].held["preprocessor"]
  /\ Moves(q, "failed")
  /\ OnlyRequests

Serve(q) ==
  \/ BeginRequest(q) \/ ReadPart(q) \/ ReadFails(q) \/ FindCalibrator(q)
  \/ Score(q) \/ ScoreFails(q)

Next ==
  \/ Prepare \/ SaveSplit \/ SavingKilled
  \/ Start \/ LoadSplit \/ Fit \/ FitFails
  \/ OpenPart \/ WritePart \/ RemoveCalibrator \/ Saved
  \/ PredictTest \/ PredictDemo \/ InsertPredictions \/ Crash
  \/ \E q \in Request : Serve(q)

Spec == Init /\ [][Next]_vars

-----------------------------------------------------------------------------
(* Properties.                                                             *)

Whole(held) ==
  LET r == held["model"]
  IN  /\ r \in Runs /\ held["preprocessor"] = r /\ held["metadata"] = r
      /\ held["calibrator"] = IF fitted[r].calibration = "none" THEN None ELSE r

(* A request that loads after a save has ended and before another begins   *)
(* is answered by one run's model, preprocessor, calibrator and metadata,  *)
(* whatever saves were cut short before (model.py:95-131, 135-167).        *)
ServedIsWhole ==
  \A q \in Request :
    /\ request[q].at = "answered" /\ request[q].quiet => Whole(request[q].held)
    /\ request[q].at = "failed" => ~request[q].quiet

(* Predictions of the last model are found only where that very model can *)
(* be loaded, and its tests are of customers it was neither fitted to nor  *)
(* calibrated on, though splits are saved and read one by one, an empty    *)
(* one leaves an old file behind and any run may be cut short              *)
(* (data_io.py:91-112, 178-190, pipeline.py:247-314).                      *)
PredictionsStand ==
  \A o \in Output : scored[o] = Last =>
    /\ Whole(artefact) /\ artefact["model"] = Last
    /\ LET d == fitted[Last].data
       IN  (d["test"] \cup (IF d["demo"] = None THEN {} ELSE d["demo"]))
             \cap (d["train"] \cup d["val"]) = {}
=============================================================================
