---------------------------- MODULE DataProofs ----------------------------
(***************************************************************************)
(* Theorems about the modules that turn files into data and data into      *)
(* files, Training, DataPreparation and CsvAdapter, for any rows, customers*)
(* and assignments, and any number of requests and runs.  The three keep   *)
(* to different names, and each has its own specification.                 *)
(***************************************************************************)
EXTENDS Training, DataPreparation, CsvAdapter, SumsProofs, SequenceTheorems

-----------------------------------------------------------------------------
(* Training.                                                               *)

Customers == UNION {DOMAIN d : d \in Datasets}
Content == (SUBSET Customers) \cup {None}
Model == [data : [SplitName -> Content], calibration : Calibration]
Held == [PartName -> Runs \cup {None}]
Stage == {"idle", "load", "save", "write", "test", "demo", "table"}
Progress == Reading \cup {"new", "exists", "scoring", "answered", "failed"}

TypeInv ==
  /\ unsaved \in Seq(SUBSET Customers) /\ Len(unsaved) <= Len(Split)
  /\ file \in [SplitName -> Content]
  /\ stage \in Stage
  /\ position \in Nat \ {0}
  /\ data \in [SplitName -> Content]
  /\ fitted \in Seq(Model)
  /\ artefact \in [PartName -> Runs \cup {None, Torn}]
  /\ settled \in BOOLEAN
  /\ scored \in [Output -> Runs \cup {None}]
  /\ request \in [Request -> [at : Progress, held : Held, quiet : BOOLEAN]]

(* Every model is fitted to isolated splits that are there.                *)
FitInv ==
  \A r \in Runs :
    /\ Isolated(fitted[r].data)
    /\ None \notin {fitted[r].data["train"], fitted[r].data["val"], fitted[r].data["test"]}

(* A save has put in order the parts it has passed, and what is predicted  *)
(* is predicted by a model that is saved.                                  *)
Right(p) == IF Uncalibrated(p) THEN None ELSE Last

Saving == stage \in {"save", "write"}

SaveInv ==
  /\ Saving =>
       /\ Last > 0 /\ position <= Len(Part) + 1
       /\ \A k \in 1..(position - 1) : artefact[Part[k]] = Right(Part[k])
       /\ \A o \in Output : scored[o] # Last
  /\ stage = "write" => position <= Len(Part) /\ ~Uncalibrated(Part[position])
  /\ stage \in {"test", "demo", "table"} => Last > 0 /\ \A p \in PartName : artefact[p] = Right(p)
  /\ (\E o \in Output : scored[o] = Last) => \A p \in PartName : artefact[p] = Right(p)

SettledInv ==
  settled =>
    /\ Whole(artefact)
    /\ stage # "write"
    /\ stage = "save" => position \in {1, Len(Part) + 1}

(* What a request that loads undisturbed holds is what is there.           *)
LoadInv(q) ==
  LET r == request[q]
      Has(p) == r.held[p] = artefact[p]
  IN  /\ r.at = "new" => ~r.quiet /\ r.held["calibrator"] = None
      /\ r.quiet =>
        /\ r.at # "failed"
        /\ r.at # "answered" => Whole(artefact)
        /\ r.at \notin {"model", "answered"} => Has("model")
        /\ r.at \notin {"model", "preprocessor", "answered"} => Has("preprocessor")
        /\ r.at \in {"model", "preprocessor", "exists", "calibrator"} =>
             r.held["calibrator"] = None
        /\ r.at = "calibrator" => artefact["calibrator"] # None
        /\ r.at \in {"metadata", "scoring"} => Has("calibrator")
        /\ r.at = "scoring" => Has("metadata")
        /\ r.at = "answered" => Whole(r.held)

Inv ==
  /\ TypeInv /\ FitInv /\ SaveInv /\ SettledInv
  /\ \A q \in Request : LoadInv(q)

-----------------------------------------------------------------------------
(* Names, runs and whole models.                                           *)

LEMMA Names ==
  /\ Len(Split) = 4 /\ DOMAIN Split = 1..4
  /\ SplitName = {"train", "val", "test", "demo"}
  /\ \A k \in 1..4 : Split[k] \in SplitName
  /\ Len(Part) = 4 /\ DOMAIN Part = 1..4
  /\ PartName = {"model", "preprocessor", "calibrator", "metadata"}
  /\ Part[1] = "model" /\ Part[2] = "preprocessor"
  /\ Part[3] = "calibrator" /\ Part[4] = "metadata"
<1>1. Len(Split) = 4 /\ DOMAIN Split = 1..4 /\ Len(Part) = 4 /\ DOMAIN Part = 1..4
  BY DEF Split, Part
<1>2. /\ Split[1] = "train" /\ Split[2] = "val" /\ Split[3] = "test" /\ Split[4] = "demo"
      /\ Part[1] = "model" /\ Part[2] = "preprocessor"
      /\ Part[3] = "calibrator" /\ Part[4] = "metadata"
  BY DEF Split, Part
<1>3. 1..4 = {1, 2, 3, 4}
  OBVIOUS
<1>4. SplitName = {Split[1], Split[2], Split[3], Split[4]}
  BY <1>1, <1>3 DEF SplitName
<1>5. PartName = {Part[1], Part[2], Part[3], Part[4]}
  BY <1>1, <1>3 DEF PartName
<1> QED
  BY <1>1, <1>2, <1>3, <1>4, <1>5

LEMMA RunsAre ==
  ASSUME fitted \in Seq(Model)
  PROVE  /\ Last \in Nat /\ Runs = 1..Last
         /\ \A r \in Runs : fitted[r] \in Model
         /\ None \notin Runs /\ Torn \notin Runs /\ None # Torn
<1>1. Last \in Nat /\ Runs = 1..Last /\ \A r \in Runs : fitted[r] \in Model
  BY DEF Last, Runs
<1>2. Runs \subseteq Nat
  BY <1>1
<1> QED
  BY <1>1, <1>2, TrainingAssumption

LEMMA SameRuns ==
  ASSUME fitted' = fitted
  PROVE  Runs' = Runs /\ Last' = Last /\ Held' = Held
BY DEF Runs, Last, Held

LEMMA Appended ==
  ASSUME fitted \in Seq(Model), NEW m \in Model, fitted' = Append(fitted, m)
  PROVE  /\ fitted' \in Seq(Model)
         /\ Last' = Last + 1 /\ Runs' = 1..(Last + 1)
         /\ Runs \subseteq Runs'
         /\ \A r \in Runs : fitted'[r] = fitted[r]
         /\ fitted'[Last + 1] = m
<1>1. /\ fitted' \in Seq(Model) /\ Len(fitted') = Len(fitted) + 1
      /\ DOMAIN fitted' = 1..(Len(fitted) + 1)
      /\ \A r \in 1..Len(fitted) : fitted'[r] = fitted[r]
      /\ fitted'[Len(fitted) + 1] = m
  OBVIOUS
<1> QED
  BY <1>1, RunsAre DEF Last, Runs

(* Parts that are all right make a whole model, the last.                  *)
LEMMA RightIsWhole ==
  ASSUME fitted \in Seq(Model), Last > 0, NEW a, \A p \in PartName : a[p] = Right(p)
  PROVE  Whole(a) /\ a["model"] = Last
<1>1. Last \in Runs
  BY RunsAre
<1>2. /\ Right("model") = Last /\ Right("preprocessor") = Last /\ Right("metadata") = Last
      /\ Right("calibrator") = IF fitted[Last].calibration = "none" THEN None ELSE Last
  BY DEF Right, Uncalibrated
<1>3. /\ a["model"] = Last /\ a["preprocessor"] = Last
      /\ a["metadata"] = Last
      /\ a["calibrator"] = Right("calibrator")
  BY <1>2, Names
<1> QED
  BY <1>1, <1>2, <1>3 DEF Whole

(* Whatever is fitted besides, a whole model stays whole.                  *)
LEMMA WholeNext ==
  ASSUME Runs \subseteq Runs', \A r \in Runs : fitted'[r] = fitted[r]
  PROVE  /\ Whole(artefact') => Whole(artefact)'
         /\ \A q \in Request : Whole(request'[q].held) => Whole(request[q].held)'
BY DEF Whole

-----------------------------------------------------------------------------
(* Types.                                                                  *)

LEMMA MembersTyped ==
  ASSUME NEW d \in Datasets, NEW n
  PROVE  Members(d, n) \in SUBSET Customers
BY DEF Members, Customers

LEMMA RequestsTyped ==
  ASSUME TypeInv, NEW q \in Request, Serve(q)
  PROVE  request' \in [Request -> [at : Progress, held : Held, quiet : BOOLEAN]]
<1> USE DEF TypeInv
<1>1. request[q] \in [at : Progress, held : Held, quiet : BOOLEAN]
  OBVIOUS
<1>2. CASE BeginRequest(q)
  BY <1>2 DEF BeginRequest, Progress, Reading
<1>3. CASE ReadPart(q)
  <2> DEFINE p == request[q].at
  <2>1. p \in Reading /\ Readable(p) /\ p \in PartName
    BY <1>3, Names DEF ReadPart, Reading
  <2>2. artefact[p] \in Runs \cup {None}
    BY <2>1 DEF Readable
  <2>3. After[p] \in Progress
    BY <2>1 DEF After, Reading, Progress
  <2>4. [request[q].held EXCEPT ![p] = artefact[p]] \in Held
    BY <1>1, <2>1, <2>2 DEF Held
  <2>5. request' = [request EXCEPT ![q] =
          [request[q] EXCEPT !.at = After[p], !.held = [request[q].held EXCEPT ![p] = artefact[p]]]]
    BY <1>1, <1>3 DEF ReadPart
  <2> QED
    BY <1>1, <2>3, <2>4, <2>5
<1>4. CASE ReadFails(q)
  BY <1>4 DEF ReadFails, Moves, Progress
<1>5. CASE FindCalibrator(q)
  BY <1>5 DEF FindCalibrator, Moves, Progress, Reading
<1>6. CASE Score(q)
  BY <1>6 DEF Score, Moves, Progress
<1>7. CASE ScoreFails(q)
  BY <1>7 DEF ScoreFails, Moves, Progress
<1> QED
  BY <1>2, <1>3, <1>4, <1>5, <1>6, <1>7 DEF Serve

LEMMA DisturbedTyped ==
  ASSUME TypeInv, request' = Disturbed
  PROVE  request' \in [Request -> [at : Progress, held : Held, quiet : BOOLEAN]]
BY DEF TypeInv, Disturbed, Loading

LEMMA InitTyped ==
  ASSUME Init
  PROVE  TypeInv
<1>1. unsaved \in Seq(SUBSET Customers) /\ Len(unsaved) <= Len(Split) /\ fitted \in Seq(Model)
  BY Names DEF Init
<1>2. file \in [SplitName -> Content] /\ data \in [SplitName -> Content]
  BY DEF Init, Empty, Content
<1>3. artefact \in [PartName -> Runs \cup {None, Torn}] /\ scored \in [Output -> Runs \cup {None}]
  BY DEF Init, NoParts
<1>4. request \in [Request -> [at : Progress, held : Held, quiet : BOOLEAN]]
  BY DEF Init, NoParts, Held, Progress
<1>5. stage \in Stage /\ position \in Nat \ {0}
  BY DEF Init, Stage
<1>6. settled \in BOOLEAN
  BY Zenon DEF Init
<1> QED
  BY <1>1, <1>2, <1>3, <1>4, <1>5, <1>6, Zenon DEF TypeInv

LEMMA StepTyped ==
  ASSUME TypeInv, SaveInv, [Next]_vars
  PROVE  TypeInv'
<1>0. Saving \/ stage \in {"test", "demo", "table"} => Last \in Runs
  BY RunsAre DEF TypeInv, SaveInv
<1>1. CASE Prepare
  <2>1. PICK d \in Datasets : unsaved' = [k \in DOMAIN Split |-> Members(d, Split[k])]
    BY <1>1 DEF Prepare
  <2>2. unsaved' \in [1..4 -> SUBSET Customers]
    BY <2>1, Names, MembersTyped
  <2>3. unsaved' \in Seq(SUBSET Customers) /\ Len(unsaved') = 4
    <3>1. unsaved' \in Seq(SUBSET Customers) /\ DOMAIN unsaved' = 1..4
      BY <2>2, SeqDef
    <3>2. Len(unsaved') \in Nat /\ DOMAIN unsaved' = 1..Len(unsaved')
      BY <3>1, LenProperties
    <3> QED
      BY <3>1, <3>2
  <2> QED
    BY <1>1, <2>3, Names, SameRuns DEF Prepare, TypeInv, directory
<1>2. CASE SaveSplit \/ SavingKilled
  <2> DEFINE n == Split[1 + Len(Split) - Len(unsaved)]
  <2>1. /\ Len(unsaved) \in 1..4
        /\ Head(unsaved) \in SUBSET Customers
        /\ Tail(unsaved) \in Seq(SUBSET Customers) /\ Len(Tail(unsaved)) = Len(unsaved) - 1
    <3>1. unsaved \in Seq(SUBSET Customers) /\ unsaved # <<>> /\ Len(unsaved) <= 4
      BY <1>2, Names DEF SaveSplit, SavingKilled, TypeInv
    <3>2. Len(unsaved) \in Nat \ {0}
      BY <3>1, EmptySeq
    <3>3. /\ Head(unsaved) \in SUBSET Customers /\ Tail(unsaved) \in Seq(SUBSET Customers)
          /\ Len(Tail(unsaved)) = Len(unsaved) - 1
      BY <3>1, HeadTailProperties, Zenon
    <3> QED
      BY <3>1, <3>2, <3>3
  <2>2. n \in SplitName
    <3>0. Len(Split) = 4
      BY Names
    <3>1. \A l \in 1..4 : 1 + 4 - l \in 1..4
      OBVIOUS
    <3>2. \A k \in 1..4 : Split[k] \in SplitName
      BY Names
    <3> QED
      BY <2>1, <3>0, <3>1, <3>2
  <2>3. file' \in [SplitName -> Content]
    <3>1. CASE SaveSplit
      BY <2>1, <2>2, <3>1 DEF SaveSplit, BeingSaved, TypeInv, Content
    <3>2. CASE SavingKilled
      BY <2>1, <2>2, <3>2 DEF SavingKilled, BeingSaved, TypeInv, Content
    <3> QED
      BY <1>2, <3>1, <3>2
  <2>4. unsaved' \in Seq(SUBSET Customers) /\ Len(unsaved') <= Len(Split)
    <3>1. CASE SaveSplit
      <4>1. unsaved' = Tail(unsaved)
        BY <3>1 DEF SaveSplit
      <4> QED
        BY <2>1, <4>1, Names
    <3>2. CASE SavingKilled
      <4>1. unsaved' = <<>>
        BY <3>2 DEF SavingKilled
      <4> QED
        BY <4>1, Names
    <3> QED
      BY <1>2, <3>1, <3>2
  <2> QED
    BY <1>2, <2>3, <2>4, SameRuns DEF SaveSplit, SavingKilled, TypeInv, directory
<1>3. CASE Start
  BY <1>3, SameRuns DEF Start, GoTo, Stage, Empty, Content, TypeInv, step1, directory
<1>4. CASE LoadSplit
  <2>1. Split[position] \in SplitName
    BY <1>4 DEF LoadSplit, SplitName
  <2>2. data' \in [SplitName -> Content] /\ position' \in Nat \ {0}
    BY <1>4, <2>1 DEF LoadSplit, TypeInv
  <2> QED
    BY <1>4, <2>2, SameRuns DEF LoadSplit, TypeInv, step1, directory
<1>5. CASE Fit
  <2>1. PICK c \in Calibration : fitted' = Append(fitted, [data |-> data, calibration |-> c])
    BY <1>5 DEF Fit
  <2>2. [data |-> data, calibration |-> c] \in Model
    BY DEF Model, TypeInv
  <2>3. fitted' \in Seq(Model) /\ Runs \subseteq Runs'
    BY <2>1, <2>2, Appended DEF TypeInv
  <2>4. /\ [PartName -> Runs \cup {None, Torn}] \subseteq [PartName -> Runs' \cup {None, Torn}]
        /\ [Output -> Runs \cup {None}] \subseteq [Output -> Runs' \cup {None}]
        /\ Held \subseteq Held'
    BY <2>3 DEF Held
  <2>5. [Request -> [at : Progress, held : Held, quiet : BOOLEAN]]
          \subseteq [Request -> [at : Progress, held : Held', quiet : BOOLEAN]]
    BY <2>4
  <2> QED
    BY <1>5, <2>3, <2>4, <2>5 DEF Fit, GoTo, Stage, TypeInv, step1, directory
<1>6. CASE FitFails
  BY <1>6, SameRuns DEF FitFails, GoTo, Stage, TypeInv, step1, directory
<1>7. CASE OpenPart
  BY <1>7, DisturbedTyped, SameRuns DEF OpenPart, Stage, TypeInv, step1
<1>8. CASE WritePart
  <2>1. Last \in Runs
    BY <1>0, <1>8 DEF WritePart, At, Saving
  <2>2. settled' \in BOOLEAN
    BY <1>8, Zenon DEF WritePart
  <2>3. artefact' \in [PartName -> Runs \cup {None, Torn}]
    BY <1>8, <2>1 DEF WritePart, TypeInv
  <2>4. request' \in [Request -> [at : Progress, held : Held, quiet : BOOLEAN]]
    BY <1>8, DisturbedTyped DEF WritePart
  <2>5. position' \in Nat \ {0} /\ stage' \in Stage
    BY <1>8 DEF WritePart, TypeInv, Stage
  <2> QED
    BY <1>8, <2>2, <2>3, <2>4, <2>5, SameRuns DEF WritePart, TypeInv, step1
<1>9. CASE RemoveCalibrator
  <2>1. artefact' \in [PartName -> Runs \cup {None, Torn}]
    BY <1>9 DEF RemoveCalibrator, RemovedCalibrator, TypeInv
  <2>2. request' \in [Request -> [at : Progress, held : Held, quiet : BOOLEAN]]
    BY <1>9, DisturbedTyped DEF RemoveCalibrator
  <2>3. position' \in Nat \ {0}
    BY <1>9 DEF RemoveCalibrator, TypeInv
  <2> QED
    BY <1>9, <2>1, <2>2, <2>3, SameRuns DEF RemoveCalibrator, TypeInv, step1
<1>10. CASE Saved
  BY <1>10, SameRuns DEF Saved, GoTo, Stage, TypeInv, step1, directory
<1>11. CASE PredictTest \/ PredictDemo \/ InsertPredictions
  BY <1>0, <1>11, SameRuns DEF PredictTest, PredictDemo, InsertPredictions, At, GoTo,
     Stage, TypeInv, step1, directory
<1>12. CASE Crash
  BY <1>12, SameRuns DEF Crash, GoTo, Stage, TypeInv, step1, directory
<1>13. ASSUME NEW q \in Request, Serve(q) PROVE TypeInv'
  <2>1. OnlyRequests
    BY <1>13 DEF Serve, BeginRequest, ReadPart, ReadFails, FindCalibrator, Score, ScoreFails
  <2> QED
    BY <1>13, <2>1, RequestsTyped, SameRuns DEF OnlyRequests, TypeInv, step1
<1>14. CASE UNCHANGED vars
  BY <1>14, SameRuns DEF vars, TypeInv
<1> QED
  BY <1>1, <1>2, <1>3, <1>4, <1>5, <1>6, <1>7, <1>8, <1>9, <1>10, <1>11, <1>12, <1>13, <1>14
     DEF Next

-----------------------------------------------------------------------------
(* Fitting.                                                                *)

LEMMA StepFit ==
  ASSUME TypeInv, FitInv, [Next]_vars
  PROVE  FitInv'
<1>1. CASE Fit
  <2>1. PICK c \in Calibration : fitted' = Append(fitted, [data |-> data, calibration |-> c])
    BY <1>1 DEF Fit
  <2>2. [data |-> data, calibration |-> c] \in Model
    BY DEF Model, TypeInv
  <2>3. /\ Runs = 1..Last /\ Last \in Nat /\ Runs' = 1..(Last + 1)
        /\ \A r \in Runs : fitted'[r] = fitted[r]
        /\ fitted'[Last + 1].data = data
    <3>1. /\ Runs' = 1..(Last + 1) /\ \A r \in Runs : fitted'[r] = fitted[r]
          /\ fitted'[Last + 1] = [data |-> data, calibration |-> c]
      BY <2>1, <2>2, Appended DEF TypeInv
    <3>2. Runs = 1..Last /\ Last \in Nat
      BY RunsAre DEF TypeInv
    <3> QED
      BY <3>1, <3>2
  <2>4. Isolated(data) /\ None \notin {data["train"], data["val"], data["test"]}
    BY <1>1 DEF Fit
  <2>5. \A r \in Runs' : r \in Runs \/ r = Last + 1
    BY <2>3
  <2> QED
    BY <2>3, <2>4, <2>5 DEF FitInv, Isolated, Disjoint
<1>2. CASE UNCHANGED fitted
  BY <1>2, SameRuns DEF FitInv
<1> QED
  BY <1>1, <1>2 DEF Next, vars, Prepare, SaveSplit, SavingKilled, Start, LoadSplit,
     FitFails, OpenPart, WritePart, RemoveCalibrator, Saved, PredictTest, PredictDemo, InsertPredictions, Crash,
     Serve, BeginRequest, ReadPart, ReadFails, FindCalibrator, Score, ScoreFails, OnlyRequests

-----------------------------------------------------------------------------
(* Saving.                                                                 *)

LEMMA SameRight ==
  ASSUME fitted' = fitted, NEW p
  PROVE  Right(p)' = Right(p) /\ Uncalibrated(p)' = Uncalibrated(p)
BY SameRuns DEF Right, Uncalibrated

LEMMA StepSave ==
  ASSUME TypeInv, SaveInv, [Next]_vars
  PROVE  SaveInv'
<1>0. /\ Last \in Nat /\ Runs = 1..Last /\ None \notin Runs /\ position \in Nat \ {0}
      /\ Last = 0 => \A o \in Output : scored[o] # Last
      /\ \A o \in Output : scored[o] \in Runs \cup {None}
  <2>1. \A o \in Output : scored[o] \in Runs \cup {None}
    BY DEF TypeInv
  <2>2. 0 # None
    BY TrainingAssumption
  <2> QED
    BY <2>1, <2>2, RunsAre DEF TypeInv
<1>1. CASE Fit
  <2>1. PICK c \in Calibration : fitted' = Append(fitted, [data |-> data, calibration |-> c])
    BY <1>1 DEF Fit
  <2>2. [data |-> data, calibration |-> c] \in Model
    BY DEF Model, TypeInv
  <2>3. Last' = Last + 1
    BY <2>1, <2>2, Appended DEF TypeInv
  <2>4. stage' = "save" /\ position' = 1 /\ scored' = scored
    BY <1>1 DEF Fit, GoTo
  <2>5. \A o \in Output : scored[o] # Last + 1
    <3>1. Last + 1 \in Nat /\ Last + 1 \notin Runs
      BY <1>0
    <3> QED
      BY <1>0, <3>1, TrainingAssumption
  <2> QED
    BY <1>0, <2>3, <2>4, <2>5, Names DEF SaveInv, Saving
<1>2. CASE OpenPart
  <2> DEFINE p == Part[position]
  <2>1. position \in 1..4 /\ ~Uncalibrated(p) /\ artefact' = [artefact EXCEPT ![p] = Torn]
    BY <1>2, Names DEF OpenPart
  <2>2. \A k \in 1..(position - 1) : Part[k] # p
    BY <2>1, Names
  <2>3. \A k \in 1..(position - 1) : artefact'[Part[k]] = artefact[Part[k]]
    BY <2>1, <2>2, Names DEF TypeInv
  <2>4. stage' = "write" /\ stage = "save" /\ UNCHANGED <<position, fitted, scored>>
    BY <1>2 DEF OpenPart, At
  <2> QED
    BY <1>0, <2>1, <2>3, <2>4, SameRight, SameRuns, Names DEF SaveInv, Saving
<1>3. CASE WritePart
  <2> DEFINE p == Part[position]
  <2>1. /\ stage = "write" /\ stage' = "save" /\ position' = position + 1
        /\ artefact' = [artefact EXCEPT ![p] = Last]
        /\ UNCHANGED <<fitted, scored>>
    BY <1>3 DEF WritePart, At
  <2>2. position \in 1..4 /\ ~Uncalibrated(p) /\ p \in PartName
    BY <1>0, <2>1, Names DEF SaveInv
  <2>3. \A k \in 1..(position - 1) : Part[k] # p /\ Part[k] \in PartName
    BY <2>2, Names
  <2>4. \A k \in 1..position : artefact'[Part[k]] = Right(Part[k])
    BY <2>1, <2>2, <2>3 DEF SaveInv, Saving, Right, TypeInv
  <2> QED
    BY <1>0, <2>1, <2>2, <2>4, SameRight, SameRuns, Names DEF SaveInv, Saving
<1>4. CASE RemoveCalibrator
  <2> DEFINE p == Part[position]
  <2>1. /\ stage = "save" /\ stage' = "save" /\ position' = position + 1
        /\ artefact' = [artefact EXCEPT !["calibrator"] = None]
        /\ UNCHANGED <<fitted, scored>>
        /\ position \in 1..4 /\ Uncalibrated(p)
    BY <1>4, Names DEF RemoveCalibrator, RemovedCalibrator, At
  <2>2. p = "calibrator"
    BY <2>1 DEF Uncalibrated
  <2>3. \A k \in 1..(position - 1) : Part[k] # p /\ Part[k] \in PartName
    BY <2>1, Names
  <2>4. \A k \in 1..position : artefact'[Part[k]] = Right(Part[k])
    BY <2>1, <2>2, <2>3, Names DEF SaveInv, Saving, Right, TypeInv
  <2> QED
    BY <1>0, <2>1, <2>4, SameRight, SameRuns, Names DEF SaveInv, Saving
<1>5. CASE Saved
  <2>1. /\ stage = "save" /\ position > 4 /\ stage' = "test"
        /\ UNCHANGED <<fitted, artefact, scored>>
    BY <1>5, Names DEF Saved, At, GoTo, directory
  <2>2. \A k \in 1..4 : artefact[Part[k]] = Right(Part[k])
    BY <1>0, <2>1 DEF SaveInv, Saving
  <2>3. \A p \in PartName : artefact[p] = Right(p)
    BY <2>2, Names
  <2> QED
    BY <2>1, <2>3, SameRight, SameRuns DEF SaveInv, Saving
<1>6. CASE PredictTest \/ PredictDemo \/ InsertPredictions
  <2>1. /\ stage \in {"test", "demo", "table"} /\ stage' \in {"demo", "table", "idle"}
        /\ UNCHANGED <<fitted, artefact>>
    BY <1>6 DEF PredictTest, PredictDemo, InsertPredictions, At, GoTo, directory
  <2> QED
    BY <2>1, SameRight, SameRuns DEF SaveInv, Saving
<1>7. CASE Start \/ LoadSplit \/ FitFails \/ Crash
  <2>1. stage' \in {"idle", "load"} /\ UNCHANGED <<fitted, artefact, scored>>
    BY <1>7 DEF Start, LoadSplit, FitFails, Crash, At, GoTo, directory
  <2> QED
    BY <2>1, SameRight, SameRuns DEF SaveInv, Saving
<1>8. CASE UNCHANGED <<stage, position, fitted, artefact, scored>>
  BY <1>8, SameRight, SameRuns DEF SaveInv, Saving
<1> QED
  BY <1>1, <1>2, <1>3, <1>4, <1>5, <1>6, <1>7, <1>8 DEF Next, vars, Prepare, SaveSplit,
     SavingKilled, Serve, BeginRequest, ReadPart, ReadFails, FindCalibrator, Score, ScoreFails,
     OnlyRequests, directory

-----------------------------------------------------------------------------
(* Models that are whole, on disk and in a request.                        *)

(* A model is fitted, or none.                                             *)
LEMMA RunsStay ==
  ASSUME TypeInv, [Next]_vars
  PROVE  /\ Runs \subseteq Runs' /\ \A r \in Runs : fitted'[r] = fitted[r]
         /\ ~Fit => fitted' = fitted
<1>1. CASE Fit
  <2>1. PICK c \in Calibration : fitted' = Append(fitted, [data |-> data, calibration |-> c])
    BY <1>1 DEF Fit
  <2>2. [data |-> data, calibration |-> c] \in Model
    BY DEF Model, TypeInv
  <2> QED
    BY <1>1, <2>1, <2>2, Appended DEF TypeInv
<1>2. CASE fitted' = fitted
  BY <1>2, SameRuns
<1> QED
  BY <1>1, <1>2 DEF Next, vars, Prepare, SaveSplit, SavingKilled, Start, LoadSplit,
     FitFails, OpenPart, WritePart, RemoveCalibrator, Saved, PredictTest, PredictDemo, InsertPredictions, Crash,
     Serve, BeginRequest, ReadPart, ReadFails, FindCalibrator, Score, ScoreFails, OnlyRequests

LEMMA StepSettled ==
  ASSUME TypeInv, SaveInv, SettledInv, [Next]_vars
  PROVE  SettledInv'
<1>0. Whole(artefact') => Whole(artefact)'
  BY RunsStay, WholeNext
<1>1. CASE Fit
  <2>1. stage' = "save" /\ position' = 1 /\ UNCHANGED <<artefact, settled>>
    BY <1>1 DEF Fit, GoTo, directory
  <2> QED
    BY <1>0, <2>1 DEF SettledInv
<1>2. CASE OpenPart
  <2>1. settled' = FALSE
    BY <1>2 DEF OpenPart
  <2> QED
    BY <2>1 DEF SettledInv
<1>3. CASE WritePart
  <2> DEFINE p == Part[position]
  <2>1. /\ stage = "write" /\ stage' = "save" /\ position' = position + 1
        /\ artefact' = [artefact EXCEPT ![p] = Last]
        /\ settled' => position = 4
    BY <1>3, Names DEF WritePart, At
  <2>2. /\ Last > 0 /\ ~Uncalibrated(p)
        /\ \A k \in 1..(position - 1) : artefact[Part[k]] = Right(Part[k])
    BY <2>1 DEF SaveInv, Saving
  <2>3. ASSUME position = 4 PROVE \A n \in PartName : artefact'[n] = Right(n)
    BY <2>1, <2>2, <2>3, Names DEF Right, TypeInv
  <2>4. settled' => Whole(artefact')
    BY <2>1, <2>2, <2>3, RightIsWhole DEF TypeInv
  <2> QED
    BY <1>0, <2>1, <2>4, Names DEF SettledInv
<1>4. CASE RemoveCalibrator
  <2>1. /\ stage = "save" /\ position \in 1..4 /\ Part[position] = "calibrator"
        /\ settled' = settled
    BY <1>4, Names DEF RemoveCalibrator, Uncalibrated, At
  <2>2. position = 3
    BY <2>1, Names
  <2> QED
    BY <2>1, <2>2, Names DEF SettledInv
<1>5. CASE UNCHANGED <<stage, position, artefact, settled>>
  BY <1>0, <1>5 DEF SettledInv
<1>6. CASE stage' \notin {"save", "write"} /\ UNCHANGED <<artefact, settled>>
  BY <1>0, <1>6 DEF SettledInv
<1> QED
  BY <1>1, <1>2, <1>3, <1>4, <1>5, <1>6 DEF Next, vars, Prepare, SaveSplit, SavingKilled,
     Start, LoadSplit, FitFails, Saved, PredictTest, PredictDemo, InsertPredictions, Crash, GoTo, At,
     Serve, BeginRequest, ReadPart, ReadFails, FindCalibrator, Score, ScoreFails,
     OnlyRequests, directory

(* A request makes a step of its own.                                      *)
LEMMA StepServed ==
  ASSUME TypeInv, SettledInv, NEW q \in Request, LoadInv(q), Serve(q)
  PROVE  LoadInv(q)'
<1> DEFINE r == request[q]
           Has(p) == r.held[p] = artefact[p]
<1>0. /\ r \in [at : Progress, held : Held, quiet : BOOLEAN]
      /\ request' \in [Request -> [at : Progress, held : Held, quiet : BOOLEAN]]
      /\ \A p \in PartName : artefact[p] \in Runs \cup {None, Torn}
  BY RequestsTyped DEF TypeInv
<1>a. UNCHANGED <<artefact, fitted>>
  BY DEF Serve, BeginRequest, ReadPart, ReadFails, FindCalibrator, Score, ScoreFails,
     OnlyRequests
<1>b. /\ Whole(artefact') => Whole(artefact)'
      /\ Whole(request'[q].held) => Whole(request[q].held)'
  BY <1>a, SameRuns, WholeNext
<1>c. ASSUME Whole(artefact)
      PROVE  /\ artefact["model"] \in Runs
             /\ artefact["preprocessor"] = artefact["model"]
             /\ artefact["metadata"] = artefact["model"]
             /\ artefact["calibrator"] =
                  IF fitted[artefact["model"]].calibration = "none" THEN None
                  ELSE artefact["model"]
  BY <1>c DEF Whole
<1>d. None \notin Runs /\ Torn \notin Runs /\ None # Torn
  BY RunsAre DEF TypeInv
<1>1. CASE BeginRequest(q)
  <2>1. /\ r.at = "new"
        /\ request'[q] = [r EXCEPT !.at = "model", !.quiet = settled]
    BY <1>1 DEF BeginRequest, TypeInv
  <2>2. /\ request'[q].at = "model" /\ request'[q].quiet = settled
        /\ request'[q].held = r.held
    BY <1>0, <2>1
  <2>3. r.held["calibrator"] = None
    BY <2>1 DEF LoadInv
  <2>4. settled => Whole(artefact')
    BY <1>a DEF SettledInv
  <2> QED
    BY <1>b, <2>2, <2>3, <2>4 DEF LoadInv
<1>2. CASE ReadPart(q)
  <2> DEFINE p == r.at
             h == [r.held EXCEPT ![p] = artefact[p]]
  <2>1. p \in Reading /\ Readable(p) /\ p \in PartName
    BY <1>2, Names DEF ReadPart, Reading
  <2>2. request'[q] = [r EXCEPT !.at = After[p], !.held = h]
    BY <1>2 DEF ReadPart, TypeInv
  <2>3. /\ request'[q].at = After[p] /\ request'[q].quiet = r.quiet
        /\ request'[q].held = h
    BY <1>0, <2>2
  <2>4. h[p] = artefact[p] /\ \A o \in PartName : o # p => h[o] = r.held[o]
    BY <1>0, <2>1 DEF Held
  <2>5. r.quiet => Whole(artefact) /\ Whole(artefact)'
    BY <1>a, <1>b, <2>1 DEF LoadInv, Reading
  <2>6. CASE p = "model"
    <3>1. request'[q].at = "preprocessor"
      BY <2>3, <2>6 DEF After
    <3> QED
      BY <1>a, <2>3, <2>4, <2>5, <2>6, <3>1, Names DEF LoadInv
  <2>7. CASE p = "preprocessor"
    <3>1. request'[q].at = "exists"
      BY <2>3, <2>7 DEF After
    <3> QED
      BY <1>a, <2>3, <2>4, <2>5, <2>7, <3>1, Names DEF LoadInv
  <2>8. CASE p = "calibrator"
    <3>1. request'[q].at = "metadata"
      BY <2>3, <2>8 DEF After
    <3> QED
      BY <1>a, <2>3, <2>4, <2>5, <2>8, <3>1, Names DEF LoadInv
  <2>9. CASE p = "metadata"
    <3>1. request'[q].at = "scoring"
      BY <2>3, <2>9 DEF After
    <3> QED
      BY <1>a, <2>3, <2>4, <2>5, <2>9, <3>1, Names DEF LoadInv
  <2> QED
    BY <2>1, <2>6, <2>7, <2>8, <2>9 DEF Reading
<1>3. CASE ReadFails(q)
  <2>1. r.at \in Reading /\ ~Readable(r.at)
    BY <1>3 DEF ReadFails
  <2>2. r.quiet => Whole(artefact)
    BY <2>1 DEF LoadInv, Reading
  <2>3. r.quiet /\ r.at = "calibrator" => artefact["calibrator"] # None
    BY DEF LoadInv
  <2>4. ~r.quiet
    BY <1>c, <1>d, <2>1, <2>2, <2>3 DEF Readable, Reading
  <2>5. request'[q] = [r EXCEPT !.at = "failed"]
    BY <1>3 DEF ReadFails, Moves, TypeInv
  <2>6. request'[q].at = "failed" /\ request'[q].quiet = r.quiet
    BY <1>0, <2>5
  <2> QED
    BY <2>4, <2>6 DEF LoadInv
<1>4. CASE FindCalibrator(q)
  <2> DEFINE at == IF artefact["calibrator"] = None THEN "metadata" ELSE "calibrator"
  <2>1. r.at = "exists" /\ request'[q] = [r EXCEPT !.at = at]
    BY <1>4 DEF FindCalibrator, Moves, TypeInv
  <2>2. request'[q].at = at /\ request'[q].quiet = r.quiet /\ request'[q].held = r.held
    BY <1>0, <2>1
  <2>3. r.quiet => Whole(artefact) /\ Whole(artefact)'
    BY <1>a, <1>b, <2>1 DEF LoadInv
  <2> QED
    BY <1>a, <2>1, <2>2, <2>3 DEF LoadInv
<1>5. CASE Score(q)
  <2>1. r.at = "scoring" /\ request'[q] = [r EXCEPT !.at = "answered"]
    BY <1>5 DEF Score, Moves, TypeInv
  <2>2. /\ request'[q].at = "answered" /\ request'[q].quiet = r.quiet
        /\ request'[q].held = r.held
    BY <1>0, <2>1
  <2>3. r.quiet => Whole(r.held)
    BY <2>1 DEF LoadInv, Whole
  <2>4. r.quiet => Whole(request[q].held)'
    BY <1>b, <2>2, <2>3
  <2> QED
    BY <2>2, <2>4 DEF LoadInv
<1>6. CASE ScoreFails(q)
  <2>1. /\ r.at = "scoring"
        /\ ~Scorable(r.held) \/ r.held["model"] # r.held["preprocessor"]
    BY <1>6 DEF ScoreFails
  <2>2. r.quiet => Whole(r.held)
    BY <2>1 DEF LoadInv, Whole
  <2>3. Whole(r.held) => r.held["metadata"] # None /\ r.held["model"] = r.held["preprocessor"]
    BY <1>d DEF Whole
  <2>4. Whole(r.held) => Scorable(r.held)
    BY <1>d DEF Whole, Scorable, Chosen, Kind
  <2>5. request'[q] = [r EXCEPT !.at = "failed"]
    BY <1>6 DEF ScoreFails, Moves, TypeInv
  <2>6. request'[q].at = "failed" /\ request'[q].quiet = r.quiet
    BY <1>0, <2>5
  <2> QED
    BY <2>1, <2>2, <2>3, <2>4, <2>6 DEF LoadInv
<1> QED
  BY <1>1, <1>2, <1>3, <1>4, <1>5, <1>6 DEF Serve

(* A request that somebody else's step leaves alone, or disturbs.          *)
LEMMA StepElsewhere ==
  ASSUME TypeInv, NEW q \in Request, LoadInv(q), [Next]_vars,
         \/ request'[q] = request[q] /\ artefact' = artefact
         \/ request' = Disturbed
  PROVE  LoadInv(q)'
<1>0. /\ Whole(artefact') => Whole(artefact)'
      /\ Whole(request'[q].held) => Whole(request[q].held)'
      /\ request[q] \in [at : Progress, held : Held, quiet : BOOLEAN]
  BY RunsStay, WholeNext DEF TypeInv
<1>1. CASE request'[q] = request[q] /\ artefact' = artefact
  BY <1>0, <1>1 DEF LoadInv
<1>2. CASE request' = Disturbed
  <2>1. request'[q] = [request[q] EXCEPT !.quiet = @ /\ ~Loading(q)]
    BY <1>2 DEF Disturbed
  <2>2. /\ request'[q].at = request[q].at /\ request'[q].held = request[q].held
        /\ request'[q].quiet = (request[q].quiet /\ ~Loading(q))
    BY <1>0, <2>1
  <2>3. request'[q].quiet => request[q].at = "answered" /\ Whole(request[q].held)
    BY <2>2 DEF LoadInv, Loading
  <2> QED
    BY <1>0, <2>2, <2>3 DEF LoadInv
<1> QED
  BY <1>1, <1>2

LEMMA StepLoad ==
  ASSUME TypeInv, SettledInv, NEW q \in Request, LoadInv(q), [Next]_vars
  PROVE  LoadInv(q)'
<1>1. CASE Serve(q)
  BY <1>1, StepServed
<1>2. ASSUME NEW o \in Request, o # q, Serve(o) PROVE LoadInv(q)'
  <2>1. request'[q] = request[q] /\ artefact' = artefact
    BY <1>2 DEF Serve, BeginRequest, ReadPart, ReadFails, FindCalibrator, Score, ScoreFails,
       Moves, OnlyRequests, TypeInv
  <2>2. [Next]_vars
    OBVIOUS
  <2> QED
    BY <2>1, <2>2, StepElsewhere
<1>3. CASE \/ request'[q] = request[q] /\ artefact' = artefact
           \/ request' = Disturbed
  BY <1>3, StepElsewhere
<1> QED
  BY <1>1, <1>2, <1>3 DEF Next, vars, Prepare, SaveSplit, SavingKilled, Start, LoadSplit,
     Fit, FitFails, OpenPart, WritePart, RemoveCalibrator, Saved, PredictTest, PredictDemo,
     InsertPredictions, Crash, directory

-----------------------------------------------------------------------------
(* Theorems.                                                               *)

LEMMA InitInv ==
  ASSUME Init
  PROVE  Inv
<1>1. TypeInv
  BY InitTyped
<1>2. fitted = <<>> /\ stage = "idle" /\ settled = FALSE /\ \A o \in Output : scored[o] = None
  BY DEF Init
<1>3. Runs = {} /\ Last = 0
  BY <1>2 DEF Runs, Last
<1>4. \A o \in Output : scored[o] # Last
  BY <1>2, <1>3, TrainingAssumption
<1>5. FitInv
  BY <1>3 DEF FitInv
<1>6. SaveInv
  BY <1>2, <1>4 DEF SaveInv, Saving
<1>7. SettledInv
  BY <1>2 DEF SettledInv
<1>8. \A q \in Request : LoadInv(q)
  <2>1. \A q \in Request :
          request[q] = [at |-> "new", held |-> NoParts, quiet |-> FALSE]
    BY DEF Init
  <2>2. NoParts["calibrator"] = None
    BY Names DEF NoParts
  <2> QED
    BY <2>1, <2>2 DEF LoadInv
<1> QED
  BY <1>1, <1>5, <1>6, <1>7, <1>8 DEF Inv

LEMMA StepInv ==
  ASSUME Inv, [Next]_vars
  PROVE  Inv'
<1>1. TypeInv' /\ FitInv' /\ SaveInv' /\ SettledInv'
  BY StepTyped, StepFit, StepSave, StepSettled DEF Inv
<1>2. \A q \in Request : LoadInv(q)'
  BY StepLoad DEF Inv
<1> QED
  BY <1>1, <1>2 DEF Inv

(* The inductive invariant: types, isolated fits, the progress of a save,  *)
(* and what undisturbed requests hold.                                     *)
THEOREM TrainingInvariant == Spec => []Inv
<1>1. Init => Inv
  BY InitInv
<1>2. Inv /\ [Next]_vars => Inv'
  BY StepInv
<1> QED
  BY <1>1, <1>2, PTL DEF Spec

(* Requests that load while no save runs are answered by one whole model,  *)
(* for any number of requests and saves, cut short or not                  *)
(* (model.py:95-131, 135-167).                                             *)
THEOREM WholeModelServed == Spec => []ServedIsWhole
<1>1. Inv => ServedIsWhole
  BY DEF Inv, LoadInv, ServedIsWhole
<1> QED
  BY <1>1, TrainingInvariant, PTL

(* Predictions of the last model are found only where that model is saved, *)
(* and are of customers it was not fitted to (pipeline.py:247-314).        *)
THEOREM PredictionsOfTheSaved == Spec => []PredictionsStand
<1>1. ASSUME Inv, NEW o \in Output, scored[o] = Last
      PROVE  /\ Whole(artefact) /\ artefact["model"] = Last
             /\ LET d == fitted[Last].data
                IN  (d["test"] \cup (IF d["demo"] = None THEN {} ELSE d["demo"]))
                      \cap (d["train"] \cup d["val"]) = {}
  <2>1. /\ Last \in Runs /\ Last > 0
    <3>1. scored[o] \in Runs \cup {None} /\ Last \in Nat /\ Runs = 1..Last
      BY <1>1, RunsAre DEF Inv, TypeInv
    <3>2. Last # None
      BY <3>1, TrainingAssumption
    <3> QED
      BY <1>1, <3>1, <3>2
  <2>2. \A p \in PartName : artefact[p] = Right(p)
    BY <1>1 DEF Inv, SaveInv
  <2>3. Whole(artefact) /\ artefact["model"] = Last
    BY <1>1, <2>1, <2>2, RightIsWhole DEF Inv, TypeInv
  <2> DEFINE d == fitted[Last].data
  <2>4. Isolated(d) /\ None \notin {d["train"], d["val"], d["test"]}
    BY <1>1, <2>1 DEF Inv, FitInv
  <2>5. /\ d["test"] \cap d["train"] = {} /\ d["test"] \cap d["val"] = {}
        /\ d["demo"] # None => d["demo"] \cap d["train"] = {} /\ d["demo"] \cap d["val"] = {}
    BY <2>4, Names DEF Isolated, Disjoint
  <2> QED
    BY <2>3, <2>5
<1>2. Inv => PredictionsStand
  BY <1>1 DEF PredictionsStand
<1> QED
  BY <1>2, TrainingInvariant, PTL

-----------------------------------------------------------------------------
(* DataPreparation.                                                        *)

(* A function on 1..n is a sequence of length n.                           *)
LEMMA FunctionIsSeq ==
  ASSUME NEW S, NEW n \in Nat, NEW f \in [1..n -> S]
  PROVE  f \in Seq(S) /\ Len(f) = n
  OBVIOUS

Tables == TableName
Judging == {"clean", "validate", "split"}

PrepTyped ==
  /\ run \in Nat /\ (run = 0 => prep = "idle")
  /\ prep \in Judging \cup {"idle", "save", "report", "schema", "load"}
  /\ \A t \in Tables : IsFiniteSet(DOMAIN raw[t]) /\ IsFiniteSet(cleaned[t])
  /\ DOMAIN disk = FractionName

\* Accepted and rejected are what the validation makes of the cleaned rows.
Accept(t) == WellFormed(t) \ Inconsistent(t)
Judged ==
  \/ accepted = Nothing /\ rejected = Nothing
  \/ /\ accepted = [t \in Tables |-> Accept(t)]
     /\ rejected = [t \in Tables |-> Rejected(t)]

TrustInv ==
  /\ prep \in {"clean", "validate"} => accepted = Nothing /\ rejected = Nothing
  /\ Judged
  /\ trusted => prep \in {"idle", "schema", "load"} /\ \A t \in Tables : rejected[t] = {}

\* What the database asks of a table besides its references.
Fits(t) == ColumnsFit(t, accepted[t]) /\ (t = "actions" => ~TypesRepeat)

\* What the load has done.
LoadedInv ==
  /\ prep \in Judging \cup {"save", "report", "schema"} => loading = "none"
  /\ prep = "load" =>
       /\ loading = "partial" /\ unloaded \subseteq 1..4
       /\ \A k \in 1..4 : db[Table[k]] = IF k \in unloaded THEN {}
                                              ELSE accepted[Table[k]]
       /\ \A k \in 1..4 \ unloaded : Fits(Table[k])
  /\ DOMAIN db = Tables /\ db = [t \in Tables |-> db[t]] /\ Closed(db)
  /\ loading = "loaded" => db = accepted /\ \A t \in Tables : Fits(t)
  /\ loading = "refused" => ~Closed(accepted) \/ \E t \in Tables : ~Fits(t)

\* Every customer has a split; of the run, every split that has one is on disk.
OnDisk(n) == InSplit(n) # {} => disk[n] = [run |-> run, rows |-> InSplit(n)]
AllAssigned == assignment \in [Ids(accepted["customers"]) -> FractionName]
FilesListed ==
  \/ run = 0 /\ accepted = Nothing /\ manifest.paths = {}
  \/ /\ AllAssigned /\ manifest.paths = Paths
     /\ \A n \in FractionName : OnDisk(n)

FilesInv ==
  /\ prep = "save" => /\ AllAssigned /\ pending \subseteq DOMAIN Fraction
                      /\ \A k \in DOMAIN Fraction \ pending : OnDisk(Fraction[k])
  /\ manifest.run \in Nat /\ manifest.run <= run
  /\ prep \in Judging \cup {"save"} => manifest.run < run
  /\ manifest.run = run => FilesListed

\* A file of the run has rows of its split, perhaps not all of them.
OfTheRun(n) ==
  run # 0 /\ disk[n].run = run => InSplit(n) # {} /\ disk[n].rows \subseteq InSplit(n)
Apart(m, n) ==
  disk[m].run = disk[n].run =>
    \A r \in disk[m].rows, q \in disk[n].rows : r.customer = q.customer => m = n

DiskInv ==
  /\ \A n \in FractionName : disk[n].run \in Nat /\ disk[n].run <= run /\ OfTheRun(n)
  /\ prep \in Judging => \A n \in FractionName : disk[n].run < run
  /\ \A m, n \in FractionName : Apart(m, n)
  /\ \A n \in manifest.paths : n \in FractionName /\ manifest.run <= disk[n].run

PrepInv == PrepTyped /\ TrustInv /\ LoadedInv /\ FilesInv /\ DiskInv

(* The tables, in the order they are loaded in.                            *)
LEMMA TableNames ==
  /\ Tables = {"customers", "actions", "transactions", "outcomes"}
  /\ DOMAIN Table = 1..4
  /\ Table[1] = "customers" /\ Table[2] = "actions"
  /\ Table[3] = "transactions" /\ Table[4] = "outcomes"
<1>1. DOMAIN Table = 1..4 BY DEF Table
<1>2. /\ Table[1] = "customers" /\ Table[2] = "actions"
      /\ Table[3] = "transactions" /\ Table[4] = "outcomes"
  BY DEF Table
<1>3. 1..4 = {1, 2, 3, 4} OBVIOUS
<1> QED BY <1>1, <1>2, <1>3 DEF Tables, TableName

(* What validation guarantees of the rows it accepts.                      *)
LEMMA AcceptedFacts ==
  ASSUME Judged
  PROVE  /\ accepted = [t \in Tables |-> accepted[t]]
         /\ \A row \in accepted["transactions"] :
              row.customer \in Ids(accepted["customers"])
         /\ accepted["actions"] # {} => KnownActions(accepted)
         /\ \A o \in accepted["outcomes"] :
              o.txn \notin Ids(accepted["transactions"]) =>
                \E row \in rejected["transactions"] :
                  row.id = o.txn /\ row.customer \notin Ids(accepted["customers"])
<1>1. CASE accepted = Nothing
  BY <1>1, TableNames DEF Nothing, Tables
<1>2. CASE /\ accepted = [t \in Tables |-> Accept(t)]
           /\ rejected = [t \in Tables |-> Rejected(t)]
  <2>1. accepted["customers"] = WellFormed("customers")
    BY <1>2, TableNames DEF Accept, Inconsistent
  <2>2. accepted["transactions"] = WellFormed("transactions") \ Orphans
    BY <1>2, TableNames DEF Accept, Inconsistent
  <2>3. accepted["outcomes"] = WellFormed("outcomes") \ Contradicted
    BY <1>2, TableNames DEF Accept, Inconsistent
  <2>4. Orphans \subseteq rejected["transactions"]
    BY <1>2, TableNames DEF Rejected, Inconsistent
  <2>5. \A row \in accepted["transactions"] :
          row.customer \in Ids(accepted["customers"])
    BY <2>1, <2>2 DEF Orphans
  <2>6. ASSUME NEW o \in accepted["outcomes"],
               o.txn \notin Ids(accepted["transactions"])
        PROVE  \E row \in rejected["transactions"] :
                 row.id = o.txn /\ row.customer \notin Ids(accepted["customers"])
    <3>1. o.txn \in Ids(WellFormed("transactions"))
      BY <2>3, <2>6 DEF Contradicted
    <3>2. PICK row \in WellFormed("transactions") : row.id = o.txn
      BY <3>1 DEF Ids
    <3>3. row \notin accepted["transactions"]
      BY <2>6, <3>2 DEF Ids
    <3>4. row \in Orphans BY <2>2, <3>2, <3>3
    <3> QED BY <2>1, <2>4, <3>2, <3>4 DEF Orphans
  <2>7. accepted = [t \in Tables |-> accepted[t]] BY <1>2
  <2>8. accepted["actions"] # {} => KnownActions(accepted)
    <3>1. accepted["actions"] = WellFormed("actions")
      BY <1>2, TableNames DEF Accept, Inconsistent
    <3> QED BY <2>3, <3>1 DEF KnownActions, Contradicted
  <2> QED BY <2>5, <2>6, <2>7, <2>8
<1> QED BY <1>1, <1>2 DEF Judged

(* If no row was rejected, what is accepted refers only to itself.         *)
LEMMA TrustedClosed ==
  ASSUME Judged, \A t \in Tables : rejected[t] = {}
  PROVE  RefersInside(accepted) /\ (accepted["actions"] # {} => Closed(accepted))
  BY AcceptedFacts, TableNames DEF RefersInside, Closed

LEMMA PrepStarts == PrepInit => PrepInv
<1> SUFFICES ASSUME PrepInit PROVE PrepInv OBVIOUS
<1> USE DEF PrepInit
<1>1. PrepTyped
  <2>1. IsFiniteSet(DOMAIN <<>>) BY FS_EmptySet
  <2>2. \A t \in Tables : raw[t] = <<>> /\ cleaned[t] = {}
    BY DEF Tables, Nothing
  <2> QED BY <2>1, <2>2, FS_EmptySet DEF PrepTyped
<1>2. TrustInv BY DEF TrustInv, Judged, Judging
<1>3. Closed(Nothing)
  BY TableNames DEF Closed, RefersInside, KnownActions, Nothing, Tables
<1>4. LoadedInv BY <1>3 DEF LoadedInv, Judging, Nothing, Tables
<1>5. FilesInv BY DEF FilesInv, Judging, FilesListed
<1>6. DiskInv BY DEF DiskInv, OfTheRun, Apart, Judging
<1> QED BY <1>1, <1>2, <1>4, <1>5, <1>6 DEF PrepInv

(* Every step keeps the types ...                                          *)
LEMMA PrepTypes ==
  ASSUME PrepInv, PrepNext
  PROVE  PrepTyped'
<1> USE DEF Judging
<1>1. PrepTyped BY DEF PrepInv
<1>2. CASE Begin
  <2>1. raw' \in Frames /\ cleaned' = Nothing /\ run' = run + 1 /\ prep' = "clean"
        /\ UNCHANGED disk
    BY <1>2 DEF Begin
  <2>2. ASSUME NEW t \in Tables PROVE IsFiniteSet(DOMAIN raw'[t]) /\ IsFiniteSet(cleaned'[t])
    <3>1. Len(raw'[t]) \in Nat /\ DOMAIN raw'[t] = 1..Len(raw'[t])
      BY <2>1, PreparationAssumption DEF Tables
    <3>2. ASSUME NEW n \in Nat PROVE IsFiniteSet(1..n) BY FS_Interval
    <3>3. cleaned'[t] = {} BY <2>1 DEF Nothing, Tables
    <3>4. IsFiniteSet(DOMAIN raw'[t]) BY <3>1, <3>2
    <3> QED BY <3>3, <3>4, FS_EmptySet
  <2> QED BY <1>1, <2>1, <2>2 DEF PrepTyped
<1>3. CASE Clean
  <2>1. /\ cleaned' = [t \in Tables |-> Cleaned(t, raw[t])] /\ prep = "clean"
        /\ prep' = "validate" /\ UNCHANGED <<run, raw, disk>>
    BY <1>3 DEF Clean, Tables, saved
  <2>2. ASSUME NEW t \in Tables PROVE IsFiniteSet(cleaned'[t])
    <3> DEFINE Row(i) == CleanRow(t, raw[t][i])
               S == Kept(t, raw[t])
    <3>1. IsFiniteSet(DOMAIN raw[t]) BY <1>1 DEF PrepTyped
    <3>2. S \subseteq DOMAIN raw[t] BY DEF Kept
    <3>3. IsFiniteSet(S) BY <3>1, <3>2, FS_Subset
    <3> DEFINE f == [i \in S |-> Row(i)]
               T == {Row(i) : i \in S}
    <3>4. f \in Surjection(S, T) BY DEF Surjection
    <3> HIDE DEF f, T
    <3>5. IsFiniteSet(T) BY <3>3, <3>4, FS_Surjection
    <3> QED BY <2>1, <3>5 DEF Cleaned, T
  <2> QED BY <1>1, <2>1, <2>2 DEF PrepTyped
<1>4. CASE WriteSplit
  <2>1. UNCHANGED <<run, prep, raw, cleaned>> /\ prep = "save"
    BY <1>4 DEF WriteSplit, tables
  <2>2. DOMAIN disk' = DOMAIN disk BY <1>4 DEF WriteSplit
  <2> QED BY <1>1, <2>1, <2>2 DEF PrepTyped
<1>5. ASSUME UNCHANGED <<run, raw, cleaned, disk>>,
             prep # "idle", prep' \in {"split", "save", "report", "schema", "load", "idle"}
      PROVE  PrepTyped'
  BY <1>1, <1>5 DEF PrepTyped
<1>6. CASE \/ Validate \/ Assign \/ SaveManifest \/ Report
           \/ CreateSchema \/ LoadRefused \/ ConnectionLost
           \/ LoadDone
  BY <1>5, <1>6
  DEF Validate, Assign, SaveManifest, Report, CreateSchema,
      LoadRefused, ConnectionLost, LoadDone, tables, saved
<1>7. CASE LoadTable
  BY <1>1, <1>7 DEF LoadTable, tables, saved, PrepTyped
<1>8. CASE Killed
  <2>1. UNCHANGED <<run, raw, cleaned>> /\ prep' = "idle" BY <1>8 DEF Killed, tables
  <2>2. DOMAIN disk' = DOMAIN disk BY <1>8 DEF Killed, CutShort
  <2> QED BY <1>1, <2>1, <2>2 DEF PrepTyped
<1> QED BY <1>2, <1>3, <1>4, <1>6, <1>7, <1>8 DEF PrepNext

(* (The judgement of rows is of the cleaned rows alone.)                   *)
LEMMA SameJudgement ==
  ASSUME UNCHANGED cleaned
  PROVE  \A t : Accept(t)' = Accept(t) /\ Rejected(t)' = Rejected(t)
<1>1. \A t : WellFormed(t)' = WellFormed(t) BY DEF WellFormed
<1>2. Orphans' = Orphans BY <1>1 DEF Orphans
<1>3. Contradicted' = Contradicted BY <1>1 DEF Contradicted
<1>4. \A t : Inconsistent(t)' = Inconsistent(t) BY <1>2, <1>3 DEF Inconsistent
<1> QED BY <1>1, <1>4 DEF Accept, Rejected

(* ... the result of the validation ...                                    *)
LEMMA PrepTrust ==
  ASSUME PrepInv, PrepNext
  PROVE  TrustInv'
<1> USE DEF Judging
<1>1. TrustInv /\ PrepTyped BY DEF PrepInv
<1>2. CASE Begin
  BY <1>1, <1>2 DEF Begin, TrustInv, Judged
<1>3. CASE Clean
  <2>1. /\ accepted = Nothing /\ rejected = Nothing /\ ~trusted
        /\ UNCHANGED <<accepted, rejected, trusted>> /\ prep' = "validate"
    BY <1>1, <1>3 DEF Clean, TrustInv
  <2> QED BY <2>1 DEF TrustInv, Judged
<1>4. CASE Validate
  <2>1. /\ accepted' = [t \in Tables |-> Accept(t)]
        /\ rejected' = [t \in Tables |-> Rejected(t)]
        /\ UNCHANGED <<cleaned, trusted>> /\ prep' = "split" /\ ~trusted
    BY <1>1, <1>4 DEF Validate, TrustInv, Accept, Tables
  <2>2. Judged'
    BY <2>1
    DEF Judged, Accept, WellFormed, Inconsistent, Rejected, Orphans,
        Contradicted
  <2> QED BY <2>1, <2>2 DEF TrustInv
<1>5. ASSUME UNCHANGED <<cleaned, accepted, rejected>>, prep' \notin {"clean", "validate"},
             trusted' => /\ prep' \in {"idle", "schema", "load"}
                         /\ \A t \in Tables : rejected[t] = {}
      PROVE  TrustInv'
  <2>1. \A t : Accept(t)' = Accept(t) /\ Rejected(t)' = Rejected(t)
    BY <1>5, SameJudgement
  <2>2. Judged' BY <1>1, <1>5, <2>1 DEF TrustInv, Judged
  <2> QED BY <1>5, <2>2 DEF TrustInv
<1>6. CASE \/ Assign \/ WriteSplit \/ SaveManifest \/ Report
           \/ CreateSchema \/ LoadTable \/ LoadRefused
           \/ ConnectionLost \/ LoadDone \/ Killed
  BY <1>1, <1>5, <1>6
  DEF Assign, WriteSplit, SaveManifest, Report, CreateSchema,
      LoadTable, LoadRefused, ConnectionLost, LoadDone, Killed,
      tables, TrustInv, Tables
<1> QED BY <1>2, <1>3, <1>4, <1>6 DEF PrepNext

(* ... the state of the load ...                                           *)
LEMMA PrepLoad ==
  ASSUME PrepInv, PrepNext
  PROVE  LoadedInv'
<1> USE DEF Judging
<1>1. LoadedInv /\ PrepTyped /\ Judged BY DEF PrepInv, TrustInv
<1>0. Closed(db) <=>
        /\ \A row \in db["transactions"] : row.customer \in Ids(db["customers"])
        /\ \A o \in db["outcomes"] : /\ o.txn \in Ids(db["transactions"])
                                     /\ o.action \in Ids(db["actions"])
  BY DEF Closed, RefersInside, KnownActions
<1>2. CASE Begin \/ Validate
  <2>1. /\ UNCHANGED db /\ loading' = "none" /\ prep' \in {"clean", "split"}
    BY <1>1, <1>2 DEF Begin, Validate, LoadedInv, loaded
  <2>2. Closed(db)' BY <1>1, <2>1 DEF LoadedInv, Closed, RefersInside, KnownActions
  <2> QED BY <1>1, <2>1, <2>2 DEF LoadedInv
<1>3. ASSUME UNCHANGED <<raw, accepted, db, unloaded, loading>>, prep' # "load" \/ prep = "load",
             prep' \in Judging \cup {"save", "report", "schema"} => loading = "none"
      PROVE  LoadedInv'
  <2>1. Closed(db)' = Closed(db) /\ Closed(accepted)' = Closed(accepted)
    BY <1>3 DEF Closed, RefersInside, KnownActions
  <2>2. \A t : Fits(t)' = Fits(t)
    BY <1>3 DEF Fits, ColumnsFit, FloatColumn, TypesRepeat
  <2> QED BY <1>1, <1>3, <2>1, <2>2 DEF LoadedInv
<1>4. CASE \/ Clean \/ Assign \/ WriteSplit \/ SaveManifest
           \/ Report \/ Killed
  BY <1>1, <1>3, <1>4
  DEF Clean, Assign, WriteSplit, SaveManifest, Report, Killed,
      tables, loaded, LoadedInv
<1>5. CASE CreateSchema
  <2>1. /\ db' = [t \in Tables |-> {}] /\ unloaded' = 1..4 /\ loading' = "partial"
        /\ prep' = "load" /\ UNCHANGED accepted
    BY <1>5, TableNames DEF CreateSchema, ResetSchema, Nothing, Tables, tables
  <2>2. Closed(db)'
    BY <2>1, TableNames DEF Closed, RefersInside, KnownActions
  <2> QED BY <2>1, <2>2, TableNames DEF LoadedInv
<1>6. CASE LoadTable
  <2>1. PICK k \in unloaded :
          /\ NextToLoad(k) /\ Taken(Table[k])
          /\ db' = [db EXCEPT ![Table[k]] = @ \cup accepted[Table[k]]]
          /\ unloaded' = unloaded \ {k}
    BY <1>6 DEF LoadTable
  <2>2. prep = "load" /\ UNCHANGED <<prep, raw, accepted, loading>>
    BY <1>6 DEF LoadTable, tables
  <2>3. /\ loading = "partial" /\ k \in 1..4 /\ unloaded \subseteq 1..4
        /\ \A j \in 1..4 : db[Table[j]] = IF j \in unloaded THEN {}
                                               ELSE accepted[Table[j]]
        /\ \A j \in 1..4 \ unloaded : Fits(Table[j])
        /\ DOMAIN db = Tables /\ Closed(db)
    BY <1>1, <2>1, <2>2 DEF LoadedInv
  <2>4. /\ \A j \in 1..4 : db'[Table[j]] = IF j \in unloaded' THEN {}
                                                ELSE accepted[Table[j]]
        /\ DOMAIN db' = Tables /\ db' = [t \in Tables |-> db'[t]]
    <3>1. \A j \in 1..4 : Table[j] \in Tables /\ (j # k => Table[j] # Table[k])
      BY <2>3, TableNames
    <3> QED BY <2>1, <2>3, <3>1
  <2>5. Closed(db)'
    <3>1. CASE k \in {1, 2}
      <4>1. db'["transactions"] = db["transactions"] /\ db'["outcomes"] = db["outcomes"]
        BY <2>1, <2>3, <3>1, TableNames
      <4>2. /\ Ids(db["customers"]) \subseteq Ids(db'["customers"])
            /\ Ids(db["actions"]) \subseteq Ids(db'["actions"])
        BY <2>1, <2>3, TableNames DEF Ids
      <4> QED BY <1>0, <2>3, <4>1, <4>2 DEF Closed, RefersInside, KnownActions
    <3>2. CASE k = 3
      <4>1. /\ db'["customers"] = db["customers"] /\ db'["actions"] = db["actions"]
            /\ db'["outcomes"] = db["outcomes"]
            /\ db'["transactions"] = db["transactions"] \cup accepted["transactions"]
        BY <2>1, <2>3, <3>2, TableNames
      <4>2. \A row \in accepted["transactions"] : row.customer \in Ids(db["customers"])
        BY <2>1, <3>2, TableNames DEF Taken, KeysHold
      <4>3. Ids(db["transactions"]) \subseteq Ids(db'["transactions"]) BY <4>1 DEF Ids
      <4> QED BY <1>0, <2>3, <4>1, <4>2, <4>3 DEF Closed, RefersInside, KnownActions
    <3>3. CASE k = 4
      <4>1. /\ db'["customers"] = db["customers"] /\ db'["actions"] = db["actions"]
            /\ db'["transactions"] = db["transactions"]
            /\ db'["outcomes"] = db["outcomes"] \cup accepted["outcomes"]
        BY <2>1, <2>3, <3>3, TableNames
      <4>2. \A row \in accepted["outcomes"] : /\ row.txn \in Ids(db["transactions"])
                                              /\ row.action \in Ids(db["actions"])
        BY <2>1, <3>3, TableNames DEF Taken, KeysHold
      <4> QED BY <1>0, <2>3, <4>1, <4>2 DEF Closed, RefersInside, KnownActions
    <3> QED BY <2>3, <3>1, <3>2, <3>3
  <2>6. Fits(Table[k])
    BY <2>1, TableNames DEF Taken, KeysHold, Fits, TypesRepeat
  <2>7. \A t : Fits(t)' = Fits(t)
    BY <2>2 DEF Fits, ColumnsFit, FloatColumn, TypesRepeat
  <2>8. \A j \in 1..4 \ unloaded' : Fits(Table[j])'
    BY <2>1, <2>3, <2>6, <2>7
  <2> QED BY <2>1, <2>2, <2>3, <2>4, <2>5, <2>8 DEF LoadedInv
<1>7. CASE LoadRefused
  <2>1. PICK k \in unloaded : NextToLoad(k) /\ ~Taken(Table[k])
    BY <1>7 DEF LoadRefused
  <2>2. /\ prep = "load" /\ prep' = "idle" /\ loading' = "refused"
        /\ UNCHANGED <<raw, accepted, db, unloaded>>
    BY <1>7 DEF LoadRefused, tables
  <2>3. /\ k \in 1..4 /\ \A j \in 1..4 : j < k => j \notin unloaded
        /\ db[Table[k]] = {}
    BY <1>1, <2>1, <2>2 DEF LoadedInv, NextToLoad, First
  <2>4. \A j \in 1..4 : j < k => db[Table[j]] = accepted[Table[j]]
    BY <1>1, <2>2, <2>3 DEF LoadedInv
  <2>5. Table[k] \in Tables BY <2>3, TableNames
  <2>6. ASSUME Fits(Table[k]) PROVE ~Closed(accepted)
    <3>1. /\ ~KeysHold(Table[k], accepted[Table[k]])
          /\ Table[k] = "actions" => ~TypesRepeat
      BY <2>1, <2>6 DEF Taken, Fits
    <3>2. Ids(accepted[Table[k]]) \cap Ids(db[Table[k]]) = {} BY <2>3 DEF Ids
    <3>3. CASE k \in {1, 2}
      BY <3>1, <3>2, <3>3, TableNames DEF KeysHold, TypesRepeat
    <3>4. CASE k = 3
      <4>1. ~\A row \in accepted["transactions"] : row.customer \in Ids(db["customers"])
        BY <3>1, <3>2, <3>4, TableNames DEF KeysHold
      <4>2. db["customers"] = accepted["customers"] BY <2>4, <3>4, TableNames
      <4> QED BY <4>1, <4>2 DEF Closed, RefersInside
    <3>5. CASE k = 4
      <4>1. ~\A o \in accepted["outcomes"] : /\ o.txn \in Ids(db["transactions"])
                                             /\ o.action \in Ids(db["actions"])
        BY <3>1, <3>2, <3>5, TableNames DEF KeysHold
      <4>2. /\ db["transactions"] = accepted["transactions"]
            /\ db["actions"] = accepted["actions"]
        BY <2>4, <3>5, TableNames
      <4> QED BY <4>1, <4>2 DEF Closed, RefersInside, KnownActions
    <3> QED BY <2>3, <3>3, <3>4, <3>5
  <2>7. ~Closed(accepted) \/ \E t \in Tables : ~Fits(t) BY <2>5, <2>6
  <2>8. /\ \A t : Fits(t)' = Fits(t)
        /\ Closed(accepted)' = Closed(accepted) /\ Closed(db)' = Closed(db)
    BY <2>2 DEF Fits, ColumnsFit, FloatColumn, TypesRepeat, Closed, RefersInside, KnownActions
  <2> QED BY <1>1, <2>2, <2>7, <2>8 DEF LoadedInv
<1>8. CASE ConnectionLost
  <2>1. /\ prep' = "idle" /\ loading' = "lost" /\ UNCHANGED db
    BY <1>8 DEF ConnectionLost
  <2>2. Closed(db)' = Closed(db) BY <2>1 DEF Closed, RefersInside, KnownActions
  <2> QED BY <1>1, <2>1, <2>2 DEF LoadedInv
<1>9. CASE LoadDone
  <2>1. /\ prep = "load" /\ unloaded = {} /\ loading' = "loaded" /\ prep' = "idle"
        /\ UNCHANGED <<raw, accepted, db, unloaded>>
    BY <1>9 DEF LoadDone, tables
  <2>2. \A t \in Tables : db[t] = accepted[t] /\ Fits(t)
    BY <1>1, <2>1, TableNames DEF LoadedInv
  <2>3. db = accepted BY <1>1, <2>2, AcceptedFacts DEF LoadedInv
  <2>4. /\ \A t : Fits(t)' = Fits(t) /\ Closed(db)' = Closed(db)
    BY <2>1 DEF Fits, ColumnsFit, FloatColumn, TypesRepeat, Closed, RefersInside, KnownActions
  <2> QED BY <1>1, <2>1, <2>2, <2>3, <2>4 DEF LoadedInv
<1> QED BY <1>2, <1>4, <1>5, <1>6, <1>7, <1>8, <1>9 DEF PrepNext

\* The cuts are numbers, and the last one is behind every customer.
LEMMA StopTyped ==
  ASSUME NEW k \in DOMAIN Fraction, NEW n \in Nat
  PROVE  Stop(k, n) \in Int
<1> DEFINE share == [j \in DOMAIN Fraction |-> Percent[Fraction[j]]]
<1>1. /\ Fraction \in Seq(FractionName) /\ Percent \in [FractionName -> Nat]
      /\ DOMAIN Fraction = 1..Len(Fraction) /\ Len(Fraction) \in Nat
  BY PreparationAssumption
<1>2. k \in Nat /\ \A j \in 1..k : share[j] \in Int
  BY <1>1 DEF FractionName
<1> HIDE DEF share
<1>3. SumTo(share, k) \in Int BY <1>2, SumInt
<1>4. SumTo(share, k) * n \in Int BY <1>3
<1>5. \A x \in Int : Rounded(x) \in Int BY DEF Rounded
<1>6. Share(k) = SumTo(share, k) BY DEF Share, share
<1> QED BY <1>4, <1>5, <1>6 DEF Stop

\* Every customer gets a split, whichever way the customers are ordered.
LEMMA AssignedTyped ==
  ASSUME NEW S, IsFiniteSet(S), NEW order \in Orders(S)
  PROVE  Assigned(order) \in [S -> FractionName]
<1>1. Cardinality(S) \in Nat BY FS_CardinalityType
<1>2. order \in [1..Cardinality(S) -> S] /\ S = {order[p] : p \in DOMAIN order}
  <2>1. Cardinality(S) = Cardinality(S) BY DEF Cardinality, Cardinality
  <2> QED BY <2>1 DEF Orders
<1>3. Len(order) = Cardinality(S) BY <1>1, <1>2, FunctionIsSeq
<1>4. /\ DOMAIN Fraction = 1..Len(Fraction) /\ Len(Fraction) \in Nat \ {0}
  BY PreparationAssumption
<1>5. ASSUME NEW c \in S
      PROVE  LET p == CHOOSE p \in DOMAIN order : order[p] = c
                 k == CHOOSE k \in DOMAIN Fraction :
                        /\ p <= Stop(k, Len(order))
                        /\ \A j \in 1..(k - 1) : p > Stop(j, Len(order))
             IN  Fraction[k] \in FractionName
  <2> DEFINE p == CHOOSE p \in DOMAIN order : order[p] = c
             Here(k) == /\ p <= Stop(k, Len(order))
                        /\ \A j \in 1..(k - 1) : p > Stop(j, Len(order))
             T == {k \in DOMAIN Fraction : p <= Stop(k, Len(order))}
  <2>1. p \in DOMAIN order BY <1>2
  <2>2. p \in Int /\ p <= Len(order) BY <1>1, <1>2, <1>3, <2>1
  <2> HIDE DEF p
  <2>3. Len(Fraction) \in T BY <1>4, <2>2 DEF Stop
  <2>4. PICK m \in T : \A k \in T : m <= k
    <3>1. T \in SUBSET Nat BY <1>4
    <3> QED BY <2>3, <3>1, LeastIn
  <2>5. ASSUME NEW j \in 1..(m - 1) PROVE p > Stop(j, Len(order))
    <3>1. j \in DOMAIN Fraction /\ j < m /\ m \in Int BY <1>4, <2>4
    <3>2. ~(m <= j) BY <3>1
    <3>3. j \notin T BY <2>4, <3>2
    <3>4. ~(p <= Stop(j, Len(order))) BY <3>1, <3>3
    <3>5. Stop(j, Len(order)) \in Int BY <1>1, <1>3, <3>1, StopTyped
    <3> QED BY <2>2, <3>4, <3>5
  <2>6. m \in DOMAIN Fraction /\ Here(m) BY <2>4, <2>5
  <2> DEFINE k == CHOOSE k \in DOMAIN Fraction : Here(k)
  <2>7. k \in DOMAIN Fraction BY <2>6
  <2> QED BY <2>7 DEF FractionName, p
<1> QED BY <1>2, <1>5 DEF Assigned

\* What the file of a split on disk is.
LEMMA WrittenSplit ==
  ASSUME NEW n, OnDisk(n), InSplit(n) # {}
  PROVE  disk[n].run = run /\ disk[n].rows = InSplit(n)
<1>1. disk[n] = [run |-> run, rows |-> InSplit(n)] BY DEF OnDisk
<1> QED BY <1>1

(* ... the files that the manifest lists ...                               *)
LEMMA PrepFiles ==
  ASSUME PrepInv, PrepNext
  PROVE  FilesInv'
<1> USE DEF Judging
<1>1. FilesInv /\ PrepTyped /\ Judged BY DEF PrepInv, TrustInv
<1>2. CASE Begin
  <2>1. /\ run' = run + 1 /\ run \in Nat /\ prep' = "clean" /\ UNCHANGED manifest
        /\ manifest.run \in Nat /\ manifest.run <= run
    BY <1>1, <1>2 DEF Begin, FilesInv, PrepTyped
  <2>2. manifest'.run < run' BY <2>1
  <2> QED BY <1>1, <2>1, <2>2 DEF FilesInv, PrepTyped
<1>3. CASE Clean \/ Validate
  <2>1. UNCHANGED <<run, manifest>> /\ prep' \in {"validate", "split"} /\ manifest.run < run
    BY <1>1, <1>3 DEF Clean, Validate, saved, FilesInv
  <2>2. manifest.run \in Nat /\ run \in Nat BY <1>1 DEF FilesInv, PrepTyped
  <2> QED BY <1>1, <2>1, <2>2 DEF FilesInv
<1>4. CASE Assign
  <2>1. PICK order \in Orders(Ids(accepted["customers"])) :
          assignment' = Assigned(order)
    BY <1>4 DEF Assign
  <2>2. IsFiniteSet(accepted["customers"])
    <3>1. accepted["customers"] \subseteq cleaned["customers"]
      BY <1>1, TableNames DEF Judged, Accept, WellFormed, Nothing, Tables
    <3> QED BY <1>1, <3>1, TableNames, FS_Subset DEF PrepTyped
  <2>3. IsFiniteSet(Ids(accepted["customers"]))
    <3> DEFINE S == accepted["customers"]
               f == [r \in S |-> r.id]
               T == {r.id : r \in S}
    <3>1. f \in Surjection(S, T) BY DEF Surjection
    <3> HIDE DEF f, T
    <3>2. IsFiniteSet(T) BY <2>2, <3>1, FS_Surjection
    <3> QED BY <3>2 DEF T, Ids
  <2>4. AllAssigned' /\ pending' = DOMAIN Fraction /\ prep' = "save"
    BY <1>4, <2>1, <2>3, AssignedTyped DEF AllAssigned, Assign, tables
  <2>5. UNCHANGED <<run, manifest>> /\ manifest.run < run
    BY <1>1, <1>4 DEF Assign, FilesInv
  <2>6. manifest.run \in Nat /\ run \in Nat BY <1>1 DEF FilesInv, PrepTyped
  <2> QED BY <1>1, <2>4, <2>5, <2>6 DEF FilesInv
<1>5. CASE WriteSplit
  <2>1. PICK k \in pending :
          /\ pending' = pending \ {k}
          /\ disk' = IF InSplit(Fraction[k]) = {} THEN disk
                     ELSE [disk EXCEPT ![Fraction[k]] =
                             [run |-> run, rows |-> InSplit(Fraction[k])]]
    BY <1>5 DEF WriteSplit
  <2>2. /\ UNCHANGED <<run, prep, accepted, assignment, manifest>> /\ prep = "save"
    BY <1>5 DEF WriteSplit, tables
  <2>3. /\ AllAssigned /\ pending \subseteq DOMAIN Fraction /\ manifest.run < run
        /\ \A j \in DOMAIN Fraction \ pending : OnDisk(Fraction[j])
    BY <1>1, <2>2 DEF FilesInv
  <2>4. k \in DOMAIN Fraction /\ Fraction[k] \in DOMAIN disk
    BY <1>1, <2>1, <2>3 DEF PrepTyped, FractionName
  <2>5. ASSUME NEW j \in DOMAIN Fraction \ pending' PROVE OnDisk(Fraction[j])'
    <3>1. CASE Fraction[j] = Fraction[k]
      BY <2>1, <2>2, <2>4, <3>1 DEF OnDisk, InSplit
    <3>2. CASE Fraction[j] # Fraction[k]
      <4>1. j \in DOMAIN Fraction \ pending BY <2>1, <2>5, <3>2
      <4> QED BY <2>1, <2>2, <2>3, <3>2, <4>1 DEF OnDisk, InSplit
    <3> QED BY <3>1, <3>2
  <2>6. manifest.run \in Nat /\ run \in Nat BY <1>1 DEF FilesInv, PrepTyped
  <2> QED BY <1>1, <2>1, <2>2, <2>3, <2>5, <2>6 DEF FilesInv, AllAssigned
<1>6. CASE SaveManifest
  <2>1. /\ prep = "save" /\ pending = {} /\ prep' = "report"
        /\ manifest' = [run |-> run, paths |-> Paths]
        /\ UNCHANGED <<run, accepted, assignment, disk>>
    BY <1>6 DEF SaveManifest, tables
  <2>2. AllAssigned /\ \A n \in FractionName : OnDisk(n)
    BY <1>1, <2>1 DEF FilesInv, FractionName
  <2>3. Paths' = Paths /\ AllAssigned' /\ \A n \in FractionName : OnDisk(n)'
    BY <2>1, <2>2 DEF Paths, AllAssigned, OnDisk, InSplit
  <2>4. FilesListed' BY <2>1, <2>3 DEF FilesListed
  <2> QED BY <1>1, <2>1, <2>4 DEF FilesInv, PrepTyped
<1>7. ASSUME UNCHANGED <<run, accepted, assignment, disk, manifest>>,
             prep' \notin Judging \cup {"save"}
      PROVE  FilesInv'
  BY <1>1, <1>7
  DEF FilesInv, FilesListed, AllAssigned, OnDisk, Paths, InSplit
<1>8. CASE \/ Report \/ CreateSchema \/ LoadTable \/ LoadRefused
           \/ ConnectionLost \/ LoadDone
  BY <1>7, <1>8
  DEF Report, CreateSchema, LoadTable, LoadRefused,
      ConnectionLost, LoadDone, tables, saved
<1>9. CASE Killed
  <2>1. /\ prep' = "idle" /\ UNCHANGED <<run, accepted, assignment, manifest>>
        /\ disk' = disk \/ prep = "save"
    BY <1>9 DEF Killed, tables
  <2>2. CASE disk' = disk BY <1>7, <2>1, <2>2
  <2>3. CASE prep = "save"
    <3>1. manifest.run < run /\ manifest.run \in Nat /\ run \in Nat
      BY <1>1, <2>3 DEF FilesInv, PrepTyped
    <3> QED BY <2>1, <3>1 DEF FilesInv
  <2> QED BY <2>1, <2>2, <2>3
<1> QED BY <1>2, <1>3, <1>4, <1>5, <1>6, <1>8, <1>9 DEF PrepNext

\* Some or all rows of a split of the run are put into its file.
LEMMA DiskWritten ==
  ASSUME PrepInv, prep = "save", NEW k \in DOMAIN Fraction, InSplit(Fraction[k]) # {},
         NEW rows \in SUBSET InSplit(Fraction[k]),
         disk' = [disk EXCEPT ![Fraction[k]] = [run |-> run, rows |-> rows]],
         UNCHANGED <<run, accepted, assignment, manifest>>, prep' \notin Judging
  PROVE  DiskInv'
<1> DEFINE x == Fraction[k]
<1>1. /\ DiskInv /\ run \in Nat /\ run # 0 /\ DOMAIN disk = FractionName
      /\ manifest.run \in Nat /\ manifest.run <= run
  BY DEF PrepInv, PrepTyped, FilesInv
<1>2. x \in FractionName BY DEF FractionName
<1>3. /\ disk'[x].run = run /\ disk'[x].rows = rows
      /\ \A n \in FractionName : n # x => disk'[n] = disk[n]
  BY <1>1, <1>2
<1>4. \A n : InSplit(n)' = InSplit(n) BY DEF InSplit
<1>5. ASSUME NEW n \in FractionName
      PROVE  disk'[n].run \in Nat /\ disk'[n].run <= run' /\ OfTheRun(n)'
  <2>1. CASE n = x BY <1>1, <1>3, <1>4, <2>1 DEF OfTheRun
  <2>2. CASE n # x BY <1>1, <1>3, <1>4, <2>2 DEF OfTheRun, DiskInv
  <2> QED BY <2>1, <2>2
<1>6. ASSUME NEW n \in FractionName, disk'[n].run = run
      PROVE  disk'[n].rows \subseteq InSplit(n)
  BY <1>1, <1>4, <1>5, <1>6 DEF OfTheRun
<1>7. ASSUME NEW m \in FractionName, NEW n \in FractionName PROVE Apart(m, n)'
  <2>1. CASE m # x /\ n # x BY <1>1, <1>3, <2>1 DEF Apart, DiskInv
  <2>2. CASE m = x \/ n = x
    <3> SUFFICES ASSUME disk'[m].run = disk'[n].run, NEW r \in disk'[m].rows,
                        NEW q \in disk'[n].rows, r.customer = q.customer
                 PROVE  m = n
      BY DEF Apart
    <3>1. disk'[m].run = run /\ disk'[n].run = run BY <1>3, <2>2
    <3>2. r \in InSplit(m) /\ q \in InSplit(n) BY <1>6, <3>1
    <3> QED BY <3>2 DEF InSplit
  <2> QED BY <2>1, <2>2
<1>8. ASSUME NEW n \in manifest.paths
      PROVE  n \in FractionName /\ manifest.run <= disk'[n].run
  BY <1>1, <1>3 DEF DiskInv
<1> QED BY <1>5, <1>7, <1>8 DEF DiskInv

(* ... and the files on the disk, of whichever run.                        *)
LEMMA PrepDisk ==
  ASSUME PrepInv, PrepNext
  PROVE  DiskInv'
<1>1. DiskInv /\ FilesInv /\ PrepTyped BY DEF PrepInv
<1>2. CASE Begin
  <2>1. /\ UNCHANGED <<disk, manifest>> /\ run' = run + 1 /\ run \in Nat
    BY <1>1, <1>2 DEF Begin, PrepTyped
  <2>2. ASSUME NEW n \in FractionName
        PROVE  disk'[n].run \in Nat /\ disk'[n].run < run'
    BY <1>1, <2>1 DEF DiskInv
  <2>3. ASSUME NEW n \in FractionName PROVE OfTheRun(n)'
    BY <2>1, <2>2 DEF OfTheRun
  <2>4. \A m, n \in FractionName : Apart(m, n)' BY <1>1, <2>1 DEF DiskInv, Apart
  <2>5. \A n \in manifest'.paths : n \in FractionName /\ manifest'.run <= disk'[n].run
    BY <1>1, <2>1 DEF DiskInv
  <2>6. \A n \in FractionName : disk'[n].run <= run' BY <2>1, <2>2
  <2> QED BY <2>2, <2>3, <2>4, <2>5, <2>6 DEF DiskInv
<1>3. CASE Clean \/ Validate \/ Assign
  <2>1. /\ UNCHANGED <<run, disk, manifest>> /\ prep \in Judging
    BY <1>3 DEF Clean, Validate, Assign, saved, Judging
  <2>2. \A n \in FractionName : disk[n].run \in Nat /\ disk[n].run < run
    BY <1>1, <2>1 DEF DiskInv
  <2>3. run \in Nat BY <1>1 DEF PrepTyped
  <2>4. \A n \in FractionName : disk'[n].run # run'
    BY <2>1, <2>2, <2>3
  <2>5. \A n \in FractionName : OfTheRun(n)' BY <2>4 DEF OfTheRun
  <2>6. \A m, n \in FractionName : Apart(m, n)' BY <1>1, <2>1 DEF DiskInv, Apart
  <2> QED BY <1>1, <2>1, <2>2, <2>5, <2>6 DEF DiskInv
<1>4. ASSUME UNCHANGED <<run, accepted, assignment, disk>>, prep' \notin Judging,
             \A n \in manifest'.paths : n \in FractionName /\ manifest'.run <= disk[n].run
      PROVE  DiskInv'
  <2>1. \A n : InSplit(n)' = InSplit(n) BY <1>4 DEF InSplit
  <2>2. \A n \in FractionName : OfTheRun(n)' BY <1>1, <1>4, <2>1 DEF OfTheRun, DiskInv
  <2>3. \A m, n \in FractionName : Apart(m, n)' BY <1>1, <1>4 DEF DiskInv, Apart
  <2> QED BY <1>1, <1>4, <2>2, <2>3 DEF DiskInv
<1>5. CASE WriteSplit
  <2>1. PICK k \in pending :
          disk' = IF InSplit(Fraction[k]) = {} THEN disk
                  ELSE [disk EXCEPT ![Fraction[k]] =
                          [run |-> run, rows |-> InSplit(Fraction[k])]]
    BY <1>5 DEF WriteSplit
  <2>2. /\ UNCHANGED <<run, prep, accepted, assignment, manifest>> /\ prep = "save"
    BY <1>5 DEF WriteSplit, tables
  <2>3. k \in DOMAIN Fraction BY <1>1, <2>1, <2>2 DEF FilesInv
  <2>4. prep' \notin Judging BY <2>2 DEF Judging
  <2>5. CASE InSplit(Fraction[k]) = {}
    BY <1>1, <1>4, <2>1, <2>2, <2>4, <2>5 DEF DiskInv
  <2>6. CASE InSplit(Fraction[k]) # {}
    BY <2>1, <2>2, <2>3, <2>4, <2>6, DiskWritten
  <2> QED BY <2>5, <2>6
<1>6. CASE SaveManifest
  <2>1. /\ prep = "save" /\ pending = {} /\ prep' = "report"
        /\ manifest' = [run |-> run, paths |-> Paths]
        /\ UNCHANGED <<run, accepted, assignment, disk>>
    BY <1>6 DEF SaveManifest, tables
  <2>2. \A n \in FractionName : OnDisk(n)
    BY <1>1, <2>1 DEF FilesInv, FractionName
  <2>3. ASSUME NEW n \in manifest'.paths
        PROVE  n \in FractionName /\ manifest'.run <= disk[n].run
    <3>1. n \in FractionName /\ InSplit(n) # {} BY <2>1, <2>3 DEF Paths
    <3>2. disk[n].run = run BY <2>2, <3>1, WrittenSplit
    <3>3. run \in Nat BY <1>1 DEF PrepTyped
    <3> QED BY <2>1, <3>1, <3>2, <3>3
  <2> QED BY <1>4, <2>1, <2>3 DEF Judging
<1>7. CASE \/ Report \/ CreateSchema \/ LoadTable \/ LoadRefused
           \/ ConnectionLost \/ LoadDone
  <2>1. /\ UNCHANGED <<run, accepted, assignment, disk, manifest>> /\ prep' \notin Judging
    BY <1>7
    DEF Report, CreateSchema, LoadTable, LoadRefused, ConnectionLost, LoadDone, tables,
        saved, Judging
  <2> QED BY <1>1, <1>4, <2>1 DEF DiskInv
<1>8. CASE Killed
  <2>1. /\ prep' = "idle" /\ UNCHANGED <<run, accepted, assignment, manifest>>
        /\ disk' = disk \/ (prep = "save" /\ CutShort)
    BY <1>8 DEF Killed, tables
  <2>2. prep' \notin Judging BY <2>1 DEF Judging
  <2>3. CASE disk' = disk BY <1>1, <1>4, <2>1, <2>2, <2>3 DEF DiskInv
  <2>4. CASE prep = "save" /\ CutShort
    <3>1. PICK k \in pending : /\ InSplit(Fraction[k]) # {}
                               /\ \E rows \in SUBSET InSplit(Fraction[k]) :
                                    disk' = [disk EXCEPT ![Fraction[k]] =
                                               [run |-> run, rows |-> rows]]
      BY <2>4 DEF CutShort
    <3>2. k \in DOMAIN Fraction BY <1>1, <2>4, <3>1 DEF FilesInv
    <3> QED BY <2>1, <2>2, <2>4, <3>1, <3>2, DiskWritten
  <2> QED BY <2>1, <2>3, <2>4
<1> QED BY <1>2, <1>3, <1>5, <1>6, <1>7, <1>8 DEF PrepNext

LEMMA PrepStays ==
  ASSUME PrepInv, UNCHANGED prepVars
  PROVE  PrepInv'
<1>1. UNCHANGED <<run, prep, raw, cleaned, accepted, rejected, assignment, pending, disk,
                  manifest, trusted, db, unloaded, loading>>
  BY DEF prepVars
<1>2. PrepTyped' BY <1>1 DEF PrepInv, PrepTyped
<1>3. TrustInv'
  <2>1. \A t : Accept(t)' = Accept(t) /\ Rejected(t)' = Rejected(t)
    BY <1>1, SameJudgement
  <2>2. Judged' BY <1>1, <2>1 DEF PrepInv, TrustInv, Judged
  <2> QED BY <1>1, <2>2 DEF PrepInv, TrustInv
<1>4. LoadedInv'
  <2>1. /\ \A t : Fits(t)' = Fits(t)
        /\ Closed(accepted)' = Closed(accepted) /\ Closed(db)' = Closed(db)
    BY <1>1 DEF Fits, ColumnsFit, FloatColumn, TypesRepeat, Closed, RefersInside, KnownActions
  <2> QED BY <1>1, <2>1 DEF PrepInv, LoadedInv
<1>5. FilesInv'
  BY <1>1 DEF PrepInv, FilesInv, FilesListed, AllAssigned, OnDisk, Paths, InSplit
<1>6. DiskInv'
  <2>1. \A m, n : OfTheRun(n)' = OfTheRun(n) /\ Apart(m, n)' = Apart(m, n)
    BY <1>1 DEF OfTheRun, Apart, InSplit
  <2> QED BY <1>1, <2>1 DEF PrepInv, DiskInv
<1> QED BY <1>2, <1>3, <1>4, <1>5, <1>6 DEF PrepInv

(* The invariant of the data preparation.                                  *)
LEMMA PrepInvariant == PrepSpec => []PrepInv
<1>1. PrepInv /\ [PrepNext]_prepVars => PrepInv'
  BY PrepTypes, PrepTrust, PrepLoad, PrepFiles, PrepDisk, PrepStays DEF PrepInv
<1> QED BY PrepStarts, <1>1, PTL DEF PrepSpec

(* A dataset the report trusts refers only to itself, but for the actions  *)
(* of a dataset that has none; what dangles of accepted rows is outcomes   *)
(* of transactions rejected with their customer gone; and the database     *)
(* refuses a dataset only for a reference, a repeated type of an action, a *)
(* null or a float (validation.py:390-428, V001__init.sql).                *)
THEOREM TrustedRefersInside == PrepSpec => []TrustedIsClosed
<1>1. PrepInv => TrustedIsClosed
  <2> SUFFICES ASSUME PrepInv PROVE TrustedIsClosed OBVIOUS
  <2>1. Judged /\ LoadedInv /\ (trusted => \A t \in Tables : rejected[t] = {})
    BY DEF PrepInv, TrustInv
  <2>2. trusted => /\ RefersInside(accepted)
                   /\ accepted["actions"] # {} => Closed(accepted)
    BY <2>1, TrustedClosed
  <2>3. loading = "refused" => \/ ~Closed(accepted) \/ TypesRepeat
                               \/ \E t \in TableName : ~ColumnsFit(t, accepted[t])
    BY <2>1 DEF LoadedInv, Fits, Tables
  <2>4. loading = "loaded" => /\ Closed(accepted) /\ ~TypesRepeat
                              /\ \A t \in TableName : ColumnsFit(t, accepted[t])
    <3> SUFFICES ASSUME loading = "loaded"
                 PROVE  /\ Closed(accepted) /\ ~TypesRepeat
                        /\ \A t \in TableName : ColumnsFit(t, accepted[t])
      OBVIOUS
    <3>1. db = accepted /\ Closed(db) /\ \A t \in Tables : Fits(t) BY <2>1 DEF LoadedInv
    <3>2. Fits("actions") BY <3>1, TableNames
    <3> QED BY <3>1, <3>2 DEF Fits, Tables
  <2> QED BY <2>1, <2>2, <2>3, <2>4, AcceptedFacts DEF TrustedIsClosed
<1> QED BY <1>1, PrepInvariant, PTL

(* Files of one run share no customer, also where one was cut short; files *)
(* a manifest lists are of its run or a later one; and once the last run's *)
(* manifest is written, the files of that run are the files it lists and   *)
(* hold every accepted transaction (splitting.py:94-149).                  *)
THEOREM SplitsPartition == PrepSpec => []ManifestIsPartition
<1>1. PrepInv => ManifestIsPartition
  <2> SUFFICES ASSUME PrepInv PROVE ManifestIsPartition OBVIOUS
  <2>1. DiskInv /\ FilesInv /\ Judged BY DEF PrepInv, TrustInv
  <2>2. \A m, n \in FractionName : Apart(m, n) BY <2>1 DEF DiskInv
  <2>3. \A n \in manifest.paths : disk[n].run >= manifest.run
    <3> SUFFICES ASSUME NEW n \in manifest.paths PROVE disk[n].run >= manifest.run
      OBVIOUS
    <3>1. disk[n].run \in Nat /\ manifest.run \in Nat /\ manifest.run <= disk[n].run
      BY <2>1 DEF DiskInv, FilesInv
    <3> QED BY <3>1
  <2>4. ASSUME manifest.run = run, run # 0
        PROVE  /\ manifest.paths = {n \in FractionName : disk[n].run = run}
               /\ UNION {disk[n].rows : n \in manifest.paths} = accepted["transactions"]
    <3>1. /\ AllAssigned /\ manifest.paths = Paths
          /\ \A n \in FractionName : OnDisk(n)
      BY <2>1, <2>4 DEF FilesInv, FilesListed
    <3>2. \A n \in FractionName : OfTheRun(n) BY <2>1 DEF DiskInv
    <3>3. ASSUME NEW n \in FractionName PROVE disk[n].run = run <=> InSplit(n) # {}
      BY <2>4, <3>1, <3>2, WrittenSplit DEF OfTheRun
    <3>4. manifest.paths = {n \in FractionName : disk[n].run = run}
      BY <3>1, <3>3 DEF Paths
    <3>5. \A n \in manifest.paths : disk[n].rows = InSplit(n)
      BY <3>1, WrittenSplit DEF Paths
    <3>6. ASSUME NEW row \in accepted["transactions"]
          PROVE  \E n \in manifest.paths : row \in InSplit(n)
      <4>1. row.customer \in Ids(accepted["customers"])
        BY <2>1, AcceptedFacts
      <4>2. /\ assignment[row.customer] \in FractionName
            /\ row \in InSplit(assignment[row.customer])
        BY <3>1, <4>1 DEF AllAssigned, InSplit
      <4> QED BY <3>1, <4>2 DEF Paths
    <3>7. UNION {InSplit(n) : n \in manifest.paths} = accepted["transactions"]
      BY <3>6 DEF InSplit
    <3>8. {disk[n].rows : n \in manifest.paths} = {InSplit(n) : n \in manifest.paths}
      BY <3>5
    <3> QED BY <3>4, <3>7, <3>8
  <2> QED BY <2>2, <2>3, <2>4 DEF ManifestIsPartition, Apart
<1> QED BY <1>1, PrepInvariant, PTL

(* A database that is reported loaded holds exactly the accepted rows, and *)
(* refers to nothing that is not there at any moment of any load           *)
(* (pipeline.py:175-195).                                                  *)
THEOREM LoadIsExact == PrepSpec => []LoadedExactly
<1>1. PrepInv => LoadedExactly
  BY DEF PrepInv, LoadedInv, LoadedExactly
<1> QED BY <1>1, PrepInvariant, PTL

-----------------------------------------------------------------------------
(* CsvAdapter.                                                             *)

\* A finite set of integers has a greatest element and a least one.
LEMMA Extremes ==
  ASSUME NEW S \in SUBSET Int, IsFiniteSet(S), S # {}
  PROVE  Max(S) \in Int /\ Min(S) \in Int
<1> DEFINE n == Cardinality(S)
           f == [i \in 1..n |-> Listed(S)[i]]
           g == [i \in 1..n |-> 0 - Listed(S)[i]]
<1>1. n \in Nat /\ n # 0 BY FS_CardinalityType, FS_EmptySet
<1>2. Listed(S) \in [1..n -> S] /\ {Listed(S)[i] : i \in 1..n} = S BY ListedAll
<1>3. f \in [1..n -> Int] /\ g \in [1..n -> Int]
  <2>1. \A i \in 1..n : Listed(S)[i] \in Int BY <1>2
  <2> HIDE DEF n
  <2> QED BY <2>1
<1>4. \A x \in S : \E i \in 1..n : x = f[i] /\ g[i] = 0 - x BY <1>2
<1>5. \A i \in 1..n : f[i] \in S /\ g[i] = 0 - f[i] BY <1>2
<1> HIDE DEF n, f, g
<1>6. PICK i \in 1..n : \A k \in 1..n : f[k] <= f[i] BY <1>1, <1>3, GreatestOf
<1>7. PICK j \in 1..n : \A k \in 1..n : g[k] <= g[j] BY <1>1, <1>3, GreatestOf
<1>8. f[i] \in S /\ \A y \in S : f[i] >= y
  BY <1>3, <1>4, <1>5, <1>6
<1>9. f[j] \in S /\ \A y \in S : f[j] <= y
  <2>1. ASSUME NEW y \in S PROVE f[j] <= y
    <3>1. PICK k \in 1..n : y = f[k] /\ g[k] = 0 - y BY <1>4
    <3>2. g[k] <= g[j] /\ g[j] = 0 - f[j] /\ f[j] \in Int BY <1>3, <1>5, <1>7
    <3> QED BY <3>1, <3>2
  <2> QED BY <1>5, <2>1
<1>10. Max(S) \in S BY <1>8 DEF Max
<1>11. Min(S) \in S BY <1>9 DEF Min
<1> QED BY <1>10, <1>11

-----------------------------------------------------------------------------
Fitting == {"amounts", "dates", "defaults", "features", "customers", "done"}
Mapping == {"map", "validate"}
Positions == 1..Len(upload.rows)
Feature == {"ltv", "success", "tenure"}

\* Rows of the table are those of the file, in some order, at one scale.
OfTheFile(scale) ==
  \A i \in Positions : \E p \in Positions :
    /\ table[p].transaction_id = upload.rows[i].transaction_id
    /\ table[p].amount = scale * upload.rows[i].amount
    /\ table[p].payment_method = upload.rows[i].payment_method

CsvTyped ==
  /\ upload \in Uploads
  /\ step \in Mapping \cup Fitting \cup {"parse", "refused", "failed"}
  /\ step \in Mapping \cup {"amounts"} => table = upload.rows
  /\ step \in Mapping \cup Fitting =>
       /\ table = [p \in Positions |-> table[p]]
       /\ \A p \in Positions : table[p] = [c \in Canonical |-> table[p][c]]

ValuesInv ==
  /\ step \in Fitting =>
       /\ \A p \in Positions : table[p].amount \in Int
       /\ \E scale \in {1, 100} : OfTheFile(scale)
  /\ step \in {"amounts", "dates"} =>
       \A p \in Positions : table[p].transaction_timestamp \in Int \cup {Blank, Unreadable}
  /\ step \in {"defaults", "features", "customers", "done"} =>
       \A p \in Positions : table[p].transaction_timestamp \in Int \cup {Unreadable}

FeaturesInv ==
  /\ step \in {"customers", "done"} =>
       features = [p \in Positions |-> FeaturesOf(table, table[p])]
  /\ step = "done" =>
       customers = [c \in Column("customer_id") |-> MeanOver(RowsOf(c), features)]

CsvInv == CsvTyped /\ ValuesInv /\ FeaturesInv

(* What a file is.                                                         *)
LEMMA UploadFacts ==
  ASSUME CsvTyped
  PROVE  /\ Len(upload.rows) \in Nat /\ DOMAIN upload.rows = Positions
         /\ upload.rows = [p \in Positions |-> upload.rows[p]]
         /\ \A p \in Positions :
              /\ upload.rows[p] = [c \in Canonical |-> upload.rows[p][c]]
              /\ upload.rows[p].amount \in Int \cup {Unreadable}
              /\ upload.rows[p].transaction_timestamp \in Int \cup {Blank, Unreadable}
<1>1. upload \in Uploads BY DEF CsvTyped
<1>2. /\ Len(upload.rows) \in Nat
      /\ upload.rows = [i \in 1..Len(upload.rows) |-> upload.rows[i]]
      /\ \A i \in 1..Len(upload.rows) :
            /\ upload.rows[i] = [c \in Canonical |-> upload.rows[i][c]]
            /\ upload.rows[i].amount \in Int \cup {Unreadable}
            /\ upload.rows[i].transaction_timestamp \in Int \cup {Blank, Unreadable}
  BY <1>1, CsvAssumption
<1> QED BY <1>2 DEF Positions

\* Features are numbers.
LEMMA SummaryTyped ==
  ASSUME NEW S, IsFiniteSet(S),
         \A s \in S : s.amount \in Int /\ s.transaction_timestamp \in Int
  PROVE  /\ DOMAIN Summary(S) = Feature
         /\ \A f \in Feature : Summary(S)[f] \in Int
<1>1. CASE S = {}
  BY <1>1 DEF Summary, Neutral, Feature
<1>2. CASE S # {}
  <2> DEFINE paid == {s \in S : s.transaction_status # "failed"}
             days == {s.transaction_timestamp : s \in S}
             T == IF paid = {} THEN S ELSE paid
             v == [s \in T |-> s.amount]
             w == SumOver(v, T)
             rate == (100 * Cardinality(paid)) \div Cardinality(S)
             span == Max({1, Max(days) - Min(days)})
  <2>1. IsFiniteSet(paid) /\ IsFiniteSet(T) /\ T # {} BY <1>2, FS_Subset
  <2>2. IsFiniteSet(days)
    <3> DEFINE f == [s \in S |-> s.transaction_timestamp]
    <3>1. f \in Surjection(S, days) BY DEF Surjection
    <3> HIDE DEF f, days
    <3> QED BY <3>1, FS_Surjection
  <2>3. days \in SUBSET Int /\ days # {} BY <1>2
  <2>4. w \in Int
    <3>1. v \in [T -> Int] OBVIOUS
    <3> HIDE DEF v, T
    <3>2. Listed(T) \in [1..Cardinality(T) -> T] /\ Cardinality(T) \in Nat BY <2>1, ListedAll
    <3>3. SumOver(v, T) \in Int BY <3>1, <3>2, SumInt DEF SumOver
    <3> QED BY <3>3
  <2>5. Clip(rate) \in Int
    <3>1. Cardinality(paid) \in Nat /\ Cardinality(S) \in Nat \ {0}
      BY <1>2, <2>1, FS_CardinalityType, FS_EmptySet
    <3>2. 100 * Cardinality(paid) \in Int BY <3>1
    <3>3. rate \in Int BY <3>1, <3>2, Quotient
    <3> HIDE DEF rate
    <3> QED BY <3>3 DEF Clip
  <2>6. span \in Int
    <3> HIDE DEF days
    <3>1. Max(days) \in Int /\ Min(days) \in Int BY <2>2, <2>3, Extremes
    <3> DEFINE d == Max(days) - Min(days)
    <3>2. d \in Int BY <3>1
    <3> HIDE DEF d
    <3>3. IsFiniteSet({1, d})
      <4>1. IsFiniteSet({} \cup {1}) BY FS_EmptySet, FS_AddElement
      <4>2. IsFiniteSet(({} \cup {1}) \cup {d}) BY <4>1, FS_AddElement
      <4>3. ({} \cup {1}) \cup {d} = {1, d} OBVIOUS
      <4> QED BY <4>2, <4>3
    <3>4. Max({1, d}) \in Int BY <3>2, <3>3, Extremes
    <3> QED BY <3>4 DEF d
  <2>7. Summary(S) = [ltv |-> w, success |-> Clip(rate), tenure |-> span]
    BY <1>2 DEF Summary
  <2> HIDE DEF w, rate, span
  <2> QED BY <2>4, <2>5, <2>6, <2>7 DEF Feature
<1> QED BY <1>1, <1>2

\* Steps that leave the table as it is, or refuse the file.
LEMMA CsvChecks ==
  ASSUME CsvInv,
         \/ Parse \/ NotParsed \/ MapColumns \/ ColumnsMissing
         \/ MappingFails \/ ValidateSchema \/ ValidationFails
  PROVE  CsvInv'
<1> USE DEF Mapping, Fitting
<1>1. CsvTyped /\ ValuesInv /\ FeaturesInv BY DEF CsvInv
<1>2. CASE step' \in {"refused", "failed"} /\ UNCHANGED upload
  BY <1>1, <1>2 DEF CsvInv, CsvTyped, ValuesInv, FeaturesInv
<1>3. CASE NotParsed \/ ColumnsMissing \/ MappingFails \/ ValidationFails
  BY <1>2, <1>3
  DEF NotParsed, ColumnsMissing, MappingFails, ValidationFails, Refuse
<1>4. CASE Parse
  <2>1. table' = upload.rows /\ step' = "map" /\ UNCHANGED upload
    BY <1>4 DEF Parse
  <2>2. Positions' = Positions BY <2>1 DEF Positions
  <2>3. CsvTyped' BY <1>1, <2>1, <2>2, UploadFacts DEF CsvTyped
  <2> QED BY <2>1, <2>3 DEF CsvInv, ValuesInv, FeaturesInv
<1>5. CASE MapColumns
  <2>1. step = "map" /\ step' = "validate" /\ UNCHANGED <<upload, table>>
    BY <1>5 DEF MapColumns
  <2>2. Positions' = Positions BY <2>1 DEF Positions
  <2> QED BY <1>1, <2>1, <2>2 DEF CsvInv, CsvTyped, ValuesInv, FeaturesInv
<1>6. CASE ValidateSchema
  <2>1. /\ step = "validate" /\ step' = "amounts" /\ UNCHANGED <<upload, table>>
        /\ Unreadable \notin Column("amount")
    BY <1>6 DEF ValidateSchema, SchemaValid
  <2>2. Positions' = Positions /\ table = upload.rows /\ table = [p \in Positions |-> table[p]]
    BY <1>1, <2>1 DEF Positions, CsvTyped
  <2>3. \A p \in Positions : table[p].amount \in Int
    BY <1>1, <2>1, <2>2, UploadFacts DEF Column, Rows
  <2>4. OfTheFile(1)' BY <2>1, <2>2, <2>3 DEF OfTheFile
  <2>5. \A p \in Positions : table[p].transaction_timestamp \in Int \cup {Blank, Unreadable}
    BY <1>1, <2>2, UploadFacts
  <2> QED BY <1>1, <2>1, <2>2, <2>3, <2>4, <2>5 DEF CsvInv, CsvTyped, ValuesInv, FeaturesInv
<1> QED BY <1>3, <1>4, <1>5, <1>6

(* A step that rewrites other columns keeps the rows those of the file.    *)
LEMMA Rewritten ==
  ASSUME CsvTyped, ValuesInv, step \in Fitting, UNCHANGED upload, NEW new,
         table' = [p \in Positions |-> new[p]],
         \A p \in Positions :
           /\ new[p] = [c \in Canonical |-> new[p][c]]
           /\ new[p].transaction_id = table[p].transaction_id
           /\ new[p].amount = table[p].amount
           /\ new[p].payment_method = table[p].payment_method
  PROVE  /\ Positions' = Positions /\ table' = [p \in Positions |-> table'[p]]
         /\ \A p \in Positions : table'[p] = [c \in Canonical |-> table'[p][c]]
         /\ \A p \in Positions : table'[p].amount \in Int
         /\ \E scale \in {1, 100} : OfTheFile(scale)'
<1>1. Positions' = Positions BY DEF Positions
<1>2. PICK scale \in {1, 100} : OfTheFile(scale) BY DEF ValuesInv
<1>3. OfTheFile(scale)'
  <2> SUFFICES ASSUME NEW i \in Positions
               PROVE  \E p \in Positions :
                        /\ table'[p].transaction_id = upload.rows[i].transaction_id
                        /\ table'[p].amount = scale * upload.rows[i].amount
                        /\ table'[p].payment_method = upload.rows[i].payment_method
    BY <1>1 DEF OfTheFile
  <2>1. PICK p \in Positions : /\ table[p].transaction_id = upload.rows[i].transaction_id
                            /\ table[p].amount = scale * upload.rows[i].amount
                            /\ table[p].payment_method = upload.rows[i].payment_method
    BY <1>2 DEF OfTheFile
  <2>2. table'[p] = new[p] OBVIOUS
  <2> QED BY <2>1, <2>2
<1> QED BY <1>1, <1>3 DEF ValuesInv

LEMMA CsvAmounts ==
  ASSUME CsvInv, ConvertAmounts
  PROVE  CsvInv'
<1>1. CsvTyped /\ ValuesInv BY DEF CsvInv
<1>2. /\ step = "amounts" /\ step' = "dates" /\ UNCHANGED upload /\ table = upload.rows
      /\ table' = [i \in Rows |->
                    IF InPaise(i) THEN table[i] ELSE [table[i] EXCEPT !.amount = 100 * @]]
  BY <1>1 DEF ConvertAmounts, CsvTyped
<1>3. /\ Rows = Positions /\ Positions' = Positions
      /\ \A p \in Positions :
           /\ table[p] = [c \in Canonical |-> table[p][c]] /\ table[p].amount \in Int
           /\ table[p].transaction_timestamp \in Int \cup {Blank, Unreadable}
  BY <1>1, <1>2 DEF CsvTyped, ValuesInv, Rows, Positions, Fitting, Mapping
<1>4. PICK scale \in {1, 100} :
        \A p \in Positions :
          /\ table'[p] = [c \in Canonical |-> table'[p][c]]
          /\ table'[p].transaction_id = table[p].transaction_id
          /\ table'[p].amount = scale * table[p].amount
          /\ table'[p].payment_method = table[p].payment_method
          /\ table'[p].transaction_timestamp = table[p].transaction_timestamp
  <2>1. \A p, q \in Positions : InPaise(p) <=> InPaise(q) BY DEF InPaise
  <2>2. ASSUME NEW p \in Positions, InPaise(p) PROVE table'[p] = table[p]
    BY <1>2, <1>3, <2>2
  <2>3. ASSUME NEW p \in Positions, ~InPaise(p)
        PROVE  /\ table'[p] = [table[p] EXCEPT !.amount = 100 * @]
               /\ table'[p] = [c \in Canonical |-> table'[p][c]]
               /\ table'[p].transaction_id = table[p].transaction_id
               /\ table'[p].amount = 100 * table[p].amount
               /\ table'[p].payment_method = table[p].payment_method
               /\ table'[p].transaction_timestamp = table[p].transaction_timestamp
    <3>1. table'[p] = [table[p] EXCEPT !.amount = 100 * @] BY <1>2, <1>3, <2>3
    <3> DEFINE r == table[p]
    <3>2. r = [c \in Canonical |-> r[c]] BY <1>3
    <3> HIDE DEF r
    <3>3. table'[p] = [r EXCEPT !.amount = 100 * @] BY <3>1 DEF r
    <3>4. /\ table'[p] = [c \in Canonical |-> table'[p][c]]
          /\ table'[p].transaction_id = r.transaction_id
          /\ table'[p].amount = 100 * r.amount
          /\ table'[p].payment_method = r.payment_method
          /\ table'[p].transaction_timestamp = r.transaction_timestamp
      BY <3>2, <3>3 DEF Canonical
    <3> QED BY <3>1, <3>4 DEF r
  <2>4. CASE \E p \in Positions : InPaise(p)
    <3>1. \A p \in Positions : table'[p] = table[p] BY <2>1, <2>2, <2>4
    <3>2. \A p \in Positions : table[p].amount = 1 * table[p].amount
      <4>1. \A x \in Int : x = 1 * x OBVIOUS
      <4> QED BY <1>3, <4>1
    <3> QED BY <1>3, <3>1, <3>2
  <2>5. CASE ~\E p \in Positions : InPaise(p) BY <2>3, <2>5
  <2> QED BY <2>4, <2>5
<1>5. \A p \in Positions : table'[p].amount \in Int
  <2>1. \A x \in Int : scale * x \in Int OBVIOUS
  <2> QED BY <1>3, <1>4, <2>1
<1>6. OfTheFile(scale)'
  <2>1. ASSUME NEW i \in Positions
        PROVE  /\ table'[i].transaction_id = upload.rows[i].transaction_id
               /\ table'[i].amount = scale * upload.rows[i].amount
               /\ table'[i].payment_method = upload.rows[i].payment_method
    <3>1. table[i] = upload.rows[i] BY <1>2
    <3> DEFINE r == table[i]
               u == upload.rows[i]
               a == scale * r.amount
    <3>2. /\ table'[i].transaction_id = r.transaction_id
          /\ table'[i].amount = a
          /\ table'[i].payment_method = r.payment_method
      BY <1>4
    <3>3. r = u BY <3>1
    <3> QED BY <3>2, <3>3, Zenon
  <2> QED BY <1>2, <1>3, <2>1 DEF OfTheFile
<1>7. table' = [p \in Positions |-> table'[p]] BY <1>2, <1>3
<1>8. CsvTyped' BY <1>1, <1>2, <1>3, <1>4, <1>7 DEF CsvTyped, Fitting, Mapping
<1>9. ValuesInv' BY <1>2, <1>3, <1>4, <1>5, <1>6 DEF ValuesInv
<1> QED BY <1>2, <1>8, <1>9 DEF CsvInv, FeaturesInv

LEMMA CsvDates ==
  ASSUME CsvInv, NormalizeTimestamps
  PROVE  CsvInv'
<1> DEFINE new == [i \in Positions |->
                     [table[i] EXCEPT !.due_date = Dated("due_date")[i],
                        !.transaction_timestamp = Dated("transaction_timestamp")[i]]]
<1>1. CsvTyped /\ ValuesInv BY DEF CsvInv
<1>2. /\ step = "dates" /\ step' = "defaults" /\ UNCHANGED upload
      /\ Rows = Positions
      /\ \A p \in Positions :
           /\ table[p] = [c \in Canonical |-> table[p][c]]
           /\ table[p].transaction_timestamp \in Int \cup {Blank, Unreadable}
  BY <1>1
  DEF NormalizeTimestamps, CsvTyped, ValuesInv, Rows, Fitting, Mapping
<1>3. table' = [p \in Positions |-> new[p]]
  BY <1>2 DEF NormalizeTimestamps
<1>4. ASSUME NEW p \in Positions
      PROVE  /\ new[p] = [c \in Canonical |-> new[p][c]]
             /\ new[p].transaction_id = table[p].transaction_id
             /\ new[p].amount = table[p].amount
             /\ new[p].payment_method = table[p].payment_method
             /\ new[p].transaction_timestamp = Dated("transaction_timestamp")[p]
  <2> DEFINE r == table[p]
             d == Dated("due_date")[p]
             e == Dated("transaction_timestamp")[p]
  <2>1. r = [c \in Canonical |-> r[c]] BY <1>2
  <2>2. new[p] = [r EXCEPT !.due_date = d, !.transaction_timestamp = e] OBVIOUS
  <2> HIDE DEF new, r, d, e
  <2>3. /\ new[p] = [c \in Canonical |-> new[p][c]]
        /\ new[p].transaction_id = r.transaction_id
        /\ new[p].amount = r.amount
        /\ new[p].payment_method = r.payment_method
        /\ new[p].transaction_timestamp = e
    BY <2>1, <2>2 DEF Canonical
  <2> QED BY <2>3 DEF r, e
<1>5. \A p \in Positions : Dated("transaction_timestamp")[p] \in Int \cup {Unreadable}
  BY <1>2, CsvAssumption DEF Dated
<1> HIDE DEF new
<1>6. /\ Positions' = Positions /\ table' = [p \in Positions |-> table'[p]]
      /\ \A p \in Positions : table'[p] = [c \in Canonical |-> table'[p][c]]
      /\ \A p \in Positions : table'[p].amount \in Int
      /\ \E scale \in {1, 100} : OfTheFile(scale)'
  <2>1. step \in Fitting BY <1>2 DEF Fitting
  <2> QED BY <1>1, <1>2, <1>3, <1>4, <2>1, Rewritten
<1>7. \A p \in Positions : table'[p].transaction_timestamp \in Int \cup {Unreadable}
  BY <1>3, <1>4, <1>5
<1> QED BY <1>1, <1>2, <1>6, <1>7 DEF CsvInv, CsvTyped, ValuesInv, FeaturesInv, Fitting, Mapping

LEMMA CsvDefaults ==
  ASSUME CsvInv, ApplyDefaults
  PROVE  CsvInv'
<1> DEFINE new == [i \in Positions |->
                     [table[i] EXCEPT
                        !.failure_reason = IF @ = Blank THEN "network_timeout" ELSE @,
                        !.customer_id = CustomerOf(i)]]
<1>1. CsvTyped /\ ValuesInv BY DEF CsvInv
<1>2. /\ step = "defaults" /\ step' = "features" /\ UNCHANGED upload
      /\ Rows = Positions
      /\ \A p \in Positions :
           /\ table[p] = [c \in Canonical |-> table[p][c]]
           /\ table[p].transaction_timestamp \in Int \cup {Unreadable}
  BY <1>1
  DEF ApplyDefaults, CsvTyped, ValuesInv, Rows, Fitting, Mapping
<1>3. table' = [p \in Positions |-> new[p]]
  BY <1>2 DEF ApplyDefaults
<1>4. ASSUME NEW p \in Positions
      PROVE  /\ new[p] = [c \in Canonical |-> new[p][c]]
             /\ new[p].transaction_id = table[p].transaction_id
             /\ new[p].amount = table[p].amount
             /\ new[p].payment_method = table[p].payment_method
             /\ new[p].transaction_timestamp = table[p].transaction_timestamp
  <2> DEFINE r == table[p]
             d == IF r.failure_reason = Blank THEN "network_timeout" ELSE r.failure_reason
             e == CustomerOf(p)
  <2>1. r = [c \in Canonical |-> r[c]] BY <1>2
  <2>2. new[p] = [r EXCEPT !.failure_reason = d, !.customer_id = e] OBVIOUS
  <2> HIDE DEF new, r, d, e
  <2>3. /\ new[p] = [c \in Canonical |-> new[p][c]]
        /\ new[p].transaction_id = r.transaction_id
        /\ new[p].amount = r.amount
        /\ new[p].payment_method = r.payment_method
        /\ new[p].transaction_timestamp = r.transaction_timestamp
    BY <2>1, <2>2 DEF Canonical
  <2> QED BY <2>3 DEF r
<1> HIDE DEF new
<1>5. /\ Positions' = Positions /\ table' = [p \in Positions |-> table'[p]]
      /\ \A p \in Positions : table'[p] = [c \in Canonical |-> table'[p][c]]
      /\ \A p \in Positions : table'[p].amount \in Int
      /\ \E scale \in {1, 100} : OfTheFile(scale)'
  <2>1. step \in Fitting BY <1>2 DEF Fitting
  <2> QED BY <1>1, <1>2, <1>3, <1>4, <2>1, Rewritten
<1>6. \A p \in Positions : table'[p].transaction_timestamp \in Int \cup {Unreadable}
  BY <1>2, <1>3, <1>4
<1> QED BY <1>1, <1>2, <1>5, <1>6 DEF CsvInv, CsvTyped, ValuesInv, FeaturesInv, Fitting, Mapping

LEMMA CsvFeatures ==
  ASSUME CsvInv, AttachFeatures
  PROVE  CsvInv'
<1>1. CsvTyped /\ ValuesInv BY DEF CsvInv
<1>2. /\ step = "features" /\ step' = "customers" /\ UNCHANGED upload
      /\ Rows = Positions /\ Positions' = Positions
      /\ Len(upload.rows) \in Nat
      /\ table = [p \in Positions |-> table[p]]
      /\ \A p \in Positions :
           /\ table[p] = [c \in Canonical |-> table[p][c]]
           /\ table[p].amount \in Int
           /\ table[p].transaction_timestamp \in Int \cup {Unreadable}
  BY <1>1, UploadFacts
  DEF AttachFeatures, CsvTyped, ValuesInv, Rows, Fitting, Mapping, Positions
<1>3. PICK order \in [Positions -> Positions] :
        /\ {order[p] : p \in Positions} = Positions
        /\ table' = [p \in Positions |-> table[order[p]]]
        /\ features' = [p \in Positions |-> FeaturesOf(table, table[order[p]])]
  BY <1>2 DEF AttachFeatures, Sorts, Attached
<1>4. \A r : FeaturesOf(table', r) = FeaturesOf(table, r)
  <2> DEFINE A == {table'[p] : p \in DOMAIN table'}
             B == {table[p] : p \in DOMAIN table}
  <2>1. DOMAIN table' = Positions /\ DOMAIN table = Positions BY <1>2, <1>3
  <2>2. ASSUME NEW x \in A PROVE x \in B BY <1>3, <2>1
  <2>3. ASSUME NEW x \in B PROVE x \in A
    <3>1. PICK p \in Positions : x = table[p] BY <2>1
    <3>2. PICK q \in Positions : order[q] = p BY <1>3
    <3>3. table'[q] = table[p] BY <1>3, <3>2
    <3> QED BY <2>1, <3>1, <3>3
  <2>4. A = B
    <3> HIDE DEF A, B
    <3> QED BY <2>2, <2>3
  <2> QED BY <2>4 DEF FeaturesOf, History
<1>5. features' = [p \in Positions |-> FeaturesOf(table', table'[p])]
  <2>1. \A p \in Positions : FeaturesOf(table', table'[p]) = FeaturesOf(table, table[order[p]])
    BY <1>3, <1>4
  <2> QED BY <1>3, <2>1
<1>6. \A p \in Positions :
        /\ table'[p] = table[order[p]] /\ order[p] \in Positions
  BY <1>3
<1>7. PICK scale \in {1, 100} : OfTheFile(scale) BY <1>1, <1>2 DEF ValuesInv, Fitting
<1>8. OfTheFile(scale)'
  <2> SUFFICES ASSUME NEW i \in Positions
               PROVE  \E p \in Positions :
                        /\ table'[p].transaction_id = upload.rows[i].transaction_id
                        /\ table'[p].amount = scale * upload.rows[i].amount
                        /\ table'[p].payment_method = upload.rows[i].payment_method
    BY <1>2 DEF OfTheFile
  <2>1. PICK p \in Positions : /\ table[p].transaction_id = upload.rows[i].transaction_id
                            /\ table[p].amount = scale * upload.rows[i].amount
                            /\ table[p].payment_method = upload.rows[i].payment_method
    BY <1>7 DEF OfTheFile
  <2>2. PICK q \in Positions : order[q] = p BY <1>3
  <2>3. table'[q] = table[p] BY <1>6, <2>2
  <2> QED BY <2>1, <2>3
<1>9. /\ table' = [p \in Positions |-> table'[p]]
      /\ \A p \in Positions :
           /\ table'[p] = [c \in Canonical |-> table'[p][c]]
           /\ table'[p].amount \in Int
           /\ table'[p].transaction_timestamp \in Int \cup {Unreadable}
  <2>1. table' = [p \in Positions |-> table'[p]] BY <1>3
  <2>2. ASSUME NEW p \in Positions
        PROVE  /\ table'[p] = [c \in Canonical |-> table'[p][c]]
               /\ table'[p].amount \in Int
               /\ table'[p].transaction_timestamp \in Int \cup {Unreadable}
    <3> DEFINE r == table[order[p]]
    <3>1. table'[p] = r /\ order[p] \in Positions BY <1>6
    <3>2. /\ r = [c \in Canonical |-> r[c]]
          /\ r.amount \in Int
          /\ r.transaction_timestamp \in Int \cup {Unreadable}
      BY <1>2, <3>1
    <3> HIDE DEF r
    <3> QED BY <3>1, <3>2
  <2> QED BY <2>1, <2>2
<1>10. CsvTyped' BY <1>1, <1>2, <1>9 DEF CsvTyped, Fitting, Mapping
<1>11. ValuesInv' BY <1>2, <1>8, <1>9 DEF ValuesInv, Fitting
<1> QED BY <1>2, <1>5, <1>10, <1>11 DEF CsvInv, FeaturesInv

LEMMA CsvCustomers ==
  ASSUME CsvInv, BuildCustomers
  PROVE  CsvInv'
<1>1. CsvTyped /\ ValuesInv /\ FeaturesInv BY DEF CsvInv
<1>2. /\ step = "customers" /\ step' = "done" /\ UNCHANGED <<upload, table, features>>
      /\ customers' = [c \in Column("customer_id") |-> MeanOver(RowsOf(c), features)]
  BY DEF BuildCustomers, At, GoTo
<1>3. /\ Column("customer_id")' = Column("customer_id")
      /\ \A c : RowsOf(c)' = RowsOf(c)
      /\ Positions' = Positions
  BY <1>2 DEF Column, RowsOf, Rows, Positions
<1>4. \A c : (MeanOver(RowsOf(c), features))' = MeanOver(RowsOf(c), features)
  BY <1>2, <1>3
<1>5. FeaturesInv' BY <1>1, <1>2, <1>3 DEF FeaturesInv
<1>6. \A scale : OfTheFile(scale)' <=> OfTheFile(scale) BY <1>2, <1>3 DEF OfTheFile
<1> QED BY <1>1, <1>2, <1>3, <1>5, <1>6 DEF CsvInv, CsvTyped, ValuesInv, Fitting, Mapping

LEMMA CsvStays ==
  ASSUME CsvInv, UNCHANGED csvVars
  PROVE  CsvInv'
<1>1. UNCHANGED <<upload, table, features, customers, step>> BY DEF csvVars
<1>2. /\ Column("customer_id")' = Column("customer_id")
      /\ \A c : RowsOf(c)' = RowsOf(c)
      /\ Positions' = Positions
  BY <1>1 DEF Column, RowsOf, Rows, Positions
<1>3. \A scale : OfTheFile(scale)' <=> OfTheFile(scale) BY <1>1, <1>2 DEF OfTheFile
<1>4. CsvTyped' BY <1>1, <1>2 DEF CsvInv, CsvTyped
<1>5. ValuesInv' BY <1>1, <1>2, <1>3 DEF CsvInv, ValuesInv
<1>6. FeaturesInv' BY <1>1, <1>2 DEF CsvInv, FeaturesInv
<1> QED BY <1>4, <1>5, <1>6 DEF CsvInv

(* The invariant of the adapter.                                           *)
LEMMA CsvInvariant == CsvSpec => []CsvInv
<1>1. CsvInit => CsvInv
  BY DEF CsvInit, CsvInv, CsvTyped, ValuesInv, FeaturesInv, Mapping, Fitting
<1>2. CsvInv /\ [CsvNext]_csvVars => CsvInv'
  BY CsvChecks, CsvAmounts, CsvDates, CsvDefaults, CsvFeatures, CsvCustomers, CsvStays
  DEF CsvNext
<1> QED BY <1>1, <1>2, PTL DEF CsvSpec

\* The features of the transactions are numbers.
LEMMA FeaturesTyped ==
  ASSUME CsvInv, step \in {"customers", "done"}, NEW p \in Positions
  PROVE  /\ DOMAIN features = Positions /\ DOMAIN table = Positions
         /\ \A f \in Feature : features[p][f] \in Int
<1>1. /\ Len(upload.rows) \in Nat /\ DOMAIN table = Positions
      /\ \A i \in Positions : /\ table[i].amount \in Int
                           /\ table[i].transaction_timestamp \in Int \cup {Unreadable}
      /\ features = [i \in Positions |-> FeaturesOf(table, table[i])]
  <2>1. CsvTyped /\ ValuesInv /\ FeaturesInv BY DEF CsvInv
  <2>2. table = [i \in Positions |-> table[i]] BY <2>1 DEF CsvTyped, Fitting
  <2>3. features = [i \in Positions |-> FeaturesOf(table, table[i])] BY <2>1 DEF FeaturesInv
  <2>4. \A i \in Positions : table[i].amount \in Int BY <2>1 DEF ValuesInv, Fitting
  <2>5. \A i \in Positions : table[i].transaction_timestamp \in Int \cup {Unreadable}
    BY <2>1 DEF ValuesInv
  <2>6. Len(upload.rows) \in Nat BY <2>1, UploadFacts
  <2> QED BY <2>2, <2>3, <2>4, <2>5, <2>6
<1> DEFINE H == History(table, table[p])
           T == {table[i] : i \in Positions}
<1>2. IsFiniteSet(H)
  <2>1. IsFiniteSet(Positions) BY <1>1, FS_Interval DEF Positions
  <2>2. IsFiniteSet(T)
    <3> DEFINE g == [i \in Positions |-> table[i]]
    <3>1. g \in Surjection(Positions, T) BY DEF Surjection
    <3> HIDE DEF g, T
    <3> QED BY <2>1, <3>1, FS_Surjection
  <2>3. H \subseteq T BY <1>1 DEF History
  <2> QED BY <2>2, <2>3, FS_Subset
<1>3. ASSUME NEW s \in H PROVE s.amount \in Int /\ s.transaction_timestamp \in Int
  <2>1. PICK i \in Positions : s = table[i] BY <1>1 DEF History
  <2>2. s.transaction_timestamp # Unreadable BY DEF History, Earlier
  <2> QED BY <1>1, <2>1, <2>2
<1>4. \A f \in Feature : Summary(H)[f] \in Int
  <2> HIDE DEF H
  <2> QED BY <1>2, <1>3, SummaryTyped
<1> QED BY <1>1, <1>4 DEF FeaturesOf

(* A file that is accepted loses and invents no transaction, and every     *)
(* customer's features lie between those of its own (csv_adapter.py).      *)
THEOREM NoRowLost == CsvSpec => []RowsKept
<1>1. ASSUME CsvInv PROVE RowsKept
  <2> SUFFICES ASSUME step = "done" PROVE RowsKept BY DEF RowsKept
  <2>1. CsvTyped /\ ValuesInv /\ FeaturesInv BY <1>1 DEF CsvInv
  <2>2. /\ Len(upload.rows) \in Nat /\ DOMAIN upload.rows = Positions
        /\ table = [p \in Positions |-> table[p]] /\ Rows = Positions
    BY <2>1, UploadFacts DEF CsvTyped, Fitting, Rows
  <2>3. Len(table) = Len(upload.rows)
    <3>1. table \in [1..Len(upload.rows) -> {table[i] : i \in Positions}] BY <2>2 DEF Positions
    <3> QED BY <2>2, <3>1, FunctionIsSeq
  <2>4. \E scale \in {1, 100} : \A r \in {upload.rows[i] : i \in DOMAIN upload.rows} :
          \E p \in Rows :
            /\ table[p].transaction_id = r.transaction_id
            /\ table[p].amount = scale * r.amount
            /\ table[p].payment_method = r.payment_method
    <3>1. PICK scale \in {1, 100} : OfTheFile(scale) BY <2>1 DEF ValuesInv, Fitting
    <3>2. ASSUME NEW i \in Positions
          PROVE  \E p \in Rows :
                   /\ table[p].transaction_id = upload.rows[i].transaction_id
                   /\ table[p].amount = scale * upload.rows[i].amount
                   /\ table[p].payment_method = upload.rows[i].payment_method
      BY <2>2, <3>1 DEF OfTheFile
    <3>3. \A r \in {upload.rows[i] : i \in DOMAIN upload.rows} :
            \E p \in Rows :
              /\ table[p].transaction_id = r.transaction_id
              /\ table[p].amount = scale * r.amount
              /\ table[p].payment_method = r.payment_method
      <4> SUFFICES ASSUME NEW r \in {upload.rows[i] : i \in DOMAIN upload.rows}
                   PROVE  \E p \in Rows :
                            /\ table[p].transaction_id = r.transaction_id
                            /\ table[p].amount = scale * r.amount
                            /\ table[p].payment_method = r.payment_method
        OBVIOUS
      <4>1. PICK i \in Positions : r = upload.rows[i] BY <2>2
      <4> QED BY <3>2, <4>1, Zenon
    <3> QED BY <3>3
  <2>5. customers = [c \in Column("customer_id") |-> MeanOver(RowsOf(c), features)]
    BY <2>1 DEF FeaturesInv
  <2>6. ASSUME NEW c \in Column("customer_id"), NEW f \in DOMAIN Neutral
        PROVE  \E p, q \in Rows :
                 /\ table[p].customer_id = c /\ table[q].customer_id = c
                 /\ features[p][f] <= customers[c][f] /\ customers[c][f] <= features[q][f]
    <3> DEFINE S == RowsOf(c)
               v == [p \in S |-> features[p][f]]
               m == SumOver(v, S) \div Cardinality(S)
    <3>1. S \subseteq Positions /\ S # {} BY <2>2 DEF RowsOf, Column
    <3>2. IsFiniteSet(S)
      <4> HIDE DEF S
      <4>1. Len(upload.rows) \in Nat BY <2>2
      <4>2. IsFiniteSet(Positions) BY <4>1, FS_Interval DEF Positions
      <4> QED BY <3>1, <4>2, FS_Subset
    <3>3. f \in Feature BY DEF Neutral, Feature
    <3>4. v \in [S -> Int]
      <4>1. \A p \in S : features[p][f] \in Int BY <1>1, <3>1, <3>3, FeaturesTyped
      <4> HIDE DEF S
      <4> QED BY <4>1
    <3>5. customers[c][f] = m
      BY <2>5 DEF MeanOver
    <3>6. PICK p \in S, q \in S : v[p] <= m /\ m <= v[q]
      <4> HIDE DEF S, v
      <4> QED BY <3>1, <3>2, <3>4, MeanBetween DEF m
    <3>7. v[p] = features[p][f] /\ v[q] = features[q][f] OBVIOUS
    <3>8. /\ p \in Rows /\ q \in Rows
          /\ table[p].customer_id = c /\ table[q].customer_id = c
      BY <3>6 DEF RowsOf
    <3> QED BY <3>5, <3>6, <3>7, <3>8
  <2> QED BY <2>3, <2>4, <2>5, <2>6 DEF RowsKept
<1> QED BY <1>1, CsvInvariant, PTL

\* What is not earlier, or not the customer's, is not in the history.
LEMMA HistoryKept ==
  ASSUME NEW n \in Nat, table = [i \in 1..n |-> table[i]],
         \A i \in 1..n : table[i] = [c \in Canonical |-> table[i][c]],
         \A i \in 1..n : table[i].transaction_timestamp \in Int \cup {Unreadable},
         NEW p \in 1..n, NEW j \in 1..n,
         ~(Earlier(table[j], table[p]) /\ table[j].customer_id = table[p].customer_id)
  PROVE  History(Changed(j), Changed(j)[p]) = History(table, table[p])
<1> DEFINE new == Changed(j)
           status == IF table[j].transaction_status = "failed" THEN Blank ELSE "failed"
<1>1. /\ DOMAIN new = 1..n /\ DOMAIN table = 1..n
      /\ \A i \in 1..n \ {j} : new[i] = table[i]
  BY DEF Changed
<1>2. /\ new[j].customer_id = table[j].customer_id
      /\ new[j].transaction_timestamp = table[j].transaction_timestamp
  <2>1. new[j] = [[table[j] EXCEPT !.amount = @ + 1] EXCEPT !.transaction_status = status]
    BY DEF Changed
  <2> DEFINE r == table[j]
  <2>2. r = [c \in Canonical |-> r[c]] OBVIOUS
  <2>3. new[j] = [[r EXCEPT !.amount = @ + 1] EXCEPT !.transaction_status = status] BY <2>1
  <2> HIDE DEF r, new, status
  <2>4. new[j].customer_id = r.customer_id /\ new[j].transaction_timestamp = r.transaction_timestamp
    BY <2>2, <2>3 DEF Canonical
  <2> QED BY <2>4 DEF r
<1> HIDE DEF new
<1>3. \A i \in 1..n : /\ new[i].customer_id = table[i].customer_id
                      /\ new[i].transaction_timestamp = table[i].transaction_timestamp
  BY <1>1, <1>2
<1> DEFINE In(t, i) == t[i].customer_id = t[p].customer_id /\ Earlier(t[i], t[p])
<1>4. \A i \in 1..n : In(new, i) <=> In(table, i)
  BY <1>3 DEF Earlier
<1>5. ~In(table, j) /\ ~In(new, j) BY <1>4
<1>6. \A i \in 1..n : In(table, i) => new[i] = table[i] BY <1>1, <1>5
<1>7. History(new, new[p]) =
        {s \in {new[i] : i \in 1..n} : s.customer_id = new[p].customer_id /\ Earlier(s, new[p])}
  BY <1>1 DEF History
<1>8. History(table, table[p]) =
        {s \in {table[i] : i \in 1..n} : s.customer_id = table[p].customer_id /\ Earlier(s, table[p])}
  BY <1>1 DEF History
<1>9. ASSUME NEW s PROVE s \in History(new, new[p]) <=> s \in History(table, table[p])
  <2>1. ASSUME s \in History(new, new[p]) PROVE s \in History(table, table[p])
    <3>1. PICK i \in 1..n : s = new[i] BY <1>7, <2>1
    <3>2. In(new, i) BY <1>7, <2>1, <3>1
    <3>3. In(table, i) /\ s = table[i] BY <1>4, <1>6, <3>1, <3>2
    <3> QED BY <1>8, <3>3
  <2>2. ASSUME s \in History(table, table[p]) PROVE s \in History(new, new[p])
    <3>1. PICK i \in 1..n : s = table[i] BY <1>8, <2>2
    <3>2. In(table, i) BY <1>8, <2>2, <3>1
    <3>3. In(new, i) /\ s = new[i] BY <1>4, <1>6, <3>1, <3>2
    <3> QED BY <1>7, <3>3
  <2> QED BY <2>1, <2>2
<1> QED BY <1>9 DEF new

(* No transaction's features depend on what is not strictly earlier        *)
(* (csv_adapter.py:798-803).                                               *)
THEOREM FeaturesOfThePast == CsvSpec => []PastOnly
<1>1. ASSUME CsvInv PROVE PastOnly
  <2> SUFFICES ASSUME step \in {"customers", "done"}, NEW p \in Rows, NEW j \in Rows,
                      ~(Earlier(table[j], table[p]) /\ table[j].customer_id = table[p].customer_id)
               PROVE  FeaturesOf(Changed(j), Changed(j)[p]) = features[p]
    BY DEF PastOnly
  <2>1. CsvTyped /\ ValuesInv /\ FeaturesInv BY <1>1 DEF CsvInv
  <2>2. /\ Len(upload.rows) \in Nat /\ Rows = Positions
        /\ table = [i \in Positions |-> table[i]]
        /\ \A i \in Positions : table[i] = [c \in Canonical |-> table[i][c]]
        /\ \A i \in Positions : table[i].transaction_timestamp \in Int \cup {Unreadable}
        /\ features = [i \in Positions |-> FeaturesOf(table, table[i])]
    BY <2>1, UploadFacts DEF CsvTyped, ValuesInv, FeaturesInv, Fitting, Rows
  <2>3. History(Changed(j), Changed(j)[p]) = History(table, table[p])
    BY <2>2, HistoryKept DEF Positions
  <2> QED BY <2>2, <2>3 DEF FeaturesOf
<1> QED BY <1>1, CsvInvariant, PTL
=============================================================================
