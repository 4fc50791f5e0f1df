-------------------------- MODULE BatchStoreProofs --------------------------
(* Theorems about BatchStore, for any number of workers and batches. *)
EXTENDS BatchStore, TLAPS

RunState == {"new", "running", "written", "abandoned"}

(* The records that requests are made of have their types.                 *)
LEMMA RequestTypes ==
  /\ Upload \in Origin
  /\ Idle \in Request
  /\ \A b \in Batch : [Idle EXCEPT !.op = "run", !.at = "mkdir", !.batch = b] \in Request
  /\ \A b \in Batch : [Idle EXCEPT !.op = "delete", !.at = "scan", !.batch = b] \in Request
  /\ \A seen \in SUBSET Batch :
       [Idle EXCEPT !.op = "list", !.at = "stat", !.seen = seen] \in Request
  /\ \A b \in Batch : \A s \in BOOLEAN :
       [of |-> b, settled |-> s, transactions |-> "default", customers |-> "default"]
         \in Origin
  /\ \A b \in Batch : \A o \in Origin :
       [Idle EXCEPT !.op = "rerun", !.at = "transactions", !.batch = b, !.origin = o]
         \in Request
<1>1. Upload \in Origin
  BY DEF Upload, Origin, Data
<1>2. Idle \in Request
  BY <1>1 DEF Idle, Request, File, Result
<1>3. \A b \in Batch : \A s \in BOOLEAN :
       [of |-> b, settled |-> s, transactions |-> "default", customers |-> "default"]
         \in Origin
  BY DEF Origin, Data
<1>4. \A b \in Batch : [Idle EXCEPT !.op = "run", !.at = "mkdir", !.batch = b] \in Request
  BY <1>2 DEF Request
<1>5. \A b \in Batch : [Idle EXCEPT !.op = "delete", !.at = "scan", !.batch = b] \in Request
  BY <1>2 DEF Request
<1>6. \A seen \in SUBSET Batch :
       [Idle EXCEPT !.op = "list", !.at = "stat", !.seen = seen] \in Request
  BY <1>2 DEF Request
<1>7. \A b \in Batch : \A o \in Origin :
       [Idle EXCEPT !.op = "rerun", !.at = "transactions", !.batch = b, !.origin = o]
         \in Request
  BY <1>2 DEF Request
<1> QED
  BY <1>1, <1>2, <1>3, <1>4, <1>5, <1>6, <1>7

(* ... and keep them when a step moves the request on.                     *)
LEMMA RequestMoves ==
  ASSUME NEW r \in Request
  PROVE  /\ \A at \in {"open", "write", "mkdir", "find customers", "customers",
                       "compute", "load"} : [r EXCEPT !.at = at] \in Request
         /\ \A at \in {"mkdir", "open"} : r.file # Customers =>
              [r EXCEPT !.file = r.file + 1, !.at = at] \in Request
         /\ \A todo \in SUBSET File :
              /\ [r EXCEPT !.todo = todo] \in Request
              /\ [r EXCEPT !.at = "unlink", !.todo = todo] \in Request
         /\ \A seen, got \in SUBSET Batch :
              [r EXCEPT !.seen = seen, !.got = got] \in Request
         /\ \A data \in Data :
              /\ [r EXCEPT !.origin.transactions = data, !.at = "find customers"]
                   \in Request
              /\ [r EXCEPT !.origin.customers = data, !.at = "compute"] \in Request
<1>1. r.file \in 1..4 /\ r.origin \in Origin
  BY DEF Request, File
<1>2. r.file # Customers => r.file + 1 \in File
  BY <1>1 DEF File, Customers
<1>3. ASSUME NEW data \in Data
      PROVE  /\ [r.origin EXCEPT !.transactions = data] \in Origin
             /\ [r.origin EXCEPT !.customers = data] \in Origin
  BY <1>1 DEF Origin
<1>4. \A at \in {"open", "write", "mkdir", "find customers", "customers",
                 "compute", "load"} : [r EXCEPT !.at = at] \in Request
  BY DEF Request
<1>5. \A at \in {"mkdir", "open"} : r.file # Customers =>
              [r EXCEPT !.file = r.file + 1, !.at = at] \in Request
  BY <1>2 DEF Request
<1>6. \A todo \in SUBSET File :
              /\ [r EXCEPT !.todo = todo] \in Request
              /\ [r EXCEPT !.at = "unlink", !.todo = todo] \in Request
  BY DEF Request
<1>7. \A seen, got \in SUBSET Batch :
              [r EXCEPT !.seen = seen, !.got = got] \in Request
  BY DEF Request
<1>8. \A data \in Data :
              /\ [r EXCEPT !.origin.transactions = data, !.at = "find customers"]
                   \in Request
              /\ [r EXCEPT !.origin.customers = data, !.at = "compute"] \in Request
  BY <1>3 DEF Request
<1> QED
  BY <1>4, <1>5, <1>6, <1>7, <1>8

THEOREM TypeInit == Init => TypeOK
<1> SUFFICES ASSUME Init PROVE TypeOK
  OBVIOUS
<1>1. 0 \in 0..MaxRequests
  BY StoreAssumption
<1> QED
  BY <1>1, RequestTypes DEF Init, TypeOK, Content

(* TypeOK is inductive: each action's request stays a request.             *)
LEMMA BeginRunType ==
  ASSUME TypeOK, NEW w \in Worker, NEW b \in Batch, NEW data \in Origin,
         BeginRun(w, b, data), requests' \in 0..MaxRequests
  PROVE  TypeOK'
<1>1. req' \in [Worker -> Request]
  BY RequestTypes DEF BeginRun, TypeOK
<1>2. run' \in [Batch -> RunState] /\ origin' \in [Batch -> Origin]
  BY DEF BeginRun, TypeOK, RunState
<1> QED
  BY <1>1, <1>2 DEF BeginRun, TypeOK, disk, history, RunState

LEMMA StartType ==
  ASSUME TypeOK, NEW w \in Worker, Start(w)
  PROVE  TypeOK'
<1>0. requests' \in 0..MaxRequests
  BY StoreAssumption DEF Start, TypeOK
<1>1. CASE StartRun(w)
  BY <1>0, <1>1, BeginRunType, RequestTypes DEF StartRun
<1>2. CASE StartRerun(w)
  <2>1. PICK b \in known : req' = [req EXCEPT ![w] =
            [Idle EXCEPT !.op = "rerun", !.at = "transactions", !.batch = b,
                         !.origin = [of |-> b, settled |-> run[b] = "written",
                                     transactions |-> "default",
                                     customers |-> "default"]]]
    BY <1>2 DEF StartRerun
  <2>2. b \in Batch /\ (run[b] = "written") \in BOOLEAN
    BY DEF TypeOK
  <2>3. req' \in [Worker -> Request]
    BY <2>1, <2>2, RequestTypes DEF TypeOK
  <2> QED
    BY <1>0, <1>2, <2>3 DEF StartRerun, TypeOK, disk, history
<1>3. CASE StartList(w)
  <2>1. {b \in dirs : Has(b, Result)} \in SUBSET Batch
    BY DEF TypeOK
  <2>2. req' \in [Worker -> Request]
    BY <1>3, <2>1, RequestTypes DEF StartList, TypeOK
  <2> QED
    BY <1>0, <1>3, <2>2 DEF StartList, TypeOK, disk, history
<1>4. CASE StartDelete(w)
  <2>1. PICK b \in known \cap dirs :
          /\ req' = [req EXCEPT ![w] = [Idle EXCEPT !.op = "delete", !.at = "scan",
                                                    !.batch = b]]
          /\ deleted' = [deleted EXCEPT ![b] = DeleteKind(b)]
    BY <1>4 DEF StartDelete
  <2>2. req' \in [Worker -> Request]
    BY <2>1, RequestTypes DEF TypeOK
  <2>3. deleted' \in [Batch -> {"no", "settled", "racing"}]
    BY <2>1 DEF TypeOK, DeleteKind
  <2> QED
    BY <1>0, <1>4, <2>2, <2>3 DEF StartDelete, TypeOK, disk
<1> QED
  BY <1>1, <1>2, <1>3, <1>4 DEF Start

LEMMA AnswerType ==
  ASSUME TypeOK, NEW w \in Worker, Answer(w)
  PROVE  req' \in [Worker -> Request]
BY RequestTypes DEF Answer, TypeOK

LEMMA EndRunType ==
  ASSUME TypeOK, NEW w \in Worker, req[w].op = "run", req[w].batch \in Batch,
         EndRun(w, "abandoned") \/ EndRun(w, "written")
  PROVE  /\ req' \in [Worker -> Request] /\ run' \in [Batch -> RunState]
         /\ known' \subseteq Batch
BY AnswerType DEF EndRun, TypeOK, RunState

(* A request that writes, re-runs or deletes names a batch.                *)
Names == \A w \in Worker :
  req[w].op \in {"run", "rerun", "delete"} => req[w].batch \in Batch

LEMMA PutType ==
  ASSUME TypeOK, NEW b, NEW f, NEW c \in Content, Put(b, f, c)
  PROVE  file' \in [Batch -> [File -> Content]]
BY DEF TypeOK, Put

LEMMA ReadType ==
  ASSUME NEW c \in Content, NEW data \in ReadOf(c), data # "error"
  PROVE  data \in Data
BY DEF Content, ReadOf, Data

LEMMA ServeType ==
  ASSUME TypeOK, Names, NEW w \in Worker, Serve(w), UNCHANGED requests
  PROVE  TypeOK'
<1> USE DEF disk, history
<1>0. req[w] \in Request /\ requests' \in 0..MaxRequests
  BY DEF TypeOK
<1>1. CASE MakeDirectory(w)
  <2>1. req[w].batch \in Batch
    BY <1>1 DEF MakeDirectory, Serves, Names
  <2>2. req' \in [Worker -> Request]
    BY <1>0, <1>1, RequestMoves DEF MakeDirectory, GoTo, TypeOK
  <2> QED
    BY <1>0, <1>1, <2>1, <2>2 DEF MakeDirectory, TypeOK
<1>2. CASE OpenFile(w)
  <2>1. req' \in [Worker -> Request]
    BY <1>0, <1>2, RequestMoves DEF OpenFile, GoTo, TypeOK
  <2>2. file' \in [Batch -> [File -> Content]]
    BY <1>2, PutType DEF OpenFile, Content
  <2> QED
    BY <1>0, <1>2, <2>1, <2>2 DEF OpenFile, TypeOK
<1>3. CASE OpenFails(w)
  <2>1. req[w].op = "run" /\ req[w].batch \in Batch
    BY <1>3 DEF OpenFails, Serves, Names
  <2> QED
    BY <1>0, <1>3, <2>1, EndRunType DEF OpenFails, EndRun, TypeOK, RunState
<1>4. CASE WriteFile(w)
  <2>1. req[w].op = "run" /\ req[w].batch \in Batch
    BY <1>4 DEF WriteFile, Serves, Names
  <2>2. file' \in [Batch -> [File -> Content]] /\ dirs' \subseteq Batch
    BY <1>4, PutType DEF WriteFile, Written, TypeOK, Content
  <2>3. CASE req[w].file = Customers
    BY <1>0, <1>4, <2>1, <2>2, <2>3, EndRunType
       DEF WriteFile, EndRun, TypeOK, RunState
  <2>4. CASE req[w].file # Customers
    <3>1. req' \in [Worker -> Request]
      BY <1>0, <1>4, <2>4, RequestMoves DEF WriteFile, AfterFile, TypeOK
    <3> QED
      BY <1>0, <1>4, <2>2, <2>4, <3>1 DEF WriteFile, TypeOK
  <2> QED
    BY <2>3, <2>4
<1>5. CASE ReadTransactions(w)
  <2>1. PICK data \in ReadOf(file[req[w].batch][Transactions]) :
          IF data = "error" THEN Answer(w)
          ELSE req' = [req EXCEPT ![w].origin.transactions = data,
                                  ![w].at = "find customers"]
    BY <1>5 DEF ReadTransactions
  <2>2. req[w].batch \in Batch
    BY <1>5 DEF ReadTransactions, Serves, Names
  <2>3. file[req[w].batch][Transactions] \in Content
    BY <2>2 DEF TypeOK, File, Transactions
  <2>4. data = "error" => req' \in [Worker -> Request]
    BY <2>1, AnswerType
  <2>5. ASSUME data # "error" PROVE req' \in [Worker -> Request]
    <3>1. [req[w] EXCEPT !.origin.transactions = data, !.at = "find customers"] \in Request
      BY <1>0, <2>3, <2>5, ReadType, RequestMoves
    <3>2. req' = [req EXCEPT ![w] =
                    [req[w] EXCEPT !.origin.transactions = data, !.at = "find customers"]]
      BY <2>1, <2>5 DEF TypeOK
    <3> QED
      BY <3>1, <3>2 DEF TypeOK
  <2>6. req' \in [Worker -> Request]
    BY <2>4, <2>5
  <2> QED
    BY <1>0, <1>5, <2>6 DEF ReadTransactions, TypeOK
<1>6. CASE FindCustomers(w)
  <2>1. req' \in [Worker -> Request]
    BY <1>0, <1>6, RequestMoves DEF FindCustomers, GoTo, TypeOK
  <2> QED
    BY <1>0, <1>6, <2>1 DEF FindCustomers, TypeOK
<1>7. CASE ReadCustomers(w)
  <2>1. PICK data \in ReadOf(file[req[w].batch][Customers]) :
          IF data = "error" THEN Answer(w)
          ELSE req' = [req EXCEPT ![w].origin.customers = data, ![w].at = "compute"]
    BY <1>7 DEF ReadCustomers
  <2>2. req[w].batch \in Batch
    BY <1>7 DEF ReadCustomers, Serves, Names
  <2>3. file[req[w].batch][Customers] \in Content
    BY <2>2 DEF TypeOK, File, Customers
  <2>4. data = "error" => req' \in [Worker -> Request]
    BY <2>1, AnswerType
  <2>5. ASSUME data # "error" PROVE req' \in [Worker -> Request]
    <3>1. [req[w] EXCEPT !.origin.customers = data, !.at = "compute"] \in Request
      BY <1>0, <2>3, <2>5, ReadType, RequestMoves
    <3>2. req' = [req EXCEPT ![w] =
                    [req[w] EXCEPT !.origin.customers = data, !.at = "compute"]]
      BY <2>1, <2>5 DEF TypeOK
    <3> QED
      BY <3>1, <3>2 DEF TypeOK
  <2>6. req' \in [Worker -> Request]
    BY <2>4, <2>5
  <2> QED
    BY <1>0, <1>7, <2>6 DEF ReadCustomers, TypeOK
<1>8. CASE ComputeRerun(w)
  <2>1. PICK b \in Batch : BeginRun(w, b, req[w].origin)
    BY <1>8 DEF ComputeRerun
  <2>2. req[w].origin \in Origin
    BY <1>0 DEF Request
  <2> QED
    BY <1>0, <2>1, <2>2, BeginRunType
<1>9. CASE RerunFails(w)
  BY <1>0, <1>9, AnswerType DEF RerunFails, TypeOK
<1>10. CASE SortBatches(w)
  <2>1. req' \in [Worker -> Request]
    BY <1>0, <1>10, AnswerType, RequestMoves DEF SortBatches, GoTo, TypeOK
  <2> QED
    BY <1>0, <1>10, <2>1 DEF SortBatches, TypeOK
<1>11. CASE LoadSummary(w)
  <2>1. PICK b \in req[w].seen :
          req' = [req EXCEPT ![w].seen = req[w].seen \ {b},
                             ![w].got = req[w].got
                                        \cup {x \in {b} : file[x][Result] = "whole"}]
    BY <1>11 DEF LoadSummary
  <2>2. /\ req[w].seen \ {b} \in SUBSET Batch
        /\ req[w].got \cup {x \in {b} : file[x][Result] = "whole"} \in SUBSET Batch
    BY <1>0 DEF Request
  <2>3. [req[w] EXCEPT !.seen = req[w].seen \ {b},
                       !.got = req[w].got \cup {x \in {b} : file[x][Result] = "whole"}]
          \in Request
    BY <1>0, <2>2, RequestMoves
  <2>4. req' = [req EXCEPT ![w] = [req[w] EXCEPT !.seen = req[w].seen \ {b},
                       !.got = req[w].got
                               \cup {x \in {b} : file[x][Result] = "whole"}]]
    BY <2>1 DEF TypeOK
  <2> QED
    BY <1>0, <1>11, <2>3, <2>4 DEF LoadSummary, TypeOK
<1>12. CASE AnswerList(w)
  <2>1. req[w].got \subseteq Batch
    BY <1>0 DEF Request
  <2> QED
    BY <1>0, <1>12, <2>1, AnswerType DEF AnswerList, TypeOK
<1>13. CASE ScanDirectory(w)
  <2>1. {f \in File : Has(req[w].batch, f)} \in SUBSET File
    OBVIOUS
  <2>2. [req[w] EXCEPT !.at = "unlink", !.todo = {f \in File : Has(req[w].batch, f)}]
          \in Request
    BY <1>0, <2>1, RequestMoves
  <2>3. CASE req[w].batch \in dirs
    <3>1. req' = [req EXCEPT ![w] = [req[w] EXCEPT !.at = "unlink",
                    !.todo = {f \in File : Has(req[w].batch, f)}]]
      BY <1>13, <2>3 DEF ScanDirectory
    <3> QED
      BY <1>0, <1>13, <2>2, <3>1 DEF ScanDirectory, TypeOK
  <2>4. CASE req[w].batch \notin dirs
    BY <1>0, <1>13, <2>4, AnswerType DEF ScanDirectory, TypeOK
  <2> QED
    BY <2>3, <2>4
<1>14. CASE Unlink(w)
  <2>1. PICK f \in req[w].todo :
          IF Has(req[w].batch, f)
          THEN /\ Put(req[w].batch, f, "absent")
               /\ req' = [req EXCEPT ![w].todo = req[w].todo \ {f}]
          ELSE Answer(w) /\ UNCHANGED file
    BY <1>14 DEF Unlink
  <2>2. req[w].todo \ {f} \in SUBSET File
    BY <1>0 DEF Request
  <2>3. req' \in [Worker -> Request]
    <3>1. [req[w] EXCEPT !.todo = req[w].todo \ {f}] \in Request
      BY <1>0, <2>2, RequestMoves
    <3>2. CASE Has(req[w].batch, f)
      BY <2>1, <3>1, <3>2 DEF TypeOK
    <3> QED
      BY <2>1, <3>2, AnswerType
  <2>4. file' \in [Batch -> [File -> Content]]
    BY <2>1, PutType DEF TypeOK, Content
  <2> QED
    BY <1>0, <1>14, <2>3, <2>4 DEF Unlink, TypeOK
<1>15. CASE RemoveDirectory(w)
  <2>1. req' \in [Worker -> Request]
    BY <1>15, AnswerType DEF RemoveDirectory
  <2>2. dirs' \subseteq Batch /\ deletions' \in [Batch -> Nat]
    BY <1>15 DEF RemoveDirectory, TypeOK
  <2> QED
    BY <1>0, <1>15, <2>1, <2>2 DEF RemoveDirectory, TypeOK
<1> QED
  BY <1>1, <1>2, <1>3, <1>4, <1>5, <1>6, <1>7, <1>8, <1>9, <1>10, <1>11, <1>12,
     <1>13, <1>14, <1>15 DEF Serve

LEMMA DisturbType ==
  ASSUME TypeOK, Names, NEW w \in Worker, Disturb(w), UNCHANGED requests
  PROVE  TypeOK'
<1>1. CASE PersistFails(w)
  <2>1. req[w].op = "run" /\ req[w].batch \in Batch
    BY <1>1 DEF PersistFails, Names
  <2> QED
    BY <1>1, <2>1, EndRunType DEF PersistFails, EndRun, TypeOK, RunState, disk, history
<1>2. CASE Crash(w)
  <2>1. run' \in [Batch -> {"new", "running", "written", "abandoned"}]
    BY <1>2 DEF Crash, TypeOK
  <2> QED
    BY <1>2, <2>1, AnswerType DEF Crash, TypeOK, disk, history
<1> QED
  BY <1>1, <1>2 DEF Disturb

-----------------------------------------------------------------------------
(***************************************************************************)
(* The inductive invariant.  A batch has at most one writer, the thread    *)
(* that runs it, and while nobody deletes the batch that thread finds what *)
(* it wrote before; whoever deletes has announced it in `deleted'.         *)
(***************************************************************************)
Runs(w) == req[w].op = "run"
Deletes(w) == req[w].op = "delete"
Begun == {b \in Batch : run[b] # "new"}

Writers == \A w \in Worker : Runs(w) =>
  req[w].batch \in Batch /\ run[req[w].batch] = "running"

OneWriter == \A v, w \in Worker :
  (Runs(v) /\ Runs(w) /\ req[v].batch = req[w].batch) => v = w

Deleters == \A w \in Worker : Deletes(w) =>
  req[w].batch \in Batch /\ deleted[req[w].batch] # "no"

(* Nobody can name a batch before its run began.                           *)
Listed == known \subseteq Begun /\ \A w \in Worker : req[w].seen \cup req[w].got \subseteq Begun

Fresh == \A b \in Batch : run[b] = "new" => \A f \in File : file[b][f] = "absent"

(* What a writer has written, unless somebody deletes the batch.           *)
Progress == \A w \in Worker : (Runs(w) /\ deleted[req[w].batch] = "no") =>
  \A f \in File : file[req[w].batch][f] =
    IF f < req[w].file THEN "whole"
    ELSE IF f = req[w].file /\ req[w].at = "write" THEN "torn" ELSE "absent"

Stored == \A b \in Batch : (run[b] = "written" /\ deleted[b] = "no") =>
  \A f \in File : file[b][f] = "whole"

(* A delete that begins after the run has no writer to race with.          *)
Settled == \A b \in Batch :
  /\ deleted[b] = "settled" => run[b] \in {"written", "abandoned"}
  /\ deleted[b] = "no" => deletions[b] = 0

FileInv == Writers /\ OneWriter /\ Deleters /\ Listed /\ Fresh /\ Progress /\ Stored
StoreFacts == FileInv /\ WritesInOrder /\ Settled /\ DeletedOnce

(* A re-run of a finished batch that nobody deletes has read it all.       *)
Reruns == \A w \in Worker : req[w].op = "rerun" =>
  /\ req[w].batch \in known /\ req[w].origin.of = req[w].batch
  /\ req[w].origin.settled => run[req[w].batch] = "written"
  /\ (req[w].origin.settled /\ deleted[req[w].batch] = "no") =>
       /\ req[w].at # "transactions" => req[w].origin.transactions = "whole"
       /\ req[w].at = "compute" => req[w].origin.customers = "whole"

RerunFacts == Reruns /\ RerunOnStoredData
StoreInv == TypeOK /\ StoreFacts /\ RerunFacts

LEMMA NamesHold == (TypeOK /\ StoreFacts /\ Reruns) => Names
BY DEF Names, TypeOK, StoreFacts, FileInv, Writers, Deleters, Reruns, Runs, Deletes

(* Steps that change no file, run or delete: reads, scans and answers.     *)
LEMMA QuietStep ==
  ASSUME StoreFacts, UNCHANGED <<file, run, deleted, deletions>>, dirs' \subseteq dirs,
         \A x \in Worker : Runs(x)' => req'[x] = req[x],
         \A x \in Worker : Deletes(x)' => Deletes(x) /\ req'[x].batch = req[x].batch,
         known' \subseteq Begun,
         \A x \in Worker : req'[x].seen \cup req'[x].got \subseteq Begun
  PROVE  StoreFacts'
<1> USE DEF StoreFacts, FileInv
<1>1. \A x \in Worker : Runs(x)' => Runs(x)
  BY DEF Runs
<1>2. Writers'
  BY <1>1 DEF Writers
<1>3. OneWriter'
  BY <1>1 DEF OneWriter
<1>4. Deleters'
  BY DEF Deleters
<1>5. Listed'
  BY DEF Listed, Begun
<1>6. Fresh' /\ Stored' /\ Settled'
  BY DEF Fresh, Stored, Settled
<1>7. Progress'
  BY <1>1 DEF Progress
<1>8. WritesInOrder' /\ DeletedOnce'
  BY DEF WritesInOrder, DeletedOnce, Has
<1> QED
  BY <1>2, <1>3, <1>4, <1>5, <1>6, <1>7, <1>8

(* A run begins: its batch was fresh, so nothing of it is on disk.         *)
LEMMA BeginRunStep ==
  ASSUME TypeOK, StoreFacts, NEW w \in Worker, NEW b \in Batch, NEW data, BeginRun(w, b, data)
  PROVE  StoreFacts'
<1> USE DEF StoreFacts, FileInv
<1> DEFINE r == [Idle EXCEPT !.op = "run", !.at = "mkdir", !.batch = b]
<1>1. /\ run[b] = "new" /\ run' = [run EXCEPT ![b] = "running"]
      /\ req' = [req EXCEPT ![w] = r]
      /\ UNCHANGED <<dirs, file, known, deleted, deletions>>
  BY DEF BeginRun, disk, history
<1>2. req'[w] = r /\ \A x \in Worker : x # w => req'[x] = req[x]
  BY <1>1 DEF TypeOK
<1>3. run'[b] = "running" /\ \A c \in Batch : c # b => run'[c] = run[c]
  BY <1>1 DEF TypeOK
<1>4. r.op = "run" /\ r.batch = b /\ r.file = 1 /\ r.at = "mkdir" /\ r.seen = {} /\ r.got = {}
  BY DEF Idle, Result
<1> HIDE DEF r
<1>5. \A x \in Worker : Runs(x) => req[x].batch # b
  BY <1>1 DEF Writers
<1>6. Writers'
  BY <1>2, <1>3, <1>4 DEF Writers, Runs
<1>7. OneWriter'
  BY <1>2, <1>4, <1>5 DEF OneWriter, Runs
<1>8. Deleters'
  BY <1>1, <1>2, <1>4 DEF Deleters, Deletes
<1>9. Listed'
  <2>1. Begun \subseteq Begun'
    BY <1>3 DEF Begun
  <2> QED
    BY <1>1, <1>2, <1>4, <2>1 DEF Listed
<1>10. Fresh' /\ Stored' /\ Settled'
  BY <1>1, <1>3 DEF Fresh, Stored, Settled
<1>11. Progress'
  <2>1. \A f \in File : file'[b][f] = "absent" /\ ~(f < 1)
    BY <1>1 DEF Fresh, File
  <2>2. \A x \in Worker : x # w => (Runs(x)' => Runs(x))
    BY <1>2 DEF Runs
  <2> QED
    BY <1>1, <1>2, <1>4, <2>1, <2>2 DEF Progress
<1>12. WritesInOrder' /\ DeletedOnce'
  BY <1>1 DEF WritesInOrder, DeletedOnce, Has
<1> QED
  BY <1>6, <1>7, <1>8, <1>9, <1>10, <1>11, <1>12

(* A run stops before all files are there.                                 *)
LEMMA AbandonStep ==
  ASSUME TypeOK, StoreFacts, NEW w \in Worker, Runs(w),
         run' = [run EXCEPT ![req[w].batch] = "abandoned"], Answer(w),
         UNCHANGED <<dirs, file, deleted, deletions>>,
         known' \subseteq known \cup {req[w].batch}
  PROVE  StoreFacts'
<1> USE DEF StoreFacts, FileInv
<1> DEFINE b == req[w].batch
<1>1. b \in Batch /\ run[b] = "running"
  BY DEF Writers
<1>2. run'[b] = "abandoned" /\ \A c \in Batch : c # b => run'[c] = run[c]
  BY <1>1 DEF TypeOK
<1>3. req'[w] = Idle /\ \A x \in Worker : x # w => req'[x] = req[x]
  BY DEF Answer, TypeOK
<1>4. Idle.op = "none" /\ Idle.seen = {} /\ Idle.got = {}
  BY DEF Idle
<1>5. ~Runs(w)' /\ ~Deletes(w)' /\ \A x \in Worker :
        (Runs(x)' => Runs(x) /\ req'[x] = req[x]) /\ (Deletes(x)' => Deletes(x) /\ req'[x] = req[x])
  BY <1>3, <1>4 DEF Runs, Deletes
<1>6. \A x \in Worker : Runs(x)' => req[x].batch # b
  BY <1>5 DEF OneWriter
<1>7. Begun' = Begun
  BY <1>1, <1>2 DEF Begun
<1> HIDE DEF b
<1>8. Writers'
  BY <1>2, <1>5, <1>6 DEF Writers
<1>9. OneWriter' /\ Deleters'
  BY <1>5 DEF OneWriter, Deleters
<1>10. Listed'
  BY <1>1, <1>3, <1>4, <1>7 DEF Listed, Begun, b
<1>11. Fresh' /\ Stored' /\ Settled'
  BY <1>1, <1>2 DEF Fresh, Stored, Settled
<1>12. Progress'
  BY <1>5 DEF Progress
<1>13. WritesInOrder' /\ DeletedOnce'
  BY DEF WritesInOrder, DeletedOnce, Has
<1> QED
  BY <1>8, <1>9, <1>10, <1>11, <1>12, <1>13

(* A writer goes on with its batch: nobody else writes to it.              *)
LEMMA WriterStep ==
  ASSUME TypeOK, StoreFacts, NEW w \in Worker, Runs(w), NEW r, req' = [req EXCEPT ![w] = r],
         r.op = "run", r.batch = req[w].batch, r.seen = req[w].seen, r.got = req[w].got,
         UNCHANGED <<run, known, deleted, deletions>>, dirs' \subseteq dirs \cup {req[w].batch},
         \A c \in Batch : c # req[w].batch => file'[c] = file[c],
         deleted[req[w].batch] = "no" => \A f \in File : file'[req[w].batch][f] =
           IF f < r.file THEN "whole"
           ELSE IF f = r.file /\ r.at = "write" THEN "torn" ELSE "absent",
         r.file \in File
  PROVE  StoreFacts'
<1> USE DEF StoreFacts, FileInv
<1> DEFINE b == req[w].batch
<1>1. b \in Batch /\ run[b] = "running"
  BY DEF Writers
<1>2. req'[w] = r /\ \A x \in Worker : x # w => req'[x] = req[x]
  BY DEF TypeOK
<1>3. \A x \in Worker : /\ Runs(x)' <=> Runs(x)
                        /\ Deletes(x)' <=> Deletes(x)
                        /\ req'[x].batch = req[x].batch
                        /\ req'[x].seen = req[x].seen /\ req'[x].got = req[x].got
  BY <1>2 DEF Runs, Deletes
<1>4. \A x \in Worker : (Runs(x) /\ x # w) => req[x].batch # b
  BY DEF OneWriter
<1> HIDE DEF b
<1>5. Writers' /\ OneWriter' /\ Deleters'
  BY <1>3 DEF Writers, OneWriter, Deleters
<1>6. Listed'
  BY <1>3 DEF Listed, Begun
<1>7. Fresh' /\ Stored'
  BY <1>1 DEF Fresh, Stored, b
<1>8. Settled' /\ DeletedOnce'
  BY <1>1 DEF Settled, DeletedOnce, b
<1>9. Progress'
  <2>1. ASSUME NEW x \in Worker, Runs(x)', deleted'[req'[x].batch] = "no", x # w,
               NEW f \in File
        PROVE  file'[req'[x].batch][f] =
                 IF f < req'[x].file THEN "whole"
                 ELSE IF f = req'[x].file /\ req'[x].at = "write" THEN "torn" ELSE "absent"
    <3>1. Runs(x) /\ req[x].batch \in Batch /\ req[x].batch # b
      BY <1>3, <1>4, <2>1 DEF Writers
    <3> QED
      BY <1>2, <2>1, <3>1 DEF Progress, b
  <2>2. deleted'[b] = "no" => \A f \in File : file'[b][f] =
           IF f < r.file THEN "whole"
           ELSE IF f = r.file /\ r.at = "write" THEN "torn" ELSE "absent"
    BY DEF b
  <2> QED
    BY <1>2, <2>1, <2>2 DEF Progress, b
<1>10. WritesInOrder'
  <2>1. ASSUME deleted[b] = "no", NEW f \in File, NEW g \in File, g < f, file'[b][f] # "absent"
        PROVE  file'[b][g] = "whole"
    <3>1. ~(f > r.file)
      BY <2>1 DEF Has, b, File
    <3> QED
      BY <2>1, <3>1 DEF b, File
  <2>2. ASSUME NEW c \in Batch, c # b, deleted[c] = "no",
               NEW f \in File, NEW g \in File, g < f, file'[c][f] # "absent"
        PROVE  file'[c][g] = "whole"
    BY <2>2 DEF WritesInOrder, Has, b
  <2> QED
    BY <2>1, <2>2 DEF WritesInOrder, Has
<1> QED
  BY <1>5, <1>6, <1>7, <1>8, <1>9, <1>10

LEMMA MakeDirectoryStep ==
  ASSUME TypeOK, StoreFacts, NEW w \in Worker, MakeDirectory(w)
  PROVE  StoreFacts'
<1> DEFINE r == [req[w] EXCEPT !.at = "open"]
<1>1. Runs(w) /\ req[w].at = "mkdir" /\ req[w] \in Request
  BY DEF MakeDirectory, Serves, Runs, TypeOK
<1>2. /\ req' = [req EXCEPT ![w] = r] /\ dirs' = dirs \cup {req[w].batch}
      /\ UNCHANGED <<file, run, known, deleted, deletions>>
  BY DEF MakeDirectory, GoTo, history, TypeOK
<1>3. /\ r.op = req[w].op /\ r.batch = req[w].batch /\ r.file = req[w].file
      /\ r.seen = req[w].seen /\ r.got = req[w].got /\ r.at = "open"
  BY <1>1 DEF Request
<1>4. deleted[req[w].batch] = "no" => \A f \in File : file'[req[w].batch][f] =
           IF f < r.file THEN "whole"
           ELSE IF f = r.file /\ r.at = "write" THEN "torn" ELSE "absent"
  BY <1>1, <1>2, <1>3 DEF StoreFacts, FileInv, Progress
<1>5. r.op = "run" /\ r.file \in File
  BY <1>1, <1>3 DEF Runs, Request
<1> HIDE DEF r
<1> QED
  BY <1>1, <1>2, <1>3, <1>4, <1>5, WriterStep

LEMMA OpenFileStep ==
  ASSUME TypeOK, StoreFacts, NEW w \in Worker, OpenFile(w)
  PROVE  StoreFacts'
<1> DEFINE r == [req[w] EXCEPT !.at = "write"]
           b == req[w].batch
           g == req[w].file
<1>1. Runs(w) /\ req[w].at = "open" /\ req[w] \in Request
  BY DEF OpenFile, Serves, Runs, TypeOK
<1>2. /\ req' = [req EXCEPT ![w] = r] /\ file' = [file EXCEPT ![b][g] = "torn"]
      /\ UNCHANGED <<dirs, run, known, deleted, deletions>>
  BY DEF OpenFile, GoTo, Put, history, TypeOK
<1>3. /\ r.op = req[w].op /\ r.batch = b /\ r.file = g
      /\ r.seen = req[w].seen /\ r.got = req[w].got /\ r.at = "write"
  BY <1>1 DEF Request
<1>4. b \in Batch /\ g \in File
  BY <1>1 DEF StoreFacts, FileInv, Writers, Request
<1>5. /\ file'[b][g] = "torn" /\ \A f \in File : f # g => file'[b][f] = file[b][f]
      /\ \A c \in Batch : c # b => file'[c] = file[c]
  BY <1>2, <1>4 DEF TypeOK
<1>6. deleted[b] = "no" => \A f \in File : file'[b][f] =
           IF f < r.file THEN "whole"
           ELSE IF f = r.file /\ r.at = "write" THEN "torn" ELSE "absent"
  BY <1>1, <1>3, <1>4, <1>5 DEF StoreFacts, FileInv, Progress, File
<1>7. r.op = "run" /\ r.file \in File
  BY <1>1, <1>3, <1>4 DEF Runs
<1> HIDE DEF r
<1> QED
  BY <1>1, <1>2, <1>3, <1>4, <1>5, <1>6, <1>7, WriterStep

LEMMA WriteFileStep ==
  ASSUME TypeOK, StoreFacts, NEW w \in Worker, WriteFile(w)
  PROVE  StoreFacts'
<1> DEFINE b == req[w].batch
           g == req[w].file
<1>1. Runs(w) /\ req[w].at = "write" /\ req[w] \in Request
  BY DEF WriteFile, Serves, Runs, TypeOK
<1>2. b \in Batch /\ g \in File /\ run[b] = "running"
  BY <1>1 DEF StoreFacts, FileInv, Writers, Request
<1>3. \A c \in Batch : c # b => file'[c] = file[c]
  BY <1>2 DEF WriteFile, Written, Put, TypeOK
<1>4. deleted[b] = "no" => \A f \in File :
        file'[b][f] = IF f < g + 1 THEN "whole" ELSE "absent"
  <2>1. SUFFICES ASSUME deleted[b] = "no", NEW f \in File
                 PROVE  file'[b][f] = IF f < g + 1 THEN "whole" ELSE "absent"
    OBVIOUS
  <2>2. /\ file[b][g] = "torn"
        /\ file[b][f] = IF f < g THEN "whole" ELSE IF f = g THEN "torn" ELSE "absent"
    BY <1>1, <1>2, <2>1 DEF StoreFacts, FileInv, Progress, File
  <2>3. file' = [file EXCEPT ![b][g] = "whole"]
    BY <2>2 DEF WriteFile, Written, Has, Put
  <2>4. file'[b][g] = "whole" /\ (f # g => file'[b][f] = file[b][f])
    BY <1>2, <2>3 DEF TypeOK
  <2> QED
    BY <1>2, <2>2, <2>4 DEF File
<1>5. CASE g # Customers
  <2> DEFINE r == [req[w] EXCEPT !.file = g + 1, !.at = AfterFile(g)]
  <2>1. /\ req' = [req EXCEPT ![w].file = g + 1, ![w].at = AfterFile(g)]
        /\ UNCHANGED <<dirs, run, known, deleted, deletions>>
    BY <1>5 DEF WriteFile, history
  <2>2. req' = [req EXCEPT ![w] = r]
    BY <2>1 DEF TypeOK
  <2>3. /\ r.op = req[w].op /\ r.batch = b /\ r.file = g + 1
        /\ r.seen = req[w].seen /\ r.got = req[w].got /\ r.at = AfterFile(g)
    BY <1>1 DEF Request
  <2>4. r.at # "write" /\ r.op = "run" /\ r.file \in File
    BY <1>1, <1>2, <1>5, <2>3 DEF AfterFile, Runs, Customers, File
  <2> HIDE DEF r
  <2> QED
    BY <1>1, <1>3, <1>4, <2>1, <2>2, <2>3, <2>4, WriterStep
<1>6. CASE g = Customers
  <2> USE DEF StoreFacts, FileInv
  <2>1. /\ run' = [run EXCEPT ![b] = "written"] /\ known' = known \cup {b}
        /\ req' = [req EXCEPT ![w] = Idle] /\ UNCHANGED <<dirs, deleted, deletions>>
    BY <1>6 DEF WriteFile, EndRun, Answer, history
  <2>2. run'[b] = "written" /\ \A c \in Batch : c # b => run'[c] = run[c]
    BY <1>2, <2>1 DEF TypeOK
  <2>3. req'[w] = Idle /\ \A x \in Worker : x # w => req'[x] = req[x]
    BY <2>1 DEF TypeOK
  <2>4. Idle.op = "none" /\ Idle.seen = {} /\ Idle.got = {}
    BY DEF Idle
  <2>5. \A x \in Worker :
          /\ Runs(x)' => Runs(x) /\ req'[x] = req[x] /\ x # w
          /\ Deletes(x)' => Deletes(x) /\ req'[x] = req[x]
    BY <2>3, <2>4 DEF Runs, Deletes
  <2>6. \A x \in Worker : Runs(x)' => req[x].batch \in Batch /\ req[x].batch # b
    BY <1>1, <2>5 DEF OneWriter, Writers
  <2>7. deleted[b] = "no" => \A f \in File : file'[b][f] = "whole"
    BY <1>4, <1>6 DEF File, Customers
  <2> HIDE DEF b
  <2>8. Writers' /\ OneWriter' /\ Deleters'
    BY <2>1, <2>2, <2>5, <2>6 DEF Writers, OneWriter, Deleters
  <2>9. Listed'
    <3>1. Begun' = Begun /\ b \in Begun
      BY <1>2, <2>2 DEF Begun
    <3> QED
      BY <2>1, <2>3, <2>4, <3>1 DEF Listed
  <2>10. Fresh' /\ Stored'
    BY <1>2, <1>3, <2>1, <2>2, <2>7 DEF Fresh, Stored
  <2>11. Settled' /\ DeletedOnce'
    BY <1>2, <2>1, <2>2 DEF Settled, DeletedOnce
  <2>12. Progress'
    BY <1>3, <2>1, <2>5, <2>6 DEF Progress
  <2>13. WritesInOrder'
    <3>1. ASSUME NEW c \in Batch, c # b
          PROVE  file'[c] = file[c]
      BY <1>3, <3>1
    <3> QED
      BY <2>1, <2>7, <3>1 DEF WritesInOrder, Has
  <2> QED
    BY <2>8, <2>9, <2>10, <2>11, <2>12, <2>13
<1> QED
  BY <1>5, <1>6

LEMMA StartDeleteStep ==
  ASSUME TypeOK, StoreFacts, NEW w \in Worker, StartDelete(w), req[w] = Idle
  PROVE  StoreFacts'
<1> USE DEF StoreFacts, FileInv
<1>1. PICK b \in known \cap dirs :
        /\ req' = [req EXCEPT ![w] = [Idle EXCEPT !.op = "delete", !.at = "scan",
                                                  !.batch = b]]
        /\ deleted' = [deleted EXCEPT ![b] = DeleteKind(b)]
  BY DEF StartDelete
<1> DEFINE r == [Idle EXCEPT !.op = "delete", !.at = "scan", !.batch = b]
<1>2. b \in Batch /\ b \in Begun /\ b \in dirs /\ run[b] # "new"
  BY DEF TypeOK, Listed, Begun
<1>3. UNCHANGED <<dirs, file, run, known, deletions>>
  BY DEF StartDelete, disk
<1>4. r.op = "delete" /\ r.batch = b /\ r.seen = {} /\ r.got = {}
  BY DEF Idle
<1>5. req'[w] = r /\ \A x \in Worker : x # w => req'[x] = req[x]
  BY <1>1 DEF TypeOK
<1>6. /\ deleted'[b] = DeleteKind(b) /\ DeleteKind(b) \in {"settled", "racing"}
      /\ \A c \in Batch : c # b => deleted'[c] = deleted[c]
  BY <1>1, <1>2 DEF TypeOK, DeleteKind
<1> HIDE DEF r
<1>7. \A x \in Worker : Runs(x)' => Runs(x) /\ req'[x] = req[x]
  BY <1>4, <1>5 DEF Runs
<1>8. Writers' /\ OneWriter'
  BY <1>3, <1>7 DEF Writers, OneWriter
<1>9. Deleters'
  BY <1>2, <1>4, <1>5, <1>6 DEF Deleters, Deletes
<1>10. Listed'
  BY <1>3, <1>4, <1>5 DEF Listed, Begun
<1>11. Fresh' /\ Stored'
  BY <1>3, <1>6 DEF Fresh, Stored
<1>12. Settled'
  BY <1>2, <1>3, <1>6 DEF Settled, DeleteKind, TypeOK
<1>13. Progress'
  BY <1>3, <1>6, <1>7 DEF Progress, Writers
<1>14. WritesInOrder'
  BY <1>3, <1>6 DEF WritesInOrder, Has
<1>15. DeletedOnce'
  <2>1. deleted'[b] = "settled" => deleted[b] \in {"no", "settled"}
    BY <1>2, <1>6 DEF DeleteKind, TypeOK
  <2>2. deleted'[b] = "settled" => deletions[b] <= 1 /\ (deletions[b] = 1 => b \notin dirs)
    BY <1>2, <2>1 DEF Settled, DeletedOnce
  <2> QED
    BY <1>3, <1>6, <2>2 DEF DeletedOnce
<1> QED
  BY <1>8, <1>9, <1>10, <1>11, <1>12, <1>13, <1>14, <1>15

LEMMA UnlinkStep ==
  ASSUME TypeOK, StoreFacts, NEW w \in Worker, Unlink(w)
  PROVE  StoreFacts'
<1> USE DEF StoreFacts, FileInv
<1> DEFINE b == req[w].batch
<1>1. Deletes(w) /\ b \in Batch /\ deleted[b] # "no" /\ req[w] \in Request
  BY DEF Unlink, Serves, Deleters, Deletes, TypeOK
<1>2. UNCHANGED <<dirs, run, known, deleted, deletions>>
  BY DEF Unlink, history
<1>3. PICK f \in req[w].todo :
        IF Has(b, f)
        THEN /\ Put(b, f, "absent")
             /\ req' = [req EXCEPT ![w].todo = req[w].todo \ {f}]
        ELSE Answer(w) /\ UNCHANGED file
  BY DEF Unlink
<1>4. CASE ~Has(b, f)
  <2>1. req' = [req EXCEPT ![w] = Idle] /\ UNCHANGED file
    BY <1>3, <1>4 DEF Answer
  <2>2. req'[w] = Idle /\ \A x \in Worker : x # w => req'[x] = req[x]
    BY <2>1 DEF TypeOK
  <2>3. Idle.op = "none" /\ Idle.seen = {} /\ Idle.got = {}
    BY DEF Idle
  <2>4. \A x \in Worker : Runs(x)' => req'[x] = req[x]
    BY <2>2, <2>3 DEF Runs
  <2>5. \A x \in Worker : Deletes(x)' => Deletes(x) /\ req'[x].batch = req[x].batch
    BY <2>2, <2>3 DEF Deletes
  <2>6. \A x \in Worker : req'[x].seen \cup req'[x].got \subseteq Begun
    BY <2>2, <2>3 DEF Listed
  <2>7. known' \subseteq Begun
    BY <1>2 DEF Listed
  <2> QED
    BY <1>2, <2>1, <2>4, <2>5, <2>6, <2>7, QuietStep
<1>5. CASE Has(b, f)
  <2> DEFINE r == [req[w] EXCEPT !.todo = req[w].todo \ {f}]
  <2>1. req' = [req EXCEPT ![w] = r] /\ file' = [file EXCEPT ![b][f] = "absent"]
    BY <1>3, <1>5 DEF Put
  <2>2. /\ r.op = req[w].op /\ r.batch = b /\ r.file = req[w].file /\ r.at = req[w].at
        /\ r.seen = req[w].seen /\ r.got = req[w].got
    BY <1>1 DEF Request
  <2> HIDE DEF r
  <2>3. req'[w] = r /\ \A x \in Worker : x # w => req'[x] = req[x]
    BY <2>1 DEF TypeOK
  <2>4. \A x \in Worker :
          /\ Runs(x)' <=> Runs(x)
          /\ Deletes(x)' <=> Deletes(x)
          /\ req'[x].batch = req[x].batch /\ req'[x].file = req[x].file
          /\ req'[x].at = req[x].at /\ req'[x].seen = req[x].seen
          /\ req'[x].got = req[x].got
    BY <2>2, <2>3 DEF Runs, Deletes
  <2>5. \A c \in Batch : /\ c # b => file'[c] = file[c]
                         /\ \A g \in File : file'[c][g] \in {file[c][g], "absent"}
    BY <1>1, <2>1 DEF TypeOK
  <2> HIDE DEF b
  <2>6. \A c \in Batch : deleted[c] = "no" => file'[c] = file[c]
    BY <1>1, <2>5
  <2>7. Writers' /\ OneWriter' /\ Deleters'
    BY <1>2, <2>4 DEF Writers, OneWriter, Deleters
  <2>8. Listed'
    BY <1>2, <2>4 DEF Listed, Begun
  <2>9. Fresh' /\ Stored'
    BY <1>2, <2>5, <2>6 DEF Fresh, Stored
  <2>10. Progress'
    BY <1>2, <2>4, <2>6 DEF Progress, Writers
  <2>11. WritesInOrder' /\ Settled' /\ DeletedOnce'
    BY <1>2, <2>6 DEF WritesInOrder, Settled, DeletedOnce, Has
  <2> QED
    BY <2>7, <2>8, <2>9, <2>10, <2>11
<1> QED
  BY <1>4, <1>5

LEMMA RemoveDirectoryStep ==
  ASSUME TypeOK, StoreFacts, NEW w \in Worker, RemoveDirectory(w)
  PROVE  StoreFacts'
<1> USE DEF StoreFacts, FileInv
<1> DEFINE b == req[w].batch
<1>1. Deletes(w) /\ b \in Batch /\ deleted[b] # "no"
  BY DEF RemoveDirectory, Serves, Deleters, Deletes
<1>2. req'[w] = Idle /\ (\A x \in Worker : x # w => req'[x] = req[x])
      /\ UNCHANGED <<file, run, known, deleted>>
  BY DEF RemoveDirectory, Answer, TypeOK
<1>3. Idle.op = "none" /\ Idle.seen = {} /\ Idle.got = {}
  BY DEF Idle
<1>4. \A x \in Worker : Runs(x)' => req'[x] = req[x]
  BY <1>2, <1>3 DEF Runs
<1>5. \A x \in Worker : Deletes(x)' => Deletes(x) /\ req'[x].batch = req[x].batch
  BY <1>2, <1>3 DEF Deletes
<1>6. known' \subseteq Begun /\ \A x \in Worker : req'[x].seen \cup req'[x].got \subseteq Begun
  BY <1>2, <1>3 DEF Listed
<1>7. CASE ~Removable(b)
  <2>1. UNCHANGED <<dirs, deletions>>
    BY <1>7 DEF RemoveDirectory
  <2> QED
    BY <1>2, <1>4, <1>5, <1>6, <2>1, QuietStep
<1>8. CASE Removable(b)
  <2>1. /\ b \in dirs /\ dirs' = dirs \ {b}
        /\ deletions' = [deletions EXCEPT ![b] = deletions[b] + 1]
    BY <1>8 DEF RemoveDirectory, Removable
  <2>2. deletions'[b] = deletions[b] + 1 /\ deletions[b] \in Nat
        /\ \A c \in Batch : c # b => deletions'[c] = deletions[c]
    BY <1>1, <2>1 DEF TypeOK
  <2>3. \A x \in Worker : Runs(x)' => Runs(x) /\ req'[x] = req[x]
    BY <1>4 DEF Runs
  <2> HIDE DEF b
  <2>4. Writers' /\ OneWriter'
    BY <1>2, <2>3 DEF Writers, OneWriter
  <2>5. Deleters'
    BY <1>2, <1>5 DEF Deleters
  <2>6. Listed' /\ Fresh' /\ Stored'
    BY <1>2, <1>6 DEF Listed, Begun, Fresh, Stored
  <2>7. Progress' /\ WritesInOrder'
    BY <1>2, <2>3 DEF Progress, WritesInOrder, Has
  <2>8. Settled'
    BY <1>1, <1>2, <2>2 DEF Settled
  <2>9. DeletedOnce'
    <3>1. deleted[b] = "settled" => deletions[b] = 0
      BY <1>1, <2>1, <2>2 DEF DeletedOnce
    <3>2. deleted[b] = "settled" => deletions'[b] <= 1 /\ b \notin dirs'
      BY <2>1, <2>2, <3>1
    <3> QED
      BY <1>1, <1>2, <2>1, <2>2, <3>2 DEF DeletedOnce
  <2> QED
    BY <2>4, <2>5, <2>6, <2>7, <2>8, <2>9
<1> QED
  BY <1>7, <1>8

(* The quiet steps.                                                        *)
LEMMA QuietServe ==
  ASSUME TypeOK, StoreFacts, NEW w \in Worker, req'[w] \in Request,
         UNCHANGED <<dirs, file, run, deleted, deletions>>,
         \A x \in Worker : x # w => req'[x] = req[x],
         req'[w].op # "run",
         req'[w].op = "delete" => Deletes(w) /\ req'[w].batch = req[w].batch,
         known' \subseteq Begun, req'[w].seen \cup req'[w].got \subseteq Begun
  PROVE  StoreFacts'
<1>1. \A x \in Worker : Runs(x)' => req'[x] = req[x]
  BY DEF Runs
<1>2. \A x \in Worker : Deletes(x)' => Deletes(x) /\ req'[x].batch = req[x].batch
  BY DEF Deletes
<1>3. \A x \in Worker : req'[x].seen \cup req'[x].got \subseteq Begun
  BY DEF StoreFacts, FileInv, Listed
<1> QED
  BY <1>1, <1>2, <1>3, QuietStep

(* Answering changes nothing but what the clients know.                    *)
LEMMA AnswerStep ==
  ASSUME TypeOK, StoreFacts, NEW w \in Worker, Answer(w),
         UNCHANGED <<dirs, file, run, deleted, deletions>>,
         known' \subseteq known \cup req[w].got
  PROVE  StoreFacts'
<1>1. req'[w] = Idle /\ \A x \in Worker : x # w => req'[x] = req[x]
  BY DEF Answer, TypeOK
<1>2. Idle \in Request /\ Idle.op = "none" /\ Idle.seen = {} /\ Idle.got = {}
  BY RequestTypes DEF Idle
<1>3. known' \subseteq Begun
  BY DEF StoreFacts, FileInv, Listed
<1> QED
  BY <1>1, <1>2, <1>3, QuietServe

(* Going on with a read, a listing or a scan.                              *)
LEMMA GoOnStep ==
  ASSUME TypeOK, StoreFacts, NEW w \in Worker, req[w].op # "run", NEW r,
         req' = [req EXCEPT ![w] = r], r \in Request,
         r.op = req[w].op, r.batch = req[w].batch,
         r.seen \subseteq req[w].seen, r.got \subseteq req[w].seen \cup req[w].got,
         UNCHANGED <<dirs, file, run, known, deleted, deletions>>
  PROVE  StoreFacts'
<1>1. req'[w] = r /\ \A x \in Worker : x # w => req'[x] = req[x]
  BY DEF TypeOK
<1>2. known' \subseteq Begun /\ r.seen \cup r.got \subseteq Begun
  BY DEF StoreFacts, FileInv, Listed
<1>3. r.op = "delete" => Deletes(w)
  BY DEF Deletes
<1> QED
  BY <1>1, <1>2, <1>3, QuietServe

(* Ids stay known, what is written stays written, deletes are not undone.  *)
Grows ==
  /\ known \subseteq known'
  /\ \A b \in Batch : /\ run[b] = "written" => run'[b] = "written"
                      /\ deleted'[b] = "no" => deleted[b] = "no"

LEMMA OriginInBatch ==
  ASSUME TypeOK, NEW b \in Batch, origin[b].of # None
  PROVE  origin[b].of \in Batch
<1>1. origin[b] \in Origin
  BY DEF TypeOK
<1> QED
  BY <1>1 DEF Origin

(* Steps that leave the re-runs alone.                                     *)
LEMMA RerunFrame ==
  ASSUME TypeOK, RerunFacts, Grows, UNCHANGED origin,
         \A x \in Worker : req'[x].op = "rerun" => req'[x] = req[x]
  PROVE  RerunFacts'
<1>1. Reruns'
  <2>1. known \subseteq Batch
    BY DEF TypeOK
  <2> QED
    BY <2>1 DEF RerunFacts, Reruns, Grows
<1>2. RerunOnStoredData'
  BY OriginInBatch DEF RerunFacts, RerunOnStoredData, Grows
<1> QED
  BY <1>1, <1>2 DEF RerunFacts

(* Steps of one re-run.                                                    *)
LEMMA RerunMove ==
  ASSUME TypeOK, RerunFacts, NEW w \in Worker, NEW r, req' = [req EXCEPT ![w] = r],
         UNCHANGED <<known, run, deleted, origin>>,
         r.batch \in known, r.origin.of = r.batch,
         r.origin.settled => run[r.batch] = "written",
         (r.origin.settled /\ deleted[r.batch] = "no") =>
           /\ r.at # "transactions" => r.origin.transactions = "whole"
           /\ r.at = "compute" => r.origin.customers = "whole"
  PROVE  RerunFacts'
<1>1. req'[w] = r /\ \A x \in Worker : x # w => req'[x] = req[x]
  BY DEF TypeOK
<1>2. Reruns'
  BY <1>1 DEF RerunFacts, Reruns
<1>3. RerunOnStoredData'
  BY DEF RerunFacts, RerunOnStoredData
<1> QED
  BY <1>2, <1>3 DEF RerunFacts

LEMMA BeginRunRerun ==
  ASSUME TypeOK, RerunFacts, NEW w \in Worker, NEW b \in Batch, NEW data \in Origin,
         BeginRun(w, b, data),
         (data.of # None /\ data.settled /\ deleted[data.of] = "no") =>
           data.transactions = "whole" /\ data.customers = "whole"
  PROVE  RerunFacts'
<1>1. /\ run[b] = "new" /\ run' = [run EXCEPT ![b] = "running"]
      /\ origin' = [origin EXCEPT ![b] = data]
      /\ UNCHANGED <<known, deleted>>
  BY DEF BeginRun, history
<1>2. \A c \in Batch : run[c] = "written" => run'[c] = "written"
  BY <1>1 DEF TypeOK
<1>3. \A x \in Worker : req'[x].op = "rerun" => req'[x] = req[x]
  BY DEF BeginRun, Idle, TypeOK
<1>4. Reruns'
  <2>1. known \subseteq Batch
    BY DEF TypeOK
  <2> QED
    BY <1>1, <1>2, <1>3, <2>1 DEF RerunFacts, Reruns
<1>5. origin'[b] = data /\ \A c \in Batch : c # b => origin'[c] = origin[c]
  BY <1>1 DEF TypeOK
<1>6. RerunOnStoredData'
  BY <1>1, <1>5 DEF RerunFacts, RerunOnStoredData
<1> QED
  BY <1>4, <1>6 DEF RerunFacts

LEMMA AnswerRerun ==
  ASSUME TypeOK, RerunFacts, NEW w \in Worker, Answer(w), Grows, UNCHANGED origin
  PROVE  RerunFacts'
<1>1. \A x \in Worker : req'[x].op = "rerun" => req'[x] = req[x]
  BY DEF Answer, Idle, TypeOK
<1> QED
  BY <1>1, RerunFrame

LEMMA RerunSteps ==
  ASSUME StoreInv, NEW w \in Worker,
         \/ StartRerun(w) /\ req[w] = Idle
         \/ ReadTransactions(w) \/ FindCustomers(w) \/ ReadCustomers(w)
         \/ ComputeRerun(w) \/ RerunFails(w)
  PROVE  StoreFacts' /\ RerunFacts'
<1> USE DEF StoreInv, disk, history
<1>0. Names /\ req[w] \in Request
  BY NamesHold DEF RerunFacts, TypeOK
<1>00. UNCHANGED <<run, known, deleted>> => Grows
  BY DEF Grows
<1> HIDE DEF StoreInv
<1>01. TypeOK /\ StoreFacts /\ RerunFacts
  BY DEF StoreInv
<1> USE <1>01
<1>1. CASE StartRerun(w) /\ req[w] = Idle
  <2>1. PICK b \in known : req' = [req EXCEPT ![w] =
            [Idle EXCEPT !.op = "rerun", !.at = "transactions", !.batch = b,
                         !.origin = [of |-> b, settled |-> run[b] = "written",
                                     transactions |-> "default",
                                     customers |-> "default"]]]
    BY <1>1 DEF StartRerun
  <2> DEFINE o == [of |-> b, settled |-> run[b] = "written",
                   transactions |-> "default", customers |-> "default"]
             r == [Idle EXCEPT !.op = "rerun", !.at = "transactions", !.batch = b,
                               !.origin = o]
  <2>2. b \in Batch /\ (run[b] = "written") \in BOOLEAN
    BY DEF TypeOK
  <2>3. o \in Origin /\ o.of = b /\ (o.settled => run[b] = "written")
    BY <2>2, RequestTypes
  <2>4. r \in Request
    BY <2>2, <2>3, RequestTypes
  <2>5. /\ r.op = "rerun" /\ r.at = "transactions" /\ r.batch = b /\ r.origin = o
        /\ r.seen = {} /\ r.got = {}
    BY DEF Idle
  <2>6. req' = [req EXCEPT ![w] = r]
    BY <2>1
  <2> HIDE DEF o, r
  <2>7. UNCHANGED <<dirs, file, run, origin, known, deleted, deletions>>
    BY <1>1 DEF StartRerun
  <2>8. req'[w] = r /\ \A x \in Worker : x # w => req'[x] = req[x]
    BY <2>6 DEF TypeOK
  <2>9. known' \subseteq Begun
    BY <2>7 DEF StoreFacts, FileInv, Listed
  <2>10. StoreFacts'
    BY <2>4, <2>5, <2>7, <2>8, <2>9, QuietServe
  <2>11. RerunFacts'
    BY <2>3, <2>5, <2>6, <2>7, RerunMove
  <2> QED
    BY <2>10, <2>11
<1>2. CASE ReadTransactions(w)
  <2>1. PICK data \in ReadOf(file[req[w].batch][Transactions]) :
          IF data = "error" THEN Answer(w)
          ELSE req' = [req EXCEPT ![w].origin.transactions = data, ![w].at = "find customers"]
    BY <1>2 DEF ReadTransactions
  <2>2. /\ req[w].op = "rerun" /\ req[w].at = "transactions"
        /\ UNCHANGED <<dirs, file, run, origin, known, deleted, deletions>>
    BY <1>2 DEF ReadTransactions, Serves
  <2>3. CASE data = "error"
    <3>1. Answer(w)
      BY <2>1, <2>3
    <3> QED
      BY <1>00, <2>2, <3>1, AnswerStep, AnswerRerun
  <2>4. CASE data # "error"
    <3> DEFINE r == [req[w] EXCEPT !.origin.transactions = data, !.at = "find customers"]
    <3>1. req[w].batch \in Batch /\ file[req[w].batch][Transactions] \in Content
      <4>1. req[w].batch \in Batch
        BY <1>0, <2>2 DEF Names
      <4> QED
        BY <4>1 DEF TypeOK, File, Transactions
    <3>2. req' = [req EXCEPT ![w] = r]
      BY <2>1, <2>4 DEF TypeOK
    <3>3. r \in Request
      BY <1>0, <2>4, <3>1, ReadType, RequestMoves
    <3>4. /\ r.op = "rerun" /\ r.batch = req[w].batch /\ r.at = "find customers"
          /\ r.seen = req[w].seen /\ r.got = req[w].got
      BY <1>0, <2>2 DEF Request
    <3>5. /\ r.origin.of = req[w].origin.of /\ r.origin.settled = req[w].origin.settled
          /\ r.origin.transactions = data
          /\ r.origin.customers = req[w].origin.customers
      BY <1>0 DEF Request, Origin
    <3> HIDE DEF r
    <3>6. StoreFacts'
      BY <1>0, <2>2, <3>2, <3>3, <3>4, GoOnStep
    <3>7. /\ req[w].batch \in known /\ req[w].origin.of = req[w].batch
          /\ req[w].origin.settled => run[req[w].batch] = "written"
      BY <2>2 DEF RerunFacts, Reruns
    <3>8. (req[w].origin.settled /\ deleted[req[w].batch] = "no") => data = "whole"
      <4>1. (req[w].origin.settled /\ deleted[req[w].batch] = "no") =>
              file[req[w].batch][Transactions] = "whole"
        BY <3>1, <3>7 DEF StoreFacts, FileInv, Stored, File, Transactions
      <4> QED
        BY <2>1, <4>1 DEF ReadOf
    <3>9. (r.origin.settled /\ deleted[r.batch] = "no") =>
            /\ r.at # "transactions" => r.origin.transactions = "whole"
            /\ r.at = "compute" => r.origin.customers = "whole"
      BY <2>2, <3>4, <3>5, <3>8 DEF RerunFacts, Reruns
    <3>10. RerunFacts'
      BY <2>2, <3>2, <3>4, <3>5, <3>7, <3>9, RerunMove
    <3> QED
      BY <3>6, <3>10
  <2> QED
    BY <2>3, <2>4
<1>3. CASE FindCustomers(w)
  <2> DEFINE at == IF Has(req[w].batch, Customers) THEN "customers" ELSE "compute"
             r == [req[w] EXCEPT !.at = at]
  <2>1. /\ req[w].op = "rerun" /\ req[w].at = "find customers"
        /\ UNCHANGED <<dirs, file, run, origin, known, deleted, deletions>>
    BY <1>3 DEF FindCustomers, Serves
  <2>2. req' = [req EXCEPT ![w] = r]
    BY <1>3 DEF FindCustomers, GoTo, TypeOK
  <2>3. r \in Request
    BY <1>0, RequestMoves
  <2>4. /\ r.op = "rerun" /\ r.batch = req[w].batch /\ r.at = at /\ r.origin = req[w].origin
        /\ r.seen = req[w].seen /\ r.got = req[w].got
    BY <1>0, <2>1 DEF Request
  <2> HIDE DEF r
  <2>5. StoreFacts'
    BY <1>0, <2>1, <2>2, <2>3, <2>4, GoOnStep
  <2>6. /\ req[w].batch \in known /\ req[w].origin.of = req[w].batch
        /\ req[w].origin.settled => run[req[w].batch] = "written"
        /\ req[w].batch \in Batch
    BY <1>0, <2>1 DEF RerunFacts, Reruns, Names
  <2>7. (r.origin.settled /\ deleted[r.batch] = "no") => r.at = "customers"
    BY <2>4, <2>6 DEF StoreFacts, FileInv, Stored, File, Customers, Has
  <2>8. (r.origin.settled /\ deleted[r.batch] = "no") => r.origin.transactions = "whole"
    BY <2>1, <2>4 DEF RerunFacts, Reruns
  <2>9. RerunFacts'
    BY <2>1, <2>2, <2>4, <2>6, <2>7, <2>8, RerunMove
  <2> QED
    BY <2>5, <2>9
<1>4. CASE ReadCustomers(w)
  <2>1. PICK data \in ReadOf(file[req[w].batch][Customers]) :
          IF data = "error" THEN Answer(w)
          ELSE req' = [req EXCEPT ![w].origin.customers = data, ![w].at = "compute"]
    BY <1>4 DEF ReadCustomers
  <2>2. /\ req[w].op = "rerun" /\ req[w].at = "customers"
        /\ UNCHANGED <<dirs, file, run, origin, known, deleted, deletions>>
    BY <1>4 DEF ReadCustomers, Serves
  <2>3. CASE data = "error"
    <3>1. Answer(w)
      BY <2>1, <2>3
    <3> QED
      BY <1>00, <2>2, <3>1, AnswerStep, AnswerRerun
  <2>4. CASE data # "error"
    <3> DEFINE r == [req[w] EXCEPT !.origin.customers = data, !.at = "compute"]
    <3>1. req[w].batch \in Batch /\ file[req[w].batch][Customers] \in Content
      <4>1. req[w].batch \in Batch
        BY <1>0, <2>2 DEF Names
      <4> QED
        BY <4>1 DEF TypeOK, File, Customers
    <3>2. req' = [req EXCEPT ![w] = r]
      BY <2>1, <2>4 DEF TypeOK
    <3>3. r \in Request
      BY <1>0, <2>4, <3>1, ReadType, RequestMoves
    <3>4. /\ r.op = "rerun" /\ r.batch = req[w].batch /\ r.at = "compute"
          /\ r.seen = req[w].seen /\ r.got = req[w].got
      BY <1>0, <2>2 DEF Request
    <3>5. /\ r.origin.of = req[w].origin.of /\ r.origin.settled = req[w].origin.settled
          /\ r.origin.customers = data
          /\ r.origin.transactions = req[w].origin.transactions
      BY <1>0 DEF Request, Origin
    <3> HIDE DEF r
    <3>6. StoreFacts'
      BY <1>0, <2>2, <3>2, <3>3, <3>4, GoOnStep
    <3>7. /\ req[w].batch \in known /\ req[w].origin.of = req[w].batch
          /\ req[w].origin.settled => run[req[w].batch] = "written"
      BY <2>2 DEF RerunFacts, Reruns
    <3>8. (req[w].origin.settled /\ deleted[req[w].batch] = "no") => data = "whole"
      <4>1. (req[w].origin.settled /\ deleted[req[w].batch] = "no") =>
              file[req[w].batch][Customers] = "whole"
        BY <3>1, <3>7 DEF StoreFacts, FileInv, Stored, File, Customers
      <4> QED
        BY <2>1, <4>1 DEF ReadOf
    <3>9. (r.origin.settled /\ deleted[r.batch] = "no") =>
            /\ r.at # "transactions" => r.origin.transactions = "whole"
            /\ r.at = "compute" => r.origin.customers = "whole"
      BY <2>2, <3>4, <3>5, <3>8 DEF RerunFacts, Reruns
    <3>10. RerunFacts'
      BY <2>2, <3>2, <3>4, <3>5, <3>7, <3>9, RerunMove
    <3> QED
      BY <3>6, <3>10
  <2> QED
    BY <2>3, <2>4
<1>5. CASE ComputeRerun(w)
  <2>1. PICK b \in Batch : BeginRun(w, b, req[w].origin)
    BY <1>5 DEF ComputeRerun
  <2>2. req[w].op = "rerun" /\ req[w].at = "compute" /\ req[w].origin \in Origin
    BY <1>0, <1>5 DEF ComputeRerun, Serves, Request
  <2>3. (req[w].origin.settled /\ deleted[req[w].origin.of] = "no") =>
          req[w].origin.transactions = "whole" /\ req[w].origin.customers = "whole"
    BY <2>2 DEF RerunFacts, Reruns
  <2> QED
    BY <2>1, <2>2, <2>3, BeginRunStep, BeginRunRerun
<1>6. CASE RerunFails(w)
  <2>1. Answer(w) /\ UNCHANGED <<dirs, file, run, origin, known, deleted, deletions>>
    BY <1>6 DEF RerunFails
  <2> QED
    BY <1>00, <2>1, AnswerStep, AnswerRerun
<1> QED
  BY <1>1, <1>2, <1>3, <1>4, <1>5, <1>6

LEMMA OtherSteps ==
  ASSUME StoreInv, NEW w \in Worker,
         \/ (StartRun(w) \/ StartList(w) \/ StartDelete(w)) /\ req[w] = Idle
         \/ MakeDirectory(w) \/ OpenFile(w) \/ OpenFails(w) \/ WriteFile(w)
         \/ SortBatches(w) \/ LoadSummary(w) \/ AnswerList(w)
         \/ ScanDirectory(w) \/ Unlink(w) \/ RemoveDirectory(w)
         \/ PersistFails(w) \/ Crash(w)
  PROVE  StoreFacts' /\ RerunFacts'
<1> USE DEF disk, history
<1>0. TypeOK /\ StoreFacts /\ RerunFacts /\ req[w] \in Request /\ Idle.op = "none"
  BY DEF StoreInv, TypeOK, Idle
<1> USE <1>0
<1>1. Runs(w) => req[w].batch \in Batch /\ run[req[w].batch] = "running"
  BY DEF StoreFacts, FileInv, Writers
<1>2. UNCHANGED <<run, known, deleted>> => Grows
  BY DEF Grows
<1>3. ASSUME NEW r, req' = [req EXCEPT ![w] = r], r.op # "rerun"
      PROVE  \A x \in Worker : req'[x].op = "rerun" => req'[x] = req[x]
  BY <1>3 DEF TypeOK
<1>4. CASE StartRun(w)
  <2>1. PICK b \in Batch : BeginRun(w, b, Upload)
    BY <1>4 DEF StartRun
  <2>2. Upload \in Origin /\ Upload.of = None
    BY RequestTypes DEF Upload
  <2> QED
    BY <2>1, <2>2, BeginRunStep, BeginRunRerun
<1>5. CASE StartList(w)
  <2> DEFINE r == [Idle EXCEPT !.op = "list", !.at = "stat",
                               !.seen = {b \in dirs : Has(b, Result)}]
  <2>1. /\ req' = [req EXCEPT ![w] = r]
        /\ UNCHANGED <<dirs, file, run, origin, known, deleted, deletions>>
    BY <1>5 DEF StartList
  <2>2. /\ r.op = "list" /\ r.seen = {b \in dirs : Has(b, Result)} /\ r.got = {}
        /\ r \in Request
    <3>1. {b \in dirs : Has(b, Result)} \in SUBSET Batch
      BY DEF TypeOK
    <3> QED
      BY <3>1, RequestTypes DEF Idle
  <2>3. {b \in dirs : Has(b, Result)} \subseteq Begun /\ known \subseteq Begun
    BY DEF StoreFacts, FileInv, Fresh, Listed, Begun, Has, File, Result, TypeOK
  <2> HIDE DEF r
  <2>4. req'[w] = r /\ \A x \in Worker : x # w => req'[x] = req[x]
    BY <2>1 DEF TypeOK
  <2>5. StoreFacts'
    BY <2>1, <2>2, <2>3, <2>4, QuietServe
  <2>6. RerunFacts'
    BY <1>2, <1>3, <2>1, <2>2, RerunFrame
  <2> QED
    BY <2>5, <2>6
<1>6. CASE StartDelete(w) /\ req[w] = Idle
  <2>1. PICK b \in known \cap dirs :
          /\ req' = [req EXCEPT ![w] = [Idle EXCEPT !.op = "delete", !.at = "scan",
                                                    !.batch = b]]
          /\ deleted' = [deleted EXCEPT ![b] = DeleteKind(b)]
    BY <1>6 DEF StartDelete
  <2>2. UNCHANGED <<run, origin, known>>
    BY <1>6 DEF StartDelete
  <2>3. Grows
    <3>1. DeleteKind(b) # "no"
      BY DEF DeleteKind
    <3> QED
      BY <2>1, <2>2, <3>1 DEF Grows, TypeOK
  <2>4. [Idle EXCEPT !.op = "delete", !.at = "scan", !.batch = b].op # "rerun"
    BY DEF Idle
  <2>5. RerunFacts'
    BY <1>3, <2>1, <2>2, <2>3, <2>4, RerunFrame
  <2> QED
    BY <1>6, <2>5, StartDeleteStep
<1>7. CASE MakeDirectory(w)
  <2>1. /\ req' = [req EXCEPT ![w] = [req[w] EXCEPT !.at = "open"]] /\ req[w].op = "run"
        /\ UNCHANGED <<run, origin, known, deleted>>
    BY <1>7 DEF MakeDirectory, GoTo, Serves, TypeOK
  <2>2. [req[w] EXCEPT !.at = "open"].op # "rerun"
    BY <2>1 DEF Request
  <2> QED
    BY <1>2, <1>3, <1>7, <2>1, <2>2, MakeDirectoryStep, RerunFrame
<1>8. CASE OpenFile(w)
  <2>1. /\ req' = [req EXCEPT ![w] = [req[w] EXCEPT !.at = "write"]] /\ req[w].op = "run"
        /\ UNCHANGED <<run, origin, known, deleted>>
    BY <1>8 DEF OpenFile, GoTo, Serves, TypeOK
  <2>2. [req[w] EXCEPT !.at = "write"].op # "rerun"
    BY <2>1 DEF Request
  <2> QED
    BY <1>2, <1>3, <1>8, <2>1, <2>2, OpenFileStep, RerunFrame
<1>9. ASSUME Runs(w), NEW how, run' = [run EXCEPT ![req[w].batch] = how],
             known \subseteq known', UNCHANGED deleted
      PROVE  Grows
  BY <1>1, <1>9 DEF Grows, TypeOK
<1>10. CASE OpenFails(w) \/ PersistFails(w)
  <2>1. /\ Runs(w) /\ Answer(w) /\ run' = [run EXCEPT ![req[w].batch] = "abandoned"]
        /\ known' = known \cup {req[w].batch}
        /\ UNCHANGED <<dirs, file, origin, deleted, deletions>>
    BY <1>10 DEF OpenFails, PersistFails, Serves, EndRun, Runs
  <2>2. Grows
    BY <1>9, <2>1
  <2> QED
    BY <2>1, <2>2, AbandonStep, AnswerRerun
<1>11. CASE WriteFile(w)
  <2>1. Runs(w) /\ UNCHANGED <<origin, deleted>>
    BY <1>11 DEF WriteFile, Serves, Runs, EndRun
  <2>2. CASE req[w].file = Customers
    <3>1. /\ Answer(w) /\ run' = [run EXCEPT ![req[w].batch] = "written"]
          /\ known' = known \cup {req[w].batch}
      BY <1>11, <2>2 DEF WriteFile, EndRun
    <3>2. Grows
      BY <1>9, <2>1, <3>1
    <3> QED
      BY <1>11, <2>1, <3>1, <3>2, WriteFileStep, AnswerRerun
  <2>3. CASE req[w].file # Customers
    <3> DEFINE r == [req[w] EXCEPT !.file = req[w].file + 1, !.at = AfterFile(req[w].file)]
    <3>1. req' = [req EXCEPT ![w] = r] /\ UNCHANGED <<run, known>>
      BY <1>11, <2>3 DEF WriteFile, TypeOK
    <3>2. r.op # "rerun"
      BY <2>1 DEF Request, Runs
    <3> HIDE DEF r
    <3> QED
      BY <1>2, <1>3, <1>11, <2>1, <3>1, <3>2, WriteFileStep, RerunFrame
  <2> QED
    BY <2>2, <2>3
<1>12. CASE SortBatches(w) \/ ScanDirectory(w)
  <2>1. /\ req[w].op \in {"list", "delete"}
        /\ UNCHANGED <<dirs, file, run, origin, known, deleted, deletions>>
    BY <1>12 DEF SortBatches, ScanDirectory, Serves
  <2>2. CASE Answer(w)
    BY <1>2, <2>1, <2>2, AnswerStep, AnswerRerun
  <2>3. ASSUME NEW r, req' = [req EXCEPT ![w] = r], r \in Request,
               r.op = req[w].op, r.batch = req[w].batch,
               r.seen = req[w].seen, r.got = req[w].got
        PROVE  StoreFacts' /\ RerunFacts'
    BY <1>2, <1>3, <2>1, <2>3, GoOnStep, RerunFrame
  <2>4. CASE ~Answer(w) /\ SortBatches(w)
    <3> DEFINE r == [req[w] EXCEPT !.at = "load"]
    <3>1. req' = [req EXCEPT ![w] = r]
      BY <2>4 DEF SortBatches, GoTo, TypeOK
    <3>2. r \in Request
      BY RequestMoves
    <3>3. r.op = req[w].op /\ r.batch = req[w].batch /\ r.seen = req[w].seen /\ r.got = req[w].got
      BY DEF Request
    <3> HIDE DEF r
    <3> QED
      BY <2>3, <3>1, <3>2, <3>3
  <2>5. CASE ~Answer(w) /\ ScanDirectory(w)
    <3> DEFINE todo == {f \in File : Has(req[w].batch, f)}
               r == [req[w] EXCEPT !.at = "unlink", !.todo = todo]
    <3>1. req' = [req EXCEPT ![w] = r]
      BY <2>5 DEF ScanDirectory, TypeOK
    <3>2. r \in Request
      <4>1. todo \in SUBSET File
        OBVIOUS
      <4> QED
        BY <4>1, RequestMoves
    <3>3. r.op = req[w].op /\ r.batch = req[w].batch /\ r.seen = req[w].seen /\ r.got = req[w].got
      BY DEF Request
    <3> HIDE DEF r
    <3> QED
      BY <2>3, <3>1, <3>2, <3>3
  <2> QED
    BY <1>12, <2>2, <2>4, <2>5
<1>13. CASE LoadSummary(w)
  <2>1. PICK b \in req[w].seen :
          req' = [req EXCEPT ![w].seen = req[w].seen \ {b},
                             ![w].got = req[w].got
                                        \cup {x \in {b} : file[x][Result] = "whole"}]
    BY <1>13 DEF LoadSummary
  <2> DEFINE got == req[w].got \cup {x \in {b} : file[x][Result] = "whole"}
             r == [req[w] EXCEPT !.seen = req[w].seen \ {b}, !.got = got]
  <2>2. /\ req[w].op = "list"
        /\ UNCHANGED <<dirs, file, run, origin, known, deleted, deletions>>
    BY <1>13 DEF LoadSummary, Serves
  <2>3. req' = [req EXCEPT ![w] = r]
    BY <2>1 DEF TypeOK
  <2>4. r \in Request
    <3>1. req[w].seen \ {b} \in SUBSET Batch /\ got \in SUBSET Batch
      BY DEF Request
    <3> QED
      BY <3>1, RequestMoves
  <2>5. /\ r.op = req[w].op /\ r.batch = req[w].batch /\ r.seen \subseteq req[w].seen
        /\ r.got \subseteq req[w].seen \cup req[w].got
    BY DEF Request
  <2> HIDE DEF r
  <2> QED
    BY <1>2, <1>3, <2>2, <2>3, <2>4, <2>5, GoOnStep, RerunFrame
<1>14. CASE AnswerList(w)
  <2>1. /\ Answer(w) /\ known' = known \cup req[w].got
        /\ UNCHANGED <<dirs, file, run, origin, deleted, deletions>>
    BY <1>14 DEF AnswerList
  <2>2. Grows
    BY <2>1 DEF Grows
  <2> QED
    BY <2>1, <2>2, AnswerStep, AnswerRerun
<1>15. CASE Unlink(w)
  <2>1. PICK f \in req[w].todo :
          \/ req' = [req EXCEPT ![w] = [req[w] EXCEPT !.todo = req[w].todo \ {f}]]
          \/ Answer(w)
    BY <1>15 DEF Unlink, TypeOK
  <2>2. req[w].op = "delete" /\ UNCHANGED <<run, origin, known, deleted>>
    BY <1>15 DEF Unlink, Serves
  <2>3. [req[w] EXCEPT !.todo = req[w].todo \ {f}].op # "rerun"
    BY <2>2 DEF Request
  <2> QED
    BY <1>2, <1>3, <1>15, <2>1, <2>2, <2>3, UnlinkStep, RerunFrame, AnswerRerun
<1>16. CASE RemoveDirectory(w)
  <2>1. Answer(w) /\ UNCHANGED <<run, origin, known, deleted>>
    BY <1>16 DEF RemoveDirectory
  <2> QED
    BY <1>2, <1>16, <2>1, RemoveDirectoryStep, AnswerRerun
<1>17. CASE Crash(w)
  <2>1. /\ Answer(w) /\ UNCHANGED <<dirs, file, origin, known, deleted, deletions>>
        /\ run' = [b \in Batch |->
              IF req[w].op = "run" /\ req[w].batch = b THEN "abandoned" ELSE run[b]]
    BY <1>17 DEF Crash
  <2>2. CASE Runs(w)
    <3>1. run' = [run EXCEPT ![req[w].batch] = "abandoned"]
      BY <1>1, <2>1, <2>2 DEF Runs, TypeOK
    <3>2. Grows
      BY <1>9, <2>1, <2>2, <3>1
    <3> QED
      BY <2>1, <2>2, <3>1, <3>2, AbandonStep, AnswerRerun
  <2>3. CASE ~Runs(w)
    <3>1. run' = run
      BY <2>1, <2>3 DEF Runs, TypeOK
    <3> QED
      BY <1>2, <2>1, <3>1, AnswerStep, AnswerRerun
  <2> QED
    BY <2>2, <2>3
<1> QED
  BY <1>4, <1>5, <1>6, <1>7, <1>8, <1>10, <1>11, <1>12, <1>13, <1>14, <1>15, <1>16, <1>17

LEMMA StoreInit == Init => StoreInv
<1> SUFFICES ASSUME Init PROVE StoreInv
  OBVIOUS
<1>1. TypeOK
  BY TypeInit
<1>2. \A w \in Worker : req[w].op = "none" /\ req[w].seen = {} /\ req[w].got = {}
  BY DEF Init, Idle
<1>3. \A b \in Batch : /\ run[b] = "new" /\ deleted[b] = "no" /\ deletions[b] = 0
                      /\ origin[b].of = None /\ \A f \in File : file[b][f] = "absent"
  BY DEF Init, Upload
<1>4. Writers /\ OneWriter /\ Deleters /\ Progress /\ Reruns
  BY <1>2 DEF Writers, OneWriter, Deleters, Progress, Reruns, Runs, Deletes
<1>5. Listed
  BY <1>2 DEF Listed, Init
<1>6. Fresh /\ Stored /\ Settled /\ WritesInOrder /\ DeletedOnce /\ RerunOnStoredData
  BY <1>3 DEF Fresh, Stored, Settled, WritesInOrder, DeletedOnce, RerunOnStoredData, Has
<1> QED
  BY <1>1, <1>4, <1>5, <1>6 DEF StoreInv, StoreFacts, FileInv, RerunFacts

LEMMA StoreStep == StoreInv /\ [Next]_vars => StoreInv'
<1> SUFFICES ASSUME StoreInv, [Next]_vars PROVE StoreInv'
  OBVIOUS
<1>0. TypeOK /\ Names
  BY NamesHold DEF StoreInv, RerunFacts
<1>1. CASE UNCHANGED vars
  <2> USE <1>1 DEF vars, disk, history
  <2>1. TypeOK'
    BY <1>0 DEF TypeOK
  <2>2. known' \subseteq Begun /\ \A x \in Worker : req'[x].seen \cup req'[x].got \subseteq Begun
    BY DEF StoreInv, StoreFacts, FileInv, Listed
  <2>3. StoreFacts'
    BY <2>2, QuietStep DEF StoreInv, Deletes
  <2>4. RerunFacts'
    BY <1>0, RerunFrame DEF StoreInv, Grows
  <2> QED
    BY <2>1, <2>3, <2>4 DEF StoreInv
<1>2. CASE Next
  <2>1. PICK w \in Worker :
          Start(w) \/ ((Serve(w) \/ Disturb(w)) /\ UNCHANGED requests)
    BY <1>2 DEF Next
  <2>2. CASE Start(w)
    BY <1>0, <2>2, StartType, RerunSteps, OtherSteps DEF Start, StoreInv
  <2>3. CASE Serve(w) /\ UNCHANGED requests
    BY <1>0, <2>3, ServeType, RerunSteps, OtherSteps DEF Serve, StoreInv
  <2>4. CASE Disturb(w) /\ UNCHANGED requests
    BY <1>0, <2>4, DisturbType, OtherSteps DEF Disturb, StoreInv
  <2> QED
    BY <2>1, <2>2, <2>3, <2>4
<1> QED
  BY <1>1, <1>2

THEOREM StoreInvariant == Spec => []StoreInv
<1>1. Init => StoreInv
  BY StoreInit
<1>2. StoreInv /\ [Next]_vars => StoreInv'
  BY StoreStep
<1> QED
  BY <1>1, <1>2, PTL DEF Spec

(* The types hold for any number of threads, batches and requests.         *)
THEOREM StoreTypeCorrect == Spec => []TypeOK
BY StoreInvariant, PTL DEF StoreInv

(* orchestrator.py:344-366: a run that is cut short, by an error or by the *)
(* end of its process, leaves a prefix of complete files, with at most the *)
(* last one torn, however many other threads are at work.                  *)
THEOREM PrefixWritten == Spec => []WritesInOrder
BY StoreInvariant, PTL DEF StoreInv, StoreFacts

(* api.py:298-316: a re-run of a batch that was written to its end reads   *)
(* its own transactions and customers, as long as nobody deletes it.       *)
THEOREM RerunReadsStored == Spec => []RerunOnStoredData
BY StoreInvariant, PTL DEF StoreInv, RerunFacts

(* api.py:748-759: concurrent deletes of one batch that is not being       *)
(* written report success at most once, and the batch is gone.             *)
THEOREM DeleteOnce == Spec => []DeletedOnce
BY StoreInvariant, PTL DEF StoreInv, StoreFacts
=============================================================================
