----------------------------- MODULE BatchStore -----------------------------
(***************************************************************************)
(* The batch runs on disk (RUNS_DIR) and the requests that use them at the *)
(* same time: the threads of rpa/api.py run batches, which persist         *)
(* themselves file by file (rpa/orchestrator.py), re-run stored ones, list *)
(* them and delete them.                                                   *)
(*                                                                         *)
(* What a batch computes is RecoveryBatch; here a file is absent, torn     *)
(* (opened for writing, not written to its end) or whole.  A request names *)
(* a batch only by an id that a client was given.  Requests that only read *)
(* one batch, and requests refused at once, leave no trace.                *)
(***************************************************************************)
EXTENDS Integers

CONSTANTS
  Worker,      \* threads that serve requests
  Batch,       \* identifiers of the runs there may be (a bound)
  MaxRequests, \* bound: requests the clients send
  None

ASSUME StoreAssumption == None \notin Batch /\ MaxRequests \in Nat

\* The files of a batch, in the order they are written.
Result == 1
Audit == 2
Transactions == 3
Customers == 4
File == 1..4

VARIABLES
  dirs,        \* batches with a directory
  file,        \* batch -> file -> content
  run,         \* batch -> how far its run is
  origin,      \* batch -> what it was computed from
  known,       \* batch ids clients have been given
  req,         \* worker -> the request it serves
  deleted,     \* batch -> whether a delete began, and on a run in progress
  deletions,   \* batch -> deletes answered with success
  requests     \* requests sent so far

disk == <<dirs, file>>
history == <<deleted, deletions>>
vars == <<disk, run, origin, known, req, history, requests>>

Content == {"absent", "torn", "whole"}

\* The data of a run: all of the file, a part of it, or the data set's own.
Data == {"whole", "part", "default"}
Origin == [of : Batch \cup {None}, settled : BOOLEAN,
           transactions : Data, customers : Data]
Upload == [of |-> None, settled |-> TRUE,
           transactions |-> "whole", customers |-> "whole"]

Request ==
  [op : {"none", "run", "rerun", "list", "delete"},
   at : {"start", "mkdir", "open", "write", "transactions", "find customers",
         "customers", "compute", "stat", "load", "scan", "unlink"},
   batch : Batch \cup {None},   \* the batch it writes, re-runs or deletes
   file : File,                 \* the file it writes
   todo : SUBSET File,          \* files it has yet to unlink
   seen : SUBSET Batch,         \* batches it has yet to list
   got : SUBSET Batch,          \* batches it has listed
   origin : Origin]
Idle == [op |-> "none", at |-> "start", batch |-> None, file |-> Result,
         todo |-> {}, seen |-> {}, got |-> {}, origin |-> Upload]

Init ==
  /\ dirs = {}
  /\ file = [b \in Batch |-> [f \in File |-> "absent"]]
  /\ run = [b \in Batch |-> "new"]
  /\ origin = [b \in Batch |-> Upload]
  /\ known = {}
  /\ req = [w \in Worker |-> Idle]
  /\ deleted = [b \in Batch |-> "no"]
  /\ deletions = [b \in Batch |-> 0]
  /\ requests = 0

-----------------------------------------------------------------------------
(* Helpers.                                                                *)

Serves(w, op, at) == req[w].op = op /\ req[w].at = at
GoTo(w, at) == req' = [req EXCEPT ![w].at = at]
Answer(w) == req' = [req EXCEPT ![w] = Idle]

Has(b, f) == file[b][f] # "absent"
Put(b, f, content) == file' = [file EXCEPT ![b][f] = content]

-----------------------------------------------------------------------------
(* A run: computed, then persisted.  _persist swallows every exception and *)
(* the client gets the id whatever was written.                            *)

BeginRun(w, b, data) ==
  /\ run[b] = "new"
  /\ run' = [run EXCEPT ![b] = "running"]
  /\ origin' = [origin EXCEPT ![b] = data]
  /\ req' = [req EXCEPT ![w] = [Idle EXCEPT !.op = "run", !.at = "mkdir", !.batch = b]]
  /\ UNCHANGED <<disk, known, history>>

StartRun(w) == \E b \in Batch : BeginRun(w, b, Upload)

EndRun(w, how) ==
  /\ run' = [run EXCEPT ![req[w].batch] = how]
  /\ known' = known \cup {req[w].batch}
  /\ Answer(w)
  /\ UNCHANGED <<origin, history>>

\* _persist makes the directory, and AuditTrail.write does so again.
MakeDirectory(w) ==
  /\ Serves(w, "run", "mkdir")
  /\ dirs' = dirs \cup {req[w].batch}
  /\ GoTo(w, "open")
  /\ UNCHANGED <<file, run, origin, known, history>>

OpenFile(w) ==
  /\ Serves(w, "run", "open") /\ req[w].batch \in dirs
  /\ Put(req[w].batch, req[w].file, "torn")
  /\ GoTo(w, "write")
  /\ UNCHANGED <<dirs, run, origin, known, history>>

OpenFails(w) ==
  /\ Serves(w, "run", "open") /\ req[w].batch \notin dirs
  /\ EndRun(w, "abandoned")
  /\ UNCHANGED disk

\* What is written to a file already unlinked is lost without an error.
Written(w) ==
  IF Has(req[w].batch, req[w].file)
  THEN Put(req[w].batch, req[w].file, "whole") ELSE UNCHANGED file

\* Fault: the customers are not stored.
WriteThreeFiles(w) ==
  /\ Serves(w, "run", "write")
  /\ Written(w)
  /\ IF req[w].file = Transactions THEN EndRun(w, "written")
     ELSE /\ req' = [req EXCEPT ![w].file = req[w].file + 1, ![w].at = "mkdir"]
          /\ UNCHANGED <<run, origin, known, history>>
  /\ UNCHANGED dirs

AfterFile(f) == IF f = Result THEN "mkdir" ELSE "open"
WriteFile(w) ==
  /\ Serves(w, "run", "write")
  /\ Written(w)
  /\ IF req[w].file = Customers THEN EndRun(w, "written")
     ELSE /\ req' = [req EXCEPT ![w].file = req[w].file + 1,
                                ![w].at = AfterFile(req[w].file)]
          /\ UNCHANGED <<run, origin, known, history>>
  /\ UNCHANGED dirs

\* Fault: an error leaves out one file instead of the rest.
SkipFile(w) ==
  /\ req[w].op = "run" /\ req[w].file # Customers
  /\ req' = [req EXCEPT ![w].file = req[w].file + 1, ![w].at = "mkdir"]
  /\ UNCHANGED <<disk, run, origin, known, history>>

\* A full disk, a missing permission.
PersistFails(w) ==
  /\ req[w].op = "run"
  /\ EndRun(w, "abandoned")
  /\ UNCHANGED disk

-----------------------------------------------------------------------------
(* /recovery/execute and /recovery/compare with a batch_id.                *)

StartRerun(w) ==
  /\ \E b \in known :
       /\ Has(b, Transactions)
       /\ req' = [req EXCEPT ![w] =
            [Idle EXCEPT !.op = "rerun", !.at = "transactions", !.batch = b,
                         !.origin = [of |-> b, settled |-> run[b] = "written",
                                     transactions |-> "default",
                                     customers |-> "default"]]]
  /\ UNCHANGED <<disk, run, origin, known, history>>

\* Fault: what is missing or torn is handed on, not refused.
ReadOfAnything(content) == {content}

\* pandas may refuse a torn file or parse the part that is there.
ReadOf(content) ==
  CASE content = "absent" -> {"error"}
    [] content = "torn" -> {"error", "part"}
    [] content = "whole" -> {"whole"}

ReadTransactions(w) ==
  /\ Serves(w, "rerun", "transactions")
  /\ \E data \in ReadOf(file[req[w].batch][Transactions]) :
       IF data = "error" THEN Answer(w)
       ELSE req' = [req EXCEPT ![w].origin.transactions = data,
                               ![w].at = "find customers"]
  /\ UNCHANGED <<disk, run, origin, known, history>>

\* Without a file of its own the batch gets the customers of the data set.
FindCustomers(w) ==
  /\ Serves(w, "rerun", "find customers")
  /\ GoTo(w, IF Has(req[w].batch, Customers) THEN "customers" ELSE "compute")
  /\ UNCHANGED <<disk, run, origin, known, history>>

ReadCustomers(w) ==
  /\ Serves(w, "rerun", "customers")
  /\ \E data \in ReadOf(file[req[w].batch][Customers]) :
       IF data = "error" THEN Answer(w)
       ELSE req' = [req EXCEPT ![w].origin.customers = data, ![w].at = "compute"]
  /\ UNCHANGED <<disk, run, origin, known, history>>

\* The new run gets an id of its own.
ComputeRerun(w) ==
  /\ Serves(w, "rerun", "compute")
  /\ \E b \in Batch : BeginRun(w, b, req[w].origin)

\* The run fails closed: it has no result and stores nothing.
RerunFails(w) ==
  /\ Serves(w, "rerun", "compute")
  /\ Answer(w)
  /\ UNCHANGED <<disk, run, origin, known, history>>

-----------------------------------------------------------------------------
(* GET /recovery/batches.                                                  *)

StartList(w) ==
  /\ req' = [req EXCEPT ![w] = [Idle EXCEPT !.op = "list", !.at = "stat",
                                            !.seen = {b \in dirs : Has(b, Result)}]]
  /\ UNCHANGED <<disk, run, origin, known, history>>

\* Sorting by modification time fails when a directory has gone.
SortBatches(w) ==
  /\ Serves(w, "list", "stat")
  /\ IF req[w].seen \subseteq dirs THEN GoTo(w, "load") ELSE Answer(w)
  /\ UNCHANGED <<disk, run, origin, known, history>>

\* A result that cannot be read or parsed is left out.
LoadSummary(w) ==
  /\ Serves(w, "list", "load")
  /\ \E b \in req[w].seen :
       req' = [req EXCEPT ![w].seen = req[w].seen \ {b},
                          ![w].got = req[w].got
                                     \cup {x \in {b} : file[x][Result] = "whole"}]
  /\ UNCHANGED <<disk, run, origin, known, history>>

AnswerList(w) ==
  /\ Serves(w, "list", "load") /\ req[w].seen = {}
  /\ known' = known \cup req[w].got
  /\ Answer(w)
  /\ UNCHANGED <<disk, run, origin, history>>

-----------------------------------------------------------------------------
(* DELETE /recovery/batch: shutil.rmtree, which stops at its first error.  *)

DeleteKind(b) ==
  IF run[b] = "running" \/ deleted[b] = "racing" THEN "racing" ELSE "settled"

StartDelete(w) ==
  /\ \E b \in known \cap dirs :
       /\ req' = [req EXCEPT ![w] = [Idle EXCEPT !.op = "delete", !.at = "scan",
                                                 !.batch = b]]
       /\ deleted' = [deleted EXCEPT ![b] = DeleteKind(b)]
  /\ UNCHANGED <<disk, run, origin, known, deletions>>

ScanDirectory(w) ==
  /\ Serves(w, "delete", "scan")
  /\ IF req[w].batch \in dirs
     THEN req' = [req EXCEPT ![w].at = "unlink",
                             ![w].todo = {f \in File : Has(req[w].batch, f)}]
     ELSE Answer(w)
  /\ UNCHANGED <<disk, run, origin, known, history>>

\* Fault: a file that is gone already is tried again.
UnlinkUntilFound(w) ==
  /\ Serves(w, "delete", "unlink")
  /\ \E f \in req[w].todo :
       /\ Put(req[w].batch, f, "absent")
       /\ req' = IF Has(req[w].batch, f)
                 THEN [req EXCEPT ![w].todo = req[w].todo \ {f}] ELSE req
  /\ UNCHANGED <<dirs, run, origin, known, history>>

Unlink(w) ==
  /\ Serves(w, "delete", "unlink")
  /\ \E f \in req[w].todo :
       IF Has(req[w].batch, f)
       THEN /\ Put(req[w].batch, f, "absent")
            /\ req' = [req EXCEPT ![w].todo = req[w].todo \ {f}]
       ELSE Answer(w) /\ UNCHANGED file
  /\ UNCHANGED <<dirs, run, origin, known, history>>

\* Fault: rmtree(ignore_errors=True).
RemoveIgnoringErrors(w) ==
  /\ Serves(w, "delete", "unlink") /\ req[w].todo = {}
  /\ dirs' = dirs \ {b \in {req[w].batch} : \A f \in File : ~Has(b, f)}
  /\ deletions' = [deletions EXCEPT ![req[w].batch] = @ + 1]
  /\ Answer(w)
  /\ UNCHANGED <<file, run, origin, known, deleted>>

Removable(b) == b \in dirs /\ \A f \in File : ~Has(b, f)
RemoveDirectory(w) ==
  /\ Serves(w, "delete", "unlink") /\ req[w].todo = {}
  /\ IF Removable(req[w].batch)
     THEN /\ dirs' = dirs \ {req[w].batch}
          /\ deletions' = [deletions EXCEPT ![req[w].batch] = @ + 1]
     ELSE UNCHANGED <<dirs, deletions>>
  /\ Answer(w)
  /\ UNCHANGED <<file, run, origin, known, deleted>>

-----------------------------------------------------------------------------
(* A server process is killed and restarted; files stay as they are.       *)

Crash(w) ==
  /\ req[w] # Idle
  /\ Answer(w)
  /\ run' = [b \in Batch |->
               IF req[w].op = "run" /\ req[w].batch = b THEN "abandoned" ELSE run[b]]
  /\ UNCHANGED <<disk, origin, known, history>>

Start(w) ==
  /\ req[w] = Idle /\ requests < MaxRequests
  /\ requests' = requests + 1
  /\ StartRun(w) \/ StartRerun(w) \/ StartList(w) \/ StartDelete(w)

Serve(w) ==
  \/ MakeDirectory(w) \/ OpenFile(w) \/ OpenFails(w) \/ WriteFile(w)
  \/ ReadTransactions(w) \/ FindCustomers(w) \/ ReadCustomers(w)
  \/ ComputeRerun(w) \/ RerunFails(w)
  \/ SortBatches(w) \/ LoadSummary(w) \/ AnswerList(w)
  \/ ScanDirectory(w) \/ Unlink(w) \/ RemoveDirectory(w)

Disturb(w) == PersistFails(w) \/ Crash(w)

Next ==
  \E w \in Worker :
    Start(w) \/ ((Serve(w) \/ Disturb(w)) /\ UNCHANGED requests)

(* A handler runs to its end once it started; nobody has to send requests. *)
Spec == Init /\ [][Next]_vars /\ \A w \in Worker : WF_vars(Serve(w) /\ UNCHANGED requests)

-----------------------------------------------------------------------------
(* Properties.                                                             *)

(* Types of the store, of the requests being served and of the history.    *)
TypeOK ==
  /\ dirs \subseteq Batch
  /\ file \in [Batch -> [File -> Content]]
  /\ run \in [Batch -> {"new", "running", "written", "abandoned"}]
  /\ origin \in [Batch -> Origin]
  /\ known \subseteq Batch
  /\ req \in [Worker -> Request]
  /\ deleted \in [Batch -> {"no", "settled", "racing"}]
  /\ deletions \in [Batch -> Nat]
  /\ requests \in 0..MaxRequests

(* A crash or a failed write leaves a prefix: unless somebody deletes the  *)
(* batch, a file exists only if all files before it are complete, so what  *)
(* can be re-run can also be read and explained.                           *)
WritesInOrder ==
  \A b \in Batch : deleted[b] = "no" =>
    \A f, g \in File : (g < f /\ Has(b, f)) => file[b][g] = "whole"

(* Re-running a batch whose run had ended without an error uses all of its *)
(* own transactions and customers, unless somebody deletes it, whatever    *)
(* else the workers do and whichever of them crash.                        *)
RerunOnStoredData ==
  \A b \in Batch :
    (origin[b].of # None /\ origin[b].settled /\ deleted[origin[b].of] = "no") =>
      origin[b].transactions = "whole" /\ origin[b].customers = "whole"

(* Of the clients that delete a batch whose run had ended, at most one is  *)
(* told that it did, and the batch is gone from then on.                   *)
DeletedOnce ==
  \A b \in Batch : deleted[b] = "settled" =>
    /\ deletions[b] <= 1
    /\ deletions[b] = 1 => b \notin dirs

(* Every handler returns, whatever the others do to the files it uses.     *)
RequestsEnd == \A w \in Worker : req[w] # Idle ~> req[w] = Idle
=============================================================================
