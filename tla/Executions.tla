----------------------------- MODULE Executions -----------------------------
(***************************************************************************)
(* Production executions in PostgreSQL: ProductionExecutionRepository of   *)
(* rpa/database.py, called by the endpoints of rpa/api_v1.py and by        *)
(* callers that know the job, over connections that run at the same time,  *)
(* break down, and whose clients try again.                                *)
(*                                                                         *)
(* transition() reads and writes columns that no migration creates:        *)
(* `schema` has those the table has, and which of them default to TRUE.    *)
(***************************************************************************)
EXTENDS Naturals

CONSTANTS
  Execution,   \* identifiers of executions
  Session,     \* connections, each with one call at a time
  Requests,    \* executions that may be asked for
  Jobs,        \* rows of recovery_jobs
  Schemas,     \* schemas the table may have
  MaxCalls,    \* bound: calls
  MaxTime,     \* bound: clock
  None         \* no row, no call

VARIABLES
  schema,      \* [columns, defaults]
  row,         \* execution -> its committed row, or None
  pc,          \* session -> where its call is
  call,        \* session -> [x, request, target], or None
  draft,       \* session -> the row as its transaction sees it, or None
  clock,
  calls

vars == <<schema, row, pc, call, draft, clock, calls>>

\* The committed rows, seen as decisions of the state machine.
Machine == INSTANCE ExecutionMachine WITH
  state <- [x \in Execution |-> IF row[x] = None THEN None ELSE row[x].state],
  granted <- [x \in Execution |-> IF row[x] = None THEN {} ELSE row[x].met]

State == Machine!State
Flag == Machine!Precondition
AllowedTransitions == Machine!AllowedTransitions

Request == [key : Nat, job : Nat, txn : Nat, expires : Nat]
Row == [key : Nat, job : Nat, txn : Nat, expires : Nat,
        state : State, met : SUBSET Flag]
Call == [x : Execution, request : Requests \cup {None}, target : State]
Schema == [columns : SUBSET Flag, defaults : SUBSET Flag]

ASSUME ExecutionsAssumption ==
  /\ Requests \subseteq Request
  /\ Jobs \subseteq Nat
  /\ Schemas \subseteq Schema
  /\ \A sch \in Schemas : sch.defaults \subseteq sch.columns
  /\ MaxCalls \in Nat /\ MaxTime \in Nat
  /\ None \notin State \cup Row \cup Requests \cup Call

Init ==
  /\ schema \in Schemas
  /\ row = [x \in Execution |-> None]
  /\ pc = [s \in Session |-> "idle"]
  /\ call = [s \in Session |-> None]
  /\ draft = [s \in Session |-> None]
  /\ clock = 0 /\ calls = 0

-----------------------------------------------------------------------------
(* Calls and transactions.                                                 *)

Goto(s, p) == pc' = [pc EXCEPT ![s] = p]

Begin(s, c, p) ==
  /\ pc[s] = "idle" /\ calls < MaxCalls
  /\ calls' = calls + 1
  /\ call' = [call EXCEPT ![s] = c]
  /\ Goto(s, p)
  /\ UNCHANGED <<schema, row, draft, clock>>

\* A new execution gets an identifier nobody uses (uuid4).
Fresh(x) ==
  row[x] = None /\ \A s \in Session : call[s] # None => call[s].x # x

BeginCreate(s) ==
  \E x \in Execution, req \in Requests :
    Fresh(x) /\ Begin(s, [x |-> x, request |-> req, target |-> "PLANNED"], "insert")

\* transition(); authorize_execution is the one with target AUTHORIZED.
BeginTransition(s) ==
  \E x \in Execution, target \in State :
    Begin(s, [x |-> x, request |-> None, target |-> target], "lock")

\* The transaction is over, and with it the call and its row lock.
Close(s) ==
  /\ Goto(s, "idle")
  /\ call' = [call EXCEPT ![s] = None]
  /\ draft' = [draft EXCEPT ![s] = None]
  /\ UNCHANGED <<schema, clock, calls>>

Rollback(s) == Close(s) /\ UNCHANGED row

Commit(s) ==
  /\ pc[s] = "commit"
  /\ row' = [row EXCEPT ![call[s].x] = draft[s]]
  /\ Close(s)

\* The connection breaks: the server rolls back, the client may try again.
Break(s) == pc[s] # "idle" /\ Rollback(s)

-----------------------------------------------------------------------------
(* create()                                                                *)

\* UNIQUE (tenant_id, idempotency_key) and UNIQUE (job_id, transaction_id).
Clash(a, b) == a.key = b.key \/ (a.job = b.job /\ a.txn = b.txn)

\* Fault: the table has no unique indexes, only the lookup.
InsertsAtOnce(s) == pc[s] = "insert"

\* An insert waits for the outcome of another that it would clash with.
MayInsert(s) ==
  /\ pc[s] = "insert"
  /\ \A o \in Session \ {s} :
       (pc[o] = "commit" /\ call[o].request # None) =>
          ~Clash(draft[o], call[s].request)

Duplicate(req) == \E x \in Execution : row[x] # None /\ Clash(row[x], req)

\* Fault: a new execution starts in the state of a job.
Queued(req) ==
  [key |-> req.key, job |-> req.job, txn |-> req.txn, expires |-> req.expires,
   state |-> "queued", met |-> schema.defaults]

Planned(req) ==
  [key |-> req.key, job |-> req.job, txn |-> req.txn, expires |-> req.expires,
   state |-> "PLANNED", met |-> schema.defaults]

Insert(s) ==
  LET req == call[s].request
  IN  /\ MayInsert(s)
      /\ ~Duplicate(req) /\ req.job \in Jobs
      /\ draft' = [draft EXCEPT ![s] = Planned(req)]
      /\ Goto(s, "commit")
      /\ UNCHANGED <<schema, row, call, clock, calls>>

\* After a unique violation create() looks the key up in the transaction
\* the violation has aborted: that query fails too, and so does the call.
RefuseDuplicate(s) ==
  MayInsert(s) /\ Duplicate(call[s].request) /\ Rollback(s)

\* The endpoint invents the job it passes (api_v1.py:360).
RefuseUnknownJob(s) ==
  /\ MayInsert(s)
  /\ ~Duplicate(call[s].request) /\ call[s].request.job \notin Jobs
  /\ Rollback(s)

-----------------------------------------------------------------------------
(* transition()                                                            *)

\* Fault: the row is read without FOR UPDATE.
Unguarded(s) == TRUE

Unlocked(s) ==
  \A o \in Session \ {s} :
    pc[o] \in {"locked", "commit"} => call[o].x # call[s].x

Lock(s) ==
  /\ pc[s] = "lock" /\ row[call[s].x] # None /\ Unlocked(s)
  /\ draft' = [draft EXCEPT ![s] = row[call[s].x]]
  /\ Goto(s, "locked")
  /\ UNCHANGED <<schema, row, call, clock, calls>>

RefuseMissing(s) ==
  pc[s] = "lock" /\ row[call[s].x] = None /\ Rollback(s)

\* The column an update to the target sets besides the state.
SetsFlag(target) ==
  CASE target = "AUTHORIZED" -> {"authorized"}
    [] target = "EXECUTING" -> {"resources_reserved"}
    [] OTHER -> {}

\* Fault: the flags are judged as the update leaves them.
PermittedAfter(r, target) ==
  /\ target \in AllowedTransitions[r.state]
  /\ target = "EXECUTING" =>
       clock < r.expires /\ r.met \cup SetsFlag(target) = Flag
  /\ SetsFlag(target) \subseteq schema.columns

Permitted(r, target) ==
  /\ target \in AllowedTransitions[r.state]
  /\ target = "EXECUTING" => clock < r.expires /\ r.met = Flag
  /\ SetsFlag(target) \subseteq schema.columns

Updated(r, target) ==
  [r EXCEPT !.state = target, !.met = @ \cup SetsFlag(target)]

Update(s) ==
  LET target == call[s].target
  IN  /\ pc[s] = "locked" /\ Permitted(draft[s], target)
      /\ draft' = [draft EXCEPT ![s] = Updated(draft[s], target)]
      /\ Goto(s, "commit")
      /\ UNCHANGED <<schema, row, call, clock, calls>>

\* Fault: a refusal leaves the transaction, and the row lock, open.
RefuseKeepingLock(s) ==
  /\ pc[s] = "locked" /\ ~Permitted(draft[s], call[s].target)
  /\ UNCHANGED vars

Refuse(s) ==
  pc[s] = "locked" /\ ~Permitted(draft[s], call[s].target) /\ Rollback(s)

-----------------------------------------------------------------------------
Tick ==
  /\ clock < MaxTime
  /\ clock' = clock + 1
  /\ UNCHANGED <<schema, row, pc, call, draft, calls>>

Proceed(s) ==
  \/ Insert(s) \/ RefuseDuplicate(s) \/ RefuseUnknownJob(s)
  \/ RefuseMissing(s) \/ Lock(s) \/ Update(s) \/ Refuse(s)
  \/ Commit(s)

Next ==
  \/ Tick
  \/ \E s \in Session :
       BeginCreate(s) \/ BeginTransition(s) \/ Proceed(s) \/ Break(s)

Spec == Init /\ [][Next]_vars /\ \A s \in Session : WF_vars(Proceed(s))

-----------------------------------------------------------------------------
(* Properties.                                                             *)

TypeOK ==
  /\ schema \in Schemas
  /\ row \in [Execution -> Row \cup {None}]
  /\ pc \in [Session -> {"idle", "insert", "lock", "locked", "commit"}]
  /\ call \in [Session -> Call \cup {None}]
  /\ draft \in [Session -> Row \cup {None}]
  /\ clock \in 0..MaxTime /\ calls \in 0..MaxCalls

(* However often a client tries again and whatever other connections do    *)
(* meanwhile, an idempotency key and a transaction of a job have one       *)
(* execution (database.py:672-706).                                        *)
OneExecutionPerRequest ==
  \A x, y \in Execution :
    (x # y /\ row[x] # None /\ row[y] # None) => ~Clash(row[x], row[y])

(* An execution runs only if it was authorised by a transition that left   *)
(* its mark, and if the table's own defaults said that policy allows it    *)
(* and that resources are reserved: transition() sets resources_reserved   *)
(* in the update that presupposes it (database.py:746-763).                *)
RunsOnlyIfCleared ==
  \A x \in Execution :
    (row[x] # None /\ row[x].state \in {"EXECUTING", "SUCCEEDED", "FAILED"}) =>
      /\ "authorized" \in row[x].met
      /\ {"policy_allowed", "resources_reserved"} \subseteq schema.defaults

(* The committed rows go through the state machine of execution.py:        *)
(* concurrent transitions of a row never combine into one that is not      *)
(* allowed, a final state is final, and no row goes away.                  *)
ImplementsMachine == Machine!Spec

(* Every call comes to an end: no two transactions wait for each other.    *)
CallsEnd == \A s \in Session : pc[s] # "idle" ~> pc[s] = "idle"
=============================================================================
