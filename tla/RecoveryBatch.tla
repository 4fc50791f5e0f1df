--------------------------- MODULE RecoveryBatch ---------------------------
(***************************************************************************)
(* One recovery batch, from the request to its verified result, and its    *)
(* re-execution: the endpoints of rpa/api.py that start a batch,           *)
(* rpa/orchestrator.py, rpa/strategies.py, rpa/optimizer.py,               *)
(* rpa/execution_simulator.py and rpa/verification.py.                     *)
(*                                                                         *)
(* A batch is a function from transactions, numbered in row order, to      *)
(* their profiles; `ids` is the column of their transaction ids.  The      *)
(* seeded generator of an outcome is keyed on the id.                      *)
(***************************************************************************)
EXTENDS Policy, Sums

CONSTANTS
  NTxn,            \* transactions in the batch
  Id,              \* transaction ids
  IdColumns,       \* the columns of ids there may be
  NumberOf,        \* the ids read_csv takes for a number, and the number
  DrawOf,          \* the success draw of an id under each batch seed
  Batches,         \* the batches there may be
  Policies,        \* configurations the policy engine may have
  DefaultLimits,   \* default_resource_limits()
  GivenLimits,     \* resource_limits a request may carry; empty when absent
  StrategyLists,   \* strategies a request may name; empty when absent
  Seeds,           \* batch seeds
  AllowFeasible,   \* OptimizerConfig.allow_feasible_solution
  MaxReruns,       \* bound: re-executions of a stored batch
  Malformed,       \* a limit that float() refuses
  None             \* not decided, not stored

Txn == 1..NTxn
Strategy == {"no_action", "rule_based", "ev_greedy", "rpa_optimizer"}
Outcome == {"blocked", "successful", "failed"}
Endpoint == {"batch", "csv", "strategy", "compare", "execute"}
Deterministic == Strategy \ {"rpa_optimizer"}

Profile == [amount : Nat \ {0}, overdue : Int, success : 0..100, retries : Nat,
            prob : [Action -> 0..Scale]]
Limit == Int \cup {Null, Malformed}
Distinct(column) == \A t, u \in Txn : column[t] = column[u] => t = u

ASSUME BatchAssumption ==
  /\ NTxn \in Nat \ {0}
  /\ Batches \subseteq [Txn -> Profile]
  /\ IdColumns \subseteq {column \in [Txn -> Id] : Distinct(column)}
  /\ DOMAIN NumberOf \subseteq Id /\ NumberOf \in [DOMAIN NumberOf -> Id]
  /\ DrawOf \in [Id -> [Seeds -> 0..(Scale - 1)]]
  /\ Policies \subseteq PolicyConfig
  /\ DefaultLimits \in [Resource -> Nat]
  /\ \A given \in GivenLimits :
       /\ DOMAIN given \subseteq Resource
       /\ \A r \in DOMAIN given : given[r] \in Limit
  /\ StrategyLists \subseteq SUBSET (Strategy \cup {"unknown"})
  /\ AllowFeasible \in BOOLEAN
  /\ MaxReruns \in Nat
  /\ Malformed \notin Int \cup {Null}
  /\ None \notin Int
  /\ None \notin Outcome

VARIABLES
  request,    \* [endpoint, limits, strategies, seed]
  policy,     \* configuration of the policy engine
  batch,      \* the transactions
  ids,        \* their ids
  phase,      \* where run_batch is
  limits,     \* resolved resource limits
  approved,   \* (transaction, action) pairs with an ALLOW verdict
  todo,       \* transactions the running planner has not decided
  remaining,  \* its remaining capacity
  choice,     \* strategy -> transaction -> action
  used,       \* strategy -> resource -> units
  solver,     \* status of the optimiser's plan
  planned,    \* strategies whose plan the result keeps
  executed,   \* strategies whose plan has been executed
  outcome,    \* strategy -> transaction -> execution status
  verified,   \* strategies whose verification passed
  stored,     \* the completed batch and what is on disk of it, or None
  reruns

vars == <<request, policy, batch, ids, phase, limits, approved, todo, remaining,
          choice, used, solver, planned, executed, outcome, verified, stored, reruns>>
input == <<request, policy, batch, ids, stored, reruns>>
planning == <<choice, used, solver, todo, remaining>>
results == <<planned, executed, outcome, verified>>

NoLimits == [r \in {} |-> 0]
NoChoice == [s \in Strategy |-> [t \in Txn |-> None]]
NoUse == [s \in Strategy |-> [r \in Resource |-> 0]]

Phase == {"request", "predict", "screen", "no_action", "rule_based", "ev_greedy",
          "rpa_optimizer", "execute", "verify", "completed", "error", "rejected"}
Final == {"completed", "error", "rejected"}

-----------------------------------------------------------------------------
(* The request.                                                            *)

\* What the endpoints take: one strategy, none, or a list of them.
Requests ==
  {req \in [endpoint : Endpoint, limits : GivenLimits,
            strategies : StrategyLists, seed : Seeds] :
     /\ req.endpoint = "compare" => req.strategies = {}
     /\ req.endpoint \in {"strategy", "execute"} =>
          \E s \in Strategy \cup {"unknown"} : req.strategies = {s}}

ValidLimits(given) ==
  \A r \in DOMAIN given :
    given[r] # Malformed /\ (given[r] # Null => given[r] >= 0)

\* The CSV endpoint takes its parameters as they are.
Valid(req) ==
  req.endpoint # "csv" =>
    ValidLimits(req.limits) /\ "unknown" \notin req.strategies

ResolvedLimits(req) ==
  LET given == req.limits
  IN  IF req.endpoint = "csv"
      THEN [r \in Resource |->
              IF r \in DOMAIN given THEN given[r] ELSE DefaultLimits[r]]
      ELSE IF DOMAIN given = {} THEN DefaultLimits ELSE given

\* Fault: the names are not filtered by the strategies there are.
RequestedAsGiven(req) ==
  CASE req.endpoint = "compare" -> Strategy
    [] req.endpoint # "compare" /\ req.strategies = {} ->
         Strategy \ {"rule_based"}
    [] OTHER -> req.strategies

Requested(req) ==
  CASE req.endpoint = "compare" -> Strategy
    [] req.endpoint # "compare" /\ req.strategies = {} ->
         Strategy \ {"rule_based"}
    [] OTHER -> req.strategies \cap Strategy

-----------------------------------------------------------------------------
(* Helpers of the pipeline.                                                *)

At(p) == phase = p
GoTo(p) == phase' = p

IsApproved(t, a) == <<t, a>> \in approved
EV(t, a) == NetEV(batch[t], a)
UseOf(c, r) == SumTo([t \in Txn |-> Units(c[t], r)], NTxn)

\* Every variable of a result that does not exist yet, or is thrown away.
ClearResult ==
  /\ choice' = NoChoice /\ used' = NoUse /\ solver' = None /\ approved' = {}
  /\ planned' = {} /\ executed' = {} /\ verified' = {}
  /\ outcome' = NoChoice

\* Fault: the error result keeps the plans computed so far.
FailKeepingPlans ==
  /\ GoTo("error")
  /\ approved' = {} /\ limits' = NoLimits /\ remaining' = NoLimits /\ todo' = {}
  /\ UNCHANGED <<input, choice, used, solver, results>>

FailClosed ==
  /\ GoTo("error")
  /\ ClearResult
  /\ limits' = NoLimits /\ remaining' = NoLimits /\ todo' = {}
  /\ UNCHANGED input

Init ==
  /\ request \in Requests
  /\ policy \in Policies
  /\ batch \in Batches /\ ids \in IdColumns
  /\ phase = "request"
  /\ limits = NoLimits /\ approved = {} /\ todo = {} /\ remaining = NoLimits
  /\ choice = NoChoice /\ used = NoUse /\ solver = None
  /\ planned = {} /\ executed = {} /\ verified = {} /\ outcome = NoChoice
  /\ stored = None /\ reruns = 0

-----------------------------------------------------------------------------
(* The endpoint, predictions and the policy screen.                        *)

Reject ==
  /\ At("request") /\ ~Valid(request)
  /\ GoTo("rejected")
  /\ UNCHANGED <<input, limits, approved, planning, results>>

Accept ==
  /\ At("request") /\ Valid(request)
  /\ GoTo("predict")
  /\ limits' = ResolvedLimits(request)
  /\ UNCHANGED <<input, approved, planning, results>>

\* Scoring and expected values; the EV table is the operator EV.  Features are
\* merged by id, so two equal ids give too many pairs and the batch fails.
Predict ==
  /\ At("predict") /\ Distinct(ids)
  /\ GoTo("screen")
  /\ UNCHANGED <<input, limits, approved, planning, results>>

PredictionFails == At("predict") /\ FailClosed

\* initial_resource_state converts each limit with float().
LimitsUsable == \A r \in DOMAIN limits : limits[r] # Malformed

Screen ==
  /\ At("screen") /\ LimitsUsable
  /\ approved' = {pair \in Txn \X Action :
                    Allowed(policy, batch[pair[1]], pair[2],
                            InitialResources(limits))}
  /\ GoTo("no_action")
  /\ UNCHANGED <<input, limits, planning, results>>

ScreenFails == At("screen") /\ ~LimitsUsable /\ FailClosed

-----------------------------------------------------------------------------
(* The four planners, run in this order whatever was requested.            *)

\* A planner that works through the transactions starts on a fresh capacity.
StartPlanner(s) ==
  /\ GoTo(s)
  /\ todo' = Txn
  /\ remaining' = InitialResources(limits)

Decide(s, t, a) ==
  /\ choice' = [choice EXCEPT ![s][t] = a]
  /\ used' = [used EXCEPT ![s] = [r \in Resource |-> used[s][r] + Units(a, r)]]
  /\ remaining' = Consume(remaining, a)
  /\ todo' = todo \ {t}
  /\ UNCHANGED <<input, phase, limits, approved, solver, results>>

PlanNoAction ==
  /\ At("no_action")
  /\ choice' = [choice EXCEPT !["no_action"] = [t \in Txn |-> NoOp]]
  /\ StartPlanner("rule_based")
  /\ UNCHANGED <<input, limits, approved, used, solver, results>>

\* RuleBasedEngine.choose: the action type the rules prefer for a transaction.
Preferred(txn) ==
  LET high == txn.amount >= 5000 /\ txn.overdue >= 30 /\ txn.success <= 40
      mid == txn.amount >= 1500
  IN  CASE high -> "human_escalation"
        [] mid /\ txn.overdue >= 7 /\ ~high -> "incentive"
        [] mid /\ txn.overdue < 7 -> "payment_link"
        [] ~mid /\ txn.retries < 2 -> "retry"
        [] ~mid /\ txn.retries >= 2 /\ txn.success >= 60 -> "customer_message"
        [] OTHER -> "no_intervention"

Takes(t, a) == IsApproved(t, a) /\ CanConsume(remaining, a)
FollowsRule(t, a) == Catalogue[a].type = Preferred(batch[t]) /\ Takes(t, a)

\* The preferred action if it is approved and fits, the no-op otherwise.
RuleChoices(t) ==
  LET preferred == {a \in Action : FollowsRule(t, a)}
  IN  IF preferred # {} THEN preferred ELSE {a \in {NoOp} : Takes(t, a)}

FirstRow == {t \in todo : \A u \in todo : t <= u}

PlanRuleBased ==
  /\ At("rule_based")
  /\ \E t \in FirstRow : \E a \in RuleChoices(t) : Decide("rule_based", t, a)

RuleBasedFails ==
  /\ At("rule_based")
  /\ \E t \in FirstRow : RuleChoices(t) = {}
  /\ FailClosed

RuleBasedDone ==
  /\ At("rule_based") /\ todo = {}
  /\ StartPlanner("ev_greedy")
  /\ UNCHANGED <<input, limits, approved, choice, used, solver, results>>

\* _resource_magnitude, times 50: what one unit of a resource weighs.
Weight == [retry |-> 50, messaging |-> 100, incentive_budget |-> 1,
           human_slots |-> 1000]
Magnitude(a) ==
  IF \A r \in Resource : Units(a, r) = 0 THEN 50
  ELSE MapThenSumSet(LAMBDA r : Weight[r] * Units(a, r), Resource)

\* Candidates whose EV per resource counts; an unapproved one has EV -inf.
Scored(t) ==
  {a \in Action : IsApproved(t, a) /\ CanConsume(InitialResources(limits), a)}
ScoreAtLeast(t, u) ==
  \A b \in Scored(u) : \E a \in Scored(t) :
    EV(t, a) * Magnitude(b) >= EV(u, b) * Magnitude(a)

\* Decreasing score, row order among equals (a stable sort).
NextByScore ==
  {t \in todo : \A u \in todo \ {t} :
                  ScoreAtLeast(t, u) /\ (ScoreAtLeast(u, t) => t < u)}

\* Order of the candidates of a transaction: masked EV, then column.
Beats(t, a, b) ==
  IF IsApproved(t, a)
  THEN ~IsApproved(t, b) \/ EV(t, a) > EV(t, b)
       \/ (EV(t, a) = EV(t, b) /\ a < b)
  ELSE ~IsApproved(t, b) /\ a < b

\* The no-op needs nothing, so some candidate always fits.
GreedyChoices(t) ==
  LET fits == {a \in Action : CanConsume(remaining, a)}
  IN  {a \in fits : \A b \in fits \ {a} : Beats(t, a, b)}

PlanGreedy ==
  /\ At("ev_greedy")
  /\ \E t \in NextByScore : \E a \in GreedyChoices(t) : Decide("ev_greedy", t, a)

GreedyDone ==
  /\ At("ev_greedy") /\ todo = {}
  /\ GoTo("rpa_optimizer")
  /\ remaining' = NoLimits
  /\ UNCHANGED <<input, limits, approved, choice, used, solver, todo, results>>

-----------------------------------------------------------------------------
(* The exact optimiser.                                                    *)

\* np.where(allowed, net_ev, -1e6)
MaskedEV(t, a) == IF IsApproved(t, a) THEN EV(t, a) ELSE -1000000 * Scale
PlanValue(c) == SumTo([t \in Txn |-> MaskedEV(t, c[t])], NTxn)

\* Fault: a capacity may not be used up.
BelowLimits(c) == \A r \in Capped(limits) : UseOf(c, r) < limits[r]

WithinLimits(c) == \A r \in Capped(limits) : UseOf(c, r) <= limits[r]
FeasibleChoices == {c \in [Txn -> Action] : WithinLimits(c)}
OptimalChoices ==
  LET values == {PlanValue(c) : c \in FeasibleChoices}
  IN  {c \in FeasibleChoices : \A value \in values : value <= PlanValue(c)}

Publish(c) ==
  /\ choice' = [choice EXCEPT !["rpa_optimizer"] = c]
  /\ planned' = Requested(request)
  /\ GoTo("execute")
  /\ UNCHANGED <<input, limits, approved, todo, remaining, executed, outcome,
                 verified>>

Solved(c, status) ==
  /\ used' = [used EXCEPT !["rpa_optimizer"] = [r \in Resource |-> UseOf(c, r)]]
  /\ solver' = status
  /\ Publish(c)

SolveOptimally ==
  At("rpa_optimizer") /\ \E c \in OptimalChoices : Solved(c, "optimal")

\* The solver stops at an incumbent, which the configuration accepts.
AcceptIncumbent ==
  /\ At("rpa_optimizer") /\ AllowFeasible
  /\ \E c \in FeasibleChoices : Solved(c, "feasible")

\* Fault: the fallback plan reports what the discarded incumbent used.
FallbackKeepsUse ==
  /\ At("rpa_optimizer")
  /\ \E c \in FeasibleChoices :
       used' = [used EXCEPT !["rpa_optimizer"] = [r \in Resource |-> UseOf(c, r)]]
  /\ solver' = "not_approved"
  /\ Publish([t \in Txn |-> NoOp])

\* Infeasible limits, or the time limit without an acceptable solution.
SolverNotApproved ==
  /\ At("rpa_optimizer")
  /\ used' = [used EXCEPT !["rpa_optimizer"] = [r \in Resource |-> 0]]
  /\ solver' = "not_approved"
  /\ Publish([t \in Txn |-> NoOp])

-----------------------------------------------------------------------------
(* Execution, strategy after strategy, and verification.                   *)

\* Fault: approval is looked up by action alone.
MayRunSomewhere(t, a) == \E u \in Txn : IsApproved(u, a)

MayRun(t, a) == IsApproved(t, a)

\* Fault: the strategies consume one generator in turn.
DrawInTurn(s, t) ==
  (DrawOf[ids[t]][request.seed] + Cardinality(executed)) % Scale

\* The draw depends on the id and the seed, on nothing else.
Draw(s, t) == DrawOf[ids[t]][request.seed]

Run(s, t) ==
  LET a == choice[s][t]
  IN  IF ~MayRun(t, a) THEN "blocked"
      ELSE IF Draw(s, t) < Clip(batch[t].prob[a]) THEN "successful" ELSE "failed"

Execute ==
  /\ At("execute")
  /\ \E s \in planned \ executed :
       /\ outcome' = [outcome EXCEPT ![s] = [t \in Txn |-> Run(s, t)]]
       /\ executed' = executed \cup {s}
  /\ UNCHANGED <<input, phase, limits, approved, planning, planned, verified>>

ExecutionFails ==
  /\ At("execute") /\ planned \ executed # {}
  /\ FailClosed

ExecutionDone ==
  /\ At("execute") /\ executed = planned
  /\ GoTo("verify")
  /\ UNCHANGED <<input, limits, approved, planning, results>>

Passed(s) == \A t \in Txn : outcome[s][t] # "blocked"

\* `customers`: customers.csv was written, and to its end.
Record(customers) ==
  [batch |-> batch, ids |-> ids, customers |-> customers, seed |-> request.seed,
   limits |-> limits, planned |-> planned, choice |-> choice, outcome |-> outcome]

\* _persist swallows its errors: everything is stored, or the transactions
\* without the customers, or nothing a later request can read.  A re-execution
\* is a batch of its own.
Verify ==
  /\ At("verify")
  /\ verified' = {s \in planned : Passed(s)}
  /\ GoTo("completed")
  /\ \/ stored = None /\ \E customers \in BOOLEAN : stored' = Record(customers)
     \/ UNCHANGED stored
  /\ UNCHANGED <<request, policy, batch, ids, reruns, limits, approved, planning,
                 planned, executed, outcome>>

-----------------------------------------------------------------------------
(* /recovery/execute and /recovery/compare with a batch_id: a new run on   *)
(* what is read back of the stored batch, with the limits and the seed of  *)
(* this request.                                                           *)

\* to_csv, then read_csv without dtypes: a column of ids that are all numbers
\* comes back as numbers ("007" as 7), any other as it was.
ReadBack(column) ==
  IF \A t \in Txn : column[t] \in DOMAIN NumberOf
  THEN [t \in Txn |-> NumberOf[column[t]]] ELSE column

\* The rows of transactions.csv; the probabilities come from the customers too.
SameRows(b, c) ==
  \A t \in Txn : \A field \in {"amount", "overdue", "success", "retries"} :
    b[t][field] = c[t][field]

\* Without the stored customers those of the dataset stand in for them.
BatchesRead(record) ==
  IF record.customers THEN {record.batch}
  ELSE {b \in Batches : SameRows(b, record.batch)}

ResetRun ==
  /\ ClearResult
  /\ limits' = NoLimits /\ remaining' = NoLimits /\ todo' = {}

Reexecute ==
  /\ phase \in Final /\ stored # None /\ reruns < MaxReruns
  /\ request' \in {req \in Requests : req.endpoint \in {"execute", "compare"}}
  /\ batch' \in BatchesRead(stored)
  /\ ids' = ReadBack(stored.ids)
  /\ reruns' = reruns + 1
  /\ GoTo("request")
  /\ ResetRun
  /\ UNCHANGED <<policy, stored>>

Pipeline ==
  \/ Reject \/ Accept \/ Predict \/ PredictionFails \/ Screen \/ ScreenFails
  \/ PlanNoAction \/ PlanRuleBased \/ RuleBasedFails \/ RuleBasedDone
  \/ PlanGreedy \/ GreedyDone
  \/ SolverNotApproved \/ SolveOptimally \/ AcceptIncumbent
  \/ Execute \/ ExecutionFails \/ ExecutionDone \/ Verify

Next == Pipeline \/ Reexecute

Spec == Init /\ [][Next]_vars

-----------------------------------------------------------------------------
(* Properties.                                                             *)

Plan == [Txn -> Action \cup {None}]

(* Types of the pipeline's state: orchestrator.BatchResult and the local   *)
(* variables of run_batch.                                                 *)
TypeOK ==
  /\ request \in Requests
  /\ policy \in Policies
  /\ batch \in Batches
  /\ ids \in [Txn -> Id]
  /\ phase \in Phase
  /\ DOMAIN limits \subseteq Resource
  /\ \A r \in DOMAIN limits : limits[r] \in Limit
  /\ approved \subseteq Txn \X Action
  /\ todo \subseteq Txn
  /\ DOMAIN remaining \subseteq Resource
  /\ \A r \in DOMAIN remaining : remaining[r] \in Int
  /\ choice \in [Strategy -> Plan]
  /\ used \in [Strategy -> [Resource -> Nat]]
  /\ solver \in {None, "optimal", "feasible", "not_approved"}
  /\ planned \subseteq Strategy /\ executed \subseteq planned
  /\ verified \subseteq planned
  /\ outcome \in [Strategy -> [Txn -> Outcome \cup {None}]]
  /\ stored # None =>
       /\ stored.batch \in Batches /\ stored.ids \in [Txn -> Id]
       /\ stored.customers \in BOOLEAN
  /\ reruns \in 0..MaxReruns

(* No plan ever uses more of a shared resource than its limit, whichever   *)
(* planner made it, in whatever order it took the transactions; under a    *)
(* limit below zero, which the CSV endpoint lets through, it uses nothing. *)
WithinCapacity ==
  \A s \in Strategy : \A r \in Capped(limits) :
    used[s][r] = 0 \/ used[s][r] <= limits[r]

(* What a plan reports as used is what the actions it selects require: the *)
(* accumulated use of the loops and the fallback's zeros included.         *)
ReportedUseExact ==
  \A s \in planned : \A r \in Resource : used[s][r] = UseOf(choice[s], r)

(* A run is all or nothing: it completes with a decision and an outcome    *)
(* for every transaction under every strategy requested, or the error      *)
(* result carries no plan and no outcome at all (_fail_closed).            *)
AllOrNothing ==
  /\ phase = "completed" =>
       /\ planned = Requested(request)
       /\ \A s \in planned : \A t \in Txn :
            choice[s][t] \in Action /\ outcome[s][t] \in Outcome
  /\ phase \in {"error", "rejected"} =>
       choice = NoChoice /\ outcome = NoChoice /\ verified = {}

(* Where the solver proves optimality, no other strategy's plan is worth   *)
(* more under the same verdicts and limits: the baselines' plans satisfy   *)
(* the constraints of the integer program.                                 *)
OptimizerDominates ==
  (phase = "completed" /\ solver = "optimal") =>
    \A s \in Strategy :
      PlanValue(choice[s]) <= PlanValue(choice["rpa_optimizer"])

(* No action is attempted on a transaction the policy blocks it for,       *)
(* whatever a planner selected: the verdicts are per pair                  *)
(* (execution_simulator.py:95-104).                                        *)
NeverRunsBlocked ==
  \A s \in executed : \A t \in Txn :
    outcome[s][t] # "blocked" =>
      Allowed(policy, batch[t], choice[s][t], InitialResources(limits))

(* Outcomes are paired across strategies: a transaction recovered under    *)
(* one strategy is recovered under every other that attempts an action of  *)
(* at least that probability on it (execution_simulator.py:120-125).       *)
PairedOutcomes ==
  \A s, u \in executed : \A t \in Txn :
    ( /\ outcome[s][t] = "successful"
      /\ outcome[u][t] # "blocked"
      /\ batch[t].prob[choice[s][t]] <= batch[t].prob[choice[u][t]] )
    => outcome[u][t] = "successful"

(* A re-execution on the stored transactions and customers.  Under the     *)
(* stored limits the deterministic strategies make their plans again and   *)
(* the same actions are blocked; under the stored seed an action selected  *)
(* again, by any strategy and under any limits, has the same outcome,      *)
(* provided the id survived the round trip through the file: it is the id  *)
(* that seeds the outcome (execution_simulator.py:151-161).                *)
RerunReproduces ==
  (phase = "completed" /\ reruns > 0 /\ stored.customers) =>
    /\ limits = stored.limits =>
         \A s \in planned \cap stored.planned :
           /\ s \in Deterministic => choice[s] = stored.choice[s]
           /\ \A t \in Txn : choice[s][t] = stored.choice[s][t] =>
                (outcome[s][t] = "blocked" <=> stored.outcome[s][t] = "blocked")
    /\ request.seed = stored.seed =>
         \A s \in planned, u \in stored.planned : \A t \in Txn :
           ( /\ ids[t] = stored.ids[t]
             /\ choice[s][t] = stored.choice[u][t]
             /\ "blocked" \notin {outcome[s][t], stored.outcome[u][t]} )
           => outcome[s][t] = stored.outcome[u][t]
=============================================================================
