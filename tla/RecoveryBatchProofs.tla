------------------------ MODULE RecoveryBatchProofs ------------------------
(***************************************************************************)
(* What RecoveryBatch guarantees for every catalogue, batch, policy and    *)
(* request: its types, the capacities, the policy gate and fail-closed.    *)
(***************************************************************************)
EXTENDS Audit, SumsProofs, FiniteSetTheorems, SequenceTheorems

\* Phases in which run_batch holds verdicts, limits and plans.
Screened == {"no_action", "rule_based", "ev_greedy", "rpa_optimizer",
             "execute", "verify", "completed"}

-----------------------------------------------------------------------------
(* The catalogue and the capacities.                                       *)

(* The number of units an action needs is a natural number.                *)
LEMMA UnitsType ==
  ASSUME NEW a \in Action, NEW r \in Resource
  PROVE  Units(a, r) \in Nat
<1>1. Catalogue[a] \in ActionSpec
  BY CatalogueAssumption DEF Action
<1>2. Catalogue[a].req \in [Resource -> Nat]
  BY <1>1 DEF ActionSpec
<1> QED
  BY <1>2 DEF Units

(* The catalogue's no-op is an action and needs nothing.                   *)
LEMMA NoOpFacts == NoOp \in Action /\ \A r \in Resource : Units(NoOp, r) = 0
<1>1. \E a \in Action : Catalogue[a].type = "no_intervention"
  BY CatalogueAssumption DEF IsNoOp
<1>2. NoOp \in Action /\ Catalogue[NoOp].type = "no_intervention"
  BY <1>1 DEF NoOp, ActionOfType
<1> QED
  BY <1>2, CatalogueAssumption DEF IsNoOp

(* The strategies a request selects are strategies.                        *)
LEMMA RequestedKnown == ASSUME NEW req PROVE Requested(req) \subseteq Strategy
BY DEF Requested, Strategy

(* Limits resolved from an admissible request are admissible.              *)
LEMMA ResolvedType ==
  ASSUME NEW req \in Requests
  PROVE  /\ DOMAIN ResolvedLimits(req) \subseteq Resource
         /\ \A r \in DOMAIN ResolvedLimits(req) : ResolvedLimits(req)[r] \in Limit
<1>1. req.limits \in GivenLimits
  BY DEF Requests
<1>2. /\ DOMAIN req.limits \subseteq Resource
      /\ \A r \in DOMAIN req.limits : req.limits[r] \in Limit
  BY <1>1, BatchAssumption
<1>3. DOMAIN DefaultLimits = Resource /\ \A r \in Resource : DefaultLimits[r] \in Limit
  BY BatchAssumption DEF Limit
<1>4. CASE req.endpoint = "csv"
  BY <1>2, <1>3, <1>4 DEF ResolvedLimits
<1>5. CASE req.endpoint # "csv"
  BY <1>2, <1>3, <1>5 DEF ResolvedLimits
<1> QED
  BY <1>4, <1>5

(* Choices of the planners are actions that fit the remaining capacity,    *)
(* and the rules take an approved one.                                     *)
LEMMA RuleChoiceFacts ==
  ASSUME NEW t \in Txn, NEW a \in RuleChoices(t)
  PROVE  a \in Action /\ CanConsume(remaining, a) /\ IsApproved(t, a)
BY NoOpFacts DEF RuleChoices, FollowsRule, Takes

LEMMA GreedyChoiceFacts ==
  ASSUME NEW t \in Txn, NEW a \in GreedyChoices(t)
  PROVE  a \in Action /\ CanConsume(remaining, a)
BY DEF GreedyChoices

-----------------------------------------------------------------------------
(* Types.                                                                  *)

\* Phases in which there are plans to execute.
Executing == {"execute", "verify", "completed"}

\* Limits are there only while a run is, and usable once they are screened;
\* nothing is planned, executed or verified before the planners are done.
StageInv ==
  /\ phase \notin Executing =>
       planned = {} /\ executed = {} /\ verified = {} /\ outcome = NoChoice
  /\ phase \in {"request", "rejected", "error"} => limits = NoLimits
  /\ phase \in Screened => LimitsUsable

TypeInv == TypeOK /\ StageInv

(* What a capacity starts from is an integer once the limits are usable.   *)
LEMMA InitialType ==
  ASSUME TypeOK, LimitsUsable
  PROVE  /\ DOMAIN InitialResources(limits) \subseteq Resource
         /\ \A r \in Capped(limits) : limits[r] \in Int
         /\ \A r \in DOMAIN InitialResources(limits) :
              InitialResources(limits)[r] \in Int
BY DEF TypeOK, LimitsUsable, InitialResources, Capped, Limit

(* A decision keeps the types of what it changes.                          *)
LEMMA DecideType ==
  ASSUME TypeOK, NEW s \in Strategy, NEW t \in Txn, NEW a \in Action,
         Decide(s, t, a)
  PROVE  /\ choice' \in [Strategy -> Plan]
         /\ used' \in [Strategy -> [Resource -> Nat]]
         /\ todo' \subseteq Txn
         /\ DOMAIN remaining' \subseteq Resource
         /\ \A r \in DOMAIN remaining' : remaining'[r] \in Int
<1>1. choice' \in [Strategy -> Plan]
  BY DEF TypeOK, Decide, Plan
<1>2. used' \in [Strategy -> [Resource -> Nat]]
  <2>1. [r \in Resource |-> used[s][r] + Units(a, r)] \in [Resource -> Nat]
    BY UnitsType DEF TypeOK
  <2> QED
    BY <2>1 DEF TypeOK, Decide
<1>3. \A r \in DOMAIN remaining' : remaining'[r] \in Int
  BY UnitsType DEF TypeOK, Decide, Consume
<1>4. DOMAIN remaining' \subseteq Resource /\ todo' \subseteq Txn
  BY DEF TypeOK, Decide, Consume
<1> QED
  BY <1>1, <1>2, <1>3, <1>4

(* What a plan uses is a natural number.                                   *)
LEMMA UseType ==
  ASSUME NEW c \in [Txn -> Action], NEW r \in Resource
  PROVE  UseOf(c, r) \in Nat
<1>1. \A t \in 1..NTxn : [u \in Txn |-> Units(c[u], r)][t] \in Nat
  BY UnitsType DEF Txn
<1> QED
  BY <1>1, SumNat, BatchAssumption DEF UseOf

LEMMA FeasibleUse ==
  ASSUME NEW c \in FeasibleChoices
  PROVE  /\ c \in [Txn -> Action]
         /\ [r \in Resource |-> UseOf(c, r)] \in [Resource -> Nat]
         /\ \A r \in Capped(limits) : UseOf(c, r) <= limits[r]
BY UseType DEF FeasibleChoices, WithinLimits

(* Clearing a run leaves well-typed, empty results.                        *)
LEMMA EmptyTypes ==
  /\ NoChoice \in [Strategy -> Plan]
  /\ NoChoice \in [Strategy -> [Txn -> Outcome \cup {None}]]
  /\ NoUse \in [Strategy -> [Resource -> Nat]]
  /\ DOMAIN NoLimits = {}
BY DEF NoChoice, NoUse, NoLimits, Plan

LEMMA FailClosedType ==
  ASSUME TypeInv, FailClosed
  PROVE  TypeInv'
BY EmptyTypes
   DEF TypeInv, TypeOK, StageInv, FailClosed, ClearResult, GoTo, input, Phase,
       Screened, Executing

LEMMA TypeInit == Init => TypeInv
BY EmptyTypes, BatchAssumption
   DEF Init, TypeInv, TypeOK, StageInv, Phase, Screened, Executing

LEMMA TypeStep == TypeInv /\ [Next]_vars => TypeInv'
<1> SUFFICES ASSUME TypeInv, [Next]_vars PROVE TypeInv'
  OBVIOUS
<1> USE DEF TypeInv
<1>1. CASE UNCHANGED vars
  BY <1>1 DEF vars, TypeOK, StageInv, LimitsUsable
<1>2. CASE Reject
  BY <1>2 DEF Reject, At, GoTo, input, planning, results, TypeOK, StageInv,
     Phase, Screened, Executing
<1>3. CASE Accept
  BY <1>3, ResolvedType
     DEF Accept, At, GoTo, input, planning, results, TypeOK, StageInv, Phase,
         Screened, Executing
<1>4. CASE Predict
  BY <1>4 DEF Predict, At, GoTo, input, planning, results, TypeOK, StageInv,
     Phase, Screened, Executing
<1>5. CASE Screen
  BY <1>5 DEF Screen, At, GoTo, input, planning, results, TypeOK, StageInv,
     LimitsUsable, Phase, Screened, Executing
<1>6. CASE PlanNoAction
  <2>1. choice' \in [Strategy -> Plan]
    BY <1>6, NoOpFacts DEF PlanNoAction, TypeOK, Plan, Strategy
  <2>2. LimitsUsable
    BY <1>6 DEF PlanNoAction, At, StageInv, Screened
  <2>3. /\ DOMAIN remaining' \subseteq Resource
        /\ \A r \in DOMAIN remaining' : remaining'[r] \in Int
    BY <1>6, <2>2, InitialType DEF PlanNoAction, StartPlanner
  <2> QED
    BY <1>6, <2>1, <2>2, <2>3
       DEF PlanNoAction, StartPlanner, GoTo, input, results, TypeOK, StageInv,
           LimitsUsable, Phase, Executing, At
<1>7. CASE PlanRuleBased
  <2>0. PICK t \in FirstRow : \E a \in RuleChoices(t) : Decide("rule_based", t, a)
    BY <1>7 DEF PlanRuleBased
  <2>1. PICK a \in RuleChoices(t) : Decide("rule_based", t, a)
    BY <2>0
  <2>2. t \in Txn /\ a \in Action /\ "rule_based" \in Strategy
    BY RuleChoiceFacts DEF FirstRow, TypeOK, Strategy
  <2> QED
    BY <2>1, <2>2, DecideType
       DEF Decide, input, results, TypeOK, StageInv, LimitsUsable
<1>8. CASE RuleBasedDone
  <2>1. LimitsUsable
    BY <1>8 DEF RuleBasedDone, At, StageInv, Screened
  <2>2. /\ DOMAIN remaining' \subseteq Resource
        /\ \A r \in DOMAIN remaining' : remaining'[r] \in Int
    BY <1>8, <2>1, InitialType DEF RuleBasedDone, StartPlanner
  <2> QED
    BY <1>8, <2>1, <2>2
       DEF RuleBasedDone, StartPlanner, GoTo, input, results, TypeOK, StageInv,
           LimitsUsable, Phase, Executing, At
<1>9. CASE PlanGreedy
  <2>0. PICK t \in NextByScore : \E a \in GreedyChoices(t) : Decide("ev_greedy", t, a)
    BY <1>9 DEF PlanGreedy
  <2>1. PICK a \in GreedyChoices(t) : Decide("ev_greedy", t, a)
    BY <2>0
  <2>2. t \in Txn /\ a \in Action /\ "ev_greedy" \in Strategy
    BY GreedyChoiceFacts DEF NextByScore, TypeOK, Strategy
  <2> QED
    BY <2>1, <2>2, DecideType
       DEF Decide, input, results, TypeOK, StageInv, LimitsUsable
<1>10. CASE GreedyDone
  BY <1>10, EmptyTypes
     DEF GreedyDone, At, GoTo, input, results, TypeOK, StageInv, LimitsUsable,
         Phase, Screened, Executing
<1>11. ASSUME NEW c \in [Txn -> Action], At("rpa_optimizer"), Publish(c),
              used' \in [Strategy -> [Resource -> Nat]],
              solver' \in {"optimal", "feasible", "not_approved"}
       PROVE  TypeInv'
  <2>1. choice' \in [Strategy -> Plan]
    BY <1>11 DEF Publish, TypeOK, Plan
  <2>2. planned' \subseteq Strategy /\ executed' \subseteq planned'
    BY <1>11, RequestedKnown DEF Publish, TypeOK, At, StageInv, Executing
  <2> QED
    BY <1>11, <2>1, <2>2
       DEF Publish, At, GoTo, input, TypeOK, StageInv, LimitsUsable, Phase, Screened, Executing
<1>12. CASE SolverNotApproved
  <2>1. [t \in Txn |-> NoOp] \in [Txn -> Action]
    BY NoOpFacts
  <2>2. used' \in [Strategy -> [Resource -> Nat]]
    BY <1>12 DEF SolverNotApproved, TypeOK
  <2> QED
    BY <1>11, <1>12, <2>1, <2>2 DEF SolverNotApproved
<1>13. ASSUME NEW c \in FeasibleChoices, NEW status \in {"optimal", "feasible"},
              At("rpa_optimizer"), Solved(c, status)
       PROVE  TypeInv'
  <2>1. LimitsUsable
    BY <1>13 DEF At, StageInv, Screened
  <2>2. c \in [Txn -> Action] /\ [r \in Resource |-> UseOf(c, r)] \in [Resource -> Nat]
    BY <1>13, <2>1, FeasibleUse
  <2>3. used' \in [Strategy -> [Resource -> Nat]]
    BY <1>13, <2>2 DEF Solved, TypeOK
  <2> QED
    BY <1>11, <1>13, <2>2, <2>3 DEF Solved
<1>14. CASE SolveOptimally
  <2>1. PICK c \in OptimalChoices : Solved(c, "optimal")
    BY <1>14 DEF SolveOptimally
  <2>2. c \in FeasibleChoices
    BY DEF OptimalChoices
  <2> QED
    BY <1>13, <1>14, <2>1, <2>2 DEF SolveOptimally
<1>15. CASE AcceptIncumbent
  BY <1>13, <1>15 DEF AcceptIncumbent
<1>16. CASE Execute
  <2>1. PICK s \in planned \ executed :
          /\ outcome' = [outcome EXCEPT ![s] = [t \in Txn |-> Run(s, t)]]
          /\ executed' = executed \cup {s}
    BY <1>16 DEF Execute
  <2>2. [t \in Txn |-> Run(s, t)] \in [Txn -> Outcome \cup {None}]
    BY DEF Run, Outcome
  <2>3. outcome' \in [Strategy -> [Txn -> Outcome \cup {None}]]
    BY <2>1, <2>2 DEF TypeOK
  <2>4. executed' \subseteq planned
    BY <2>1 DEF TypeOK
  <2> QED
    BY <1>16, <2>3, <2>4
       DEF Execute, At, input, planning, TypeOK, StageInv, LimitsUsable,
           Screened, Executing
<1>17. CASE ExecutionDone
  BY <1>17 DEF ExecutionDone, At, GoTo, input, planning, results, TypeOK, StageInv,
     LimitsUsable, Phase, Screened, Executing
<1>18. CASE Verify
  <2>1. ASSUME NEW customers \in BOOLEAN
        PROVE  /\ Record(customers).batch \in Batches
               /\ Record(customers).ids \in [Txn -> Id]
               /\ Record(customers).customers \in BOOLEAN
    BY DEF Record, TypeOK
  <2>2. stored' # None =>
          /\ stored'.batch \in Batches /\ stored'.ids \in [Txn -> Id]
          /\ stored'.customers \in BOOLEAN
    <3>1. CASE UNCHANGED stored
      BY <3>1 DEF TypeOK
    <3>2. CASE \E customers \in BOOLEAN : stored' = Record(customers)
      BY <2>1, <3>2
    <3> QED
      BY <1>18, <3>1, <3>2 DEF Verify
  <2>3. /\ UNCHANGED <<request, policy, batch, ids, reruns, limits, approved, choice, used,
                       solver, todo, remaining, planned, executed, outcome>>
        /\ verified' \subseteq planned /\ phase = "verify" /\ phase' = "completed"
    BY <1>18 DEF Verify, planning, At, GoTo
  <2> QED
    BY <2>2, <2>3 DEF TypeOK, StageInv, LimitsUsable, Phase, Screened, Executing
<1>19. CASE Reexecute
  <2>1. batch' \in Batches
    BY <1>19 DEF Reexecute, BatchesRead, TypeOK
  <2>2. ids' \in [Txn -> Id]
    BY <1>19, BatchAssumption DEF Reexecute, ReadBack, TypeOK
  <2>3. /\ request' \in Requests /\ reruns' \in 0..MaxReruns /\ phase' = "request"
        /\ UNCHANGED <<policy, stored>>
    BY <1>19, BatchAssumption DEF Reexecute, GoTo, TypeOK
  <2> QED
    BY <1>19, <2>1, <2>2, <2>3, EmptyTypes
       DEF Reexecute, ResetRun, ClearResult, TypeOK, StageInv, Phase, Screened, Executing
<1>20. CASE PredictionFails \/ ScreenFails \/ RuleBasedFails \/ ExecutionFails
  BY <1>20, FailClosedType
     DEF PredictionFails, ScreenFails, RuleBasedFails, ExecutionFails
<1> QED
  BY <1>1, <1>2, <1>3, <1>4, <1>5, <1>6, <1>7, <1>8, <1>9, <1>10, <1>12, <1>14,
     <1>15, <1>16, <1>17, <1>18, <1>19, <1>20
     DEF Next, Pipeline

(* The pipeline's state has the types TypeOK gives it, whatever the        *)
(* request: run_batch never holds an unknown strategy or a negative use.   *)
THEOREM TypeCorrect == Spec => []TypeOK
<1>1. Spec => []TypeInv
  BY TypeInit, TypeStep, PTL DEF Spec
<1> QED
  BY <1>1, PTL DEF TypeInv

-----------------------------------------------------------------------------
(* Capacities.  The planners' loops keep, beside the plan's use, what is   *)
(* left of each capacity: the two always add up to the limit.              *)

ZeroUse == [r \in Resource |-> 0]

UseInv ==
  /\ phase \in Phase \ (Screened \ {"no_action"}) => used = NoUse
  /\ phase = "rule_based" => used["ev_greedy"] = ZeroUse
  /\ phase \in {"rule_based", "ev_greedy"} =>
       remaining = [r \in Capped(limits) |-> limits[r] - used[phase][r]]

CapacityInv == UseInv /\ WithinCapacity

(* A planner starts on the whole of every capacity.                        *)
LEMMA StartOnWhole ==
  ASSUME TypeOK, LimitsUsable, NEW s \in Strategy, used[s] = ZeroUse
  PROVE  InitialResources(limits) = [r \in Capped(limits) |-> limits[r] - used[s][r]]
<1>1. Capped(limits) \subseteq Resource
  BY DEF TypeOK, Capped
<1>2. \A r \in Capped(limits) : limits[r] \in Int /\ limits[r] - used[s][r] = limits[r]
  BY <1>1, InitialType DEF ZeroUse
<1> QED
  BY <1>2 DEF InitialResources

(* A decision that fits what is left keeps the plan within its limits.     *)
LEMMA DecideFits ==
  ASSUME TypeOK, LimitsUsable, WithinCapacity, NEW s \in Strategy, NEW t \in Txn,
         NEW a \in Action, CanConsume(remaining, a), Decide(s, t, a),
         remaining = [r \in Capped(limits) |-> limits[r] - used[s][r]]
  PROVE  /\ WithinCapacity'
         /\ remaining' = [r \in Capped(limits) |-> limits[r] - used'[s][r]]
         /\ \A u \in Strategy \ {s} : used'[u] = used[u]
<1>1. Capped(limits) \subseteq Resource
  BY DEF TypeOK, Capped
<1>2. \A r \in Capped(limits) : limits[r] \in Int /\ used[s][r] \in Nat /\ Units(a, r) \in Nat
  BY <1>1, InitialType, UnitsType DEF TypeOK
<1>3. \A u \in Strategy \ {s} : used'[u] = used[u]
  BY DEF Decide, TypeOK
<1>4. used'[s] = [r \in Resource |-> used[s][r] + Units(a, r)]
  BY DEF Decide, TypeOK
<1>5. \A r \in Capped(limits) : used'[s][r] = 0 \/ used'[s][r] <= limits[r]
  <2> SUFFICES ASSUME NEW r \in Capped(limits)
               PROVE  used'[s][r] = 0 \/ used'[s][r] <= limits[r]
    OBVIOUS
  <2>1. used'[s][r] = used[s][r] + Units(a, r)
    BY <1>1, <1>4
  <2>2. CASE Units(a, r) = 0
    BY <1>2, <2>1, <2>2 DEF WithinCapacity
  <2>3. CASE Units(a, r) > 0
    <3>1. Units(a, r) <= limits[r] - used[s][r]
      BY <2>3 DEF CanConsume
    <3> QED
      BY <1>2, <2>1, <3>1
  <2> QED
    BY <1>2, <2>2, <2>3
<1>6. remaining' = [r \in Capped(limits) |-> limits[r] - used'[s][r]]
  <2>1. remaining' = [r \in Capped(limits) |-> (limits[r] - used[s][r]) - Units(a, r)]
    BY DEF Decide, Consume
  <2>2. \A r \in Capped(limits) :
          limits[r] - used'[s][r] = (limits[r] - used[s][r]) - Units(a, r)
    BY <1>1, <1>2, <1>4
  <2> QED
    BY <2>1, <2>2
<1>7. WithinCapacity'
  BY <1>3, <1>5 DEF WithinCapacity, Decide, Capped
<1> QED
  BY <1>3, <1>6, <1>7

LEMMA CapacityInit == Init => CapacityInv
BY DEF Init, CapacityInv, UseInv, WithinCapacity, NoUse, Capped, NoLimits

(* Steps that leave the plans' use alone, in phases where nothing is left  *)
(* to track.                                                               *)
LEMMA SameUse ==
  ASSUME CapacityInv, UNCHANGED <<used, limits>>,
         phase' \notin {"rule_based", "ev_greedy"},
         phase' \in Phase \ (Screened \ {"no_action"}) => used = NoUse
  PROVE  CapacityInv'
BY DEF CapacityInv, UseInv, WithinCapacity, Capped

LEMMA CapacityStep == TypeInv /\ CapacityInv /\ [Next]_vars => CapacityInv'
<1> SUFFICES ASSUME TypeInv, CapacityInv, [Next]_vars PROVE CapacityInv'
  OBVIOUS
<1> USE DEF TypeInv
<1>1. CASE UNCHANGED vars
  BY <1>1 DEF vars, CapacityInv, UseInv, WithinCapacity, Capped
<1>2. CASE Reject \/ Predict \/ Screen \/ Execute \/ ExecutionDone \/ Verify
  BY <1>2, SameUse
     DEF Reject, Predict, Screen, Execute, ExecutionDone, Verify, At, GoTo,
         planning, CapacityInv, UseInv, Screened, Phase
<1>3. CASE Accept
  <2>1. used' = NoUse /\ phase' = "predict"
    BY <1>3 DEF Accept, At, GoTo, planning, CapacityInv, UseInv, Screened, Phase
  <2>2. Capped(limits)' \subseteq Resource
    BY <1>3, ResolvedType DEF Accept, Capped, TypeOK
  <2>3. \A s \in Strategy, r \in Capped(limits)' : used'[s][r] = 0
    BY <2>1, <2>2 DEF NoUse
  <2> QED
    BY <2>1, <2>3 DEF CapacityInv, UseInv, WithinCapacity
<1>4. CASE PlanNoAction
  <2>1. LimitsUsable /\ used = NoUse /\ used["rule_based"] = ZeroUse
    BY <1>4 DEF PlanNoAction, At, StageInv, Screened, CapacityInv, UseInv, Phase,
       NoUse, Strategy, ZeroUse
  <2>2. remaining' = [r \in Capped(limits) |-> limits[r] - used["rule_based"][r]]
    BY <1>4, <2>1, StartOnWhole DEF PlanNoAction, StartPlanner, Strategy
  <2> QED
    BY <1>4, <2>1, <2>2
       DEF PlanNoAction, StartPlanner, GoTo, CapacityInv, UseInv, WithinCapacity,
           Capped, Phase, Screened, NoUse, Strategy, ZeroUse
<1>5. CASE PlanRuleBased
  <2>0. PICK t \in FirstRow : \E a \in RuleChoices(t) : Decide("rule_based", t, a)
    BY <1>5 DEF PlanRuleBased
  <2>1. PICK a \in RuleChoices(t) : Decide("rule_based", t, a)
    BY <2>0
  <2>2. t \in Txn /\ a \in Action /\ CanConsume(remaining, a)
    BY RuleChoiceFacts DEF FirstRow, TypeOK
  <2>3. phase = "rule_based" /\ phase' = phase /\ limits' = limits /\ LimitsUsable
    BY <1>5, <2>1 DEF PlanRuleBased, At, Decide, StageInv, Screened
  <2>4. remaining = [r \in Capped(limits) |-> limits[r] - used["rule_based"][r]]
    BY <2>3 DEF CapacityInv, UseInv
  <2>5. /\ WithinCapacity'
        /\ remaining' = [r \in Capped(limits) |-> limits[r] - used'["rule_based"][r]]
        /\ used'["ev_greedy"] = used["ev_greedy"]
    BY <2>1, <2>2, <2>3, <2>4, DecideFits DEF CapacityInv, Strategy
  <2> QED
    BY <2>3, <2>5 DEF CapacityInv, UseInv, Capped, Phase, Screened
<1>6. CASE RuleBasedDone
  <2>1. LimitsUsable /\ used["ev_greedy"] = ZeroUse
    BY <1>6 DEF RuleBasedDone, At, StageInv, Screened, CapacityInv, UseInv
  <2>2. remaining' = [r \in Capped(limits) |-> limits[r] - used["ev_greedy"][r]]
    BY <1>6, <2>1, StartOnWhole DEF RuleBasedDone, StartPlanner, Strategy
  <2> QED
    BY <1>6, <2>1, <2>2
       DEF RuleBasedDone, StartPlanner, GoTo, CapacityInv, UseInv, WithinCapacity,
           Capped, Phase, Screened
<1>7. CASE PlanGreedy
  <2>0. PICK t \in NextByScore : \E a \in GreedyChoices(t) : Decide("ev_greedy", t, a)
    BY <1>7 DEF PlanGreedy
  <2>1. PICK a \in GreedyChoices(t) : Decide("ev_greedy", t, a)
    BY <2>0
  <2>2. t \in Txn /\ a \in Action /\ CanConsume(remaining, a)
    BY GreedyChoiceFacts DEF NextByScore, TypeOK
  <2>3. phase = "ev_greedy" /\ phase' = phase /\ limits' = limits /\ LimitsUsable
    BY <1>7, <2>1 DEF PlanGreedy, At, Decide, StageInv, Screened
  <2>4. remaining = [r \in Capped(limits) |-> limits[r] - used["ev_greedy"][r]]
    BY <2>3 DEF CapacityInv, UseInv
  <2>5. /\ WithinCapacity'
        /\ remaining' = [r \in Capped(limits) |-> limits[r] - used'["ev_greedy"][r]]
    BY <2>1, <2>2, <2>3, <2>4, DecideFits DEF CapacityInv, Strategy
  <2> QED
    BY <2>3, <2>5 DEF CapacityInv, UseInv, Capped, Phase, Screened
<1>8. CASE GreedyDone
  BY <1>8, SameUse DEF GreedyDone, At, GoTo, Phase, Screened
<1>9. ASSUME NEW c, Publish(c), NEW use \in [Resource -> Nat],
             used' = [used EXCEPT !["rpa_optimizer"] = use],
             \A r \in Capped(limits) : use[r] = 0 \/ use[r] <= limits[r]
      PROVE  CapacityInv'
  <2>1. WithinCapacity'
    BY <1>9 DEF Publish, CapacityInv, WithinCapacity, Capped, TypeOK, Strategy
  <2> QED
    BY <1>9, <2>1 DEF Publish, GoTo, CapacityInv, UseInv, Phase, Screened
<1>10. CASE SolverNotApproved
  <2>1. ZeroUse \in [Resource -> Nat] /\ Capped(limits) \subseteq Resource
    BY DEF ZeroUse, TypeOK, Capped
  <2> QED
    BY <1>9, <1>10, <2>1 DEF SolverNotApproved, ZeroUse
<1>11. ASSUME NEW c \in FeasibleChoices, NEW status, At("rpa_optimizer"),
              Solved(c, status)
       PROVE  CapacityInv'
  <2>1. LimitsUsable /\ Capped(limits) \subseteq Resource
    BY <1>11 DEF At, StageInv, Screened, TypeOK, Capped
  <2> QED
    BY <1>9, <1>11, <2>1, FeasibleUse DEF Solved
<1>12. CASE SolveOptimally
  <2>1. PICK c \in OptimalChoices : Solved(c, "optimal")
    BY <1>12 DEF SolveOptimally
  <2>2. c \in FeasibleChoices
    BY DEF OptimalChoices
  <2> QED
    BY <1>11, <1>12, <2>1, <2>2 DEF SolveOptimally
<1>13. CASE AcceptIncumbent
  BY <1>11, <1>13 DEF AcceptIncumbent
<1>14. CASE PredictionFails \/ ScreenFails \/ RuleBasedFails \/ ExecutionFails \/ Reexecute
  BY <1>14
     DEF PredictionFails, ScreenFails, RuleBasedFails, ExecutionFails, Reexecute,
         FailClosed, ResetRun, ClearResult, GoTo, CapacityInv, UseInv,
         WithinCapacity, NoUse, NoLimits, Capped
<1> QED
  BY <1>1, <1>2, <1>3, <1>4, <1>5, <1>6, <1>7, <1>8, <1>10, <1>12, <1>13, <1>14
     DEF Next, Pipeline

(* No plan of any strategy exceeds a limit, for every catalogue, batch and *)
(* order of the transactions, under negative limits too.                   *)
THEOREM CapacityRespected == Spec => []WithinCapacity
<1>1. TypeInv /\ CapacityInv /\ [Next]_vars => (TypeInv /\ CapacityInv)'
  BY TypeStep, CapacityStep
<1>2. Spec => [](TypeInv /\ CapacityInv)
  BY TypeInit, CapacityInit, <1>1, PTL DEF Spec
<1> QED
  BY <1>2, PTL DEF CapacityInv

-----------------------------------------------------------------------------
(* The policy gate.  Verdicts are what the policy says of each pair under  *)
(* the whole of the limits, and what was not blocked had one that allows.  *)

GateInv ==
  /\ phase \in Screened =>
       approved = {pair \in Txn \X Action :
                     Allowed(policy, batch[pair[1]], pair[2],
                             InitialResources(limits))}
  /\ \A s \in executed : \A t \in Txn :
       outcome[s][t] # "blocked" => IsApproved(t, choice[s][t])

LEMMA GateInit == Init => GateInv
BY DEF Init, GateInv, Screened

(* Steps that keep the verdicts and what was executed.                     *)
LEMMA SameGate ==
  ASSUME GateInv, phase \in Screened, executed' = executed,
         UNCHANGED <<policy, batch, limits, approved, outcome>>,
         \A s \in executed : choice'[s] = choice[s]
  PROVE  GateInv'
BY DEF GateInv, IsApproved, Allowed, CanConsume, InitialResources, Capped

LEMMA GateStep == TypeInv /\ GateInv /\ [Next]_vars => GateInv'
<1> SUFFICES ASSUME TypeInv, GateInv, [Next]_vars PROVE GateInv'
  OBVIOUS
<1> USE DEF TypeInv
<1>1. CASE UNCHANGED vars
  BY <1>1 DEF vars, GateInv, IsApproved
<1>2. CASE Reject \/ Accept \/ Predict
  BY <1>2 DEF Reject, Accept, Predict, At, GoTo, results, input, planning, GateInv,
     StageInv, Screened, Executing, IsApproved
<1>3. CASE Screen
  BY <1>3 DEF Screen, At, GoTo, results, input, planning, GateInv, StageInv,
     Executing
<1>4. CASE PlanNoAction \/ PlanRuleBased \/ RuleBasedDone \/ PlanGreedy \/ GreedyDone
  <2>1. phase \in Screened /\ executed = {}
    BY <1>4 DEF PlanNoAction, PlanRuleBased, RuleBasedDone, PlanGreedy, GreedyDone,
       At, StageInv, Screened, Executing
  <2>2. UNCHANGED <<policy, batch, limits, approved, outcome, executed>>
    BY <1>4 DEF PlanNoAction, PlanRuleBased, RuleBasedDone, PlanGreedy, GreedyDone,
       Decide, input, results
  <2> QED
    BY <2>1, <2>2, SameGate
<1>5. CASE SolverNotApproved \/ SolveOptimally \/ AcceptIncumbent
  <2>1. phase \in Screened /\ executed = {}
    BY <1>5 DEF SolverNotApproved, SolveOptimally, AcceptIncumbent, At, StageInv,
       Screened, Executing
  <2>2. UNCHANGED <<policy, batch, limits, approved, outcome, executed>>
    BY <1>5 DEF SolverNotApproved, SolveOptimally, AcceptIncumbent, Solved, Publish,
       input
  <2> QED
    BY <2>1, <2>2, SameGate
<1>6. CASE Execute
  <2>1. PICK s \in planned \ executed :
          /\ outcome' = [outcome EXCEPT ![s] = [t \in Txn |-> Run(s, t)]]
          /\ executed' = executed \cup {s}
    BY <1>6 DEF Execute
  <2>2. UNCHANGED <<policy, batch, limits, approved, choice, phase>>
    BY <1>6 DEF Execute, input, planning
  <2>3. \A t \in Txn : outcome'[s][t] # "blocked" => IsApproved(t, choice[s][t])
    BY <2>1 DEF Run, MayRun, TypeOK
  <2>4. \A u \in executed : outcome'[u] = outcome[u]
    BY <2>1 DEF TypeOK
  <2> QED
    BY <2>1, <2>2, <2>3, <2>4 DEF GateInv, IsApproved
<1>7. CASE ExecutionDone \/ Verify
  <2>1. UNCHANGED <<policy, batch, limits, approved, outcome, executed, choice>>
    BY <1>7 DEF ExecutionDone, Verify, input, planning, results
  <2> QED
    BY <1>7, <2>1, SameGate DEF ExecutionDone, Verify, At, Screened
<1>8. CASE PredictionFails \/ ScreenFails \/ RuleBasedFails \/ ExecutionFails \/ Reexecute
  BY <1>8
     DEF PredictionFails, ScreenFails, RuleBasedFails, ExecutionFails, Reexecute,
         FailClosed, ResetRun, ClearResult, GoTo, GateInv, Screened
<1> QED
  BY <1>1, <1>2, <1>3, <1>4, <1>5, <1>6, <1>7, <1>8 DEF Next, Pipeline

(* Whatever a planner selects, no action is attempted on a transaction the *)
(* policy blocks it for.                                                   *)
THEOREM BlockedNeverRuns == Spec => []NeverRunsBlocked
<1>1. TypeInv /\ GateInv => NeverRunsBlocked
  <2> SUFFICES ASSUME TypeInv, GateInv, NEW s \in executed, NEW t \in Txn,
                      outcome[s][t] # "blocked"
               PROVE  Allowed(policy, batch[t], choice[s][t], InitialResources(limits))
    BY DEF NeverRunsBlocked
  <2>1. phase \in Screened
    BY DEF TypeInv, TypeOK, StageInv, Screened, Executing
  <2>2. <<t, choice[s][t]>> \in approved
    BY DEF GateInv, IsApproved
  <2> QED
    BY <2>1, <2>2 DEF GateInv
<1>2. TypeInv /\ GateInv /\ [Next]_vars => (TypeInv /\ GateInv)'
  BY TypeStep, GateStep
<1>3. Spec => [](TypeInv /\ GateInv)
  BY TypeInit, GateInit, <1>2, PTL DEF Spec
<1> QED
  BY <1>1, <1>3, PTL

-----------------------------------------------------------------------------
(* All or nothing.  Once a planner is done its plan is complete; while it  *)
(* works, every transaction it has left behind has an action.              *)

Complete(s) == \A t \in Txn : choice[s][t] \in Action
CompleteSoFar(s) == \A t \in Txn \ todo : choice[s][t] \in Action

PlansInv ==
  /\ phase \notin Screened \ {"no_action"} => choice = NoChoice
  /\ phase \in Screened \ {"no_action"} => Complete("no_action")
  /\ phase = "rule_based" => CompleteSoFar("rule_based")
  /\ phase \in Screened \ {"no_action", "rule_based"} => Complete("rule_based")
  /\ phase = "ev_greedy" => CompleteSoFar("ev_greedy")
  /\ phase \in Executing \cup {"rpa_optimizer"} => Complete("ev_greedy")
  /\ phase \in Executing => Complete("rpa_optimizer")

RunInv ==
  /\ phase \in Executing => planned = Requested(request)
  /\ phase \in {"verify", "completed"} => executed = planned
  /\ \A s \in executed : \A t \in Txn : outcome[s][t] \in Outcome

LEMMA PlansInit == Init => PlansInv /\ RunInv
BY DEF Init, PlansInv, RunInv, Screened, Executing

LEMMA DecideCompletes ==
  ASSUME TypeOK, NEW s \in Strategy, NEW t \in Txn, NEW a \in Action,
         CompleteSoFar(s), Decide(s, t, a)
  PROVE  /\ CompleteSoFar(s)'
         /\ \A u \in Strategy \ {s} : choice'[u] = choice[u]
<1>1. \A u \in Strategy \ {s} : choice'[u] = choice[u]
  BY DEF Decide, TypeOK
<1>2. choice'[s] = [choice[s] EXCEPT ![t] = a] /\ choice[s] \in Plan
  BY DEF Decide, TypeOK
<1>3. CompleteSoFar(s)'
  BY <1>2 DEF CompleteSoFar, Decide, Plan
<1> QED
  BY <1>1, <1>3

LEMMA PlansStep == TypeInv /\ PlansInv /\ [Next]_vars => PlansInv'
<1> SUFFICES ASSUME TypeInv, PlansInv, [Next]_vars PROVE PlansInv'
  OBVIOUS
<1> USE DEF TypeInv
<1>1. CASE UNCHANGED vars
  BY <1>1 DEF vars, PlansInv, Complete, CompleteSoFar
<1>2. CASE Reject \/ Accept \/ Predict \/ Screen
  BY <1>2 DEF Reject, Accept, Predict, Screen, At, GoTo, planning, PlansInv,
     Screened, Executing
<1>3. CASE PlanNoAction
  <2>1. Complete("no_action")' /\ todo' = Txn /\ phase' = "rule_based"
    BY <1>3, NoOpFacts
       DEF PlanNoAction, StartPlanner, GoTo, Complete, TypeOK, Strategy
  <2> QED
    BY <2>1 DEF PlansInv, CompleteSoFar, Screened, Executing
<1>4. CASE PlanRuleBased
  <2>0. PICK t \in FirstRow : \E a \in RuleChoices(t) : Decide("rule_based", t, a)
    BY <1>4 DEF PlanRuleBased
  <2>1. PICK a \in RuleChoices(t) : Decide("rule_based", t, a)
    BY <2>0
  <2>2. t \in Txn /\ a \in Action /\ "rule_based" \in Strategy
    BY RuleChoiceFacts DEF FirstRow, TypeOK, Strategy
  <2>3. phase = "rule_based" /\ phase' = phase
    BY <1>4, <2>1 DEF PlanRuleBased, At, Decide
  <2>4. CompleteSoFar("rule_based")' /\ choice'["no_action"] = choice["no_action"]
    BY <2>1, <2>2, <2>3, DecideCompletes DEF PlansInv, Strategy
  <2> QED
    BY <2>3, <2>4 DEF PlansInv, Complete, Screened, Executing
<1>5. CASE RuleBasedDone
  BY <1>5 DEF RuleBasedDone, StartPlanner, At, GoTo, PlansInv, Complete,
     CompleteSoFar, Screened, Executing
<1>6. CASE PlanGreedy
  <2>0. PICK t \in NextByScore : \E a \in GreedyChoices(t) : Decide("ev_greedy", t, a)
    BY <1>6 DEF PlanGreedy
  <2>1. PICK a \in GreedyChoices(t) : Decide("ev_greedy", t, a)
    BY <2>0
  <2>2. t \in Txn /\ a \in Action /\ "ev_greedy" \in Strategy
    BY GreedyChoiceFacts DEF NextByScore, TypeOK, Strategy
  <2>3. phase = "ev_greedy" /\ phase' = phase
    BY <1>6, <2>1 DEF PlanGreedy, At, Decide
  <2>4. /\ CompleteSoFar("ev_greedy")'
        /\ choice'["no_action"] = choice["no_action"]
        /\ choice'["rule_based"] = choice["rule_based"]
    BY <2>1, <2>2, <2>3, DecideCompletes DEF PlansInv, Strategy
  <2> QED
    BY <2>3, <2>4 DEF PlansInv, Complete, Screened, Executing
<1>7. CASE GreedyDone
  BY <1>7 DEF GreedyDone, At, GoTo, PlansInv, Complete, CompleteSoFar, Screened,
     Executing
<1>8. ASSUME NEW c \in [Txn -> Action], At("rpa_optimizer"), Publish(c)
      PROVE  PlansInv'
  BY <1>8 DEF Publish, At, GoTo, PlansInv, Complete, TypeOK, Strategy, Screened,
     Executing
<1>9. CASE SolverNotApproved \/ SolveOptimally \/ AcceptIncumbent
  BY <1>8, <1>9, NoOpFacts
     DEF SolverNotApproved, SolveOptimally, AcceptIncumbent, Solved,
         OptimalChoices, FeasibleChoices
<1>10. CASE Execute \/ ExecutionDone \/ Verify
  BY <1>10 DEF Execute, ExecutionDone, Verify, At, GoTo, planning, PlansInv,
     Complete, Screened, Executing
<1>11. CASE PredictionFails \/ ScreenFails \/ RuleBasedFails \/ ExecutionFails \/ Reexecute
  BY <1>11
     DEF PredictionFails, ScreenFails, RuleBasedFails, ExecutionFails, Reexecute,
         FailClosed, ResetRun, ClearResult, GoTo, PlansInv, Screened, Executing
<1> QED
  BY <1>1, <1>2, <1>3, <1>4, <1>5, <1>6, <1>7, <1>9, <1>10, <1>11 DEF Next, Pipeline

LEMMA RunStep == TypeInv /\ RunInv /\ [Next]_vars => RunInv'
<1> SUFFICES ASSUME TypeInv, RunInv, [Next]_vars PROVE RunInv'
  OBVIOUS
<1> USE DEF TypeInv
<1>1. CASE UNCHANGED vars
  BY <1>1 DEF vars, RunInv
<1>2. CASE Reject \/ Accept \/ Predict \/ Screen
  BY <1>2 DEF Reject, Accept, Predict, Screen, At, GoTo, results, RunInv, StageInv,
     Executing
<1>3. CASE PlanNoAction \/ PlanRuleBased \/ RuleBasedDone \/ PlanGreedy \/ GreedyDone
  <2>1. phase' \notin Executing /\ executed' = executed /\ executed = {}
    BY <1>3 DEF PlanNoAction, PlanRuleBased, RuleBasedDone, PlanGreedy, GreedyDone,
       Decide, StartPlanner, At, GoTo, results, StageInv, Executing
  <2> QED
    BY <2>1 DEF RunInv, Executing
<1>4. CASE SolverNotApproved \/ SolveOptimally \/ AcceptIncumbent
  BY <1>4 DEF SolverNotApproved, SolveOptimally, AcceptIncumbent, Solved, Publish,
     At, GoTo, input, RunInv, StageInv, Executing
<1>5. CASE Execute
  <2>1. PICK s \in planned \ executed :
          /\ outcome' = [outcome EXCEPT ![s] = [t \in Txn |-> Run(s, t)]]
          /\ executed' = executed \cup {s}
    BY <1>5 DEF Execute
  <2>2. \A t \in Txn : outcome'[s][t] \in Outcome
    BY <2>1 DEF Run, Outcome, TypeOK
  <2>3. \A u \in executed : outcome'[u] = outcome[u]
    BY <2>1 DEF TypeOK
  <2> QED
    BY <1>5, <2>1, <2>2, <2>3 DEF Execute, At, input, RunInv, Executing
<1>6. CASE ExecutionDone \/ Verify
  BY <1>6 DEF ExecutionDone, Verify, At, GoTo, input, results, RunInv, Executing
<1>7. CASE PredictionFails \/ ScreenFails \/ RuleBasedFails \/ ExecutionFails \/ Reexecute
  BY <1>7
     DEF PredictionFails, ScreenFails, RuleBasedFails, ExecutionFails, Reexecute,
         FailClosed, ResetRun, ClearResult, GoTo, RunInv, Executing
<1> QED
  BY <1>1, <1>2, <1>3, <1>4, <1>5, <1>6, <1>7 DEF Next, Pipeline

(* A completed batch decides and executes every transaction under every    *)
(* strategy requested; a failed one carries no plan and no outcome.        *)
THEOREM CompletesOrFailsClosed == Spec => []AllOrNothing
<1>1. TypeInv /\ PlansInv /\ RunInv => AllOrNothing
  <2> SUFFICES ASSUME TypeInv, PlansInv, RunInv PROVE AllOrNothing
    OBVIOUS
  <2>1. phase = "completed" => \A s \in Strategy : Complete(s)
    BY DEF PlansInv, Strategy, Screened, Executing
  <2>2. phase = "completed" =>
          planned = Requested(request) /\ executed = planned /\ planned \subseteq Strategy
    BY DEF RunInv, Executing, TypeInv, TypeOK
  <2>3. phase \in {"error", "rejected"} =>
          choice = NoChoice /\ outcome = NoChoice /\ verified = {}
    BY DEF PlansInv, TypeInv, StageInv, Screened, Executing
  <2> QED
    BY <2>1, <2>2, <2>3 DEF AllOrNothing, Complete, RunInv
<1>2. TypeInv /\ PlansInv /\ RunInv /\ [Next]_vars => (TypeInv /\ PlansInv /\ RunInv)'
  BY TypeStep, PlansStep, RunStep
<1>3. Spec => [](TypeInv /\ PlansInv /\ RunInv)
  BY TypeInit, PlansInit, <1>2, PTL DEF Spec
<1> QED
  BY <1>1, <1>3, PTL

-----------------------------------------------------------------------------
(* Outcomes.  What was executed is what executing it again would yield:    *)
(* nothing an outcome depends on changes once strategies are executed.     *)

OutcomeInv == \A s \in executed : \A t \in Txn : outcome[s][t] = Run(s, t)

(* A larger probability is a larger threshold for the same draw.           *)
LEMMA ClipMonotone ==
  ASSUME NEW p \in 0..Scale, NEW q \in 0..Scale, p <= q
  PROVE  Clip(p) \in Int /\ Clip(q) \in Int /\ Clip(p) <= Clip(q)
BY ScaleAssumption DEF Clip

LEMMA OutcomeStep == TypeInv /\ OutcomeInv /\ [Next]_vars => OutcomeInv'
<1> SUFFICES ASSUME TypeInv, OutcomeInv, [Next]_vars PROVE OutcomeInv'
  OBVIOUS
<1> USE DEF TypeInv
<1>1. CASE UNCHANGED vars
  BY <1>1 DEF vars, OutcomeInv, Run, MayRun, IsApproved, Draw
<1>2. CASE Reject \/ Accept \/ Predict \/ Screen \/ PlanNoAction \/ PlanRuleBased
           \/ RuleBasedDone \/ PlanGreedy \/ GreedyDone
  <2>1. executed' = {}
    BY <1>2 DEF Reject, Accept, Predict, Screen, PlanNoAction, PlanRuleBased,
       RuleBasedDone, PlanGreedy, GreedyDone, Decide, results, At, StageInv, Executing
  <2> QED
    BY <2>1 DEF OutcomeInv
<1>3. CASE SolverNotApproved \/ SolveOptimally \/ AcceptIncumbent
  <2>1. executed' = {}
    BY <1>3 DEF SolverNotApproved, SolveOptimally, AcceptIncumbent, Solved, Publish,
       At, StageInv, Executing
  <2> QED
    BY <2>1 DEF OutcomeInv
<1>4. CASE Execute
  <2>1. PICK s \in planned \ executed :
          /\ outcome' = [outcome EXCEPT ![s] = [t \in Txn |-> Run(s, t)]]
          /\ executed' = executed \cup {s}
    BY <1>4 DEF Execute
  <2>2. \A u \in Strategy, t \in Txn : Run(u, t)' = Run(u, t)
    BY <1>4 DEF Execute, input, planning, Run, MayRun, IsApproved, Draw
  <2>3. \A u \in executed' : \A t \in Txn : outcome'[u][t] = Run(u, t)
    BY <2>1 DEF OutcomeInv, TypeOK
  <2> QED
    BY <2>1, <2>2, <2>3 DEF OutcomeInv, TypeOK
<1>5. CASE ExecutionDone \/ Verify
  BY <1>5 DEF ExecutionDone, Verify, input, planning, results, OutcomeInv, Run,
     MayRun, IsApproved, Draw
<1>6. CASE PredictionFails \/ ScreenFails \/ RuleBasedFails \/ ExecutionFails \/ Reexecute
  BY <1>6
     DEF PredictionFails, ScreenFails, RuleBasedFails, ExecutionFails, Reexecute,
         FailClosed, ResetRun, ClearResult, OutcomeInv
<1> QED
  BY <1>1, <1>2, <1>3, <1>4, <1>5, <1>6 DEF Next, Pipeline

(* The same transaction under the same seed has one realisation for every  *)
(* strategy: only its approval and its action's probability matter.        *)
THEOREM OutcomesPaired == Spec => []PairedOutcomes
<1>1. TypeInv /\ PlansInv /\ OutcomeInv => PairedOutcomes
  <2> SUFFICES ASSUME TypeInv, PlansInv, OutcomeInv,
                      NEW s \in executed, NEW u \in executed, NEW t \in Txn,
                      outcome[s][t] = "successful", outcome[u][t] # "blocked",
                      batch[t].prob[choice[s][t]] <= batch[t].prob[choice[u][t]]
               PROVE  outcome[u][t] = "successful"
    BY DEF PairedOutcomes
  <2>1. s \in Strategy /\ u \in Strategy /\ phase \in Executing
    BY DEF TypeInv, TypeOK, StageInv
  <2>2. choice[s][t] \in Action /\ choice[u][t] \in Action
    BY <2>1 DEF PlansInv, Complete, Strategy, Screened, Executing
  <2>3. batch[t] \in Profile
    BY BatchAssumption DEF TypeInv, TypeOK
  <2>4. batch[t].prob[choice[s][t]] \in 0..Scale /\ batch[t].prob[choice[u][t]] \in 0..Scale
    BY <2>2, <2>3 DEF Profile
  <2>5. Draw(s, t) = Draw(u, t)
    BY DEF Draw
  <2>6. DrawOf[ids[t]][request.seed] \in Int
    BY BatchAssumption, ScaleAssumption DEF TypeInv, TypeOK, Requests
  <2>7. Draw(s, t) < Clip(batch[t].prob[choice[s][t]])
    BY DEF OutcomeInv, Run
  <2>8. Draw(u, t) < Clip(batch[t].prob[choice[u][t]])
    BY <2>4, <2>5, <2>6, <2>7, ClipMonotone DEF Draw
  <2> QED
    BY <2>8 DEF OutcomeInv, Run
<1>2. Init => OutcomeInv
  BY DEF Init, OutcomeInv
<1>3. TypeInv /\ PlansInv /\ OutcomeInv /\ [Next]_vars
        => (TypeInv /\ PlansInv /\ OutcomeInv)'
  BY TypeStep, PlansStep, OutcomeStep
<1>4. Spec => [](TypeInv /\ PlansInv /\ OutcomeInv)
  BY TypeInit, PlansInit, <1>2, <1>3, PTL DEF Spec
<1> QED
  BY <1>1, <1>4, PTL
-----------------------------------------------------------------------------
(* Reported use.  The loops add up what they decide; the use of a plan is  *)
(* a sum over the batch.  They agree at every step if what is undecided    *)
(* counts nothing.                                                         *)

UnitsOf(a, r) == IF a = None THEN 0 ELSE Units(a, r)
Spent(plan, r) == SumTo([t \in Txn |-> UnitsOf(plan[t], r)], NTxn)

Undecided == [t \in Txn |-> None]

ExactInv ==
  /\ \A s \in Strategy : \A r \in Resource : used[s][r] = Spent(choice[s], r)
  /\ phase = "rule_based" =>
       /\ \A t \in todo : choice["rule_based"][t] = None
       /\ choice["ev_greedy"] = Undecided
  /\ phase = "ev_greedy" => \A t \in todo : choice["ev_greedy"][t] = None

LEMMA ActionNotNone == ASSUME NEW a \in Action PROVE a # None
BY BatchAssumption, CatalogueAssumption DEF Action

LEMMA UnitsOfType ==
  ASSUME NEW a \in Action \cup {None}, NEW r \in Resource
  PROVE  UnitsOf(a, r) \in Nat
BY UnitsType DEF UnitsOf

(* Nothing decided, nothing spent; the no-op everywhere spends nothing.    *)
LEMMA NothingSpent ==
  ASSUME NEW r \in Resource
  PROVE  Spent(Undecided, r) = 0 /\ Spent([t \in Txn |-> NoOp], r) = 0
<1>1. \A t \in 1..NTxn : [u \in Txn |-> UnitsOf(Undecided[u], r)][t] = 0
  BY DEF Txn, Undecided, UnitsOf
<1>2. \A t \in 1..NTxn : [u \in Txn |-> UnitsOf([v \in Txn |-> NoOp][u], r)][t] = 0
  BY NoOpFacts DEF Txn, UnitsOf
<1> QED
  BY <1>1, <1>2, SumZero, BatchAssumption DEF Spent

(* What a complete plan spends is its use.                                 *)
LEMMA CompleteSpent ==
  ASSUME NEW c \in [Txn -> Action], NEW r \in Resource
  PROVE  Spent(c, r) = UseOf(c, r)
<1>1. [t \in Txn |-> UnitsOf(c[t], r)] = [t \in Txn |-> Units(c[t], r)]
  BY ActionNotNone DEF UnitsOf
<1> QED
  BY <1>1 DEF Spent, UseOf

(* A decision spends the units of its action.                              *)
LEMMA DecideSpends ==
  ASSUME NEW c \in Plan, NEW t \in Txn, NEW a \in Action, NEW r \in Resource, c[t] = None
  PROVE  Spent([c EXCEPT ![t] = a], r) = Spent(c, r) + Units(a, r)
<1> DEFINE old == [u \in Txn |-> UnitsOf(c[u], r)]
           plan == [c EXCEPT ![t] = a]
           new == [u \in Txn |-> UnitsOf(plan[u], r)]
<1>1. \A u \in 1..NTxn :
        old[u] \in Nat /\ new[u] \in Nat /\ (u # t => old[u] = new[u])
  BY UnitsOfType DEF Txn, Plan
<1>2. old[t] = 0 /\ new[t] = Units(a, r) /\ Units(a, r) \in Nat
  BY ActionNotNone, UnitsType DEF UnitsOf, Plan
<1>3. t \in 1..NTxn /\ NTxn \in Nat
  BY BatchAssumption DEF Txn
<1> HIDE DEF old, new
<1>4. SumTo(new, NTxn) + old[t] = SumTo(old, NTxn) + new[t]
  BY <1>1, <1>3, SumReplace
<1>5. SumTo(new, NTxn) \in Nat /\ SumTo(old, NTxn) \in Nat
  BY <1>1, <1>3, SumNat
<1>6. SumTo(new, NTxn) = SumTo(old, NTxn) + Units(a, r)
  BY <1>2, <1>4, <1>5
<1> QED
  BY <1>6 DEF Spent, old, new

LEMMA NothingExact ==
  ASSUME NEW s \in Strategy, NEW r \in Resource
  PROVE  NoUse[s][r] = Spent(NoChoice[s], r)
BY NothingSpent DEF NoUse, NoChoice, Undecided

LEMMA ExactInit == Init => ExactInv
BY NothingExact DEF Init, ExactInv

(* Steps that keep the plans and what they use, outside the loops.         *)
LEMMA SameExact ==
  ASSUME ExactInv, UNCHANGED <<used, choice>>, phase' \notin {"rule_based", "ev_greedy"}
  PROVE  ExactInv'
BY DEF ExactInv, Spent, UnitsOf

(* A decision of a loop keeps the account of its plan.                     *)
LEMMA DecideExact ==
  ASSUME TypeOK, ExactInv, NEW s \in Strategy, NEW t \in Txn, NEW a \in Action,
         choice[s][t] = None, Decide(s, t, a)
  PROVE  \A u \in Strategy : \A r \in Resource : used'[u][r] = Spent(choice'[u], r)
<1> SUFFICES ASSUME NEW u \in Strategy, NEW r \in Resource
             PROVE  used'[u][r] = Spent(choice'[u], r)
  OBVIOUS
<1>1. CASE u # s
  <2>1. used'[u] = used[u] /\ choice'[u] = choice[u]
    BY <1>1 DEF Decide, TypeOK
  <2> QED
    BY <2>1 DEF ExactInv
<1>2. CASE u = s
  <2>1. choice[s] \in Plan
    BY DEF TypeOK
  <2>2. choice'[s] = [choice[s] EXCEPT ![t] = a]
    BY DEF Decide, TypeOK
  <2>3. used'[s][r] = used[s][r] + Units(a, r)
    BY DEF Decide, TypeOK
  <2>4. Spent([choice[s] EXCEPT ![t] = a], r) = Spent(choice[s], r) + Units(a, r)
    BY <2>1, DecideSpends
  <2> QED
    BY <1>2, <2>2, <2>3, <2>4 DEF ExactInv
<1> QED
  BY <1>1, <1>2

LEMMA ExactStep == TypeInv /\ PlansInv /\ ExactInv /\ [Next]_vars => ExactInv'
<1> SUFFICES ASSUME TypeInv, PlansInv, ExactInv, [Next]_vars PROVE ExactInv'
  OBVIOUS
<1> USE DEF TypeInv
<1>1. CASE UNCHANGED vars
  BY <1>1 DEF vars, ExactInv, Spent, UnitsOf
<1>2. CASE Reject \/ Accept \/ Predict \/ Screen \/ GreedyDone
           \/ Execute \/ ExecutionDone \/ Verify
  BY <1>2, SameExact
     DEF Reject, Accept, Predict, Screen, GreedyDone, Execute, ExecutionDone, Verify,
         At, GoTo, planning
<1>3. CASE PlanNoAction
  <2>1. choice = NoChoice
    BY <1>3 DEF PlanNoAction, At, PlansInv, Screened
  <2>2. /\ choice'["no_action"] = [t \in Txn |-> NoOp]
        /\ \A s \in Strategy \ {"no_action"} : choice'[s] = Undecided
        /\ used' = used /\ phase' = "rule_based"
    BY <1>3, <2>1 DEF PlanNoAction, StartPlanner, GoTo, NoChoice, Undecided, Strategy
  <2>3. \A s \in Strategy : \A r \in Resource : used[s][r] = 0
    BY <2>1, NothingSpent DEF ExactInv, NoChoice, Undecided
  <2>4. \A s \in Strategy : \A r \in Resource : used'[s][r] = Spent(choice'[s], r)
    BY <2>2, <2>3, NothingSpent
  <2>5. \A t \in todo' : choice'["rule_based"][t] = None
    BY <1>3, <2>2 DEF PlanNoAction, StartPlanner, Strategy, Undecided
  <2>6. choice'["ev_greedy"] = Undecided
    BY <2>2 DEF Strategy
  <2> QED
    BY <2>2, <2>4, <2>5, <2>6 DEF ExactInv, Spent, UnitsOf, Undecided
<1>4. CASE PlanRuleBased
  <2>0. PICK t \in FirstRow : \E a \in RuleChoices(t) : Decide("rule_based", t, a)
    BY <1>4 DEF PlanRuleBased
  <2>1. PICK a \in RuleChoices(t) : Decide("rule_based", t, a)
    BY <2>0
  <2>2. t \in todo /\ t \in Txn /\ a \in Action /\ "rule_based" \in Strategy
    BY RuleChoiceFacts DEF FirstRow, TypeOK, Strategy
  <2>3. phase = "rule_based" /\ phase' = phase /\ todo' = todo \ {t}
    BY <1>4, <2>1 DEF PlanRuleBased, At, Decide
  <2>4. \A u \in Strategy : \A r \in Resource : used'[u][r] = Spent(choice'[u], r)
    BY <2>1, <2>2, <2>3, DecideExact DEF ExactInv
  <2>5. /\ \A u \in todo' : choice'["rule_based"][u] = None
        /\ choice'["ev_greedy"] = Undecided
    BY <2>1, <2>2, <2>3 DEF Decide, ExactInv, TypeOK, Strategy, Plan
  <2> QED
    BY <2>3, <2>4, <2>5 DEF ExactInv, Spent, UnitsOf, Undecided
<1>5. CASE RuleBasedDone
  <2>1. UNCHANGED <<used, choice>> /\ phase' = "ev_greedy" /\ choice["ev_greedy"] = Undecided
    BY <1>5 DEF RuleBasedDone, StartPlanner, At, GoTo, ExactInv
  <2>2. \A t \in todo' : choice'["ev_greedy"][t] = None
    BY <1>5, <2>1 DEF RuleBasedDone, StartPlanner, Undecided
  <2> QED
    BY <2>1, <2>2 DEF ExactInv, Spent, UnitsOf
<1>6. CASE PlanGreedy
  <2>0. PICK t \in NextByScore : \E a \in GreedyChoices(t) : Decide("ev_greedy", t, a)
    BY <1>6 DEF PlanGreedy
  <2>1. PICK a \in GreedyChoices(t) : Decide("ev_greedy", t, a)
    BY <2>0
  <2>2. t \in todo /\ t \in Txn /\ a \in Action /\ "ev_greedy" \in Strategy
    BY GreedyChoiceFacts DEF NextByScore, TypeOK, Strategy
  <2>3. phase = "ev_greedy" /\ phase' = phase /\ todo' = todo \ {t}
    BY <1>6, <2>1 DEF PlanGreedy, At, Decide
  <2>4. \A u \in Strategy : \A r \in Resource : used'[u][r] = Spent(choice'[u], r)
    BY <2>1, <2>2, <2>3, DecideExact DEF ExactInv
  <2>5. \A u \in todo' : choice'["ev_greedy"][u] = None
    BY <2>1, <2>2, <2>3 DEF Decide, ExactInv, TypeOK, Strategy, Plan
  <2> QED
    BY <2>3, <2>4, <2>5 DEF ExactInv, Spent, UnitsOf
<1>7. ASSUME NEW c \in [Txn -> Action], Publish(c),
             used' = [used EXCEPT !["rpa_optimizer"] = [r \in Resource |-> UseOf(c, r)]]
      PROVE  ExactInv'
  <2>1. \A s \in Strategy \ {"rpa_optimizer"} : used'[s] = used[s] /\ choice'[s] = choice[s]
    BY <1>7 DEF Publish, TypeOK
  <2>2. choice'["rpa_optimizer"] = c /\ \A r \in Resource : used'["rpa_optimizer"][r] = UseOf(c, r)
    BY <1>7 DEF Publish, TypeOK, Strategy
  <2>3. \A s \in Strategy : \A r \in Resource : used'[s][r] = Spent(choice'[s], r)
    BY <1>7, <2>1, <2>2, CompleteSpent DEF ExactInv
  <2>4. phase' = "execute"
    BY <1>7 DEF Publish, GoTo
  <2> QED
    BY <2>3, <2>4 DEF ExactInv, Spent, UnitsOf
<1>8. CASE SolverNotApproved
  <2> DEFINE noOps == [t \in Txn |-> NoOp]
  <2>1. noOps \in [Txn -> Action] /\ Publish(noOps)
    BY <1>8, NoOpFacts DEF SolverNotApproved
  <2>2. \A r \in Resource : UseOf(noOps, r) = 0
    BY <2>1, NothingSpent, CompleteSpent
  <2>3. [r \in Resource |-> 0] = [r \in Resource |-> UseOf(noOps, r)]
    BY <2>2
  <2>4. used' = [used EXCEPT !["rpa_optimizer"] = [r \in Resource |-> UseOf(noOps, r)]]
    BY <1>8, <2>3 DEF SolverNotApproved
  <2> HIDE DEF noOps
  <2> QED
    BY <1>7, <2>1, <2>4
<1>9. CASE SolveOptimally \/ AcceptIncumbent
  <2>1. PICK c \in FeasibleChoices, status \in {"optimal", "feasible"} : Solved(c, status)
    BY <1>9 DEF SolveOptimally, AcceptIncumbent, OptimalChoices
  <2> QED
    BY <1>7, <2>1, FeasibleUse DEF Solved
<1>10. CASE PredictionFails \/ ScreenFails \/ RuleBasedFails \/ ExecutionFails \/ Reexecute
  <2>1. used' = NoUse /\ choice' = NoChoice /\ phase' \in {"error", "request"}
    BY <1>10
       DEF PredictionFails, ScreenFails, RuleBasedFails, ExecutionFails, Reexecute,
           FailClosed, ResetRun, ClearResult, GoTo
  <2> QED
    BY <2>1, NothingExact DEF ExactInv, Spent, UnitsOf
<1> QED
  BY <1>1, <1>2, <1>3, <1>4, <1>5, <1>6, <1>8, <1>9, <1>10 DEF Next, Pipeline

(* Every plan a result keeps reports what its actions require, whether a   *)
(* loop added it up, the solver summed it or the fallback wrote zeros.     *)
THEOREM UseReportedExactly == Spec => []ReportedUseExact
<1>1. TypeInv /\ PlansInv /\ ExactInv => ReportedUseExact
  <2> SUFFICES ASSUME TypeInv, PlansInv, ExactInv, NEW s \in planned, NEW r \in Resource
               PROVE  used[s][r] = UseOf(choice[s], r)
    BY DEF ReportedUseExact
  <2>1. s \in Strategy /\ phase \in Executing
    BY DEF TypeInv, TypeOK, StageInv
  <2>2. choice[s] \in [Txn -> Action]
    BY <2>1 DEF PlansInv, Complete, TypeInv, TypeOK, Plan, Strategy, Screened, Executing
  <2> QED
    BY <2>1, <2>2, CompleteSpent DEF ExactInv
<1>2. TypeInv /\ PlansInv /\ ExactInv /\ [Next]_vars => (TypeInv /\ PlansInv /\ ExactInv)'
  BY TypeStep, PlansStep, ExactStep
<1>3. Spec => [](TypeInv /\ PlansInv /\ ExactInv)
  BY TypeInit, PlansInit, ExactInit, <1>2, PTL DEF Spec
<1> QED
  BY <1>1, <1>3, PTL

-----------------------------------------------------------------------------
(* Optimality.  Nothing the value of a plan depends on changes after the   *)
(* solver, and the plans of the loops satisfy its constraints.             *)

OptimumInv ==
  phase \in Executing /\ solver = "optimal" => choice["rpa_optimizer"] \in OptimalChoices

(* Verdicts, limits and batch determine the optimal plans.                 *)
LEMMA SameOptimum ==
  ASSUME UNCHANGED <<batch, limits, approved>>
  PROVE  OptimalChoices' = OptimalChoices
<1>1. ASSUME NEW CONSTANT t, NEW CONSTANT a PROVE MaskedEV(t, a)' = MaskedEV(t, a)
  BY DEF MaskedEV, IsApproved, EV
<1>2. ASSUME NEW CONSTANT c PROVE PlanValue(c)' = PlanValue(c)
  <2>1. [t \in Txn |-> MaskedEV(t, c[t])]' = [t \in Txn |-> MaskedEV(t, c[t])]
    BY <1>1
  <2> QED
    BY <2>1 DEF PlanValue
<1>3. ASSUME NEW CONSTANT c PROVE WithinLimits(c)' = WithinLimits(c)
  BY DEF WithinLimits, Capped, UseOf
<1>4. FeasibleChoices' = FeasibleChoices
  BY <1>3 DEF FeasibleChoices
<1> QED
  BY <1>2, <1>4 DEF OptimalChoices

LEMMA OptimumStep == TypeInv /\ OptimumInv /\ [Next]_vars => OptimumInv'
<1> SUFFICES ASSUME TypeInv, OptimumInv, [Next]_vars PROVE OptimumInv'
  OBVIOUS
<1> USE DEF TypeInv
<1>1. ASSUME UNCHANGED <<batch, limits, approved, choice, solver>>, phase \in Executing
      PROVE  OptimumInv'
  BY <1>1, SameOptimum DEF OptimumInv
<1>2. CASE UNCHANGED vars
  <2>1. UNCHANGED <<batch, limits, approved, choice, solver, phase>>
    BY <1>2 DEF vars
  <2> QED
    BY <2>1, SameOptimum DEF OptimumInv
<1>3. CASE Execute \/ ExecutionDone \/ Verify
  BY <1>1, <1>3 DEF Execute, ExecutionDone, Verify, At, input, planning, Executing
<1>4. CASE SolveOptimally
  <2>1. PICK c \in OptimalChoices : Solved(c, "optimal")
    BY <1>4 DEF SolveOptimally
  <2>2. choice'["rpa_optimizer"] = c /\ UNCHANGED <<batch, limits, approved>>
    BY <2>1 DEF Solved, Publish, input, TypeOK, Strategy
  <2> QED
    BY <2>1, <2>2, SameOptimum DEF OptimumInv
<1>5. CASE AcceptIncumbent \/ SolverNotApproved
  BY <1>5 DEF AcceptIncumbent, SolverNotApproved, Solved, OptimumInv
<1>6. CASE Reject \/ Accept \/ Predict \/ Screen \/ PlanNoAction \/ PlanRuleBased
           \/ RuleBasedDone \/ PlanGreedy \/ GreedyDone
  <2>1. phase' \notin Executing
    BY <1>6 DEF Reject, Accept, Predict, Screen, PlanNoAction, PlanRuleBased,
       RuleBasedDone, PlanGreedy, GreedyDone, Decide, StartPlanner, At, GoTo, Executing
  <2> QED
    BY <2>1 DEF OptimumInv
<1>7. CASE PredictionFails \/ ScreenFails \/ RuleBasedFails \/ ExecutionFails \/ Reexecute
  BY <1>7
     DEF PredictionFails, ScreenFails, RuleBasedFails, ExecutionFails, Reexecute,
         FailClosed, ResetRun, ClearResult, GoTo, OptimumInv, Executing
<1> QED
  BY <1>2, <1>3, <1>4, <1>5, <1>6, <1>7 DEF Next, Pipeline

(* No baseline's plan is worth more than a proven optimum: each satisfies  *)
(* the constraints of the integer program, under the same verdicts.        *)
THEOREM OptimumDominates == Spec => []OptimizerDominates
<1> DEFINE I == TypeInv /\ CapacityInv /\ PlansInv /\ ExactInv /\ OptimumInv
<1>1. I => OptimizerDominates
  <2> SUFFICES ASSUME I, phase = "completed", solver = "optimal", NEW s \in Strategy
               PROVE  PlanValue(choice[s]) <= PlanValue(choice["rpa_optimizer"])
    BY DEF OptimizerDominates
  <2> DEFINE best == choice["rpa_optimizer"]
  <2>1. best \in OptimalChoices
    BY DEF OptimumInv, Executing
  <2>2. best \in [Txn -> Action] /\ WithinLimits(best)
    BY <2>1 DEF OptimalChoices, FeasibleChoices
  <2>3. choice[s] \in [Txn -> Action]
    BY DEF PlansInv, Complete, TypeInv, TypeOK, Plan, Strategy, Screened, Executing
  <2>4. ASSUME NEW r \in Capped(limits) PROVE UseOf(choice[s], r) <= limits[r]
    <3>1. r \in Resource /\ limits[r] \in Int
      BY InitialType DEF TypeInv, StageInv, Screened, TypeOK, Capped
    <3>2. UseOf(best, r) \in Nat /\ UseOf(best, r) <= limits[r]
      BY <2>2, <3>1, UseType DEF WithinLimits
    <3>3. used[s][r] = UseOf(choice[s], r)
      BY <2>3, <3>1, CompleteSpent DEF ExactInv
    <3>4. used[s][r] = 0 \/ used[s][r] <= limits[r]
      BY DEF CapacityInv, WithinCapacity
    <3> QED
      BY <3>1, <3>2, <3>3, <3>4
  <2>5. choice[s] \in FeasibleChoices
    BY <2>3, <2>4 DEF FeasibleChoices, WithinLimits
  <2> QED
    BY <2>1, <2>5 DEF OptimalChoices
<1>2. Init => OptimumInv
  BY DEF Init, OptimumInv, Executing
<1>3. I /\ [Next]_vars => I'
  BY TypeStep, CapacityStep, PlansStep, ExactStep, OptimumStep
<1>4. Spec => []I
  BY TypeInit, CapacityInit, PlansInit, ExactInit, <1>2, <1>3, PTL DEF Spec
<1> QED
  BY <1>1, <1>4, PTL
-----------------------------------------------------------------------------
(* Reproduction.  A loop is deterministic: given policy, batch and limits, *)
(* what it has left to do determines the next transaction and its action.  *)
(* So two runs of it that reach the end went through the same states.  The *)
(* operators below are the planners' on explicit arguments: p, b and l are *)
(* the policy, batch and limits of a run.                                  *)

Gate(p, b, l) ==
  {pair \in Txn \X Action : Allowed(p, b[pair[1]], pair[2], InitialResources(l))}

RuleOptions(b, gate, left, t) ==
  LET Fits(a) == <<t, a>> \in gate /\ CanConsume(left, a)
      preferred == {a \in Action : Catalogue[a].type = Preferred(b[t]) /\ Fits(a)}
  IN  IF preferred # {} THEN preferred ELSE {a \in {NoOp} : Fits(a)}

ScoredIn(gate, l, t) ==
  {a \in Action : <<t, a>> \in gate /\ CanConsume(InitialResources(l), a)}
AtLeast(b, gate, l, t, u) ==
  \A y \in ScoredIn(gate, l, u) : \E x \in ScoredIn(gate, l, t) :
    NetEV(b[t], x) * Magnitude(y) >= NetEV(b[u], y) * Magnitude(x)
BeatsIn(b, gate, t, x, y) ==
  IF <<t, x>> \in gate
  THEN <<t, y>> \notin gate \/ NetEV(b[t], x) > NetEV(b[t], y)
       \/ (NetEV(b[t], x) = NetEV(b[t], y) /\ x < y)
  ELSE <<t, y>> \notin gate /\ x < y
GreedyOptions(b, gate, left, t) ==
  LET fits == {a \in Action : CanConsume(left, a)}
  IN  {a \in fits : \A x \in fits \ {a} : BeatsIn(b, gate, t, a, x)}

\* Which transaction is next, and what may be chosen for it.
Loops == {"rule_based", "ev_greedy"}
Turn(s, b, gate, l, open) ==
  IF s = "rule_based" THEN {t \in open : \A u \in open : t <= u}
  ELSE {t \in open : \A u \in open \ {t} :
          AtLeast(b, gate, l, t, u) /\ (AtLeast(b, gate, l, u, t) => t < u)}
Options(s, b, gate, left, t) ==
  IF s = "rule_based" THEN RuleOptions(b, gate, left, t)
  ELSE GreedyOptions(b, gate, left, t)

\* A state of a loop, its first state and its steps.
LoopState(open, left, plan) == [open |-> open, left |-> left, plan |-> plan]
FirstState(l) == LoopState(Txn, InitialResources(l), Undecided)
Moves(s, p, b, l, x, y) ==
  \E t \in Turn(s, b, Gate(p, b, l), l, x.open) :
    \E a \in Options(s, b, Gate(p, b, l), x.left, t) :
      y = LoopState(x.open \ {t}, Consume(x.left, a), [x.plan EXCEPT ![t] = a])

Trace(s, p, b, l, n, tr) ==
  /\ tr[0] = FirstState(l)
  /\ \A i \in 0..(n - 1) : tr[i].open \subseteq Txn /\ Moves(s, p, b, l, tr[i], tr[i + 1])
Reached(s, p, b, l, x) == \E n \in Nat : \E tr : Trace(s, p, b, l, n, tr) /\ tr[n] = x
Yields(s, p, b, l, plan) ==
  \E x : Reached(s, p, b, l, x) /\ x.open = {} /\ x.plan = plan

(* Verdicts and expected values are the ones of the model.                 *)
LEMMA ExpectedType ==
  ASSUME NEW b \in Batches, NEW t \in Txn, NEW a \in Action
  PROVE  NetEV(b[t], a) \in Int
<1>1. b[t] \in Profile
  BY BatchAssumption
<1>2. b[t].prob[a] \in 0..Scale /\ b[t].amount \in Nat
  BY <1>1 DEF Profile
<1>3. Catalogue[a] \in ActionSpec
  BY CatalogueAssumption DEF Action
<1>4. Catalogue[a].cost \in Nat /\ Units(a, "incentive_budget") \in Nat
  BY <1>3, UnitsType DEF ActionSpec, Resource
<1>5. TotalCost(a) \in Int
  BY <1>4, ScaleAssumption DEF TotalCost, IncentiveFee
<1>6. Clip(b[t].prob[a]) \in Int
  BY <1>2, ScaleAssumption DEF Clip
<1> QED
  BY <1>2, <1>5, <1>6 DEF NetEV

(* The choice of a step is determined.                                     *)
LEMMA OneTurn ==
  ASSUME NEW s \in Loops, NEW b, NEW gate, NEW l, NEW open \in SUBSET Txn,
         NEW t \in Turn(s, b, gate, l, open), NEW u \in Turn(s, b, gate, l, open)
  PROVE  t = u
<1>1. t \in Int /\ u \in Int /\ t \in open /\ u \in open
  BY BatchAssumption DEF Turn, Txn
<1>2. CASE s = "rule_based"
  BY <1>1, <1>2 DEF Turn
<1>3. CASE s = "ev_greedy"
  <2> SUFFICES ASSUME t # u PROVE FALSE
    OBVIOUS
  <2>1. AtLeast(b, gate, l, t, u) /\ (AtLeast(b, gate, l, u, t) => t < u)
    BY <1>1, <1>3 DEF Turn
  <2>2. AtLeast(b, gate, l, u, t) /\ (AtLeast(b, gate, l, t, u) => u < t)
    BY <1>1, <1>3 DEF Turn
  <2> QED
    BY <1>1, <2>1, <2>2
<1> QED
  BY <1>2, <1>3 DEF Loops

LEMMA OneOption ==
  ASSUME NEW s \in Loops, NEW b \in Batches, NEW gate, NEW left, NEW t \in Txn,
         NEW x \in Options(s, b, gate, left, t), NEW y \in Options(s, b, gate, left, t)
  PROVE  x = y
<1>1. CASE s = "rule_based"
  BY <1>1, CatalogueAssumption, NoOpFacts DEF Options, RuleOptions
<1>2. CASE s = "ev_greedy"
  <2> SUFFICES ASSUME x # y PROVE FALSE
    OBVIOUS
  <2>1. x \in Action /\ y \in Action /\ BeatsIn(b, gate, t, x, y) /\ BeatsIn(b, gate, t, y, x)
    BY <1>2 DEF Options, GreedyOptions
  <2>2. x \in Int /\ y \in Int
    BY <2>1, CatalogueAssumption DEF Action
  <2>3. NetEV(b[t], x) \in Int /\ NetEV(b[t], y) \in Int
    BY <2>1, ExpectedType
  <2> QED
    BY <2>1, <2>2, <2>3 DEF BeatsIn
<1> QED
  BY <1>1, <1>2 DEF Loops

LEMMA MovesDetermined ==
  ASSUME NEW s \in Loops, NEW p, NEW b \in Batches, NEW l,
         NEW x, NEW y, NEW z, x.open \subseteq Txn,
         Moves(s, p, b, l, x, y), Moves(s, p, b, l, x, z)
  PROVE  y = z
<1> DEFINE gate == Gate(p, b, l)
<1>1. PICK t \in Turn(s, b, gate, l, x.open) :
        \E a \in Options(s, b, gate, x.left, t) :
          y = LoopState(x.open \ {t}, Consume(x.left, a), [x.plan EXCEPT ![t] = a])
  BY DEF Moves
<1>2. PICK u \in Turn(s, b, gate, l, x.open) :
        \E a \in Options(s, b, gate, x.left, u) :
          z = LoopState(x.open \ {u}, Consume(x.left, a), [x.plan EXCEPT ![u] = a])
  BY DEF Moves
<1> HIDE DEF gate
<1>3. t = u /\ t \in Txn
  <2>1. x.open \in SUBSET Txn
    OBVIOUS
  <2>2. t \in x.open
    BY DEF Turn
  <2> QED
    BY <2>1, <2>2, OneTurn
<1>4. PICK a \in Options(s, b, gate, x.left, t) :
        y = LoopState(x.open \ {t}, Consume(x.left, a), [x.plan EXCEPT ![t] = a])
  BY <1>1
<1>5. PICK c \in Options(s, b, gate, x.left, t) :
        z = LoopState(x.open \ {t}, Consume(x.left, c), [x.plan EXCEPT ![t] = c])
  BY <1>2, <1>3
<1>6. a = c
  BY <1>3, OneOption
<1> QED
  BY <1>4, <1>5, <1>6

LEMMA TracesAgree ==
  ASSUME NEW s \in Loops, NEW p, NEW b \in Batches, NEW l,
         NEW n \in Nat, NEW f, Trace(s, p, b, l, n, f),
         NEW m \in Nat, NEW g, Trace(s, p, b, l, m, g),
         NEW k \in Nat, k <= n, k <= m
  PROVE  f[k] = g[k]
<1> DEFINE S == {i \in Nat : (i <= n /\ i <= m) => f[i] = g[i]}
<1>1. 0 \in S
  BY DEF Trace
<1>2. ASSUME NEW i \in S PROVE i + 1 \in S
  <2>1. SUFFICES ASSUME i + 1 <= n, i + 1 <= m PROVE f[i + 1] = g[i + 1]
    OBVIOUS
  <2>2. i \in 0..(n - 1) /\ i \in 0..(m - 1) /\ f[i] = g[i]
    BY <2>1
  <2>3. f[i].open \subseteq Txn /\ Moves(s, p, b, l, f[i], f[i + 1])
    BY <2>2 DEF Trace
  <2>4. Moves(s, p, b, l, f[i], g[i + 1])
    BY <2>2 DEF Trace
  <2> QED
    BY <2>3, <2>4, MovesDetermined
<1>3. S = Nat
  BY <1>1, <1>2, SetInduction
<1> QED
  BY <1>3

(* A loop that has nothing left to decide takes no step.                   *)
LEMMA NoMoveAtEnd ==
  ASSUME NEW s \in Loops, NEW p, NEW b, NEW l, NEW x, NEW y, x.open = {}
  PROVE  ~ Moves(s, p, b, l, x, y)
BY DEF Moves, Turn

LEMMA OnePlan ==
  ASSUME NEW s \in Loops, NEW p, NEW b \in Batches, NEW l, NEW c, NEW d,
         Yields(s, p, b, l, c), Yields(s, p, b, l, d)
  PROVE  c = d
<1>1. PICK x : Reached(s, p, b, l, x) /\ x.open = {} /\ x.plan = c
  BY DEF Yields
<1>2. PICK y : Reached(s, p, b, l, y) /\ y.open = {} /\ y.plan = d
  BY DEF Yields
<1>3. PICK n \in Nat : \E f : Trace(s, p, b, l, n, f) /\ f[n] = x
  BY <1>1 DEF Reached
<1>4. PICK f : Trace(s, p, b, l, n, f) /\ f[n] = x
  BY <1>3
<1>5. PICK m \in Nat : \E g : Trace(s, p, b, l, m, g) /\ g[m] = y
  BY <1>2 DEF Reached
<1>6. PICK g : Trace(s, p, b, l, m, g) /\ g[m] = y
  BY <1>5
<1>7. CASE n < m
  <2>1. g[n] = x
    BY <1>4, <1>6, <1>7, TracesAgree
  <2>2. Moves(s, p, b, l, g[n], g[n + 1])
    BY <1>6, <1>7 DEF Trace
  <2> QED
    BY <1>1, <2>1, <2>2, NoMoveAtEnd
<1>8. CASE m < n
  <2>1. f[m] = y
    BY <1>4, <1>6, <1>8, TracesAgree
  <2>2. Moves(s, p, b, l, f[m], f[m + 1])
    BY <1>4, <1>8 DEF Trace
  <2> QED
    BY <1>2, <2>1, <2>2, NoMoveAtEnd
<1>9. CASE n = m
  <2>1. x = y
    BY <1>4, <1>6, <1>9, TracesAgree
  <2> QED
    BY <1>1, <1>2, <2>1
<1> QED
  BY <1>7, <1>8, <1>9

(* Where a loop can be and where it goes from there.                       *)
LEMMA ReachedFirst ==
  ASSUME NEW s, NEW p, NEW b, NEW l
  PROVE  Reached(s, p, b, l, FirstState(l))
<1> DEFINE tr == [i \in {0} |-> FirstState(l)]
<1>1. Trace(s, p, b, l, 0, tr) /\ tr[0] = FirstState(l)
  BY DEF Trace
<1> QED
  BY <1>1 DEF Reached

LEMMA ReachedNext ==
  ASSUME NEW s, NEW p, NEW b, NEW l, NEW x, NEW y,
         Reached(s, p, b, l, x), x.open \subseteq Txn, Moves(s, p, b, l, x, y)
  PROVE  Reached(s, p, b, l, y)
<1>1. PICK n \in Nat : \E tr : Trace(s, p, b, l, n, tr) /\ tr[n] = x
  BY DEF Reached
<1>2. PICK tr : Trace(s, p, b, l, n, tr) /\ tr[n] = x
  BY <1>1
<1> DEFINE longer == [i \in 0..(n + 1) |-> IF i = n + 1 THEN y ELSE tr[i]]
<1>3. longer[0] = FirstState(l)
  BY <1>2 DEF Trace
<1>4. ASSUME NEW i \in 0..((n + 1) - 1)
      PROVE  longer[i].open \subseteq Txn /\ Moves(s, p, b, l, longer[i], longer[i + 1])
  <2>1. CASE i = n
    <3>1. longer[i] = x /\ longer[i + 1] = y
      BY <1>2, <2>1
    <3> QED
      BY <3>1
  <2>2. CASE i # n
    <3>1. i \in 0..(n - 1) /\ longer[i] = tr[i] /\ longer[i + 1] = tr[i + 1]
      BY <2>2
    <3> QED
      BY <1>2, <3>1 DEF Trace
  <2> QED
    BY <2>1, <2>2
<1>5. longer[n + 1] = y /\ n + 1 \in Nat
  OBVIOUS
<1> HIDE DEF longer
<1> QED
  BY <1>3, <1>4, <1>5 DEF Reached, Trace
\* Where the loops of the current run are, and what they came to.
ReplayInv ==
  /\ phase \in Screened \ {"no_action"} => choice["no_action"] = [t \in Txn |-> NoOp]
  /\ \A s \in Loops : phase = s =>
       Reached(s, policy, batch, limits, LoopState(todo, remaining, choice[s]))
  /\ phase \in Screened \ {"no_action", "rule_based"} =>
       Yields("rule_based", policy, batch, limits, choice["rule_based"])
  /\ phase \in Executing \cup {"rpa_optimizer"} =>
       Yields("ev_greedy", policy, batch, limits, choice["ev_greedy"])

\* What executing action a on transaction t yields, given verdicts and seed.
Realised(gate, b, id, seed, t, a) ==
  IF <<t, a>> \notin gate THEN "blocked"
  ELSE IF DrawOf[id][seed] < Clip(b[t].prob[a]) THEN "successful" ELSE "failed"

\* A run has the plans and the outcomes its policy, batch, ids, limits and seed
\* determine.
Determined(run, p) ==
  /\ run.planned \subseteq Strategy
  /\ run.choice["no_action"] = [t \in Txn |-> NoOp]
  /\ \A s \in Loops : Yields(s, p, run.batch, run.limits, run.choice[s])
  /\ \A s \in run.planned : \A t \in Txn :
       run.outcome[s][t] = Realised(Gate(p, run.batch, run.limits), run.batch, run.ids[t],
                                    run.seed, t, run.choice[s][t])

StoredInv ==
  /\ reruns > 0 => stored # None /\ (stored.customers => batch = stored.batch)
  /\ stored # None => Determined(stored, policy)

(* The planners' own operators are those of the loops.                     *)
LEMMA RuleMoves ==
  ASSUME TypeOK, GateInv, phase = "rule_based",
         NEW t \in FirstRow, NEW a \in RuleChoices(t), Decide("rule_based", t, a)
  PROVE  Moves("rule_based", policy, batch, limits,
               LoopState(todo, remaining, choice["rule_based"]),
               LoopState(todo', remaining', choice'["rule_based"]))
<1> DEFINE x == LoopState(todo, remaining, choice["rule_based"])
<1>1. approved = Gate(policy, batch, limits)
  BY DEF GateInv, Gate, Screened
<1>2. t \in Turn("rule_based", batch, Gate(policy, batch, limits), limits, x.open)
  BY DEF FirstRow, Turn, LoopState
<1>3. a \in Options("rule_based", batch, Gate(policy, batch, limits), x.left, t)
  BY <1>1 DEF RuleChoices, FollowsRule, Takes, IsApproved, Options, RuleOptions, LoopState
<1>4. LoopState(todo', remaining', choice'["rule_based"])
        = LoopState(x.open \ {t}, Consume(x.left, a), [x.plan EXCEPT ![t] = a])
  BY DEF Decide, LoopState, TypeOK, Strategy
<1> QED
  BY <1>2, <1>3, <1>4 DEF Moves

LEMMA GreedyMoves ==
  ASSUME TypeOK, GateInv, phase = "ev_greedy",
         NEW t \in NextByScore, NEW a \in GreedyChoices(t), Decide("ev_greedy", t, a)
  PROVE  Moves("ev_greedy", policy, batch, limits,
               LoopState(todo, remaining, choice["ev_greedy"]),
               LoopState(todo', remaining', choice'["ev_greedy"]))
<1> DEFINE x == LoopState(todo, remaining, choice["ev_greedy"])
           gate == Gate(policy, batch, limits)
<1>1. approved = gate
  BY DEF GateInv, Gate, Screened
<1> HIDE DEF gate
<1>2. \A u \in Txn : Scored(u) = ScoredIn(gate, limits, u)
  BY <1>1 DEF Scored, ScoredIn, IsApproved
<1>3. \A u, v \in Txn : ScoreAtLeast(u, v) <=> AtLeast(batch, gate, limits, u, v)
  BY <1>2 DEF ScoreAtLeast, AtLeast, EV
<1>4. t \in Turn("ev_greedy", batch, gate, limits, x.open)
  BY <1>3 DEF NextByScore, Turn, LoopState, TypeOK
<1>5. \A c, d \in Action : Beats(t, c, d) <=> BeatsIn(batch, gate, t, c, d)
  BY <1>1 DEF Beats, BeatsIn, IsApproved, EV
<1>6. a \in Options("ev_greedy", batch, gate, x.left, t)
  BY <1>5 DEF GreedyChoices, Options, GreedyOptions, LoopState
<1>7. LoopState(todo', remaining', choice'["ev_greedy"])
        = LoopState(x.open \ {t}, Consume(x.left, a), [x.plan EXCEPT ![t] = a])
  BY DEF Decide, LoopState, TypeOK, Strategy
<1> QED
  BY <1>4, <1>6, <1>7 DEF Moves, gate

LEMMA ReplayStep ==
  TypeInv /\ GateInv /\ PlansInv /\ ExactInv /\ ReplayInv /\ [Next]_vars => ReplayInv'
<1> SUFFICES ASSUME TypeInv, GateInv, PlansInv, ExactInv, ReplayInv, [Next]_vars
             PROVE  ReplayInv'
  OBVIOUS
<1> USE DEF TypeInv
<1>1. CASE UNCHANGED vars
  BY <1>1 DEF vars, ReplayInv
<1>2. CASE Reject \/ Accept \/ Predict \/ Screen
  <2>1. phase' \in {"rejected", "predict", "screen", "no_action"}
    BY <1>2 DEF Reject, Accept, Predict, Screen, GoTo
  <2> QED
    BY <2>1 DEF ReplayInv, Screened, Executing, Loops
<1>3. CASE PlanNoAction
  <2>1. choice = NoChoice
    BY <1>3 DEF PlanNoAction, At, PlansInv, Screened
  <2>2. /\ phase' = "rule_based" /\ todo' = Txn /\ remaining' = InitialResources(limits)
        /\ choice'["no_action"] = [t \in Txn |-> NoOp] /\ choice'["rule_based"] = Undecided
        /\ UNCHANGED <<policy, batch, limits>>
    BY <1>3, <2>1
       DEF PlanNoAction, StartPlanner, GoTo, input, NoChoice, Undecided, Strategy
  <2>3. LoopState(todo', remaining', choice'["rule_based"]) = FirstState(limits)
    BY <2>2 DEF FirstState
  <2>4. Reached("rule_based", policy, batch, limits,
                LoopState(todo', remaining', choice'["rule_based"]))
    BY <2>3, ReachedFirst
  <2> QED
    BY <2>2, <2>4 DEF ReplayInv, Screened, Executing, Loops
<1>4. CASE PlanRuleBased
  <2>0. PICK t \in FirstRow : \E a \in RuleChoices(t) : Decide("rule_based", t, a)
    BY <1>4 DEF PlanRuleBased
  <2>1. PICK a \in RuleChoices(t) : Decide("rule_based", t, a)
    BY <2>0
  <2>2. phase = "rule_based" /\ UNCHANGED <<phase, policy, batch, limits>>
    BY <1>4, <2>1 DEF PlanRuleBased, At, Decide, input
  <2> DEFINE x == LoopState(todo, remaining, choice["rule_based"])
             y == LoopState(todo', remaining', choice'["rule_based"])
  <2>3. Moves("rule_based", policy, batch, limits, x, y)
    BY <2>1, <2>2, RuleMoves
  <2>4. Reached("rule_based", policy, batch, limits, x) /\ x.open \subseteq Txn
    BY <2>2 DEF ReplayInv, Loops, LoopState, TypeOK
  <2> HIDE DEF x
  <2>5. Reached("rule_based", policy, batch, limits, y)
    BY <2>3, <2>4, ReachedNext
  <2>6. choice'["no_action"] = choice["no_action"]
    BY <2>1 DEF Decide, TypeOK, Strategy
  <2> QED
    BY <2>2, <2>5, <2>6 DEF ReplayInv, Screened, Executing, Loops
<1>5. CASE RuleBasedDone
  <2>1. /\ phase = "rule_based" /\ todo = {}
        /\ phase' = "ev_greedy" /\ todo' = Txn /\ remaining' = InitialResources(limits)
        /\ UNCHANGED <<policy, batch, limits, choice>>
    BY <1>5 DEF RuleBasedDone, StartPlanner, At, GoTo, input
  <2> DEFINE x == LoopState(todo, remaining, choice["rule_based"])
  <2>2. Reached("rule_based", policy, batch, limits, x)
    BY <2>1 DEF ReplayInv, Loops
  <2>3. x.open = {} /\ x.plan = choice["rule_based"]
    BY <2>1 DEF LoopState
  <2> HIDE DEF x
  <2>4. Yields("rule_based", policy, batch, limits, choice["rule_based"])
    BY <2>2, <2>3 DEF Yields
  <2>5. choice["ev_greedy"] = Undecided
    BY <2>1 DEF ExactInv
  <2>6. LoopState(todo', remaining', choice'["ev_greedy"]) = FirstState(limits)
    BY <2>1, <2>5 DEF FirstState
  <2>7. Reached("ev_greedy", policy, batch, limits,
                LoopState(todo', remaining', choice'["ev_greedy"]))
    BY <2>6, ReachedFirst
  <2> QED
    BY <2>1, <2>4, <2>7 DEF ReplayInv, Screened, Executing, Loops
<1>6. CASE PlanGreedy
  <2>0. PICK t \in NextByScore : \E a \in GreedyChoices(t) : Decide("ev_greedy", t, a)
    BY <1>6 DEF PlanGreedy
  <2>1. PICK a \in GreedyChoices(t) : Decide("ev_greedy", t, a)
    BY <2>0
  <2>2. phase = "ev_greedy" /\ UNCHANGED <<phase, policy, batch, limits>>
    BY <1>6, <2>1 DEF PlanGreedy, At, Decide, input
  <2> DEFINE x == LoopState(todo, remaining, choice["ev_greedy"])
             y == LoopState(todo', remaining', choice'["ev_greedy"])
  <2>3. Moves("ev_greedy", policy, batch, limits, x, y)
    BY <2>1, <2>2, GreedyMoves
  <2>4. Reached("ev_greedy", policy, batch, limits, x) /\ x.open \subseteq Txn
    BY <2>2 DEF ReplayInv, Loops, LoopState, TypeOK
  <2> HIDE DEF x
  <2>5. Reached("ev_greedy", policy, batch, limits, y)
    BY <2>3, <2>4, ReachedNext
  <2>6. choice'["no_action"] = choice["no_action"] /\ choice'["rule_based"] = choice["rule_based"]
    BY <2>1 DEF Decide, TypeOK, Strategy
  <2> QED
    BY <2>2, <2>5, <2>6 DEF ReplayInv, Screened, Executing, Loops
<1>7. CASE GreedyDone
  <2>1. /\ phase = "ev_greedy" /\ todo = {} /\ phase' = "rpa_optimizer"
        /\ UNCHANGED <<policy, batch, limits, choice>>
    BY <1>7 DEF GreedyDone, At, GoTo, input
  <2> DEFINE x == LoopState(todo, remaining, choice["ev_greedy"])
  <2>2. Reached("ev_greedy", policy, batch, limits, x)
    BY <2>1 DEF ReplayInv, Loops
  <2>3. x.open = {} /\ x.plan = choice["ev_greedy"]
    BY <2>1 DEF LoopState
  <2> HIDE DEF x
  <2>4. Yields("ev_greedy", policy, batch, limits, choice["ev_greedy"])
    BY <2>2, <2>3 DEF Yields
  <2> QED
    BY <2>1, <2>4 DEF ReplayInv, Screened, Executing, Loops
<1>8. CASE SolverNotApproved \/ SolveOptimally \/ AcceptIncumbent
  <2>1. /\ phase = "rpa_optimizer" /\ phase' = "execute"
        /\ UNCHANGED <<policy, batch, limits>>
        /\ \A s \in Strategy \ {"rpa_optimizer"} : choice'[s] = choice[s]
    BY <1>8 DEF SolverNotApproved, SolveOptimally, AcceptIncumbent, Solved, Publish,
       At, GoTo, input, TypeOK
  <2> QED
    BY <2>1 DEF ReplayInv, Screened, Executing, Loops, Strategy
<1>9. CASE Execute \/ ExecutionDone \/ Verify
  <2>1. phase \in Executing /\ phase' \in Executing /\ UNCHANGED <<policy, batch, limits, choice>>
    BY <1>9 DEF Execute, ExecutionDone, Verify, At, GoTo, input, planning, Executing
  <2> QED
    BY <2>1 DEF ReplayInv, Screened, Executing, Loops
<1>10. CASE PredictionFails \/ ScreenFails \/ RuleBasedFails \/ ExecutionFails \/ Reexecute
  <2>1. phase' \in {"error", "request"}
    BY <1>10
       DEF PredictionFails, ScreenFails, RuleBasedFails, ExecutionFails, Reexecute,
           FailClosed, GoTo
  <2> QED
    BY <2>1 DEF ReplayInv, Screened, Executing, Loops
<1> QED
  BY <1>1, <1>2, <1>3, <1>4, <1>5, <1>6, <1>7, <1>8, <1>9, <1>10 DEF Next, Pipeline

(* A run that is stored is determined like every other.                    *)
LEMMA RecordDetermined ==
  ASSUME TypeInv, GateInv, RunInv, OutcomeInv, ReplayInv, phase \in {"verify", "completed"}
  PROVE  \A customers \in BOOLEAN : Determined(Record(customers), policy)
<1>1. phase \in Screened /\ phase \in Executing
  BY DEF Screened, Executing
<1>2. approved = Gate(policy, batch, limits) /\ executed = planned /\ planned \subseteq Strategy
  BY <1>1 DEF GateInv, Gate, RunInv, TypeInv, TypeOK
<1>3. \A s \in planned : \A t \in Txn :
        outcome[s][t] = Realised(Gate(policy, batch, limits), batch, ids[t],
                                   request.seed, t, choice[s][t])
  BY <1>2 DEF OutcomeInv, Run, MayRun, IsApproved, Draw, Realised
<1>4. /\ choice["no_action"] = [t \in Txn |-> NoOp]
      /\ \A s \in Loops : Yields(s, policy, batch, limits, choice[s])
  BY <1>1 DEF ReplayInv, Loops, Screened, Executing
<1> QED
  BY <1>2, <1>3, <1>4 DEF Determined, Record

LEMMA StoredStep ==
  TypeInv /\ GateInv /\ RunInv /\ OutcomeInv /\ ReplayInv /\ StoredInv /\ [Next]_vars
    => StoredInv'
<1> SUFFICES ASSUME TypeInv, GateInv, RunInv, OutcomeInv, ReplayInv, StoredInv, [Next]_vars
             PROVE  StoredInv'
  OBVIOUS
<1>1. CASE Verify
  <2>1. UNCHANGED <<policy, batch, reruns>> /\ phase = "verify"
    BY <1>1 DEF Verify, At
  <2>2. ASSUME stored = None, NEW customers \in BOOLEAN, stored' = Record(customers)
        PROVE  StoredInv'
    <3>1. Determined(Record(customers), policy)
      BY <2>1, RecordDetermined
    <3>2. Determined(stored', policy')
      BY <2>1, <2>2, <3>1 DEF Determined
    <3>3. ~(reruns' > 0)
      BY <2>1, <2>2 DEF StoredInv
    <3> QED
      BY <3>2, <3>3 DEF StoredInv
  <2>3. CASE UNCHANGED stored
    BY <2>1, <2>3 DEF StoredInv
  <2> QED
    BY <1>1, <2>2, <2>3 DEF Verify
<1>2. CASE Reexecute
  BY <1>2 DEF Reexecute, StoredInv, BatchesRead
<1>3. CASE ~Verify /\ ~Reexecute
  <2>1. UNCHANGED <<policy, batch, reruns, stored>>
    BY <1>3
       DEF Next, Pipeline, vars, input, Reject, Accept, Predict, PredictionFails, Screen,
           ScreenFails, PlanNoAction, PlanRuleBased, RuleBasedFails, RuleBasedDone,
           PlanGreedy, GreedyDone, SolverNotApproved, SolveOptimally, AcceptIncumbent,
           Solved, Publish, Execute, ExecutionFails, ExecutionDone, Decide, FailClosed
  <2> QED
    BY <2>1 DEF StoredInv
<1> QED
  BY <1>1, <1>2, <1>3

(* A second run on the stored transactions and customers: under the stored *)
(* limits it makes the deterministic plans again and blocks the same       *)
(* actions; under the stored seed an action selected again has the same    *)
(* outcome wherever the id survived the file.                              *)
THEOREM RerunIsTheSame == Spec => []RerunReproduces
<1> DEFINE I == /\ TypeInv /\ GateInv /\ PlansInv /\ RunInv /\ ExactInv
                /\ OutcomeInv /\ ReplayInv /\ StoredInv
<1>1. I => RerunReproduces
  <2> SUFFICES ASSUME I, phase = "completed", reruns > 0, stored.customers
               PROVE  RerunReproduces
    BY DEF RerunReproduces
  <2>1. Determined(stored, policy) /\ Determined(Record(TRUE), policy)
    BY RecordDetermined DEF StoredInv
  <2>2. /\ Record(TRUE).limits = limits /\ Record(TRUE).choice = choice
        /\ Record(TRUE).outcome = outcome /\ Record(TRUE).planned = planned
        /\ Record(TRUE).seed = request.seed /\ Record(TRUE).batch = batch
        /\ Record(TRUE).ids = ids
    BY DEF Record
  <2>3. batch = stored.batch /\ batch \in Batches
    BY DEF StoredInv, TypeInv, TypeOK
  <2>4. ASSUME limits = stored.limits, NEW s \in planned \cap stored.planned, s \in Deterministic
        PROVE  choice[s] = stored.choice[s]
    <3>1. CASE s = "no_action"
      BY <2>1, <2>2, <3>1 DEF Determined
    <3>2. CASE s \in Loops
      <4>1. /\ Yields(s, policy, batch, stored.limits, choice[s])
            /\ Yields(s, policy, batch, stored.limits, stored.choice[s])
        BY <2>1, <2>2, <2>3, <2>4, <3>2 DEF Determined
      <4> QED
        BY <2>3, <3>2, <4>1, OnePlan
    <3> QED
      BY <2>4, <3>1, <3>2 DEF Deterministic, Strategy, Loops
  <2>5. /\ \A s \in planned : \A t \in Txn :
             outcome[s][t] = Realised(Gate(policy, batch, limits), batch, ids[t],
                                      request.seed, t, choice[s][t])
        /\ \A s \in stored.planned : \A t \in Txn :
             stored.outcome[s][t] =
               Realised(Gate(policy, batch, stored.limits), batch, stored.ids[t],
                        stored.seed, t, stored.choice[s][t])
    <3>1. ASSUME NEW s \in planned, NEW t \in Txn
          PROVE  outcome[s][t] = Realised(Gate(policy, batch, limits), batch, ids[t],
                                          request.seed, t, choice[s][t])
      <4>1. Record(TRUE).outcome[s][t] =
              Realised(Gate(policy, Record(TRUE).batch, Record(TRUE).limits),
                       Record(TRUE).batch, Record(TRUE).ids[t], Record(TRUE).seed, t,
                       Record(TRUE).choice[s][t])
        BY <2>1, <2>2, <3>1 DEF Determined
      <4> QED
        BY <2>2, <4>1
    <3>2. ASSUME NEW s \in stored.planned, NEW t \in Txn
          PROVE  stored.outcome[s][t] =
                   Realised(Gate(policy, batch, stored.limits), batch, stored.ids[t],
                            stored.seed, t, stored.choice[s][t])
      BY <2>1, <2>3, <3>2 DEF Determined
    <3> QED
      BY <3>1, <3>2
  <2>6. ASSUME limits = stored.limits, NEW s \in planned \cap stored.planned, NEW t \in Txn,
               choice[s][t] = stored.choice[s][t]
        PROVE  outcome[s][t] = "blocked" <=> stored.outcome[s][t] = "blocked"
    <3>1. \A id, seed : Realised(Gate(policy, batch, limits), batch, id, seed, t, choice[s][t])
                         = "blocked"
                       <=> <<t, choice[s][t]>> \notin Gate(policy, batch, limits)
      BY DEF Realised
    <3> QED
      BY <2>5, <2>6, <3>1
  <2>7. ASSUME request.seed = stored.seed, NEW s \in planned, NEW u \in stored.planned,
               NEW t \in Txn, ids[t] = stored.ids[t], choice[s][t] = stored.choice[u][t],
               "blocked" \notin {outcome[s][t], stored.outcome[u][t]}
        PROVE  outcome[s][t] = stored.outcome[u][t]
    <3> DEFINE done(gate) ==
                 Realised(gate, batch, ids[t], request.seed, t, choice[s][t])
    <3>1. outcome[s][t] = done(Gate(policy, batch, limits))
      BY <2>5, <2>7
    <3>2. stored.outcome[u][t] = done(Gate(policy, batch, stored.limits))
      BY <2>5, <2>7
    <3>3. \A g, h : done(g) # "blocked" /\ done(h) # "blocked" => done(g) = done(h)
      BY DEF Realised
    <3> QED
      BY <2>7, <3>1, <3>2, <3>3
  <2> QED
    BY <2>4, <2>6, <2>7 DEF RerunReproduces
<1>2. Init => ReplayInv /\ StoredInv /\ OutcomeInv
  BY DEF Init, ReplayInv, StoredInv, OutcomeInv, Screened, Executing, Loops
<1>3. I /\ [Next]_vars => I'
  BY TypeStep, GateStep, PlansStep, RunStep, ExactStep, OutcomeStep, ReplayStep, StoredStep
<1>4. Spec => []I
  BY TypeInit, GateInit, PlansInit, ExactInit, <1>2, <1>3, PTL DEF Spec
<1> QED
  BY <1>1, <1>4, PTL

-----------------------------------------------------------------------------
(* Explanations.  While the policy allows the no-op everywhere, every      *)
(* planner but a solver that was stopped early selects approved actions    *)
(* only: the no-op fits whatever is left, and is worth more than a blocked *)
(* action is counted as.                                                   *)

NoOpAllowed == \A u \in Txn : IsApproved(u, NoOp)

Approves(s) == \A t \in Txn : choice[s][t] # None => IsApproved(t, choice[s][t])

BackedInv ==
  /\ NoOpAllowed =>
       \A s \in Strategy : (s = "rpa_optimizer" /\ solver = "feasible") \/ Approves(s)
  /\ phase = "completed" => verified = {s \in planned : Passed(s)}

(* The no-op fits every capacity that is left.                             *)
LEMMA NoOpFits == ASSUME NEW left, DOMAIN left \subseteq Resource PROVE CanConsume(left, NoOp)
BY NoOpFacts DEF CanConsume

(* The greedy strategy never prefers a blocked action to the no-op.        *)
LEMMA GreedyBacked ==
  ASSUME TypeOK, NEW t \in Txn, IsApproved(t, NoOp), NEW a \in GreedyChoices(t)
  PROVE  IsApproved(t, a)
<1>1. NoOp \in Action /\ CanConsume(remaining, NoOp)
  BY NoOpFacts, NoOpFits DEF TypeOK
<1>2. a = NoOp \/ Beats(t, a, NoOp)
  BY <1>1 DEF GreedyChoices
<1> QED
  BY <1>2 DEF Beats

(* An approved no-op is worth more than a blocked action counts.           *)
LEMMA NoOpWorth ==
  ASSUME TypeOK, NEW t \in Txn, IsApproved(t, NoOp), NEW a \in Action
  PROVE  /\ MaskedEV(t, a) \in Int
         /\ ~IsApproved(t, a) => MaskedEV(t, a) < MaskedEV(t, NoOp)
<1>1. batch[t] \in Profile
  BY BatchAssumption DEF TypeOK
<1>2. ASSUME NEW d \in Action
      PROVE  /\ Clip(batch[t].prob[d]) \in Nat \ {0}
             /\ TotalCost(d) \in Nat
             /\ Clip(batch[t].prob[d]) * batch[t].amount \in Nat
  <2>1. batch[t].amount \in Nat /\ batch[t].prob[d] \in 0..Scale
    BY <1>1 DEF Profile
  <2>2. Clip(batch[t].prob[d]) \in Nat \ {0}
    BY <2>1, ScaleAssumption DEF Clip
  <2>3. Catalogue[d].cost \in Nat
    <3>1. Catalogue[d] \in ActionSpec
      BY CatalogueAssumption DEF Action
    <3> QED
      BY <3>1 DEF ActionSpec
  <2>4. Units(d, "incentive_budget") \in Nat
    BY UnitsType DEF Resource
  <2>5. IncentiveFee \in Nat
    BY ScaleAssumption DEF IncentiveFee
  <2>6. Units(d, "incentive_budget") * IncentiveFee \in Nat
    BY <2>4, <2>5
  <2> QED
    BY <2>1, <2>2, <2>3, <2>6 DEF TotalCost
<1>3. EV(t, a) \in Int
  BY <1>2 DEF EV, NetEV
<1>4. IsNoOp(NoOp)
  <2>1. \E d \in Action : Catalogue[d].type = "no_intervention"
    BY CatalogueAssumption DEF IsNoOp
  <2> QED
    BY <2>1 DEF NoOp, ActionOfType, IsNoOp
<1>5. TotalCost(NoOp) = 0
  <2>1. Catalogue[NoOp].cost = 0 /\ Units(NoOp, "incentive_budget") = 0
    BY <1>4, NoOpFacts, CatalogueAssumption DEF Resource
  <2>2. IncentiveFee \in Int
    BY ScaleAssumption DEF IncentiveFee
  <2> QED
    BY <2>1, <2>2 DEF TotalCost
<1>6. EV(t, NoOp) \in Nat
  BY <1>2, <1>5, NoOpFacts DEF EV, NetEV
<1>7. -1000000 * Scale \in Int /\ -1000000 * Scale < 0
  BY ScaleAssumption
<1> QED
  BY <1>3, <1>6, <1>7 DEF MaskedEV

(* So an optimal plan selects approved actions only: the no-op in place of *)
(* a blocked one would fit as well and be worth more.                      *)
LEMMA OptimumBacked ==
  ASSUME TypeOK, LimitsUsable, NoOpAllowed, NEW c \in OptimalChoices, NEW t \in Txn
  PROVE  IsApproved(t, c[t])
<1> SUFFICES ASSUME ~IsApproved(t, c[t]) PROVE FALSE
  OBVIOUS
<1> DEFINE d == [c EXCEPT ![t] = NoOp]
<1>1. c \in [Txn -> Action] /\ WithinLimits(c) /\ d \in [Txn -> Action]
  BY NoOpFacts DEF OptimalChoices, FeasibleChoices
<1>2. NTxn \in Nat /\ t \in 1..NTxn
  BY BatchAssumption DEF Txn
<1>3. ASSUME NEW r \in Capped(limits) PROVE UseOf(d, r) <= limits[r]
  <2> DEFINE old == [u \in Txn |-> Units(c[u], r)]
             new == [u \in Txn |-> Units(d[u], r)]
  <2>1. r \in Resource /\ limits[r] \in Int
    BY InitialType DEF TypeOK, Capped
  <2>2. \A u \in 1..NTxn : new[u] \in Nat /\ old[u] \in Nat /\ new[u] <= old[u]
    BY <1>1, <2>1, UnitsType, NoOpFacts DEF Txn
  <2> HIDE DEF old, new
  <2>3. SumTo(new, NTxn) <= SumTo(old, NTxn) /\ SumTo(new, NTxn) \in Nat /\ SumTo(old, NTxn) \in Nat
    BY <1>2, <2>2, SumMonotone, SumNat
  <2>4. UseOf(d, r) <= UseOf(c, r) /\ UseOf(d, r) \in Nat /\ UseOf(c, r) \in Nat
    BY <2>3 DEF UseOf, old, new
  <2>5. UseOf(c, r) <= limits[r]
    BY <1>1 DEF WithinLimits
  <2> QED
    BY <2>1, <2>4, <2>5
<1>4. d \in FeasibleChoices
  BY <1>1, <1>3 DEF FeasibleChoices, WithinLimits
<1>5. PlanValue(d) <= PlanValue(c)
  BY <1>4 DEF OptimalChoices
<1> DEFINE before == [u \in Txn |-> MaskedEV(u, c[u])]
           after == [u \in Txn |-> MaskedEV(u, d[u])]
<1>6. \A u \in 1..NTxn : before[u] \in Int /\ after[u] \in Int /\ (u # t => before[u] = after[u])
  BY <1>1, NoOpWorth DEF NoOpAllowed, Txn
<1>7. before[t] < after[t]
  BY <1>1, NoOpWorth DEF NoOpAllowed
<1>8. PlanValue(c) = SumTo(before, NTxn) /\ PlanValue(d) = SumTo(after, NTxn)
  BY DEF PlanValue
<1> HIDE DEF before, after
<1>9. SumTo(after, NTxn) + before[t] = SumTo(before, NTxn) + after[t]
  BY <1>2, <1>6, SumReplace
<1>10. SumTo(after, NTxn) \in Int /\ SumTo(before, NTxn) \in Int
  BY <1>2, <1>6, SumInt
<1> QED
  BY <1>2, <1>5, <1>6, <1>7, <1>8, <1>9, <1>10

LEMMA BackedStep ==
  TypeInv /\ PlansInv /\ BackedInv /\ [Next]_vars => BackedInv'
<1> SUFFICES ASSUME TypeInv, PlansInv, BackedInv, [Next]_vars PROVE BackedInv'
  OBVIOUS
<1> USE DEF TypeInv
<1>1. CASE UNCHANGED vars
  BY <1>1 DEF vars, BackedInv, NoOpAllowed, Approves, IsApproved, Passed
<1>2. ASSUME choice' = NoChoice, phase' # "completed" PROVE BackedInv'
  BY <1>2 DEF BackedInv, NoOpAllowed, Approves, NoChoice
<1>3. CASE Reject \/ Accept \/ Predict \/ Screen
  <2>1. choice' = NoChoice /\ phase' # "completed"
    BY <1>3 DEF Reject, Accept, Predict, Screen, At, GoTo, planning, PlansInv, Screened
  <2> QED
    BY <1>2, <2>1
<1>4. CASE PlanNoAction
  <2>1. choice = NoChoice /\ phase' # "completed" /\ approved' = approved /\ solver' = solver
    BY <1>4 DEF PlanNoAction, StartPlanner, At, GoTo, PlansInv, Screened
  <2>2. /\ choice'["no_action"] = [t \in Txn |-> NoOp]
        /\ \A s \in Strategy \ {"no_action"} : choice'[s] = [t \in Txn |-> None]
    BY <1>4, <2>1 DEF PlanNoAction, NoChoice, Strategy
  <2> QED
    BY <2>1, <2>2 DEF BackedInv, NoOpAllowed, Approves, IsApproved
<1>5. ASSUME NEW s \in Strategy, NEW t \in Txn, NEW a \in Action, Decide(s, t, a),
             NoOpAllowed => IsApproved(t, a), phase # "completed"
      PROVE  BackedInv'
  <2>1. UNCHANGED <<approved, solver, phase>> /\ \A u \in Strategy \ {s} : choice'[u] = choice[u]
    BY <1>5 DEF Decide, TypeOK
  <2>2. choice'[s] = [choice[s] EXCEPT ![t] = a] /\ choice[s] \in Plan
    BY <1>5 DEF Decide, TypeOK
  <2>3. \A u \in Txn : choice'[s][u] = IF u = t THEN a ELSE choice[s][u]
    BY <2>2 DEF Plan
  <2> QED
    BY <1>5, <2>1, <2>3 DEF BackedInv, NoOpAllowed, Approves, IsApproved
<1>6. CASE PlanRuleBased
  <2>0. PICK t \in FirstRow : \E a \in RuleChoices(t) : Decide("rule_based", t, a)
    BY <1>6 DEF PlanRuleBased
  <2>1. PICK a \in RuleChoices(t) : Decide("rule_based", t, a)
    BY <2>0
  <2>2. t \in Txn /\ a \in Action /\ IsApproved(t, a) /\ phase # "completed"
    BY <1>6, RuleChoiceFacts DEF PlanRuleBased, At, FirstRow, TypeOK
  <2> QED
    BY <1>5, <2>1, <2>2 DEF Strategy
<1>7. CASE PlanGreedy
  <2>0. PICK t \in NextByScore : \E a \in GreedyChoices(t) : Decide("ev_greedy", t, a)
    BY <1>7 DEF PlanGreedy
  <2>1. PICK a \in GreedyChoices(t) : Decide("ev_greedy", t, a)
    BY <2>0
  <2>2. t \in Txn /\ a \in Action /\ phase # "completed"
    BY <1>7, GreedyChoiceFacts DEF PlanGreedy, At, NextByScore, TypeOK
  <2>3. NoOpAllowed => IsApproved(t, a)
    BY <2>2, GreedyBacked DEF NoOpAllowed
  <2> QED
    BY <1>5, <2>1, <2>2, <2>3 DEF Strategy
<1>8. CASE RuleBasedDone \/ GreedyDone \/ Execute \/ ExecutionDone
  <2>1. UNCHANGED <<approved, choice, solver>> /\ phase' # "completed"
    BY <1>8 DEF RuleBasedDone, StartPlanner, GreedyDone, Execute, ExecutionDone, At, GoTo, planning
  <2> QED
    BY <2>1 DEF BackedInv, NoOpAllowed, Approves, IsApproved
<1>9. ASSUME NEW c \in [Txn -> Action], Publish(c),
             NoOpAllowed => solver' = "feasible" \/ \A t \in Txn : IsApproved(t, c[t])
      PROVE  BackedInv'
  <2>1. /\ choice'["rpa_optimizer"] = c /\ approved' = approved /\ phase' # "completed"
        /\ \A s \in Strategy \ {"rpa_optimizer"} : choice'[s] = choice[s]
    BY <1>9 DEF Publish, GoTo, TypeOK, Strategy
  <2> QED
    BY <1>9, <2>1 DEF BackedInv, NoOpAllowed, Approves, IsApproved
<1>10. CASE SolverNotApproved
  BY <1>9, <1>10, NoOpFacts DEF SolverNotApproved, NoOpAllowed
<1>11. CASE SolveOptimally
  <2>1. PICK c \in OptimalChoices : Solved(c, "optimal")
    BY <1>11 DEF SolveOptimally
  <2>2. c \in [Txn -> Action] /\ Publish(c)
    BY <2>1 DEF OptimalChoices, FeasibleChoices, Solved
  <2>3. LimitsUsable
    BY <1>11 DEF SolveOptimally, At, StageInv, Screened
  <2> QED
    BY <1>9, <2>2, <2>3, OptimumBacked
<1>12. CASE AcceptIncumbent
  BY <1>9, <1>12 DEF AcceptIncumbent, Solved, FeasibleChoices
<1>13. CASE Verify
  BY <1>13 DEF Verify, planning, BackedInv, NoOpAllowed, Approves, IsApproved, Passed
<1>14. CASE PredictionFails \/ ScreenFails \/ RuleBasedFails \/ ExecutionFails \/ Reexecute
  <2>1. choice' = NoChoice /\ phase' # "completed"
    BY <1>14
       DEF PredictionFails, ScreenFails, RuleBasedFails, ExecutionFails, Reexecute,
           FailClosed, ResetRun, ClearResult, GoTo
  <2> QED
    BY <1>2, <2>1
<1> QED
  BY <1>1, <1>3, <1>4, <1>6, <1>7, <1>8, <1>10, <1>11, <1>12, <1>13, <1>14 DEF Next, Pipeline

LEMMA FunctionIsSeq ==
  ASSUME NEW S, NEW n \in Nat, NEW f \in [1..n -> S]
  PROVE  f \in Seq(S) /\ Len(f) = n
OBVIOUS

(* The trail: four events of the whole batch, an event of execution for    *)
(* each strategy that was planned, and one of verification for each.       *)
LEMMA TrailFacts ==
  ASSUME TypeInv, NEW order \in Orders
  PROVE  /\ Cardinality(planned) \in Nat
         /\ DOMAIN Trail(order) = 1..(4 + 2 * Cardinality(planned))
         /\ Trail(order)[1] = Event("prediction", Pairs)
         /\ Trail(order)[2] = Event("ev", Pairs)
         /\ Trail(order)[3] = Event("policy", Verdicts)
         /\ Trail(order)[4] = Event("optimizer", Decisions)
         /\ \A k \in 1..Cardinality(planned) :
              /\ Trail(order)[4 + k] = Event("execution", Executions(order[k]))
              /\ Trail(order)[4 + Cardinality(planned) + k]
                   = Event("verification", Verifications(order[k]))
<1> DEFINE n == Cardinality(planned)
           head == <<Event("prediction", Pairs), Event("ev", Pairs),
                     Event("policy", Verdicts), Event("optimizer", Decisions)>>
           runs == [k \in DOMAIN order |-> Event("execution", Executions(order[k]))]
           checks == [k \in DOMAIN order |-> Event("verification", Verifications(order[k]))]
           S == {head[i] : i \in 1..4} \cup {runs[k] : k \in 1..n} \cup {checks[k] : k \in 1..n}
<1>1. n \in Nat
  <2>1. IsFiniteSet(Strategy)
    <3>1. Strategy = ((({} \cup {"no_action"}) \cup {"rule_based"}) \cup {"ev_greedy"})
                       \cup {"rpa_optimizer"}
      BY DEF Strategy
    <3> QED
      BY <3>1, FS_EmptySet, FS_AddElement
  <2>2. planned \in SUBSET Strategy
    BY DEF TypeInv, TypeOK
  <2>3. IsFiniteSet(planned)
    BY <2>1, <2>2, FS_Subset
  <2> QED
    BY <2>3, FS_CardinalityType
<1>2. DOMAIN order = 1..n
  BY DEF Orders
<1>3. head \in Seq(S) /\ Len(head) = 4 /\ \A i \in 1..4 : head[i] \in S
  OBVIOUS
<1>4. runs \in [1..n -> S] /\ checks \in [1..n -> S]
  BY <1>2
<1>5. /\ runs \in Seq(S) /\ Len(runs) = n
      /\ checks \in Seq(S) /\ Len(checks) = n
  <2> HIDE DEF runs, checks, S, n
  <2> QED
    BY <1>1, <1>4, FunctionIsSeq
<1>6. Trail(order) = (head \o runs) \o checks
  BY DEF Trail
<1>7. /\ runs = [k \in 1..n |-> Event("execution", Executions(order[k]))]
      /\ checks = [k \in 1..n |-> Event("verification", Verifications(order[k]))]
  BY <1>2
<1> DEFINE first == head \o runs
<1> HIDE DEF S, runs, checks, n
<1>8. /\ first \in Seq(S) /\ Len(first) = 4 + n
      /\ \A i \in 1..(4 + n) : first[i] = IF i <= 4 THEN head[i] ELSE runs[i - 4]
  BY <1>1, <1>3, <1>5, ConcatProperties
<1> HIDE DEF first
<1>9. /\ first \o checks \in Seq(S) /\ Len(first \o checks) = 4 + n + n
      /\ \A i \in 1..(4 + n + n) :
           (first \o checks)[i] = IF i <= 4 + n THEN first[i] ELSE checks[i - (4 + n)]
  <2> HIDE DEF head
  <2>1. /\ first \o checks \in Seq(S)
        /\ Len(first \o checks) = Len(first) + Len(checks)
        /\ \A i \in 1..(Len(first) + Len(checks)) :
             (first \o checks)[i] = IF i <= Len(first) THEN first[i] ELSE checks[i - Len(first)]
    BY <1>5, <1>8, ConcatProperties
  <2>2. Len(first) = 4 + n /\ Len(checks) = n
    BY <1>5, <1>8
  <2> QED
    BY <2>1, <2>2
<1>10. DOMAIN (first \o checks) = 1..(4 + 2 * n)
  BY <1>1, <1>9, LenProperties
<1>11. \A i \in 1..4 : (first \o checks)[i] = head[i]
  BY <1>1, <1>8, <1>9
<1>12. ASSUME NEW k \in 1..n
       PROVE  (first \o checks)[4 + k] = runs[k] /\ (first \o checks)[4 + n + k] = checks[k]
  <2>1. (first \o checks)[4 + k] = first[4 + k]
    BY <1>1, <1>9
  <2>2. first[4 + k] = runs[k]
    BY <1>1, <1>8
  <2>3. 4 + n + k \in 1..(4 + n + n) /\ ~(4 + n + k <= 4 + n) /\ (4 + n + k) - (4 + n) = k
    BY <1>1
  <2>4. (first \o checks)[4 + n + k] = checks[k]
    BY <1>9, <2>3
  <2> QED
    BY <2>1, <2>2, <2>4
<1> QED
  BY <1>1, <1>6, <1>7, <1>10, <1>11, <1>12 DEF first, n

(* The rows of a component are those of its events: for execution and      *)
(* verification the rows of each strategy planned.                         *)
LEMMA RowsFacts ==
  ASSUME TypeInv, NEW order \in Orders
  PROVE  /\ Rows(Trail(order), "prediction") = Pairs
         /\ Rows(Trail(order), "ev") = Pairs
         /\ Rows(Trail(order), "policy") = Verdicts
         /\ Rows(Trail(order), "optimizer") = Decisions
         /\ Rows(Trail(order), "execution") = UNION {Executions(s) : s \in planned}
<1> DEFINE n == Cardinality(planned)
           trail == Trail(order)
<1>1. n \in Nat /\ DOMAIN order = 1..n
  BY TrailFacts DEF Orders
<1>2. planned = {order[k] : k \in 1..n}
  BY DEF Orders
<1>3. /\ DOMAIN trail = 1..(4 + 2 * n)
      /\ trail[1].component = "prediction" /\ trail[1].rows = Pairs
      /\ trail[2].component = "ev" /\ trail[2].rows = Pairs
      /\ trail[3].component = "policy" /\ trail[3].rows = Verdicts
      /\ trail[4].component = "optimizer" /\ trail[4].rows = Decisions
  BY TrailFacts DEF Event
<1>4. ASSUME NEW k \in 1..n
      PROVE  /\ trail[4 + k].component = "execution"
             /\ trail[4 + k].rows = Executions(order[k])
             /\ trail[4 + n + k].component = "verification"
             /\ 4 + k \in DOMAIN trail
  <2>1. /\ trail[4 + k] = Event("execution", Executions(order[k]))
        /\ trail[4 + n + k] = Event("verification", Verifications(order[k]))
    BY TrailFacts
  <2> QED
    BY <1>1, <1>3, <2>1 DEF Event
<1> HIDE DEF n, trail
<1> DEFINE named(component) == {i \in DOMAIN trail : trail[i].component = component}
<1>5. \A i \in DOMAIN trail :
        \/ i \in {1, 2, 3, 4}
        \/ \E k \in 1..n : i = 4 + k
        \/ \E k \in 1..n : i = 4 + n + k
  <2> SUFFICES ASSUME NEW i \in DOMAIN trail, i \notin {1, 2, 3, 4},
                      ~ \E k \in 1..n : i = 4 + k
               PROVE  \E k \in 1..n : i = 4 + n + k
    OBVIOUS
  <2>1. i \in Int /\ i > 4 /\ i <= 4 + 2 * n
    BY <1>1, <1>3
  <2>2. ~ (i - 4 \in 1..n)
    BY <1>1, <2>1
  <2>3. i - (4 + n) \in 1..n /\ i = 4 + n + (i - (4 + n))
    BY <1>1, <2>1, <2>2
  <2> QED
    BY <2>3
<1>6. {1, 2, 3, 4} \subseteq DOMAIN trail
  BY <1>1, <1>3
<1>7. \A i \in DOMAIN trail :
        /\ trail[i].component = "prediction" => i = 1
        /\ trail[i].component = "ev" => i = 2
        /\ trail[i].component = "policy" => i = 3
        /\ trail[i].component = "optimizer" => i = 4
        /\ trail[i].component = "execution" => \E k \in 1..n : i = 4 + k
  <2> SUFFICES ASSUME NEW i \in DOMAIN trail
               PROVE  /\ trail[i].component = "prediction" => i = 1
                      /\ trail[i].component = "ev" => i = 2
                      /\ trail[i].component = "policy" => i = 3
                      /\ trail[i].component = "optimizer" => i = 4
                      /\ trail[i].component = "execution" => \E k \in 1..n : i = 4 + k
    OBVIOUS
  <2>1. CASE i \in {1, 2, 3, 4}
    BY <1>3, <2>1
  <2>2. CASE \E k \in 1..n : i = 4 + k
    BY <1>4, <2>2
  <2>3. CASE \E k \in 1..n : i = 4 + n + k
    <3>1. trail[i].component = "verification"
      BY <1>4, <2>3
    <3> QED
      BY <3>1
  <2> QED
    BY <1>5, <2>1, <2>2, <2>3
<1>8. /\ named("prediction") = {1} /\ named("ev") = {2}
      /\ named("policy") = {3} /\ named("optimizer") = {4}
  BY <1>3, <1>6, <1>7
<1>9. /\ UNION {trail[i].rows : i \in {1}} = Pairs
      /\ UNION {trail[i].rows : i \in {2}} = Pairs
      /\ UNION {trail[i].rows : i \in {3}} = Verdicts
      /\ UNION {trail[i].rows : i \in {4}} = Decisions
  BY <1>3
<1>10. UNION {trail[i].rows : i \in named("execution")} = UNION {Executions(s) : s \in planned}
  <2>1. ASSUME NEW i \in named("execution")
        PROVE  \E s \in planned : trail[i].rows = Executions(s)
    <3>1. PICK k \in 1..n : i = 4 + k
      BY <1>7, <2>1
    <3>2. order[k] \in planned
      BY <1>2
    <3> QED
      BY <1>4, <3>1, <3>2
  <2>2. ASSUME NEW s \in planned
        PROVE  \E i \in named("execution") : trail[i].rows = Executions(s)
    <3>1. PICK k \in 1..n : s = order[k]
      BY <1>2
    <3> QED
      BY <1>4, <3>1
  <2> HIDE DEF named
  <2> QED
    BY <2>1, <2>2
<1>11. \A c : Rows(trail, c) = UNION {trail[i].rows : i \in named(c)}
  BY DEF Rows
<1> HIDE DEF named
<1> QED
  BY <1>8, <1>9, <1>10, <1>11 DEF trail

(* The verification shown is one of a strategy that was planned.           *)
LEMMA LastVerificationFacts ==
  ASSUME TypeInv, NEW order \in Orders, planned # {}, NEW t \in Txn
  PROVE  \E s \in planned :
           LastVerification(Trail(order), t) = {row \in Verifications(s) : row.txn = t}
<1> DEFINE n == Cardinality(planned)
           trail == Trail(order)
           last(i) == trail[i].component = "verification" /\ \A j \in DOMAIN trail : j <= i
<1>1. n \in Nat /\ n # 0 /\ order \in [1..n -> planned]
  <2>1. n \in Nat /\ order \in [1..n -> planned]
    BY TrailFacts DEF Orders
  <2>2. 1..n # {}
    BY DEF Orders
  <2> QED
    BY <2>1, <2>2
<1>2. /\ DOMAIN trail = 1..(4 + 2 * n)
      /\ trail[4 + n + n].component = "verification"
      /\ trail[4 + n + n].rows = Verifications(order[n])
  <2>1. n \in 1..n
    BY <1>1
  <2>2. trail[4 + n + n] = Event("verification", Verifications(order[n]))
    BY <2>1, TrailFacts
  <2> QED
    BY <2>2, TrailFacts DEF Event
<1> HIDE DEF n, trail
<1>3. 4 + n + n \in DOMAIN trail /\ last(4 + n + n)
  BY <1>1, <1>2
<1>4. ASSUME NEW i \in DOMAIN trail, last(i) PROVE i = 4 + n + n
  <2>1. i <= 4 + n + n /\ 4 + n + n <= i
    BY <1>3, <1>4
  <2>2. i \in Int /\ 4 + n + n \in Int
    BY <1>1, <1>2
  <2> QED
    BY <2>1, <2>2
<1> DEFINE chosen == CHOOSE i \in DOMAIN trail : last(i)
<1>5. LastVerification(trail, t) = {row \in trail[chosen].rows : row.txn = t}
  BY DEF LastVerification
<1> HIDE DEF last
<1>6. chosen = 4 + n + n
  BY <1>3, <1>4
<1> HIDE DEF chosen
<1>7. LastVerification(trail, t) = {row \in Verifications(order[n]) : row.txn = t}
  BY <1>2, <1>5, <1>6
<1>8. order[n] \in planned
  BY <1>1
<1> QED
  BY <1>7, <1>8 DEF trail

(* An explanation is put together from the rows of the action its strategy *)
(* chose, the verdict shown is the one the execution obeyed, and where the *)
(* no-op is allowed everywhere it is an ALLOW, unless a solver was stopped *)
(* early.                                                                  *)
THEOREM ExplanationsHold == Spec => []ExplanationBacked
<1> DEFINE I == TypeInv /\ GateInv /\ PlansInv /\ RunInv /\ OutcomeInv /\ BackedInv
<1>1. I => ExplanationBacked
  <2> SUFFICES ASSUME I, phase = "completed", NEW order \in Orders,
                      NEW s \in planned, NEW t \in Txn
               PROVE  \E x \in {Explanation(Trail(order), t, s)} :
                        /\ Consistent(x)
                        /\ NoOpAllowed /\ solver # "feasible" =>
                             /\ \A row \in x.policy : row.verdict = "allow"
                             /\ \A row \in x.verification : row.passed
                             /\ verified = planned
    BY DEF ExplanationBacked, NoOpAllowed
  <2> DEFINE trail == Trail(order)
             a == choice[s][t]
             decision == [strategy |-> s, txn |-> t, action |-> a]
             verdict == IF IsApproved(t, a) THEN "allow" ELSE "block"
             x == Explanation(trail, t, s)
  <2>1. \A u \in planned, v \in Txn :
          /\ u \in Strategy /\ choice[u][v] \in Action
          /\ outcome[u][v] # "blocked" <=> IsApproved(v, choice[u][v])
    <3>1. \A u \in planned : u \in executed /\ u \in Strategy
      BY DEF RunInv, TypeInv, TypeOK
    <3>2. \A u \in Strategy : Complete(u)
      BY DEF PlansInv, Strategy, Screened, Executing
    <3> QED
      BY <3>1, <3>2 DEF OutcomeInv, Run, MayRun, Complete
  <2>2. Decision(trail, t, s) = {decision}
    BY RowsFacts DEF Decision, Decisions
  <2>3. \A rows : Evidence(trail, t, s, rows) = {row \in rows : row.txn = t /\ row.action = a}
    BY <2>2 DEF Evidence
  <2>4. /\ x.decision = {decision}
        /\ x.prediction = {row \in Pairs : row.txn = t /\ row.action = a}
        /\ x.ev = {row \in Pairs : row.txn = t /\ row.action = a}
        /\ x.policy = {row \in Verdicts : row.txn = t /\ row.action = a}
        /\ x.execution = {row \in UNION {Executions(u) : u \in planned} :
                            row.strategy = s /\ row.txn = t}
        /\ x.verification = LastVerification(trail, t)
    BY <2>2, <2>3, RowsFacts DEF Explanation
  <2> HIDE DEF x, trail
  <2>5. Consistent(x)
    <3>1. [txn |-> t, action |-> a] \in x.prediction /\ [txn |-> t, action |-> a] \in x.ev
      BY <2>1, <2>4 DEF Pairs
    <3>2. [txn |-> t, action |-> a, verdict |-> verdict] \in x.policy
      BY <2>1, <2>4 DEF Verdicts
    <3>3. [strategy |-> s, txn |-> t, status |-> outcome[s][t]] \in x.execution
      BY <2>4 DEF Executions
    <3>4. (verdict = "allow") = (outcome[s][t] # "blocked")
      BY <2>1
    <3> HIDE DEF verdict, a
    <3> QED
      BY <2>4, <3>1, <3>2, <3>3, <3>4 DEF Consistent
  <2>6. ASSUME NoOpAllowed, solver # "feasible"
        PROVE  /\ \A row \in x.policy : row.verdict = "allow"
               /\ \A row \in x.verification : row.passed
               /\ verified = planned
    <3>1. \A u \in planned, v \in Txn : IsApproved(v, choice[u][v]) /\ outcome[u][v] # "blocked"
      BY <2>1, <2>6, ActionNotNone DEF BackedInv, Approves
    <3>2. \A row \in x.policy : row.verdict = "allow"
      BY <2>4, <3>1 DEF Verdicts
    <3>3. PICK u \in planned : x.verification = {row \in Verifications(u) : row.txn = t}
      BY <2>4, LastVerificationFacts DEF trail
    <3>4. ASSUME NEW row \in x.verification PROVE row.passed
      <4>1. PICK v \in Txn : row = [strategy |-> u, txn |-> v, passed |-> outcome[u][v] # "blocked"]
        BY <3>3 DEF Verifications
      <4>2. row.passed = (outcome[u][v] # "blocked")
        BY <4>1, Zenon
      <4> QED
        BY <3>1, <4>2, Zenon
    <3>5. verified = planned
      BY <3>1 DEF BackedInv, Passed
    <3> QED
      BY <3>2, <3>4, <3>5
  <2> QED
    BY <2>5, <2>6 DEF x, trail
<1>2. Init => OutcomeInv /\ BackedInv
  BY DEF Init, OutcomeInv, BackedInv, NoOpAllowed, Approves, NoChoice
<1>3. I /\ [Next]_vars => I'
  BY TypeStep, GateStep, PlansStep, RunStep, OutcomeStep, BackedStep
<1>4. Spec => []I
  BY TypeInit, GateInit, PlansInit, <1>2, <1>3, PTL DEF Spec
<1> QED
  BY <1>1, <1>4, PTL
=============================================================================
