---------------------------- MODULE Experiment ----------------------------
(***************************************************************************)
(* The validation experiment, experiment.py: in each scenario, seed by     *)
(* seed, four strategies allocate the same batch under the same capacities *)
(* and are compared on the same random outcomes.                           *)
(*                                                                         *)
(* A behaviour is one scenario.  Probabilities and draws are percentages,  *)
(* values and costs hundredths of a rupee.                                 *)
(***************************************************************************)
EXTENDS Integers, Sequences, FiniteSets, FiniteSetsExt, Sums

CONSTANTS
  Batches,     \* batches of the demo pool, sequences of transactions
  Draws(_),    \* size -> sequences of uniform draws
  Scenarios,   \* resource -> capacity
  Slow,        \* bound: scenarios the solver may not finish in its time limit
  Unlimited,   \* no capacity
  Seeds        \* number of seeds

Action == <<"no_intervention", "retry", "payment_link", "customer_message",
            "incentive", "human_escalation">>
None == Action[1]
Choice == {Action[j] : j \in DOMAIN Action}
Resource == {"retry", "messaging", "incentive", "human"}
Strategy == {"no_intervention", "fixed_rule", "ev_greedy", "rpa"}

Transaction ==
  [amount : Nat, success : Int, overdue : Int, retries : Int,
   predicted : [Choice -> Int], truth : [Choice -> Int]]

ASSUME ExperimentAssumption ==
  /\ \A b \in Batches : b \in Seq(Transaction)
  /\ Scenarios \subseteq [Resource -> Nat \cup {Unlimited}]
  /\ Unlimited \notin Int
  /\ Seeds \in Nat

\* ACTION_SPECS.
Cost(a) ==
  CASE a = "retry" -> 100 [] a = "payment_link" -> 200 [] a = "customer_message" -> 50
    [] a = "incentive" -> 2500 [] a = "human_escalation" -> 4000 [] OTHER -> 0
Needs(a, r) ==
  CASE r = "retry" -> IF a = "retry" THEN 1 ELSE 0
    [] r = "messaging" -> IF a \in {None, "retry"} THEN 0 ELSE 1
    [] r = "incentive" -> IF a = "incentive" THEN 50 ELSE 0
    [] r = "human" -> IF a = "human_escalation" THEN 1 ELSE 0

VARIABLES
  capacity,    \* of the scenario
  seed,        \* the seed that is run
  phase,
  batch, draw, \* of the seed
  plan,        \* strategy -> position -> action, None where undecided
  remaining,   \* capacity left to the strategy that plans
  todo,        \* positions it has not decided
  solver,      \* how the last solve ended
  recovered,   \* strategy -> rupees recovered, seed by seed
  lift,        \* wins, ties and losses of rpa over ev_greedy
  slack        \* history: in every seed what is best for each fits

vars == <<capacity, seed, phase, batch, draw, plan, remaining, todo, solver, recovered,
          lift, slack>>
inputs == <<capacity, seed, batch, draw>>
results == <<solver, recovered, lift, slack>>

Position == DOMAIN batch
EV(i, a) == batch[i].amount * batch[i].predicted[a] - Cost(a)

CanApply(rem, a) == \A r \in Resource : rem[r] = Unlimited \/ Needs(a, r) <= rem[r]

Apply(rem, a) ==
  [r \in Resource |-> IF rem[r] = Unlimited THEN Unlimited ELSE rem[r] - Needs(a, r)]

Init ==
  /\ capacity \in Scenarios
  /\ seed = 0 /\ phase = "sample"
  /\ batch = <<>> /\ draw = <<>>
  /\ plan = [s \in Strategy |-> <<>>]
  /\ remaining = capacity /\ todo = {} /\ solver = "none"
  /\ recovered = [s \in Strategy |-> <<>>]
  /\ lift = [wins |-> 0, ties |-> 0, losses |-> 0]
  /\ slack = TRUE

\* The plan of the strategy that does nothing, and what the others start from.
NoIntervention(b) == [i \in DOMAIN b |-> None]

Sample ==
  /\ phase = "sample" /\ seed < Seeds
  /\ seed' = seed + 1
  /\ batch' \in Batches
  /\ draw' \in Draws(Len(batch'))
  /\ plan' = [s \in Strategy |-> NoIntervention(batch')]
  /\ remaining' = capacity /\ todo' = DOMAIN batch'
  /\ phase' = "fixed_rule"
  /\ UNCHANGED <<capacity, results>>

-----------------------------------------------------------------------------
(* The strategies.                                                         *)

Decide(s, i, a) ==
  /\ plan' = [plan EXCEPT ![s] = [@ EXCEPT ![i] = a]]
  /\ remaining' = Apply(remaining, a)
  /\ todo' = todo \ {i}

Planned(next) ==
  /\ todo = {}
  /\ remaining' = capacity /\ todo' = Position
  /\ phase' = next
  /\ UNCHANGED <<inputs, plan, results>>

\* _rule_choice, with the thresholds of config.py.
RuleChoice(t) ==
  CASE t.amount >= 5000 /\ t.success <= 40 /\ t.overdue >= 30 -> "human_escalation"
    [] OTHER ->
  CASE t.amount >= 1500 /\ t.overdue >= 7 -> "incentive"
    [] t.amount >= 1500 /\ t.overdue < 7 -> "payment_link"
    [] t.amount < 1500 /\ t.retries < 2 -> "retry"
    [] t.amount < 1500 /\ t.retries >= 2 /\ t.success >= 60 -> "customer_message"
    [] OTHER -> None

\* The rule's action if it fits, else the first intervention that does.
Affordable(t) ==
  LET fit == {j \in 2..Len(Action) : CanApply(remaining, Action[j])}
  IN  IF CanApply(remaining, RuleChoice(t)) THEN RuleChoice(t)
      ELSE IF fit = {} THEN None ELSE Action[Min(fit)]

FixedRule ==
  /\ phase = "fixed_rule" /\ todo # {}
  /\ Decide("fixed_rule", Min(todo), Affordable(batch[Min(todo)]))
  /\ UNCHANGED <<inputs, phase, results>>

FixedRuleDone == phase = "fixed_rule" /\ Planned("ev_greedy")

\* What a transaction loses, at most, without an intervention.
Marginal(i) == Max({EV(i, a) - EV(i, None) : a \in Choice})

\* Fault: what does not fit is looked at too.
BestOfAll(i) == Choice

Fitting(i) == {a \in Choice : CanApply(remaining, a)}

\* The first in the list of actions among those of the highest value.
Best(i, S) ==
  Action[Min({j \in DOMAIN Action :
    Action[j] \in S /\ \A a \in S : EV(i, a) <= EV(i, Action[j])})]

EvGreedy ==
  /\ phase = "ev_greedy" /\ todo # {}
  /\ LET first == {i \in todo : \A k \in todo : Marginal(k) <= Marginal(i)}
         i == Min(first)
     IN  Decide("ev_greedy", i, Best(i, Fitting(i)))
  /\ UNCHANGED <<inputs, phase, results>>

EvGreedyDone == phase = "ev_greedy" /\ Planned("rpa")

Use(p, r) == SumTo([i \in Position |-> Needs(p[i], r)], Len(batch))
Value(p) == SumTo([i \in Position |-> EV(i, p[i])], Len(batch))

\* Fault: a capacity may not be used up.
UsesLess(p) ==
  \A r \in Resource : capacity[r] = Unlimited \/ Use(p, r) < capacity[r] \/ Use(p, r) = 0

\* The constraints of the integer program.
Feasible(p) == \A r \in Resource : capacity[r] = Unlimited \/ Use(p, r) <= capacity[r]

Solved(status, p) ==
  /\ plan' = [plan EXCEPT !["rpa"] = p]
  /\ solver' = status
  /\ phase' = "observe" /\ todo' = {}
  /\ UNCHANGED <<inputs, remaining, recovered, lift, slack>>

Solve ==
  /\ phase = "rpa"
  /\ LET feasible == {p \in [Position -> Choice] : Feasible(p)}
     IN  \/ \E optimum \in {Max({Value(p) : p \in feasible})}, p \in feasible :
              Value(p) = optimum /\ Solved("optimal", p)
         \/ /\ capacity \in Slow
            /\ \E p \in feasible : Solved("feasible", p)

\* Without a solution everything is left alone.
SolveFails ==
  /\ phase = "rpa"
  /\ Solved("failed", [i \in Position |-> None])

-----------------------------------------------------------------------------
(* Outcomes and the comparison.                                            *)

\* Fault: rpa is simulated with draws of its own.
DrawOfStrategy(s, i) == draw[IF s = "rpa" THEN Len(batch) + 1 - i ELSE i]

\* One draw per transaction, common to the strategies.
DrawOf(s, i) == draw[i]

Succeeds(s, i) == DrawOf(s, i) < batch[i].truth[plan[s][i]]

Recovered(s) ==
  SumTo([i \in Position |-> IF Succeeds(s, i) THEN batch[i].amount ELSE 0], Len(batch))

\* What it takes to give each transaction the action that is best for it.
Demand(r) == Use([i \in Position |-> Best(i, Choice)], r)

\* Each transaction has one best action, and together they fit.
BestFits ==
  /\ \A i \in Position : \A a \in Choice \ {Best(i, Choice)} : EV(i, a) < EV(i, Best(i, Choice))
  /\ \A r \in Resource : capacity[r] = Unlimited \/ Demand(r) <= capacity[r]

Observe ==
  /\ phase = "observe"
  /\ recovered' = [s \in Strategy |-> Append(recovered[s], Recovered(s))]
  /\ slack' = (slack /\ BestFits /\ solver = "optimal")
  /\ phase' = IF seed = Seeds THEN "compare" ELSE "sample"
  /\ UNCHANGED <<inputs, plan, remaining, todo, solver, lift>>

\* compare_lift: a seed in which greedy recovered nothing is a tie.
Compare ==
  /\ phase = "compare"
  /\ LET rpa == recovered["rpa"]
         greedy == recovered["ev_greedy"]
         Count(P(_)) == Cardinality({k \in 1..Seeds : P(k)})
     IN  lift' = [wins |-> Count(LAMBDA k : greedy[k] > 0 /\ rpa[k] > greedy[k]),
                  ties |-> Count(LAMBDA k : greedy[k] = 0 \/ rpa[k] = greedy[k]),
                  losses |-> Count(LAMBDA k : greedy[k] > 0 /\ rpa[k] < greedy[k])]
  /\ phase' = "done"
  /\ UNCHANGED <<inputs, plan, remaining, todo, solver, recovered, slack>>

Next ==
  \/ Sample
  \/ FixedRule \/ FixedRuleDone \/ EvGreedy \/ EvGreedyDone
  \/ Solve \/ SolveFails
  \/ Observe \/ Compare

Spec == Init /\ [][Next]_vars

-----------------------------------------------------------------------------
(* Properties.                                                             *)

(* No plan, not even one that is half made, uses more of a resource than   *)
(* the scenario has, in whatever combination its actions draw on several   *)
(* (strategies.py:65-87, optimizer.py:90-103).                             *)
PlansFit == \A s \in Strategy : Feasible(plan[s])

(* A proven optimum is worth no less than what either heuristic found      *)
(* under the same capacities, and no more than the greedy plan where what  *)
(* is best for each transaction fits: "ties with RPA"                      *)
(* (strategies.py:228-234).                                                *)
RpaIsBest ==
  (phase = "observe" /\ solver = "optimal") =>
    /\ \A s \in Strategy : Value(plan[s]) <= Value(plan["rpa"])
    /\ BestFits => plan["ev_greedy"] = plan["rpa"]

(* Where nothing is scarce in any seed the comparison finds no advantage,  *)
(* neither way: what differs is the allocation, never the luck             *)
(* (outcome_simulator.py:61-86, experiment.py:520-523).                    *)
NoLiftWithoutScarcity ==
  (phase = "done" /\ slack) => lift = [wins |-> 0, ties |-> Seeds, losses |-> 0]
=============================================================================
