-------------------------- MODULE ExperimentProofs --------------------------
(* Theorems about Experiment, for any batches, scenarios and seeds.        *)
EXTENDS Experiment, SumsProofs, FiniteSetTheorems

(* The inductive invariant: use so far and what remains make the capacity, *)
(* and what is not decided yet is None.                                    *)
Undecided == [i \in Position |-> None]
Room(s) ==
  \A r \in Resource :
    IF capacity[r] = Unlimited THEN remaining[r] = Unlimited
    ELSE remaining[r] \in Nat /\ Use(plan[s], r) + remaining[r] = capacity[r]
Planning(s) == Room(s) /\ \A i \in todo : plan[s][i] = None

TypeInv ==
  /\ capacity \in [Resource -> Nat \cup {Unlimited}]
  /\ batch \in Seq(Transaction)
  /\ plan \in [Strategy -> [Position -> Choice]]
  /\ todo \in SUBSET Position

Inv ==
  /\ TypeInv
  /\ PlansFit
  /\ phase = "fixed_rule" =>
       Planning("fixed_rule") /\ plan["ev_greedy"] = Undecided /\ plan["rpa"] = Undecided
  /\ phase = "ev_greedy" => Planning("ev_greedy") /\ plan["rpa"] = Undecided
  /\ phase = "rpa" => plan["rpa"] = Undecided

-----------------------------------------------------------------------------
(* Least and greatest.                                                     *)

LEMMA MinIn ==
  ASSUME NEW S \in SUBSET Nat, S # {}
  PROVE  Min(S) \in S /\ \A k \in S : Min(S) <= k
<1>1. PICK m \in S : \A k \in S : ~ (<<k, m>> \in Less)
  BY LessWellFounded, WFMin
<1>2. \A k \in S : m <= k
  <2>1. ASSUME NEW k \in S PROVE m <= k
    <3>1. k \in Nat /\ m \in Nat /\ ~ (<<k, m>> \in Less)
      BY <1>1
    <3>2. <<k, m>> \in Less \/ ~ (k < m)
      BY <3>1 DEF Less
    <3> QED
      BY <3>1, <3>2
  <2> QED
    BY <2>1
<1> QED
  BY <1>1, <1>2 DEF Min

(* A set of integers with an upper bound has a greatest.                   *)
LEMMA MaxIn ==
  ASSUME NEW S \in SUBSET Int, S # {}, NEW u \in Int, \A x \in S : x <= u
  PROVE  Max(S) \in S /\ \A x \in S : x <= Max(S)
<1> DEFINE D == {u - x : x \in S}
<1>1. D \in SUBSET Nat /\ D # {}
  <2>1. \A x \in S : u - x \in Nat
    OBVIOUS
  <2> QED
    BY <2>1
<1>2. Min(D) \in D /\ \A k \in D : Min(D) <= k
  <2> HIDE DEF D
  <2> QED
    BY <1>1, MinIn
<1>3. PICK m \in S : Min(D) = u - m
  BY <1>2
<1>4. ASSUME NEW x \in S PROVE m >= x
  <2>1. u - m <= u - x
    BY <1>2, <1>3
  <2> QED
    BY <2>1
<1>5. \E y \in S : \A x \in S : y >= x
  BY <1>4
<1>6. Max(S) \in S /\ \A x \in S : Max(S) >= x
  BY <1>5 DEF Max
<1> QED
  BY <1>6

(* An index where a function is greatest, over any of its indices.         *)
LEMMA Greatest ==
  ASSUME NEW n \in Nat, NEW f \in [1..n -> Int], NEW S \in SUBSET (1..n), S # {}
  PROVE  \E i \in S : \A k \in S : f[k] <= f[i]
<1> DEFINE Has(m) == \A T \in SUBSET (1..m) : (T # {} /\ T \subseteq 1..n) =>
                       \E i \in T : \A k \in T : f[k] <= f[i]
           N == {m \in Nat : m <= n => Has(m)}
<1>1. 0 \in N
  <2>1. 1..0 = {}
    OBVIOUS
  <2> QED
    BY <2>1
<1>2. ASSUME NEW m \in N PROVE m + 1 \in N
  <2>1. SUFFICES ASSUME m + 1 <= n, NEW T \in SUBSET (1..(m + 1)), T # {}
                 PROVE  \E i \in T : \A k \in T : f[k] <= f[i]
    OBVIOUS
  <2> DEFINE R == T \ {m + 1}
  <2>2. m \in Nat /\ R \in SUBSET (1..m) /\ R \subseteq 1..n /\ Has(m)
    BY <2>1
  <2>3. \A k \in T : f[k] \in Int
    BY <2>1
  <2>4. CASE R = {}
    <3>1. T = {m + 1}
      BY <2>1, <2>4
    <3> QED
      BY <2>3, <3>1
  <2>5. CASE R # {}
    <3>1. PICK j \in R : \A k \in R : f[k] <= f[j]
      BY <2>2, <2>5
    <3>2. CASE m + 1 \in T /\ f[j] <= f[m + 1]
      <4>1. \A k \in T : f[k] <= f[m + 1]
        BY <2>3, <3>1, <3>2
      <4> QED
        BY <3>2, <4>1
    <3>3. CASE ~ (m + 1 \in T /\ f[j] <= f[m + 1])
      <4>1. ASSUME NEW k \in T PROVE f[k] <= f[j]
        <5>1. CASE k \in R
          BY <3>1, <5>1
        <5>2. CASE k = m + 1
          BY <2>3, <3>1, <3>3, <5>2
        <5> QED
          BY <5>1, <5>2
      <4> QED
        BY <3>1, <4>1
    <3> QED
      BY <3>2, <3>3
  <2> QED
    BY <2>4, <2>5
<1>3. N = Nat
  <2> HIDE DEF N
  <2>1. N \in SUBSET Nat
    BY DEF N
  <2> QED
    BY <1>1, <1>2, <2>1, SetInduction
<1>4. Has(n)
  <2> HIDE DEF Has
  <2> QED
    BY <1>3
<1> QED
  BY <1>4

-----------------------------------------------------------------------------
(* Actions and what they need.                                             *)

LEMMA Actions ==
  /\ DOMAIN Action = 1..6 /\ Len(Action) = 6
  /\ Choice = {Action[j] : j \in 1..6}
  /\ None = Action[1] /\ None = "no_intervention" /\ None \in Choice
<1>1. DOMAIN Action = 1..6 /\ Len(Action) = 6 /\ Action[1] = "no_intervention"
  BY DEF Action
<1> QED
  BY <1>1 DEF Choice, None

LEMMA NeedsNat ==
  ASSUME NEW a, NEW r \in Resource
  PROVE  Needs(a, r) \in Nat /\ Needs(None, r) = 0
<1>1. r \in {"retry", "messaging", "incentive", "human"}
  BY DEF Resource
<1> QED
  BY <1>1, Actions DEF Needs

LEMMA RuleChosen ==
  ASSUME NEW t \in Transaction
  PROVE  RuleChoice(t) \in Choice
<1>1. /\ "human_escalation" \in Choice /\ "incentive" \in Choice
      /\ "payment_link" \in Choice /\ "retry" \in Choice /\ "customer_message" \in Choice
  <2>1. /\ Action[6] = "human_escalation" /\ Action[5] = "incentive"
        /\ Action[3] = "payment_link" /\ Action[2] = "retry" /\ Action[4] = "customer_message"
    BY DEF Action
  <2> QED
    BY <2>1, Actions
<1> QED
  BY <1>1, Actions DEF RuleChoice

LEMMA ValueInt ==
  ASSUME TypeInv, NEW i \in Position, NEW a \in Choice
  PROVE  EV(i, a) \in Int
<1>1. batch[i] \in Transaction
  BY DEF TypeInv, Position
<1>2. Cost(a) \in Int
  BY DEF Cost
<1>3. batch[i].amount \in Int /\ batch[i].predicted[a] \in Int
  BY <1>1 DEF Transaction
<1> QED
  BY <1>2, <1>3 DEF EV

-----------------------------------------------------------------------------
(* A decision, and what a plan leaves.                                     *)

LEMMA UseNat ==
  ASSUME TypeInv, NEW p \in [Position -> Choice], NEW r \in Resource
  PROVE  Use(p, r) \in Nat
<1> DEFINE a == [i \in Position |-> Needs(p[i], r)]
<1>1. Len(batch) \in Nat /\ Position = 1..Len(batch)
  BY DEF TypeInv, Position
<1>2. \A i \in 1..Len(batch) : a[i] \in Nat
  BY <1>1, NeedsNat
<1> HIDE DEF a
<1>3. SumTo(a, Len(batch)) \in Nat
  BY <1>1, <1>2, SumNat
<1> QED
  BY <1>3 DEF Use, a

LEMMA NothingUsed ==
  ASSUME NEW b \in Seq(Transaction), NEW r \in Resource
  PROVE  SumTo([i \in DOMAIN b |-> Needs([k \in DOMAIN b |-> None][i], r)], Len(b)) = 0
<1> DEFINE a == [i \in DOMAIN b |-> Needs([k \in DOMAIN b |-> None][i], r)]
<1>1. Len(b) \in Nat /\ DOMAIN b = 1..Len(b)
  OBVIOUS
<1>2. \A i \in 1..Len(b) : a[i] = 0
  BY <1>1, NeedsNat
<1> HIDE DEF a
<1>3. SumTo(a, Len(b)) = 0
  BY <1>1, <1>2, SumZero
<1> QED
  BY <1>3 DEF a

LEMMA UndecidedFits ==
  ASSUME batch \in Seq(Transaction), capacity \in [Resource -> Nat \cup {Unlimited}]
  PROVE  /\ Undecided \in [Position -> Choice] /\ Feasible(Undecided)
         /\ \A r \in Resource : capacity[r] # Unlimited =>
              capacity[r] \in Nat /\ Use(Undecided, r) + capacity[r] = capacity[r]
<1>1. \A r \in Resource : Use(Undecided, r) = 0
  BY NothingUsed DEF Use, Undecided, Position
<1> QED
  BY <1>1, Actions DEF Undecided, Feasible

LEMMA UseAfter ==
  ASSUME TypeInv, NEW p \in [Position -> Choice], NEW i \in Position, p[i] = None,
         NEW a \in Choice, NEW r \in Resource
  PROVE  Use([p EXCEPT ![i] = a], r) = Use(p, r) + Needs(a, r)
<1> DEFINE q == [p EXCEPT ![i] = a]
           before == [k \in Position |-> Needs(p[k], r)]
           after == [k \in Position |-> Needs(q[k], r)]
           n == Len(batch)
<1>1. n \in Nat /\ Position = 1..n /\ i \in 1..n
  BY DEF TypeInv, Position
<1>2. \A k \in 1..n : before[k] \in Nat /\ after[k] \in Nat /\ (k # i => before[k] = after[k])
  BY <1>1, NeedsNat
<1>3. before[i] = 0 /\ after[i] = Needs(a, r) /\ Needs(a, r) \in Nat
  BY <1>1, NeedsNat
<1>4. Use(p, r) = SumTo(before, n) /\ Use(q, r) = SumTo(after, n)
  BY DEF Use
<1>5. SumTo(before, n) \in Nat /\ SumTo(after, n) \in Nat
  <2> HIDE DEF before, after, n
  <2> QED
    BY <1>1, <1>2, SumNat
<1>6. SumTo(after, n) + before[i] = SumTo(before, n) + after[i]
  <2> HIDE DEF before, after, n
  <2> QED
    BY <1>1, <1>2, SumReplace
<1> HIDE DEF before, after, n, q
<1>7. Use(q, r) = Use(p, r) + Needs(a, r)
  BY <1>3, <1>4, <1>5, <1>6
<1> QED
  BY <1>7 DEF q

(* A strategy that decides one more transaction, for an action that can be *)
(* applied, keeps its account and its plan fits.                           *)
LEMMA DecisionFits ==
  ASSUME TypeInv, NEW s \in Strategy, Planning(s), NEW i \in todo, NEW a \in Choice,
         CanApply(remaining, a), Decide(s, i, a), UNCHANGED inputs
  PROVE  /\ TypeInv' /\ Planning(s)' /\ Feasible(plan[s])'
         /\ \A o \in Strategy \ {s} : plan'[o] = plan[o]
<1> DEFINE p == plan[s]
           q == [p EXCEPT ![i] = a]
<1>1. i \in Position /\ p \in [Position -> Choice] /\ p[i] = None
  BY DEF TypeInv, Planning
<1>2. capacity' = capacity /\ batch' = batch /\ Position' = Position
  BY DEF inputs, Position
<1>3. plan'[s] = q /\ \A o \in Strategy \ {s} : plan'[o] = plan[o]
  BY DEF Decide, TypeInv
<1>4. plan' \in [Strategy -> [Position -> Choice]]
  BY <1>1 DEF Decide, TypeInv
<1>5. TypeInv'
  BY <1>2, <1>4 DEF Decide, TypeInv
<1>6. \A k \in todo' : plan'[s][k] = None
  BY <1>1, <1>3 DEF Decide, Planning, TypeInv
<1>7. \A r \in Resource : Use(plan[s], r)' = Use(q, r)
  BY <1>2, <1>3 DEF Use
<1>8. ASSUME NEW r \in Resource
      PROVE  IF capacity[r] = Unlimited THEN remaining'[r] = Unlimited
             ELSE remaining'[r] \in Nat /\ Use(q, r) + remaining'[r] = capacity[r]
  <2>1. Use(q, r) = Use(p, r) + Needs(a, r) /\ Needs(a, r) \in Nat /\ Use(p, r) \in Nat
    BY <1>1, UseAfter, UseNat, NeedsNat
  <2>2. remaining'[r] =
          IF remaining[r] = Unlimited THEN Unlimited ELSE remaining[r] - Needs(a, r)
    BY DEF Decide, Apply
  <2>3. CASE capacity[r] = Unlimited
    BY <2>2, <2>3 DEF Planning, Room
  <2>4. CASE capacity[r] # Unlimited
    <3>1. /\ remaining[r] \in Nat /\ Use(p, r) + remaining[r] = capacity[r]
          /\ remaining[r] # Unlimited /\ Needs(a, r) <= remaining[r]
      BY <2>4, ExperimentAssumption DEF Planning, Room, CanApply
    <3> QED
      BY <2>1, <2>2, <2>4, <3>1
  <2> QED
    BY <2>3, <2>4
<1>9. Room(s)'
  BY <1>2, <1>7, <1>8 DEF Room
<1>10. Feasible(q)
  <2>1. ASSUME NEW r \in Resource, capacity[r] # Unlimited PROVE Use(q, r) <= capacity[r]
    <3>1. remaining'[r] \in Nat /\ Use(q, r) + remaining'[r] = capacity[r]
      BY <1>8, <2>1
    <3>2. Use(q, r) \in Nat
      BY <1>1, UseNat
    <3> QED
      BY <3>1, <3>2
  <2> QED
    BY <2>1 DEF Feasible
<1>11. Feasible(plan[s])'
  BY <1>2, <1>3, <1>7, <1>10 DEF Feasible
<1> QED
  BY <1>3, <1>5, <1>6, <1>9, <1>11 DEF Planning

-----------------------------------------------------------------------------
(* What the heuristics choose can be applied.                              *)

LEMMA NoneApplies ==
  ASSUME NEW s, Room(s)
  PROVE  CanApply(remaining, None)
BY NeedsNat DEF Room, CanApply

LEMMA AffordableFits ==
  ASSUME NEW s, Room(s), NEW t \in Transaction
  PROVE  Affordable(t) \in Choice /\ CanApply(remaining, Affordable(t))
<1> DEFINE fit == {j \in 2..Len(Action) : CanApply(remaining, Action[j])}
<1>1. CASE CanApply(remaining, RuleChoice(t))
  BY <1>1, RuleChosen DEF Affordable
<1>2. CASE ~CanApply(remaining, RuleChoice(t)) /\ fit = {}
  BY <1>2, NoneApplies, Actions DEF Affordable
<1>3. CASE ~CanApply(remaining, RuleChoice(t)) /\ fit # {}
  <2>1. fit \in SUBSET Nat
    BY Actions
  <2>2. Min(fit) \in fit
    BY <1>3, <2>1, MinIn
  <2>3. Affordable(t) = Action[Min(fit)]
    BY <1>3 DEF Affordable
  <2>4. Min(fit) \in 1..6 /\ CanApply(remaining, Action[Min(fit)])
    BY <2>2, Actions
  <2> QED
    BY <2>3, <2>4, Actions
<1> QED
  BY <1>1, <1>2, <1>3

LEMMA BestIn ==
  ASSUME TypeInv, NEW i \in Position, NEW S \in SUBSET Choice, S # {}
  PROVE  Best(i, S) \in S /\ \A a \in S : EV(i, a) <= EV(i, Best(i, S))
<1> DEFINE f == [j \in 1..6 |-> EV(i, Action[j])]
           J == {j \in 1..6 : Action[j] \in S}
           B == {j \in DOMAIN Action :
                   Action[j] \in S /\ \A a \in S : EV(i, a) <= EV(i, Action[j])}
<1>1. f \in [1..6 -> Int]
  BY ValueInt, Actions
<1>2. J \in SUBSET (1..6) /\ J # {}
  BY Actions
<1>3. PICK m \in J : \A k \in J : f[k] <= f[m]
  <2> HIDE DEF f, J
  <2> QED
    BY <1>1, <1>2, Greatest
<1>4. m \in B
  <2>1. \A a \in S : \E k \in J : a = Action[k]
    BY Actions
  <2>2. \A a \in S : EV(i, a) <= EV(i, Action[m])
    BY <1>3, <2>1
  <2> QED
    BY <1>3, <2>2, Actions
<1>5. B \in SUBSET Nat /\ B # {}
  BY <1>4, Actions
<1>6. Min(B) \in B
  <2> HIDE DEF B
  <2> QED
    BY <1>5, MinIn
<1> QED
  BY <1>6 DEF Best

LEMMA MarginalInt ==
  ASSUME TypeInv, NEW i \in Position
  PROVE  Marginal(i) \in Int
<1> DEFINE f == [j \in 1..6 |-> EV(i, Action[j]) - EV(i, None)]
           D == {EV(i, a) - EV(i, None) : a \in Choice}
<1>1. f \in [1..6 -> Int] /\ D \in SUBSET Int
  <2>1. \A a \in Choice : EV(i, a) \in Int
    BY ValueInt
  <2>2. \A a \in Choice : EV(i, a) - EV(i, None) \in Int
    BY <2>1, Actions
  <2>3. \A j \in 1..6 : Action[j] \in Choice
    BY Actions
  <2> QED
    BY <2>2, <2>3
<1>2. PICK m \in 1..6 : \A k \in 1..6 : f[k] <= f[m]
  <2>1. 6 \in Nat /\ 1..6 \in SUBSET (1..6) /\ 1..6 # {}
    OBVIOUS
  <2> HIDE DEF f
  <2> QED
    BY <1>1, <2>1, Greatest
<1>3. D = {f[j] : j \in 1..6}
  BY Actions
<1>4. f[m] \in D /\ \A d \in D : f[m] >= d
  BY <1>1, <1>2, <1>3
<1>5. Max(D) \in D
  <2> HIDE DEF D, f
  <2> QED
    BY <1>4 DEF Max
<1> QED
  BY <1>1, <1>5 DEF Marginal

LEMMA NextGreedy ==
  ASSUME TypeInv, todo # {}
  PROVE  Min({i \in todo : \A k \in todo : Marginal(k) <= Marginal(i)}) \in todo
<1> DEFINE n == Len(batch)
           f == [i \in 1..n |-> Marginal(i)]
           first == {i \in todo : \A k \in todo : Marginal(k) <= Marginal(i)}
<1>1. n \in Nat /\ Position = 1..n /\ todo \in SUBSET (1..n)
  BY DEF TypeInv, Position
<1>2. f \in [1..n -> Int]
  BY <1>1, MarginalInt
<1>3. PICK m \in todo : \A k \in todo : f[k] <= f[m]
  <2> HIDE DEF f, n
  <2> QED
    BY <1>1, <1>2, Greatest
<1>4. m \in first
  BY <1>1, <1>3
<1>5. first \in SUBSET Nat /\ first # {}
  <2>1. todo \subseteq Nat
    BY <1>1
  <2> QED
    BY <1>4, <2>1
<1>6. Min(first) \in first
  <2> HIDE DEF first
  <2> QED
    BY <1>5, MinIn
<1> QED
  BY <1>6

-----------------------------------------------------------------------------
(* The invariant.                                                          *)

LEMMA InitInv ==
  ASSUME Init
  PROVE  Inv
<1>1. batch = <<>> /\ batch \in Seq(Transaction) /\ Position = {} /\ todo = {}
  BY DEF Init, Position
<1>2. capacity \in [Resource -> Nat \cup {Unlimited}]
  BY ExperimentAssumption DEF Init
<1>3. \A s \in Strategy : plan[s] = Undecided
  BY <1>1 DEF Init, Undecided
<1>4. plan \in [Strategy -> [Position -> Choice]]
  <2>1. plan = [s \in Strategy |-> Undecided]
    BY <1>1 DEF Init, Undecided
  <2> QED
    BY <1>1, <1>2, <2>1, UndecidedFits
<1>5. phase = "sample"
  BY DEF Init
<1>6. PlansFit
  BY <1>1, <1>2, <1>3, UndecidedFits DEF PlansFit
<1> QED
  BY <1>1, <1>2, <1>4, <1>5, <1>6 DEF Inv, TypeInv

LEMMA StepInv ==
  ASSUME Inv, [Next]_vars
  PROVE  Inv'
<1>0. /\ TypeInv /\ capacity \in [Resource -> Nat \cup {Unlimited}]
      /\ Strategy = {"no_intervention", "fixed_rule", "ev_greedy", "rpa"}
  BY DEF Inv, TypeInv, Strategy
<1>1. CASE Sample
  <2>1. /\ capacity' = capacity /\ batch' \in Batches /\ remaining' = capacity'
        /\ phase' = "fixed_rule"
        /\ plan' = [s \in Strategy |-> Undecided'] /\ todo' = Position'
    BY <1>1 DEF Sample, NoIntervention, Undecided, Position
  <2>2. /\ batch' \in Seq(Transaction)
        /\ capacity' \in [Resource -> Nat \cup {Unlimited}]
    BY <1>0, <2>1, ExperimentAssumption
  <2>3. \A s \in Strategy : plan'[s] = Undecided'
    BY <2>1
  <2>4. \A r \in Resource : Use(Undecided, r)' = 0
    BY <2>2, NothingUsed DEF Use, Undecided, Position
  <2>5. \A s \in Strategy : \A r \in Resource : Use(plan[s], r)' = 0
    BY <2>3, <2>4 DEF Use
  <2>6. PlansFit'
    BY <2>2, <2>5 DEF PlansFit, Feasible
  <2>7. plan' \in [Strategy -> [Position' -> Choice]]
    <3>1. Undecided' \in [Position' -> Choice]
      BY Actions DEF Undecided
    <3> QED
      BY <2>1, <3>1
  <2>8. \A i \in todo' : plan'["fixed_rule"][i] = None
    BY <1>0, <2>1, <2>3 DEF Undecided
  <2>9. Room("fixed_rule")'
    BY <1>0, <2>1, <2>2, <2>5 DEF Room
  <2> QED
    BY <1>0, <2>1, <2>2, <2>3, <2>6, <2>7, <2>8, <2>9 DEF Inv, TypeInv, Planning
<1>2. CASE FixedRule
  <2> DEFINE s == "fixed_rule"
             i == Min(todo)
             a == Affordable(batch[i])
  <2>1. /\ phase = s /\ phase' = s /\ todo # {} /\ Decide(s, i, a) /\ UNCHANGED inputs
        /\ s \in Strategy /\ Planning(s)
        /\ plan["ev_greedy"] = Undecided /\ plan["rpa"] = Undecided
    BY <1>0, <1>2 DEF FixedRule, Inv
  <2>2. i \in todo
    <3>1. todo \in SUBSET Nat
      BY <1>0 DEF TypeInv, Position
    <3> QED
      BY <2>1, <3>1, MinIn
  <2>3. batch[i] \in Transaction
    BY <1>0, <2>2 DEF TypeInv, Position
  <2>4. a \in Choice /\ CanApply(remaining, a)
    BY <2>1, <2>3, AffordableFits DEF Planning
  <2>5. /\ TypeInv' /\ Planning(s)' /\ Feasible(plan[s])'
        /\ \A o \in Strategy \ {s} : plan'[o] = plan[o]
    <3> HIDE DEF s, i, a
    <3> QED
      BY <1>0, <2>1, <2>2, <2>4, DecisionFits
  <2>6. PlansFit'
    BY <2>1, <2>5 DEF Inv, PlansFit, Feasible, Use, inputs, Position
  <2> QED
    BY <1>0, <2>1, <2>5, <2>6 DEF Inv, Undecided, inputs, Position
<1>3. CASE EvGreedy
  <2> DEFINE s == "ev_greedy"
             i == Min({j \in todo : \A k \in todo : Marginal(k) <= Marginal(j)})
             a == Best(i, Fitting(i))
  <2>1. /\ phase = s /\ phase' = s /\ todo # {} /\ Decide(s, i, a) /\ UNCHANGED inputs
        /\ s \in Strategy /\ Planning(s) /\ plan["rpa"] = Undecided
    BY <1>0, <1>3 DEF EvGreedy, Inv
  <2>2. i \in todo /\ i \in Position
    BY <1>0, <2>1, NextGreedy DEF TypeInv
  <2>3. Fitting(i) \in SUBSET Choice /\ Fitting(i) # {}
    BY <2>1, NoneApplies, Actions DEF Planning, Fitting
  <2>4. a \in Choice /\ CanApply(remaining, a)
    <3>1. a \in Fitting(i)
      BY <1>0, <2>2, <2>3, BestIn
    <3> QED
      BY <3>1 DEF Fitting
  <2>5. /\ TypeInv' /\ Planning(s)' /\ Feasible(plan[s])'
        /\ \A o \in Strategy \ {s} : plan'[o] = plan[o]
    <3> HIDE DEF s, i, a
    <3> QED
      BY <1>0, <2>1, <2>2, <2>4, DecisionFits
  <2>6. PlansFit'
    BY <2>1, <2>5 DEF Inv, PlansFit, Feasible, Use, inputs, Position
  <2> QED
    BY <1>0, <2>1, <2>5, <2>6 DEF Inv, Undecided, inputs, Position
<1>4. CASE FixedRuleDone \/ EvGreedyDone
  <2>1. /\ UNCHANGED <<capacity, batch, plan>> /\ remaining' = capacity /\ todo' = Position
        /\ \/ phase = "fixed_rule" /\ phase' = "ev_greedy"
           \/ phase = "ev_greedy" /\ phase' = "rpa"
    BY <1>4 DEF FixedRuleDone, EvGreedyDone, Planned, inputs
  <2>2. Position' = Position /\ Undecided' = Undecided
    BY <2>1 DEF Position, Undecided
  <2>3. TypeInv' /\ PlansFit'
    BY <2>1, <2>2 DEF Inv, TypeInv, PlansFit, Feasible, Use
  <2>4. phase' = "ev_greedy" => plan["ev_greedy"] = Undecided /\ plan["rpa"] = Undecided
    BY <2>1 DEF Inv
  <2>5. phase' = "ev_greedy" => Planning("ev_greedy")'
    <3>1. \A r \in Resource : Use(Undecided, r) = 0
      BY <1>0, NothingUsed DEF TypeInv, Use, Undecided, Position
    <3>2. phase' = "ev_greedy" => Room("ev_greedy")'
      BY <1>0, <2>1, <2>2, <2>4, <3>1 DEF Room, Use
    <3> QED
      BY <2>1, <2>2, <2>4, <3>2 DEF Planning, Undecided
  <2>6. phase' = "rpa" => plan["rpa"] = Undecided
    BY <2>1 DEF Inv
  <2> QED
    BY <2>1, <2>2, <2>3, <2>4, <2>5, <2>6 DEF Inv
<1>5. CASE Solve \/ SolveFails
  <2>1. PICK p, status : Solved(status, p) /\ p \in [Position -> Choice] /\ Feasible(p)
    <3>1. CASE Solve
      BY <3>1 DEF Solve
    <3>2. CASE SolveFails
      <4>1. Solved("failed", Undecided)
        BY <3>2 DEF SolveFails, Undecided
      <4> QED
        BY <1>0, <4>1, UndecidedFits DEF TypeInv
    <3> QED
      BY <1>5, <3>1, <3>2
  <2>2. /\ UNCHANGED <<capacity, batch>> /\ todo' = {} /\ phase' = "observe"
        /\ plan' = [plan EXCEPT !["rpa"] = p]
    BY <2>1 DEF Solved, inputs
  <2>3. Position' = Position
    BY <2>2 DEF Position
  <2>4. /\ plan' \in [Strategy -> [Position -> Choice]]
        /\ \A s \in Strategy : plan'[s] = IF s = "rpa" THEN p ELSE plan[s]
    BY <1>0, <2>1, <2>2 DEF TypeInv
  <2>5. TypeInv'
    BY <1>0, <2>2, <2>3, <2>4 DEF TypeInv
  <2>6. PlansFit'
    BY <2>1, <2>2, <2>3, <2>4 DEF Inv, PlansFit, Feasible, Use
  <2> QED
    BY <2>2, <2>5, <2>6 DEF Inv
<1>6. CASE /\ UNCHANGED <<capacity, batch, plan, todo>>
           /\ phase' \in {"sample", "compare", "done"}
  <2>1. Position' = Position
    BY <1>6 DEF Position
  <2> QED
    BY <1>6, <2>1 DEF Inv, TypeInv, PlansFit, Feasible, Use
<1>7. CASE UNCHANGED <<capacity, batch, plan, todo, remaining, phase>>
  <2>1. Position' = Position /\ Undecided' = Undecided
    BY <1>7 DEF Position, Undecided
  <2>2. \A s \in Strategy : Planning(s)' = Planning(s)
    BY <1>7, <2>1 DEF Planning, Room, Use
  <2> QED
    BY <1>0, <1>7, <2>1, <2>2 DEF Inv, TypeInv, PlansFit, Feasible, Use
<1>8. CASE Observe \/ Compare
  BY <1>6, <1>8 DEF Observe, Compare, inputs
<1>9. CASE UNCHANGED vars
  BY <1>7, <1>9 DEF vars
<1> QED
  BY <1>1, <1>2, <1>3, <1>4, <1>5, <1>8, <1>9 DEF Next

-----------------------------------------------------------------------------
(* What is best for each transaction.                                      *)

Bests == [i \in Position |-> Best(i, Choice)]

OptimalInv ==
  /\ phase = "ev_greedy" /\ BestFits =>
       \A i \in Position \ todo : plan["ev_greedy"][i] = Bests[i]
  /\ phase \in {"rpa", "observe"} /\ BestFits => plan["ev_greedy"] = Bests
  /\ phase = "observe" /\ solver = "optimal" =>
       \A p \in [Position -> Choice] : Feasible(p) => Value(p) <= Value(plan["rpa"])

LEMMA BestsFacts ==
  ASSUME TypeInv
  PROVE  /\ Bests \in [Position -> Choice]
         /\ \A i \in Position : \A a \in Choice :
              EV(i, a) \in Int /\ EV(i, a) <= EV(i, Bests[i])
<1>1. Choice \in SUBSET Choice /\ Choice # {}
  BY Actions
<1>2. \A i \in Position :
        Best(i, Choice) \in Choice /\ \A a \in Choice : EV(i, a) <= EV(i, Best(i, Choice))
  BY <1>1, BestIn
<1> QED
  BY <1>2, ValueInt DEF Bests

(* No plan is worth more than the best of each, and where each has one     *)
(* best action every other plan is worth less.                             *)
LEMMA BestsWorth ==
  ASSUME TypeInv, NEW p \in [Position -> Choice]
  PROVE  /\ Value(p) \in Int /\ Value(Bests) \in Int /\ Value(p) <= Value(Bests)
         /\ BestFits /\ p # Bests => Value(p) < Value(Bests)
<1> DEFINE n == Len(batch)
           a == [i \in Position |-> EV(i, p[i])]
           b == [i \in Position |-> EV(i, Bests[i])]
<1>1. n \in Nat /\ Position = 1..n
  BY DEF TypeInv, Position
<1>2. \A i \in 1..n : a[i] \in Int /\ b[i] \in Int /\ a[i] <= b[i]
  BY <1>1, BestsFacts
<1>3. ASSUME BestFits, p # Bests
      PROVE  \E k \in 1..n : a[k] < b[k]
  <2>1. PICK k \in Position : p[k] # Bests[k]
    BY <1>3, BestsFacts
  <2>2. EV(k, p[k]) < EV(k, Bests[k])
    BY <1>3, <2>1 DEF BestFits, Bests
  <2> QED
    BY <1>1, <2>1, <2>2
<1>4. Value(p) = SumTo(a, n) /\ Value(Bests) = SumTo(b, n)
  BY DEF Value
<1> HIDE DEF a, b, n
<1>5. SumTo(a, n) \in Int /\ SumTo(b, n) \in Int /\ SumTo(a, n) <= SumTo(b, n)
  BY <1>1, <1>2, SumInt, SumMonotone
<1>6. BestFits /\ p # Bests => SumTo(a, n) < SumTo(b, n)
  <2> SUFFICES ASSUME BestFits, p # Bests PROVE SumTo(a, n) < SumTo(b, n)
    OBVIOUS
  <2>1. PICK k \in 1..n : a[k] < b[k]
    BY <1>3
  <2> QED
    BY <1>1, <1>2, <2>1, SumStrict
<1> QED
  BY <1>4, <1>5, <1>6

(* The greatest value there is, is the value of no feasible plan exceeded. *)
LEMMA OptimumBounds ==
  ASSUME TypeInv, NEW p \in [Position -> Choice], Feasible(p)
  PROVE  Value(p) <= Max({Value(q) : q \in {q \in [Position -> Choice] : Feasible(q)}})
<1> DEFINE values == {Value(q) : q \in {q \in [Position -> Choice] : Feasible(q)}}
<1>1. values \in SUBSET Int /\ Value(p) \in values /\ \A x \in values : x <= Value(Bests)
  BY BestsWorth
<1>2. Value(Bests) \in Int
  BY BestsWorth
<1> HIDE DEF values
<1>3. \A x \in values : x <= Max(values)
  BY <1>1, <1>2, MaxIn
<1> QED
  BY <1>1, <1>3 DEF values

(* What is decided being the best, the best of the next transaction fits.  *)
LEMMA GreedyTakesBest ==
  ASSUME TypeInv, Planning("ev_greedy"), BestFits, NEW i \in todo,
         \A k \in Position \ todo : plan["ev_greedy"][k] = Bests[k]
  PROVE  Best(i, Fitting(i)) = Bests[i]
<1> DEFINE p == plan["ev_greedy"]
           best == Bests[i]
           q == [p EXCEPT ![i] = best]
<1>1. /\ i \in Position /\ p \in [Position -> Choice] /\ p[i] = None /\ best \in Choice
      /\ q \in [Position -> Choice]
  BY BestsFacts DEF TypeInv, Planning, Strategy
<1>2. ASSUME NEW r \in Resource, remaining[r] # Unlimited
      PROVE  Needs(best, r) <= remaining[r]
  <2>1. /\ capacity[r] # Unlimited /\ remaining[r] \in Nat
        /\ Use(p, r) + remaining[r] = capacity[r]
    BY <1>2 DEF Planning, Room
  <2>2. Use(q, r) = Use(p, r) + Needs(best, r) /\ Needs(best, r) \in Nat
    BY <1>1, UseAfter, NeedsNat
  <2>3. Use(q, r) <= Use(Bests, r)
    <3> DEFINE n == Len(batch)
               a == [k \in Position |-> Needs(q[k], r)]
               b == [k \in Position |-> Needs(Bests[k], r)]
    <3>1. n \in Nat /\ Position = 1..n
      BY DEF TypeInv, Position
    <3>2. ASSUME NEW k \in 1..n
          PROVE  a[k] \in Int /\ b[k] \in Int /\ a[k] <= b[k]
      <4>1. q[k] = Bests[k] \/ q[k] = None
        BY <1>1, <3>1 DEF Planning
      <4>2. a[k] = Needs(q[k], r) /\ b[k] = Needs(Bests[k], r)
        BY <3>1
      <4>3. a[k] \in Nat /\ b[k] \in Nat /\ Needs(None, r) = 0
        BY <4>2, NeedsNat
      <4> QED
        BY <4>1, <4>2, <4>3
    <3>3. Use(q, r) = SumTo(a, n) /\ Use(Bests, r) = SumTo(b, n)
      BY DEF Use
    <3> HIDE DEF a, b, n
    <3> QED
      BY <3>1, <3>2, <3>3, SumMonotone
  <2>4. Use(Bests, r) <= capacity[r]
    BY <2>1 DEF BestFits, Demand, Bests
  <2>5. Use(p, r) \in Nat /\ Use(Bests, r) \in Nat /\ Use(q, r) \in Nat
    BY <1>1, UseNat, BestsFacts
  <2> HIDE DEF p, q, best
  <2>6. capacity[r] \in Int
    BY <2>1, <2>5
  <2> QED
    BY <2>1, <2>2, <2>3, <2>4, <2>5, <2>6
<1>3. best \in Fitting(i) /\ Fitting(i) \in SUBSET Choice
  BY <1>1, <1>2 DEF Fitting, CanApply
<1>4. /\ Best(i, Fitting(i)) \in Choice
      /\ EV(i, best) <= EV(i, Best(i, Fitting(i)))
  BY <1>1, <1>3, BestIn
<1>5. Best(i, Fitting(i)) # best => EV(i, Best(i, Fitting(i))) < EV(i, best)
  BY <1>1, <1>4 DEF BestFits, Bests
<1>6. EV(i, best) \in Int /\ EV(i, Best(i, Fitting(i))) \in Int
  BY <1>1, <1>4, ValueInt
<1> HIDE DEF best
<1>7. Best(i, Fitting(i)) = best
  BY <1>4, <1>5, <1>6
<1> QED
  BY <1>7 DEF best

(* All of this depends on the batch and the capacities alone.              *)
LEMMA SameBatch ==
  ASSUME UNCHANGED <<batch, capacity>>
  PROVE  /\ Position' = Position /\ Bests' = Bests /\ BestFits' = BestFits
         /\ \A p : Value(p)' = Value(p) /\ Feasible(p)' = Feasible(p)
<1>1. Position' = Position
  BY DEF Position
<1>2. \A i, a : EV(i, a)' = EV(i, a)
  BY DEF EV
<1>3. \A i, S : Best(i, S)' = Best(i, S)
  BY <1>2 DEF Best
<1>4. Bests' = Bests
  BY <1>1, <1>3 DEF Bests
<1>5. ASSUME NEW CONSTANT p PROVE Value(p)' = Value(p) /\ Feasible(p)' = Feasible(p)
  <2>1. [i \in Position |-> EV(i, p[i])]' = [i \in Position |-> EV(i, p[i])]
    BY <1>1, <1>2
  <2>2. Value(p)' = Value(p)
    BY <2>1 DEF Value
  <2>3. Feasible(p)' = Feasible(p)
    BY <1>1 DEF Feasible, Use
  <2> QED
    BY <2>2, <2>3
<1>6. BestFits' = BestFits
  BY <1>1, <1>2, <1>3, <1>5 DEF BestFits, Demand, Use
<1> QED
  BY <1>1, <1>4, <1>5, <1>6

LEMMA OptimalStep ==
  ASSUME Inv, OptimalInv, [Next]_vars
  PROVE  OptimalInv'
<1>0. TypeInv /\ TypeInv'
  BY StepInv DEF Inv
<1>1. CASE Sample \/ FixedRule \/ Observe \/ Compare
  <2>1. phase' \notin {"ev_greedy", "rpa", "observe"}
    BY <1>1 DEF Sample, FixedRule, Observe, Compare
  <2> QED
    BY <2>1 DEF OptimalInv
<1>2. CASE FixedRuleDone
  <2>1. phase' = "ev_greedy" /\ todo' = Position'
    BY <1>2 DEF FixedRuleDone, Planned, inputs, Position
  <2> QED
    BY <2>1 DEF OptimalInv
<1>3. CASE EvGreedy
  <2> DEFINE i == Min({j \in todo : \A k \in todo : Marginal(k) <= Marginal(j)})
  <2>1. /\ phase = "ev_greedy" /\ phase' = "ev_greedy" /\ todo # {}
        /\ Decide("ev_greedy", i, Best(i, Fitting(i))) /\ UNCHANGED inputs
    BY <1>3 DEF EvGreedy
  <2>2. i \in todo /\ i \in Position
    BY <1>0, <2>1, NextGreedy DEF TypeInv
  <2> HIDE DEF i
  <2>3. BestFits' = BestFits /\ Bests' = Bests /\ Position' = Position
    BY <2>1, SameBatch DEF inputs
  <2>4. ASSUME BestFits, NEW k \in Position \ todo'
        PROVE  plan'["ev_greedy"][k] = Bests[k]
    <3>1. \A m \in Position \ todo : plan["ev_greedy"][m] = Bests[m]
      BY <2>1, <2>4 DEF OptimalInv
    <3>2. Best(i, Fitting(i)) = Bests[i]
      BY <1>0, <2>1, <2>2, <2>4, <3>1, GreedyTakesBest DEF Inv
    <3>3. plan'["ev_greedy"] = [plan["ev_greedy"] EXCEPT ![i] = Bests[i]]
          /\ plan["ev_greedy"] \in [Position -> Choice] /\ todo' = todo \ {i}
      BY <1>0, <2>1, <3>2 DEF Decide, TypeInv, Strategy
    <3> QED
      BY <2>2, <2>4, <3>1, <3>3
  <2> QED
    BY <2>1, <2>3, <2>4 DEF OptimalInv
<1>4. CASE EvGreedyDone
  <2>1. /\ phase = "ev_greedy" /\ phase' = "rpa" /\ todo = {} /\ UNCHANGED <<plan, inputs>>
    BY <1>4 DEF EvGreedyDone, Planned
  <2>2. BestFits' = BestFits /\ Bests' = Bests
    BY <2>1, SameBatch DEF inputs
  <2>3. BestFits => plan["ev_greedy"] = Bests
    <3>1. plan["ev_greedy"] \in [Position -> Choice] /\ Bests \in [Position -> Choice]
      BY <1>0, BestsFacts DEF TypeInv, Strategy
    <3> QED
      BY <2>1, <3>1 DEF OptimalInv
  <2> QED
    BY <2>1, <2>2, <2>3 DEF OptimalInv
<1>5. CASE Solve \/ SolveFails
  <2>1. PICK p, status :
          /\ Solved(status, p)
          /\ p \in [Position -> Choice]
          /\ status = "optimal" =>
               \A q \in [Position -> Choice] : Feasible(q) => Value(q) <= Value(p)
    <3>1. CASE Solve
      <4> DEFINE feasible == {q \in [Position -> Choice] : Feasible(q)}
      <4>1. CASE \E q \in feasible : Solved("feasible", q)
        BY <4>1
      <4>2. CASE \E q \in feasible :
                   Value(q) = Max({Value(o) : o \in feasible}) /\ Solved("optimal", q)
        BY <1>0, <4>2, OptimumBounds
      <4> QED
        BY <3>1, <4>1, <4>2 DEF Solve
    <3>2. CASE SolveFails
      <4>1. Solved("failed", Undecided) /\ Undecided \in [Position -> Choice]
        BY <3>2, Actions DEF SolveFails, Undecided
      <4> QED
        BY <4>1
    <3> QED
      BY <1>5, <3>1, <3>2
  <2>2. /\ phase = "rpa" /\ phase' = "observe" /\ UNCHANGED inputs /\ solver' = status
        /\ plan'["rpa"] = p /\ plan'["ev_greedy"] = plan["ev_greedy"]
    BY <1>0, <1>5, <2>1 DEF Solve, SolveFails, Solved, TypeInv, Strategy
  <2>3. /\ BestFits' = BestFits /\ Bests' = Bests /\ Position' = Position
        /\ \A q : Value(q)' = Value(q) /\ Feasible(q)' = Feasible(q)
    BY <2>2, SameBatch DEF inputs
  <2>4. Value(plan["rpa"])' = Value(p)
    <3>1. [i \in Position |-> EV(i, plan["rpa"][i])]' = [i \in Position |-> EV(i, p[i])]
      BY <2>2, <2>3 DEF EV, inputs
    <3> QED
      BY <2>2, <3>1 DEF Value, inputs
  <2> QED
    BY <2>1, <2>2, <2>3, <2>4 DEF OptimalInv
<1>6. CASE UNCHANGED vars
  <2>1. /\ BestFits' = BestFits /\ Bests' = Bests /\ Position' = Position
        /\ \A q : Value(q)' = Value(q) /\ Feasible(q)' = Feasible(q)
    BY <1>6, SameBatch DEF vars
  <2>2. Value(plan["rpa"])' = Value(plan["rpa"])
    BY <1>6, <2>1 DEF Value, EV, vars
  <2> QED
    BY <1>6, <2>1, <2>2 DEF OptimalInv, vars
<1> QED
  BY <1>1, <1>2, <1>3, <1>4, <1>5, <1>6 DEF Next

-----------------------------------------------------------------------------
(* The comparison.  While nothing was scarce, what rpa recovered is what   *)
(* the greedy strategy recovered, seed by seed.                            *)

RecordInv ==
  /\ seed \in Nat
  /\ recovered \in [Strategy -> Seq(Int)]
  /\ \A s \in Strategy :
       Len(recovered[s]) = IF phase \in {"sample", "compare", "done"} THEN seed ELSE seed - 1
  /\ phase \in {"compare", "done"} => seed = Seeds
  /\ slack => recovered["rpa"] = recovered["ev_greedy"]

LiftInv == RecordInv /\ NoLiftWithoutScarcity

LEMMA RecoveredInt ==
  ASSUME TypeInv, NEW s
  PROVE  Recovered(s) \in Int
<1> DEFINE a == [i \in Position |-> IF Succeeds(s, i) THEN batch[i].amount ELSE 0]
           n == Len(batch)
<1>1. n \in Nat /\ Position = 1..n
  BY DEF TypeInv, Position
<1>2. \A i \in Position : batch[i].amount \in Int
  <2>1. \A i \in Position : batch[i] \in Transaction
    BY DEF TypeInv, Position
  <2> QED
    BY <2>1 DEF Transaction
<1>3. \A i \in 1..n : a[i] \in Int
  BY <1>1, <1>2
<1> HIDE DEF a, n
<1>4. SumTo(a, n) \in Int
  BY <1>1, <1>3, SumInt
<1> QED
  BY <1>4 DEF Recovered, a, n

LEMMA LiftStep ==
  ASSUME Inv, OptimalInv, LiftInv, [Next]_vars
  PROVE  LiftInv'
<1>0. /\ TypeInv
      /\ Strategy = {"no_intervention", "fixed_rule", "ev_greedy", "rpa"}
  BY DEF Inv, Strategy
<1>1. CASE Sample
  <2>1. phase = "sample" /\ phase' = "fixed_rule" /\ seed' = seed + 1 /\ UNCHANGED <<recovered, slack>>
    BY <1>1 DEF Sample, results
  <2> QED
    BY <2>1 DEF LiftInv, RecordInv, NoLiftWithoutScarcity
<1>2. CASE FixedRule \/ FixedRuleDone \/ EvGreedy \/ EvGreedyDone \/ Solve \/ SolveFails
  <2>1. /\ phase \notin {"sample", "compare", "done"} /\ phase' \notin {"sample", "compare", "done"}
        /\ UNCHANGED <<seed, recovered, slack>>
    BY <1>2 DEF FixedRule, FixedRuleDone, EvGreedy, EvGreedyDone, Planned, Solve,
       SolveFails, Solved, inputs, results
  <2> QED
    BY <2>1 DEF LiftInv, RecordInv, NoLiftWithoutScarcity
<1>3. CASE Observe
  <2>1. /\ phase = "observe" /\ seed' = seed
        /\ recovered' = [s \in Strategy |-> Append(recovered[s], Recovered(s))]
        /\ slack' => slack /\ BestFits /\ solver = "optimal"
        /\ phase' = IF seed = Seeds THEN "compare" ELSE "sample"
    BY <1>3 DEF Observe, inputs
  <2>2. \A s \in Strategy : recovered[s] \in Seq(Int) /\ Recovered(s) \in Int
    BY <1>0, RecoveredInt DEF LiftInv, RecordInv
  <2>3. ASSUME NEW s \in Strategy
        PROVE  /\ Append(recovered[s], Recovered(s)) \in Seq(Int)
               /\ Len(Append(recovered[s], Recovered(s))) = Len(recovered[s]) + 1
    BY <2>2
  <2>4. recovered' \in [Strategy -> Seq(Int)]
    BY <2>1, <2>3
  <2>5. \A s \in Strategy : Len(recovered'[s]) = seed'
    BY <2>1, <2>3 DEF LiftInv, RecordInv
  <2>6. slack' => recovered'["rpa"] = recovered'["ev_greedy"]
    <3> SUFFICES ASSUME slack' PROVE recovered'["rpa"] = recovered'["ev_greedy"]
      OBVIOUS
    <3>1. recovered["rpa"] = recovered["ev_greedy"] /\ BestFits /\ solver = "optimal"
      BY <2>1 DEF LiftInv, RecordInv
    <3>2. plan["rpa"] = plan["ev_greedy"]
      <4>1. plan["ev_greedy"] = Bests /\ plan["rpa"] \in [Position -> Choice]
        BY <1>0, <2>1, <3>1 DEF OptimalInv, TypeInv
      <4>2. Feasible(Bests)
        BY <3>1 DEF BestFits, Demand, Feasible, Bests
      <4>3. Value(Bests) <= Value(plan["rpa"])
        BY <1>0, <2>1, <3>1, <4>2, BestsFacts DEF OptimalInv
      <4>4. Value(plan["rpa"]) \in Int /\ Value(Bests) \in Int
        BY <1>0, <4>1, BestsWorth
      <4>5. plan["rpa"] # Bests => Value(plan["rpa"]) < Value(Bests)
        BY <1>0, <3>1, <4>1, BestsWorth
      <4> QED
        BY <4>1, <4>3, <4>4, <4>5
    <3>3. Recovered("rpa") = Recovered("ev_greedy")
      BY <3>2 DEF Recovered, Succeeds, DrawOf
    <3> QED
      BY <1>0, <2>1, <3>1, <3>3
  <2> QED
    BY <2>1, <2>4, <2>5, <2>6 DEF LiftInv, RecordInv, NoLiftWithoutScarcity
<1>4. CASE Compare
  <2>1. phase = "compare" /\ phase' = "done" /\ UNCHANGED <<seed, recovered, slack>>
    BY <1>4 DEF Compare, inputs
  <2>2. RecordInv'
    BY <2>1 DEF LiftInv, RecordInv
  <2>3. ASSUME slack PROVE lift' = [wins |-> 0, ties |-> Seeds, losses |-> 0]
    <3> DEFINE rpa == recovered["rpa"]
               greedy == recovered["ev_greedy"]
    <3>1. rpa = greedy /\ \A k \in 1..Seeds : greedy[k] \in Int
      BY <1>0, <2>1, <2>3 DEF LiftInv, RecordInv
    <3>2. lift' = [wins |-> Cardinality({k \in 1..Seeds : greedy[k] > 0 /\ rpa[k] > greedy[k]}),
                   ties |-> Cardinality({k \in 1..Seeds : greedy[k] = 0 \/ rpa[k] = greedy[k]}),
                   losses |-> Cardinality({k \in 1..Seeds : greedy[k] > 0 /\ rpa[k] < greedy[k]})]
      BY <1>4 DEF Compare
    <3> HIDE DEF rpa, greedy
    <3>3. /\ {k \in 1..Seeds : greedy[k] > 0 /\ rpa[k] > greedy[k]} = {}
          /\ {k \in 1..Seeds : greedy[k] = 0 \/ rpa[k] = greedy[k]} = 1..Seeds
          /\ {k \in 1..Seeds : greedy[k] > 0 /\ rpa[k] < greedy[k]} = {}
      BY <3>1
    <3>4. Cardinality({}) = 0 /\ Cardinality(1..Seeds) = Seeds
      BY FS_EmptySet, FS_Interval, ExperimentAssumption
    <3> QED
      BY <3>2, <3>3, <3>4
  <2> QED
    BY <2>1, <2>2, <2>3 DEF LiftInv, NoLiftWithoutScarcity
<1>5. CASE UNCHANGED vars
  BY <1>5 DEF vars, LiftInv, RecordInv, NoLiftWithoutScarcity
<1> QED
  BY <1>1, <1>2, <1>3, <1>4, <1>5 DEF Next

-----------------------------------------------------------------------------
(* Theorems.                                                               *)

LEMMA AllInv == Spec => [](Inv /\ OptimalInv /\ LiftInv)
<1>1. Init => Inv /\ OptimalInv /\ LiftInv
  <2> SUFFICES ASSUME Init PROVE OptimalInv /\ LiftInv
    BY InitInv
  <2>1. phase = "sample" /\ seed = 0 /\ recovered = [s \in Strategy |-> <<>>]
    BY DEF Init
  <2>2. <<>> \in Seq(Int) /\ Len(<<>>) = 0
    OBVIOUS
  <2> QED
    BY <2>1, <2>2 DEF OptimalInv, LiftInv, RecordInv, NoLiftWithoutScarcity, Strategy
<1>2. Inv /\ OptimalInv /\ LiftInv /\ [Next]_vars => (Inv /\ OptimalInv /\ LiftInv)'
  BY StepInv, OptimalStep, LiftStep
<1> QED
  BY <1>1, <1>2, PTL DEF Spec

(* No plan of any strategy, half made or complete, uses more of a resource *)
(* than the scenario has, for any batch and scenario (strategies.py:65-87, *)
(* optimizer.py:90-103).                                                   *)
THEOREM EveryPlanFits == Spec => []PlansFit
<1>1. Inv => PlansFit
  BY DEF Inv
<1> QED
  BY <1>1, AllInv, PTL

(* For any batch and capacities a proven optimum is worth no less than the *)
(* plans of the heuristics, and is the greedy plan where what is best for  *)
(* each transaction fits (strategies.py:228-234).                          *)
THEOREM OptimumIsBest == Spec => []RpaIsBest
<1>1. Inv /\ OptimalInv => RpaIsBest
  <2> SUFFICES ASSUME Inv, OptimalInv, phase = "observe", solver = "optimal"
               PROVE  /\ \A s \in Strategy : Value(plan[s]) <= Value(plan["rpa"])
                      /\ BestFits => plan["ev_greedy"] = plan["rpa"]
    BY DEF RpaIsBest
  <2>1. /\ TypeInv /\ \A s \in Strategy : plan[s] \in [Position -> Choice] /\ Feasible(plan[s])
        /\ "rpa" \in Strategy
    BY DEF Inv, TypeInv, PlansFit, Strategy
  <2>2. \A p \in [Position -> Choice] : Feasible(p) => Value(p) <= Value(plan["rpa"])
    BY DEF OptimalInv
  <2>3. ASSUME BestFits PROVE plan["ev_greedy"] = plan["rpa"]
    <3>1. plan["ev_greedy"] = Bests /\ Feasible(Bests)
      BY <2>3 DEF OptimalInv, BestFits, Demand, Feasible, Bests
    <3>2. Value(Bests) <= Value(plan["rpa"])
      BY <2>1, <2>2, <3>1, BestsFacts
    <3>3. /\ Value(plan["rpa"]) \in Int /\ Value(Bests) \in Int
          /\ plan["rpa"] # Bests => Value(plan["rpa"]) < Value(Bests)
      BY <2>1, <2>3, BestsWorth
    <3> QED
      BY <3>1, <3>2, <3>3
  <2> QED
    BY <2>1, <2>2, <2>3
<1> QED
  BY <1>1, AllInv, PTL

(* For any number of seeds, where nothing is scarce in any of them every   *)
(* seed is a tie (outcome_simulator.py:61-86, metrics.py:161-198).         *)
THEOREM NoLiftFromLuck == Spec => []NoLiftWithoutScarcity
<1>1. LiftInv => NoLiftWithoutScarcity
  BY DEF LiftInv
<1> QED
  BY <1>1, AllInv, PTL
=============================================================================
