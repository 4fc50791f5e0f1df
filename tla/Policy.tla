------------------------------- MODULE Policy -------------------------------
(***************************************************************************)
(* The economics of a recovery action and the hard policy gate in front of *)
(* every strategy: rpa/ev_engine.py, rpa/policy_engine.py and the action   *)
(* catalogue of data_core/registry.py.  The module has no state.           *)
(*                                                                         *)
(* An action is its column in the catalogue, a transaction is its row in   *)
(* the batch, as in the matrices of the code.  Amounts are whole rupees;   *)
(* costs and expected values are in Scale-ths of a rupee, probabilities in *)
(* Scale-ths.                                                              *)
(***************************************************************************)
EXTENDS Integers, Sequences, FiniteSetsExt

CONSTANTS
  Catalogue,   \* sequence of [type, cost, req, enabled]: load_actions()
  Scale,       \* resolution of probabilities and of money below a rupee
  Null         \* a limit of None (JSON null)

Resource == {"retry", "messaging", "incentive_budget", "human_slots"}
ActionType == {"no_intervention", "retry", "payment_link",
               "customer_message", "incentive", "human_escalation"}
ActionSpec == [type : ActionType, cost : Nat,
               req : [Resource -> Nat], enabled : BOOLEAN]

Action == DOMAIN Catalogue
ActionOfType(type) == CHOOSE a \in Action : Catalogue[a].type = type
NoOp == ActionOfType("no_intervention")
IsNoOp(a) == Catalogue[a].type = "no_intervention"
Units(a, r) == Catalogue[a].req[r]

(***************************************************************************)
(* registry.py builds one action per type, among them the no-op, which     *)
(* costs nothing and needs no resource.                                    *)
(***************************************************************************)
ASSUME CatalogueAssumption ==
  /\ Catalogue \in Seq(ActionSpec)
  /\ \A a, b \in Action : Catalogue[a].type = Catalogue[b].type => a = b
  /\ \E a \in Action : IsNoOp(a)
  /\ \A a \in Action : IsNoOp(a) =>
       Catalogue[a].cost = 0 /\ \A r \in Resource : Units(a, r) = 0
ASSUME ScaleAssumption == Scale \in Nat /\ Scale >= 3
ASSUME NullAssumption == Null \notin Int

-----------------------------------------------------------------------------
(* Expected value of one (transaction, action) pair.                       *)

IncentiveFee == 5 * Scale       \* incentive_handling_fee, rupees per unit
Clip(p) == IF p < 1 THEN 1 ELSE IF p > Scale - 1 THEN Scale - 1 ELSE p
TotalCost(a) == Catalogue[a].cost + Units(a, "incentive_budget") * IncentiveFee

\* txn is a record with the amount and the predicted probability per action
NetEV(txn, a) == Clip(txn.prob[a]) * txn.amount - TotalCost(a)

-----------------------------------------------------------------------------
(* Resource state: a function on the capped resources only.                *)

Capped(limits) == {r \in DOMAIN limits : limits[r] # Null}
InitialResources(limits) == [r \in Capped(limits) |-> limits[r]]

\* Fault: any capacity left counts as enough.
CanConsumeAnyLeft(remaining, a) ==
  \A r \in DOMAIN remaining : Units(a, r) > 0 => remaining[r] > 0

CanConsume(remaining, a) ==
  \A r \in DOMAIN remaining : Units(a, r) > 0 => Units(a, r) <= remaining[r]

Consume(remaining, a) ==
  [r \in DOMAIN remaining |-> remaining[r] - Units(a, r)]

-----------------------------------------------------------------------------
(* The gate.  A policy is a record                                         *)
(*   [minNetEV, maxIncentive, maxRetries, prohibited, blocked].            *)

PolicyConfig == [minNetEV : Int, maxIncentive : Int \cup {Null},
                 maxRetries : Nat,
                 prohibited : SUBSET ActionType, blocked : SUBSET ActionType]

WithinIncentiveCap(policy, a) ==
  (policy.maxIncentive # Null /\ Units(a, "incentive_budget") > 0) =>
    Units(a, "incentive_budget") <= policy.maxIncentive

Allowed(policy, txn, a, resources) ==
  LET type == Catalogue[a].type
  IN  /\ Catalogue[a].enabled
      /\ type \notin policy.blocked
      /\ IsNoOp(a) \/ type \notin policy.prohibited
      /\ type = "retry" => txn.retries < policy.maxRetries
      /\ IsNoOp(a) \/ NetEV(txn, a) >= policy.minNetEV * Scale
      /\ WithinIncentiveCap(policy, a)
      /\ CanConsume(resources, a)
=============================================================================
