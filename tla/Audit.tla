------------------------------- MODULE Audit -------------------------------
(***************************************************************************)
(* The audit trail of a batch, rpa/audit.py, and the explanation that is   *)
(* put together from it.  run_batch records one event per stage, and one   *)
(* per strategy for execution and verification, so the trail is a function *)
(* of the completed run and of the order its plans are worked through.     *)
(* An event is its component and its rows; texts, versions and the         *)
(* rejected alternatives are left out.                                     *)
(***************************************************************************)
EXTENDS RecoveryBatch, Sequences

\* The order of the strategies in the request: their plans are a dictionary.
Orders ==
  {order \in [1..Cardinality(planned) -> planned] :
     \A s \in planned : \E i \in DOMAIN order : order[i] = s}

Event(component, rows) == [component |-> component, rows |-> rows]

Pairs == {[txn |-> t, action |-> a] : t \in Txn, a \in Action}

Verdicts ==
  {[txn |-> t, action |-> a, verdict |-> IF IsApproved(t, a) THEN "allow" ELSE "block"] :
     t \in Txn, a \in Action}

Decisions ==
  {[strategy |-> s, txn |-> t, action |-> choice[s][t]] : s \in planned, t \in Txn}

Executions(s) == {[strategy |-> s, txn |-> t, status |-> outcome[s][t]] : t \in Txn}

Verifications(s) ==
  {[strategy |-> s, txn |-> t, passed |-> outcome[s][t] # "blocked"] : t \in Txn}

Trail(order) ==
  <<Event("prediction", Pairs), Event("ev", Pairs), Event("policy", Verdicts),
    Event("optimizer", Decisions)>>
  \o [k \in DOMAIN order |-> Event("execution", Executions(order[k]))]
  \o [k \in DOMAIN order |-> Event("verification", Verifications(order[k]))]

-----------------------------------------------------------------------------
(* explain_selection.                                                      *)

Rows(trail, component) ==
  UNION {trail[i].rows : i \in {i \in DOMAIN trail : trail[i].component = component}}

Decision(trail, t, s) ==
  {row \in Rows(trail, "optimizer") : row.strategy = s /\ row.txn = t}

\* Fault: the evidence is that of the first row of the transaction.
FirstRowAlways(trail, t, s, rows) ==
  {row \in rows : row.txn = t /\ \A other \in rows : other.txn = t => row.action <= other.action}

\* The rows of the action chosen, or without a decision the first.
Evidence(trail, t, s, rows) ==
  LET chosen == {row.action : row \in Decision(trail, t, s)}
      mine == {row \in rows : row.txn = t}
  IN  {row \in mine :
         IF chosen # {} THEN row.action \in chosen
         ELSE \A other \in mine : row.action <= other.action}

\* Each event of verification replaces the row shown, whatever its strategy.
LastVerification(trail, t) ==
  LET i == CHOOSE i \in DOMAIN trail :
             trail[i].component = "verification" /\ \A j \in DOMAIN trail : j <= i
  IN  {row \in trail[i].rows : row.txn = t}

Explanation(trail, t, s) ==
  [decision     |-> Decision(trail, t, s),
   prediction   |-> Evidence(trail, t, s, Rows(trail, "prediction")),
   ev           |-> Evidence(trail, t, s, Rows(trail, "ev")),
   policy       |-> Evidence(trail, t, s, Rows(trail, "policy")),
   execution    |-> {row \in Rows(trail, "execution") : row.strategy = s /\ row.txn = t},
   verification |-> LastVerification(trail, t)]

-----------------------------------------------------------------------------
(* Properties.                                                             *)

Consistent(x) ==
  \E decision \in x.decision, prediction \in x.prediction, ev \in x.ev,
     policyRow \in x.policy, execution \in x.execution :
    /\ prediction.action = decision.action /\ ev.action = decision.action
    /\ policyRow.action = decision.action
    /\ (policyRow.verdict = "allow") = (execution.status # "blocked")

(* The explanation of a strategy's decision holds together: every piece of *)
(* evidence is of the action it chose, and the verdict shown is the one    *)
(* the execution obeyed.  While the policy allows the no-op everywhere and *)
(* the solver was not stopped early, "a chosen action is always backed by  *)
(* an ALLOW verdict" (audit.py:264-269), so nothing is blocked and every   *)
(* plan passes verification.                                               *)
ExplanationBacked ==
  phase = "completed" =>
    \A order \in Orders : \E trail \in {Trail(order)} :
      \A s \in planned : \A t \in Txn : \E x \in {Explanation(trail, t, s)} :
        /\ Consistent(x)
        /\ (\A u \in Txn : IsApproved(u, NoOp)) /\ solver # "feasible" =>
             /\ \A row \in x.policy : row.verdict = "allow"
             /\ \A row \in x.verification : row.passed
             /\ verified = planned
=============================================================================
