------------------------- MODULE MCDataPreparation -------------------------
(* Instances of DataPreparation for TLC. *)
EXTENDS DataPreparation

Cust(id, faults) == [id |-> id, faults |-> faults]
Txn(id, customer, faults, due, at) ==
  [id |-> id, customer |-> customer, faults |-> faults, due |-> due, overdue |-> 2,
   amount |-> 2, at |-> at]
Act(id, type, faults) == [id |-> id, type |-> type, faults |-> faults]
Out(id, txn, action, faults, at, recovered) ==
  [id |-> id, txn |-> txn, action |-> action, faults |-> faults, at |-> at,
   recovered |-> recovered]

\* Clean customers, one that is rejected, one rejected and then repeated.
MCCustomers ==
  {<<Cust("c1", {})>>, <<Cust("c1", {}), Cust("c2", {})>>,
   <<Cust("c1", {"order"}), Cust("c2", {})>>,
   <<Cust("c1", {"required"}), Cust("c1", {}), Cust("c2", {})>>}

\* One transaction each, one repeated, one due after the reference date.
MCTransactions ==
  {<<Txn("t1", "c1", {}, 2, 1), Txn("t2", "c2", {}, 2, 1)>>,
   <<Txn("t1", "c1", {}, 2, 1), Txn("t1", "c2", {}, 2, 1)>>,
   <<Txn("t1", "c1", {}, 1, 2), Txn("t2", "c1", {"order"}, 2, 1)>>,
   <<Txn("t1", "c1", {}, -1, 1), Txn("t2", "c2", {}, 3, 1)>>}

\* An optional value missing; before the payment; more than was owed; no
\* such transaction; no such action; dates in the wrong order.
MCOutcomes ==
  {<<>>, <<Out("o1", "t1", "a1", {"optional"}, 2, 1), Out("o2", "t2", "a1", {}, 0, 1)>>,
   <<Out("o1", "t1", "a1", {}, 2, 3), Out("o2", "t2", "a9", {}, 1, 2)>>,
   <<Out("o1", "t9", "a1", {}, 2, 1), Out("o2", "t2", "a1", {"order"}, 2, 1)>>}

MCActions == {<<Act("a1", "retry", {})>>}
MCFrame(C, A, T, O) ==
  {[customers |-> c, actions |-> a, transactions |-> t, outcomes |-> o] :
     c \in C, a \in A, t \in T, o \in O}

\* No action left, two of a type, requirements that are null; and an integer
\* that is missing, from a row that is rejected.
MCOddActions ==
  {<<Act("a1", "retry", {"required"})>>,
   <<Act("a1", "retry", {}), Act("a2", "retry", {})>>,
   <<Act("a1", "retry", {"defaulted"})>>}
MCFloat ==
  MCFrame({<<Cust("c1", {}), Cust("c2", {"integer"})>>, <<Cust("c1", {"integer"})>>},
          MCActions, {<<>>, <<Txn("t1", "c1", {}, 2, 1)>>}, {<<>>})

MCFrames ==
  MCFrame(MCCustomers, MCActions, MCTransactions, MCOutcomes)
  \cup MCFrame({<<Cust("c1", {})>>}, MCOddActions, {<<Txn("t1", "c1", {}, 2, 1)>>},
               {<<>>, <<Out("o1", "t1", "a1", {}, 2, 1)>>})
  \cup MCFloat

MCSplit == <<"train", "val", "test", "demo">>
MCPercent == [n \in FractionName |-> IF n = "train" THEN 40 ELSE 20]
=============================================================================
