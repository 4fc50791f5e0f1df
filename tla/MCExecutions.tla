---------------------------- MODULE MCExecutions ----------------------------
(* Instances of Executions for TLC. *)
EXTENDS Executions

Req(key, job, txn, expires) ==
  [key |-> key, job |-> job, txn |-> txn, expires |-> expires]

\* A request, another with its key, one for its transaction, one with a job
\* that does not exist.
MCRequests == {Req(1, 1, 1, 1), Req(1, 1, 2, 1), Req(2, 1, 1, 1), Req(3, 9, 3, 1)}

\* The table of V003, and tables with the columns transition() needs.
MCSchemas ==
  {[columns |-> {}, defaults |-> {}],
   [columns |-> Flag, defaults |-> {"policy_allowed"}],
   [columns |-> Flag, defaults |-> {"policy_allowed", "resources_reserved"}]}
=============================================================================
