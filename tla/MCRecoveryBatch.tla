-------------------------- MODULE MCRecoveryBatch --------------------------
(* Instances of RecoveryBatch for TLC. *)
EXTENDS Audit

CONSTANTS mNull, mMalformed, mNone

Req(retry, messaging, incentive, human) ==
  [retry |-> retry, messaging |-> messaging, incentive_budget |-> incentive,
   human_slots |-> human]
Spec1(type, cost, req) == [type |-> type, cost |-> cost, req |-> req, enabled |-> TRUE]

\* ACTION_SPECS of config.py; costs are in tenths of a rupee.
MCCatalogue ==
  << Spec1("no_intervention", 0, Req(0, 0, 0, 0)),
     Spec1("retry", 10, Req(1, 0, 0, 0)),
     Spec1("payment_link", 20, Req(0, 1, 0, 0)),
     Spec1("customer_message", 5, Req(0, 1, 0, 0)),
     Spec1("incentive", 250, Req(0, 1, 50, 0)),
     Spec1("human_escalation", 400, Req(0, 1, 0, 1)) >>

\* Three of them, for the runs of a stored batch.
MCShortCatalogue == <<MCCatalogue[1], MCCatalogue[2], MCCatalogue[4]>>

Large == [amount |-> 6000, overdue |-> 40, success |-> 20, retries |-> 2,
          prob |-> <<1, 3, 4, 3, 5, 8>>]
Overdue == [amount |-> 2000, overdue |-> 10, success |-> 70, retries |-> 0,
            prob |-> <<1, 6, 5, 4, 8, 7>>]
\* A message and a link have the same expected value; no retry is left.
Small == [amount |-> 15, overdue |-> 3, success |-> 80, retries |-> 2,
          prob |-> <<1, 5, 4, 3, 10, 6>>]
Recent == [amount |-> 900, overdue |-> 1, success |-> 50, retries |-> 1,
           prob |-> <<0, 7, 3, 4, 8, 9>>]

\* Worth an incentive of 55 rupees in all, not the 275 it is charged.
Modest == [amount |-> 200, overdue |-> 5, success |-> 65, retries |-> 2,
           prob |-> <<2, 4, 5, 4, 9, 6>>]

\* Contended, mixed and tied batches.
MCBatches ==
  {<<Large, Large, Large>>, <<Overdue, Large, Large>>, <<Large, Overdue, Overdue>>,
   <<Modest, Large, Recent>>, <<Small, Small, Small>>, <<Recent, Recent, Recent>>,
   <<Recent, Small, Overdue>>, <<Overdue, Overdue, Recent>>}

\* The second is the first, scored with other customers.
Unfamiliar == [Small EXCEPT !.prob = <<1, 2, 6, 1, 4, 6>>]
Short(txn) == [txn EXCEPT !.prob = <<@[1], @[2], @[4]>>]
MCStoredBatches ==
  {<<Short(Small), Short(Recent)>>, <<Short(Unfamiliar), Short(Recent)>>}

\* Ids as a CSV has them: plain, with leading zeros, and two that are one number.
MCIds == {"txn_a", "txn_b", "txn_c", "7", "07", "007", "8"}
MCNumberOf == [id \in {"7", "07", "007", "8"} |-> IF id = "8" THEN "8" ELSE "7"]
MCDraws == [txn_a |-> <<4, 7>>, txn_b |-> <<6, 5>>, txn_c |-> <<3, 3>>]
MCDrawOf ==
  [id \in MCIds |->
     [seed \in Seeds |->
        CASE id \in DOMAIN MCDraws -> MCDraws[id][seed]
          [] id = "7" -> <<6, 0>>[seed]
          [] id = "8" -> <<3, 6>>[seed]
          [] OTHER -> <<2, 5>>[seed]]]
MCColumn == {<<"txn_a", "txn_b", "txn_c">>}
MCStoredColumns ==
  {<<"txn_a", "007">>, <<"007", "8">>, <<"07", "007">>}

DefaultPolicy == [minNetEV |-> 0, maxIncentive |-> 5000, maxRetries |-> 2,
                  prohibited |-> {}, blocked |-> {}]
NoOpBlocked == [DefaultPolicy EXCEPT !.blocked = {"no_intervention"}]
Strict == [minNetEV |-> 20, maxIncentive |-> 40, maxRetries |-> 1,
           prohibited |-> {"human_escalation"}, blocked |-> {}]
MCPolicies == {DefaultPolicy, NoOpBlocked, Strict}
MCDefaultPolicy == {DefaultPolicy}

MCDefaultLimits == Req(2, 2, 60, 1)
Partial == [retry |-> 1, messaging |-> 1]
Uncapped == [retry |-> 0, messaging |-> mNull, incentive_budget |-> 50,
             human_slots |-> 2]
Negative == [messaging |-> -1, human_slots |-> 1]
NotANumber == [retry |-> mMalformed]
MCGivenLimits == {NoLimits, Partial, Uncapped, Negative, NotANumber}
MCStoredLimits == {NoLimits, Partial}

MCStrategyLists ==
  {{}, {"rpa_optimizer"}, {"rule_based", "ev_greedy"}, {"no_action", "unknown"}}
MCStoredLists == {{}, {"ev_greedy"}, {"rpa_optimizer"}}

MCSeed == {1}
MCSeeds == {1, 2}
=============================================================================
