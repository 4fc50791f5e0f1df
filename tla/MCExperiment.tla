--------------------------- MODULE MCExperiment ---------------------------
(* Instances of Experiment for TLC. *)
EXTENDS Experiment

\* Percent per action, in the order of the list.
Percent(none, retry, link, message, incentive, human) ==
  [a \in Choice |-> CASE a = "retry" -> retry [] a = "payment_link" -> link
     [] a = "customer_message" -> message [] a = "incentive" -> incentive
     [] a = "human_escalation" -> human [] OTHER -> none]

\* Large and long overdue, middling, and small ones.
Large == [amount |-> 6000, success |-> 30, overdue |-> 40, retries |-> 3,
          predicted |-> Percent(10, 20, 30, 25, 40, 60), truth |-> Percent(5, 30, 30, 30, 50, 70)]
Middling == [amount |-> 2000, success |-> 50, overdue |-> 10, retries |-> 1,
             predicted |-> Percent(20, 30, 40, 35, 55, 57), truth |-> Percent(20, 25, 45, 30, 60, 60)]
Small == [amount |-> 300, success |-> 70, overdue |-> 2, retries |-> 0,
          predicted |-> Percent(30, 45, 50, 50, 60, 50), truth |-> Percent(30, 50, 50, 40, 65, 70)]
Tired == [amount |-> 300, success |-> 70, overdue |-> 2, retries |-> 2,
          predicted |-> Percent(30, 30, 45, 50, 50, 45), truth |-> Percent(30, 20, 45, 50, 55, 50)]
Recent == [Middling EXCEPT !.overdue = 1]
Lost == [Tired EXCEPT !.success = 10]

MCBatches ==
  {<<Large, Middling, Small>>, <<Middling, Middling, Large>>, <<Tired, Recent, Middling>>,
   <<Small, Lost>>}

MCDraws(n) == [1..n -> {15, 55}]

Capacity(retry, messaging, incentive, human) ==
  [r \in Resource |-> CASE r = "retry" -> retry [] r = "messaging" -> messaging
     [] r = "incentive" -> incentive [] r = "human" -> human]

MCSlow == {Capacity(1, 1, 50, 0)}

MCScenarios ==
  {Capacity(Unlimited, Unlimited, 50, Unlimited), Capacity(Unlimited, Unlimited, 100, 1),
   Capacity(Unlimited, 2, 100, 1), Capacity(1, 1, 50, 0), Capacity(9, 9, 900, 9)}
=============================================================================
