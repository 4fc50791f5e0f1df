------------------------------- MODULE Quotas -------------------------------
(***************************************************************************)
(* The two tables of one tenant's resource quotas: tenant_resource_limits  *)
(* and resource_reservations (database/migrations/V003 and V004), as the   *)
(* committed transactions left them.  Amounts are whole units.             *)
(***************************************************************************)
EXTENDS Sums

CONSTANTS
  NJobs,      \* jobs there may be (a bound)
  Resource,   \* RESOURCE_TYPES
  Wants,      \* what a call of reserve may ask for
  Caps,       \* limits an administrator may set
  None        \* no limit row

Job == 1..NJobs

ASSUME QuotaAssumption ==
  /\ NJobs \in Nat
  /\ Wants \subseteq [Resource -> Nat]
  /\ Caps \subseteq Nat
  /\ None \notin Nat \cup Resource

VARIABLES
  limit,   \* resource -> limit_value
  row      \* job -> resource -> reservation, one at most (UNIQUE)

quotas == <<limit, row>>

Status == {"none", "reserved", "consumed", "released"}
Row == [status : Status, amount : Nat]
NoRow == [status |-> "none", amount |-> 0]

QuotaInit ==
  /\ limit = [r \in Resource |-> None]
  /\ row = [j \in Job |-> [r \in Resource |-> NoRow]]

\* Resources a request names with a positive amount.
Wanted(want) == {r \in Resource : want[r] > 0}

InUse == {"reserved", "consumed"}
Charge(j, r) == IF row[j][r].status \in InUse THEN row[j][r].amount ELSE 0
Used(r) == SumTo([j \in Job |-> Charge(j, r)], NJobs)

\* The rows of a job's reservation.
Reserved(j, want, resources) ==
  [row EXCEPT ![j] = [r \in Resource |->
     IF r \in resources THEN [status |-> "reserved", amount |-> want[r]]
     ELSE row[j][r]]]

\* The rows of a job whose resources change their status.
Marked(j, resources, from, to) ==
  [row EXCEPT ![j] = [r \in Resource |->
     IF r \in resources /\ row[j][r].status \in from
     THEN [row[j][r] EXCEPT !.status = to] ELSE row[j][r]]]

QuotaTypeOK ==
  /\ limit \in [Resource -> Nat \cup {None}]
  /\ row \in [Job -> [Resource -> Row]]
=============================================================================
