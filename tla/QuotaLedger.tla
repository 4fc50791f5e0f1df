---------------------------- MODULE QuotaLedger ----------------------------
(***************************************************************************)
(* What ResourceReservationRepository promises its callers: a reservation  *)
(* of several resources is one step, taken only if all of them are within  *)
(* their limits.                                                           *)
(***************************************************************************)
EXTENDS Quotas

Reserve(j, want) ==
  /\ \A r \in Wanted(want) :
       /\ limit[r] # None /\ row[j][r].status = "none"
       /\ Used(r) + want[r] <= limit[r]
  /\ row' = Reserved(j, want, Wanted(want))
  /\ UNCHANGED limit

Consume(j, r) ==
  /\ row' = Marked(j, {r}, {"reserved"}, "consumed")
  /\ UNCHANGED limit

Release(j, resources) ==
  /\ row' = Marked(j, resources, InUse, "released")
  /\ UNCHANGED limit

SetLimit(r, cap) ==
  /\ limit' = [limit EXCEPT ![r] = cap]
  /\ UNCHANGED row

Next ==
  \/ \E j \in Job : \E want \in Wants : Reserve(j, want)
  \/ \E j \in Job : \E r \in Resource : Consume(j, r)
  \/ \E j \in Job : \E resources \in SUBSET Resource : Release(j, resources)
  \/ \E r \in Resource : \E cap \in Caps : SetLimit(r, cap)

Spec == QuotaInit /\ [][Next]_quotas
=============================================================================
