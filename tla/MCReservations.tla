--------------------------- MODULE MCReservations ---------------------------
(* Instances of Reservations for TLC. *)
EXTENDS Reservations

\* Both resources, and more of one of them.
MCWants == {[r \in Resource |-> 1], [r \in Resource |-> IF r = "retry" THEN 2 ELSE 0]}
MCResource == {"retry", "messaging"}
=============================================================================
