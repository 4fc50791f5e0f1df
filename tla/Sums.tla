-------------------------------- MODULE Sums --------------------------------
(* Sums over 1..n, by recursion on n, and over a finite set. *)
EXTENDS Integers, FiniteSets

SumTo(a, n) == LET s[i \in 0..n] == IF i = 0 THEN 0 ELSE s[i - 1] + a[i] IN s[n]

Listed(S) ==
  CHOOSE e \in [1..Cardinality(S) -> S] : {e[i] : i \in 1..Cardinality(S)} = S
SumOver(v, S) == SumTo([i \in 1..Cardinality(S) |-> v[Listed(S)[i]]], Cardinality(S))
=============================================================================
