----------------------------- MODULE MCTraining -----------------------------
(* Instances of Training: three customers, some of whose assignments leave *)
(* a split empty.                                                          *)
EXTENDS Training

CONSTANTS a, b, c

Assigned(x, y, z) == [u \in {a, b, c} |-> CASE u = a -> x [] u = b -> y [] OTHER -> z]

MCDatasets ==
  {Assigned("train", "val", "test"), Assigned("test", "train", "val"),
   Assigned("train", "demo", "test")}
=============================================================================
