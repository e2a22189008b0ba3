------------------------------ MODULE MCSessions ------------------------------
(* Instances of Sessions for TLC: handler slots are interchangeable. *)
EXTENDS Sessions, TLC

Symmetry == Permutations(Workers)
=============================================================================
