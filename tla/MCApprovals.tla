----------------------------- MODULE MCApprovals -----------------------------
(* Instances of Approvals for TLC: approvers who only ever approve or reject *)
(* are interchangeable, and so are handler slots of one kind.                *)
EXTENDS Approvals, TLC

CONSTANTS Approvers

Symmetry ==
  Permutations(Approvers) \cup Permutations(Attempts) \cup Permutations(Ballots)
=============================================================================
