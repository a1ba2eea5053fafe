----------------------------- MODULE MCElection -----------------------------
(* Instances of Election for TLC. *)
EXTENDS Election, TLC

CONSTANTS n1, n2, n3, tip

One == {n1}
Three == {n1, n2, n3}
OneTip == {tip}

ServerSymmetry == Permutations(Server)
=============================================================================
