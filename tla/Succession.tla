------------------------------ MODULE Succession ------------------------------
(***************************************************************************)
(* What the failure simulation promises to show of leadership: a leader is *)
(* lost, another one is elected in the next term, and so on.  A restart of *)
(* the simulation puts the first node back, in the same or the first term. *)
(***************************************************************************)
EXTENDS Naturals

CONSTANTS Node, NoNode, first

VARIABLES leader, term

vars == <<leader, term>>

Init == leader = 0 /\ term = first

Lose == leader # NoNode /\ leader' = NoNode /\ term' = term

Elect ==
    /\ leader = NoNode
    /\ leader' \in Node
    /\ term' = term + 1

Restart == leader' = 0 /\ (term' = first \/ (leader # NoNode /\ term' = term))

Next == Lose \/ Elect \/ Restart

Succeeds == Init /\ [][Next]_vars

\* A lost leader is replaced sooner or later.
SuccessionSpec == Succeeds /\ WF_vars(Elect \/ (leader = NoNode /\ Restart))
=============================================================================
