-------------------------------- MODULE Roles --------------------------------
(***************************************************************************)
(* What elections promise to everything built on them: terms only go up, a *)
(* new term finds a server a follower, and a server comes to lead only in  *)
(* a term that nobody else leads.                                          *)
(***************************************************************************)
EXTENDS Naturals

CONSTANTS Server, Term

VARIABLES term, leads

roleVars == <<term, leads>>

RolesInit == term = [n \in Server |-> 0] /\ leads = [n \in Server |-> FALSE]

Advance(n, t) ==
    /\ t > term[n]
    /\ term' = [term EXCEPT ![n] = t]
    /\ leads' = [leads EXCEPT ![n] = FALSE]

Win(n) ==
    /\ ~leads[n]
    /\ \A m \in Server : leads[m] => term[m] # term[n]
    /\ leads' = [leads EXCEPT ![n] = TRUE]
    /\ UNCHANGED term

StepDown(n) ==
    /\ leads[n]
    /\ leads' = [leads EXCEPT ![n] = FALSE]
    /\ UNCHANGED term

RolesNext == \E n \in Server : Win(n) \/ StepDown(n) \/ \E t \in Term : Advance(n, t)

RolesSpec == RolesInit /\ [][RolesNext]_roleVars
=============================================================================
