---------------------------- MODULE ReplicatedLog ---------------------------
(***************************************************************************)
(* What src/raft promises its state machines: there is one log, it only    *)
(* grows, and each server is fed a prefix of it, in order and once.        *)
(***************************************************************************)
EXTENDS Naturals, SequencesExt

CONSTANT Server

VARIABLES
    chosen,     \* the entries some server has delivered to its state machine
    delivered   \* delivered[n]: what n sent to its applyCh

LogInit ==
    /\ chosen = << >>
    /\ delivered = [n \in Server |-> << >>]

\* n delivers what is left of the chosen log, or some of it.
CatchUp(n) ==
    /\ UNCHANGED chosen
    /\ \E k \in Len(delivered[n])..Len(chosen) :
          delivered' = [delivered EXCEPT ![n] = SubSeq(chosen, 1, k)]

\* n is the first to deliver entries beyond the chosen log.
Extend(n) ==
    /\ IsPrefix(chosen, chosen')
    /\ delivered' = [delivered EXCEPT ![n] = chosen']

LogNext == \E n \in Server : CatchUp(n) \/ Extend(n)

LogSpec == LogInit /\ [][LogNext]_<<chosen, delivered>>
=============================================================================
