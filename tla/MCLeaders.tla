------------------------------ MODULE MCLeaders ------------------------------
(***************************************************************************)
(* Three servers, explored in three directions.  Two start from the two    *)
(* leaders of MCRaft: with a third election, or with more calls under way  *)
(* at once.  The third is the elections alone, from the start, with a      *)
(* restart and with replies that come as late as they like.  A direction   *)
(* only bounds what happens.                                               *)
(***************************************************************************)
EXTENDS MCRaft

VARIABLE direction

\* Bound of the first direction on calls under way at once.
FewCalls == 1

\* A reply that is lost in the first direction is one that nobody may handle any
\* more; it would take the place of a call for ever.
TooLate == \E r \in appendReps \ appendReps' : ~Reaches(r.to, r.term)

Within ==
    \/ /\ direction = "election"
       /\ Cardinality(appendReqs' \cup appendReps') <= FewCalls
       /\ losses' # losses => TooLate
    \/ /\ direction = "calls"
       /\ timer' = timer /\ losses' = losses      \* no third election

LogsNext ==
    /\ direction \in {"election", "calls"}
    /\ RaftNext /\ Within /\ restarts' = restarts

\* Logs that no two servers could tell apart.
Late == INSTANCE Election WITH
            StaleReplies <- TRUE, LogTip <- {[index |-> 0, term |-> 0]}

VotesNext ==
    /\ direction = "votes"
    /\ Late!ElectionNext
    /\ UNCHANGED <<logVars, applyVars, peerVars, rpcVars, history>>

LeadersNext == (LogsNext \/ VotesNext) /\ UNCHANGED direction

LeadersInit ==
    \/ /\ \E f \in Permutations(Server) : TwoLeadersOf(f[n1], f[n2], f[n3])
       /\ direction \in {"election", "calls"}
    \/ RaftInit /\ direction = "votes"

LeadersSpec == LeadersInit /\ [][LeadersNext]_<<vars, direction>>

\* The elections alone have two terms, and a gap before each election.
LastTerm == 2
Bounded ==
    IF direction = "votes"
    THEN \A n \in Server :
             /\ currentTerm'[n] <= LastTerm
             /\ timer'[n] # timer[n] => timer[n] = "expired" \/ currentTerm[n] < LastTerm
    ELSE Prompt

NoDiskEither == <<NoDisk, direction>>
=============================================================================
