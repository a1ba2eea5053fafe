------------------------------- MODULE MCRaft -------------------------------
(* Instances of Raft for TLC. *)
EXTENDS Raft, TLC

CONSTANTS n1, n2, n3

Two == {n1, n2}
Three == {n1, n2, n3}
Tips == [index : 0..MaxLog, term : Terms]

ServerSymmetry == Permutations(Server)

\* Nobody reads the history either.
NoHistory == <<electionVars, logVars, applyVars, peerVars, rpcVars>>

\* Without restarts nobody reads the log bucket: states that differ in it alone
\* are the same state.
NoDisk == <<electionVars, log, applyVars, peerVars, rpcVars>>

\* Nothing happens between an expired timer and the election it starts; the
\* runs of Election have that gap.
Prompt == \A n \in Server : timer[n] = "sleeping" \/ timer'[n] = "sleeping"

VoteCall(n, p, t) == [from |-> n, to |-> p, term |-> t,
                      tip |-> [index |-> 0, term |-> 0], waiting |-> TRUE]
Ballot(v, t, c) == [voter |-> v, term |-> t, cand |-> c]
Mine(n, t, cmd) == << [index |-> 1, term |-> t, cmd |-> cmd] >>

\* A state of RaftSpec with two leaders.  a won term 1 with the vote of b, that of
\* c coming too late to be counted, and appended an entry; b won term 2 with the
\* vote of c and appended another; neither has sent anything, and the call of b to
\* a for its vote is under way.
TwoLeadersOf(a, b, c) ==
    /\ currentTerm = (a :> 1 @@ b :> 2 @@ c :> 2)
    /\ votedFor = (a :> a @@ b :> b @@ c :> b)
    /\ state = (a :> "Leader" @@ b :> "Leader" @@ c :> "Follower")
    /\ saved = [n \in Server |-> Pair(currentTerm[n], votedFor[n])]
    /\ timer = [n \in Server |-> "sleeping"]
    /\ votes = [n \in Server |-> [t \in Terms |->
                   IF n = a /\ t = 1 THEN {a, b}
                   ELSE IF n = b /\ t = 2 THEN {b, c} ELSE {}]]
    /\ voteReqs = {VoteCall(b, a, 2)}
    /\ voteReps = {}
    /\ ballots = {Ballot(a, 1, a), Ballot(b, 1, a), Ballot(c, 1, a),
                  Ballot(b, 2, b), Ballot(c, 2, b)}
    /\ elected = {[term |-> 1, leader |-> a], [term |-> 2, leader |-> b]}
    /\ elections = 2
    /\ restarts = 0
    /\ diskFaults = 0
    /\ \E x, y \in Command :
           log = (a :> Mine(a, 1, x) @@ b :> Mine(b, 2, y) @@ c :> << >>)
    /\ diskLog = log
    /\ commitIndex = [n \in Server |-> 0]
    /\ lastApplied = [n \in Server |-> 0]
    /\ applied = [n \in Server |-> << >>]
    /\ nextIndex = [n \in Server |-> [p \in Server |-> 1]]
    /\ matchIndex = [n \in Server |-> [p \in Server |-> 0]]
    /\ appendReqs = {}
    /\ appendReps = {}
    /\ losses = 0
    /\ ledger = [t \in Terms |-> IF t = 1 THEN log[a] ELSE IF t = 2 THEN log[b]
                                 ELSE << >>]
    /\ acked = [n \in Server |-> [t \in Terms |->
                   IF <<n, t>> \in {<<a, 1>>, <<b, 2>>} THEN 1 ELSE 0]]

TwoLeaders == TwoLeadersOf(n1, n2, n3)

TwoLeadersSpec == TwoLeaders /\ [][RaftNext]_vars
FairTwoLeadersSpec == TwoLeadersSpec /\ Fairness
=============================================================================
