----------------------------- MODULE MCStaleAck -----------------------------
(* Raft with five servers, from a leader that led before. *)
EXTENDS MCRaft

CONSTANTS n4, n5

Five == {n1, n2, n3, n4, n5}

Each(x) == [n \in Server |-> x]
Cast(t, voters, c) == {Ballot(v, t, c) : v \in voters}
Of(t, c) == [index |-> 1, term |-> t, cmd |-> c]
Second(t, c) == [index |-> 2, term |-> t, cmd |-> c]

\* A state of RaftSpec.  In term 1 n1 sent two entries to n2, whose reply is still
\* under way.  n3, without them, won term 2 with n4 and n5; its first entry has
\* replaced them at n1 and n2, and is committed.  n1 has won term 3 with every vote.
Deposed(c) ==
    /\ currentTerm = Each(3)
    /\ votedFor = Each(n1)
    /\ state = [n \in Server |-> IF n = n1 THEN "Leader" ELSE "Follower"]
    /\ saved = Each(Pair(3, n1))
    /\ timer = Each("sleeping")
    /\ votes = [n \in Server |-> [t \in Terms |->
                   IF n = n1 /\ t \in {1, 3} THEN {n1, n2, n3}
                   ELSE IF n = n3 /\ t = 2 THEN {n3, n4, n5} ELSE {}]]
    /\ voteReqs = {} /\ voteReps = {}
    /\ ballots = Cast(1, Server, n1) \cup Cast(2, {n3, n4, n5}, n3) \cup Cast(3, Server, n1)
    /\ elected = {[term |-> 1, leader |-> n1], [term |-> 2, leader |-> n3],
                  [term |-> 3, leader |-> n1]}
    /\ elections = 3 /\ restarts = 0 /\ diskFaults = 0 /\ losses = 0
    /\ log = [n \in Server |-> IF n \in {n4, n5} THEN << >> ELSE << Of(2, c) >>]
    /\ diskLog = [n \in Server |-> CASE n \in {n1, n2} -> << Of(1, c), Second(1, c), Of(2, c) >>
                                     [] n = n3 -> << Of(2, c) >>
                                     [] OTHER -> << >>]
    /\ commitIndex = [n \in Server |-> IF n = n3 THEN 1 ELSE 0]
    /\ lastApplied = commitIndex
    /\ applied = [n \in Server |-> IF n = n3 THEN << Of(2, c) >> ELSE << >>]
    /\ nextIndex = [n \in Server |-> [p \in Server |->
                       IF n = n1 \/ (n = n3 /\ p \in {n1, n2}) THEN 2 ELSE 1]]
    /\ matchIndex = [n \in Server |-> [p \in Server |->
                        IF n = n3 /\ p \in {n1, n2} THEN 1 ELSE 0]]
    /\ appendReqs = {}
    /\ appendReps = {[from |-> n2, to |-> n1, slot |-> 1, term |-> 1, match |-> 2,
                      replyTerm |-> 1, success |-> TRUE]}
    /\ ledger = [t \in Terms |-> IF t = 0 THEN << >>
                                 ELSE IF t = 1 THEN << Of(1, c), Second(1, c) >>
                                 ELSE << Of(2, c) >>]
    /\ acked = [n \in Server |-> [t \in Terms |->
                   IF t = 1 /\ n \in {n1, n2} THEN 2
                   ELSE IF t = 2 /\ n \in {n1, n2, n3} THEN 1 ELSE 0]]

DeposedSpec == (\E c \in Command : Deposed(c)) /\ [][RaftNext]_vars
=============================================================================
