------------------------- MODULE ElectionLeaderProofs -------------------------
(***************************************************************************)
(* From votes to leaders: every vote a candidate counts, and every reply   *)
(* that grants one, is a ballot that was cast, so a leader has a majority  *)
(* of ballots behind it; two majorities share a server, and it voted once. *)
(***************************************************************************)
EXTENDS ElectionProofs

Ballot(v, t, c) == [voter |-> v, term |-> t, cand |-> c]

Voters(c, t) == {v \in Server : Ballot(v, t, c) \in ballots}

\* A call is of a term its caller has started, and not of a later one than the
\* caller is in.
CallsPast ==
    /\ \A q \in voteReqs : 1 <= q.term /\ q.term <= currentTerm[q.from]
    /\ \A r \in voteReps : 1 <= r.term /\ r.term <= currentTerm[r.to]

\* A reply that grants a vote, and a vote that was counted, are ballots.
GrantsCast == \A r \in voteReps : r.granted => Ballot(r.from, r.term, r.to) \in ballots

CountsCast == \A n \in Server, t \in Terms : votes[n][t] \subseteq Voters(n, t)

\* LeaderBacked, and where replies are never late, in the leader's own term.
LeaderWon ==
    \A e \in elected : \E t \in 1..e.term :
        Won(e.leader, t) /\ (t = e.term \/ StaleReplies)

\* What every step may do to calls, counts and leaders: a new request is of a term
\* its caller is in, a new reply answers a request and grants what was cast, what
\* is newly counted was cast, and who newly leads has won.
CallsKept ==
    /\ \A q \in voteReqs' : \/ \E p \in voteReqs : p.from = q.from /\ p.term = q.term
                            \/ 1 <= q.term /\ q.term <= currentTerm'[q.from]
    /\ \A r \in voteReps' \ voteReps :
          /\ \E q \in voteReqs : q.from = r.to /\ q.term = r.term
          /\ r.granted => Ballot(r.from, r.term, r.to) \in ballots'
    /\ \A n \in Server, t \in Terms : \A v \in votes'[n][t] :
          v \in votes[n][t] \/ Ballot(v, t, n) \in ballots'
    /\ \A e \in elected' \ elected : \E t \in 1..e.term :
          Won(e.leader, t)' /\ (t = e.term \/ StaleReplies)

LeaderInv == VoteInv /\ CallsPast /\ GrantsCast /\ CountsCast /\ LeaderWon
-----------------------------------------------------------------------------
(* Majorities. *)

\* Two sets that each hold more than half of the servers have one in common.
LEMMA MajoritiesMeet ==
    ASSUME NEW A \in SUBSET Server, NEW B \in SUBSET Server,
           2 * Cardinality(A) > Cardinality(Server),
           2 * Cardinality(B) > Cardinality(Server)
    PROVE  A \cap B # {}
<1>1. IsFiniteSet(Server) /\ IsFiniteSet(A) /\ IsFiniteSet(B)
    BY ServerAssumption, FS_Subset
<1>2. /\ Cardinality(A) \in Nat /\ Cardinality(B) \in Nat
      /\ Cardinality(Server) \in Nat
    BY <1>1, FS_CardinalityType
<1>3. Cardinality(A) + Cardinality(B) > Cardinality(Server)
    BY <1>2
<1>4. QED
    BY <1>1, <1>3, FS_MajoritiesIntersect

\* What a server counted, it won, if it is a majority of ballots.
LEMMA CountWins ==
    ASSUME NEW c \in Server, NEW t \in Terms, NEW A \in SUBSET Voters(c, t),
           2 * Cardinality(A) > Cardinality(Server)
    PROVE  Won(c, t)
<1>1. IsFiniteSet(Voters(c, t)) /\ IsFiniteSet(Server)
    BY ServerAssumption, FS_Subset DEF Voters
<1>2. /\ Cardinality(A) \in Nat /\ Cardinality(Voters(c, t)) \in Nat
      /\ Cardinality(Server) \in Nat
      /\ Cardinality(A) <= Cardinality(Voters(c, t))
    BY <1>1, FS_Subset, FS_CardinalityType
<1>3. 2 * Cardinality(Voters(c, t)) > Cardinality(Server)
    BY <1>2
<1>4. QED
    BY <1>3 DEF Won, Voters, Ballot

\* Ballots are never taken back, nor are the elections they won.
LEMMA WonStays ==
    ASSUME ballots \subseteq ballots', NEW c \in Server, NEW t \in Terms, Won(c, t)
    PROVE  Won(c, t)'
<1> DEFINE A == {v \in Server : [voter |-> v, term |-> t, cand |-> c] \in ballots}
           B == {v \in Server : [voter |-> v, term |-> t, cand |-> c] \in ballots'}
<1>1. A \subseteq B /\ IsFiniteSet(B) /\ IsFiniteSet(Server)
    BY ServerAssumption, FS_Subset
<1>2. /\ Cardinality(A) \in Nat /\ Cardinality(B) \in Nat
      /\ Cardinality(Server) \in Nat /\ Cardinality(A) <= Cardinality(B)
    BY <1>1, FS_Subset, FS_CardinalityType
<1>3. 2 * Cardinality(A) > Cardinality(Server)
    BY DEF Won
<1>4. 2 * Cardinality(B) > Cardinality(Server)
    BY <1>2, <1>3
<1>5. QED
    BY <1>4 DEF Won
-----------------------------------------------------------------------------
(* Every step keeps calls, counts and leaders. *)

LEMMA StartElectionCalls ==
    ASSUME ElectionTypeOK, NEW n \in Server, NEW tip \in LogTip, StartElection(n, tip)
    PROVE  CallsKept
<1> DEFINE term == currentTerm[n] + 1
<1>1. /\ term \in Nat /\ 1 <= term
      /\ currentTerm' = [currentTerm EXCEPT ![n] = term]
      /\ currentTerm'[n] = term
    BY DEF StartElection, ElectionTypeOK, Terms
<1>2. /\ voteReqs' = voteReqs \cup
              {[from |-> n, to |-> p, term |-> term, tip |-> tip, waiting |-> TRUE] :
                  p \in Peers(n)}
      /\ votes' = [votes EXCEPT ![n][term] = {n}]
      /\ ballots' = ballots \cup {Ballot(n, term, n)}
      /\ UNCHANGED <<voteReps, elected>>
    BY DEF StartElection, Ballot
<1> HIDE DEF term
<1>3. \A q \in voteReqs' : \/ \E p \in voteReqs : p.from = q.from /\ p.term = q.term
                           \/ 1 <= q.term /\ q.term <= currentTerm'[q.from]
    BY <1>1, <1>2
<1>4. ASSUME NEW m \in Server, NEW t \in Terms, NEW v \in votes'[m][t]
      PROVE  v \in votes[m][t] \/ Ballot(v, t, m) \in ballots'
    <2>1. CASE m = n /\ t = term
        BY <1>2, <2>1 DEF ElectionTypeOK
    <2>2. CASE m # n \/ t # term
        BY <1>2, <2>2 DEF ElectionTypeOK
    <2>3. QED
        BY <2>1, <2>2
<1>5. QED
    BY <1>2, <1>3, <1>4 DEF CallsKept

LEMMA HandleRequestVoteCalls ==
    ASSUME ElectionTypeOK, NEW q \in voteReqs, NEW upToDate \in BOOLEAN,
           HandleRequestVote(q, upToDate)
    PROVE  CallsKept
<1> DEFINE n     == q.to
           newer == q.term > currentTerm[n]
           term  == IF newer THEN q.term ELSE currentTerm[n]
           voted == IF newer THEN Nil ELSE votedFor[n]
           grant == q.term = term /\ GivesVote(voted, q.from, upToDate)
           reply == [from |-> n, to |-> q.from, term |-> q.term,
                     replyTerm |-> term, granted |-> grant]
<1>1. /\ voteReqs' \subseteq voteReqs
      /\ voteReps' \subseteq voteReps \cup {reply}
      /\ grant => ballots' = ballots \cup {Ballot(n, term, q.from)}
      /\ UNCHANGED <<votes, elected>>
    BY DEF HandleRequestVote, Ballot
<1>2. reply.granted => Ballot(reply.from, reply.term, reply.to) \in ballots'
    BY <1>1
<1>3. reply.to = q.from /\ reply.term = q.term
    OBVIOUS
<1> HIDE DEF reply
<1>4. QED
    BY <1>1, <1>2, <1>3 DEF CallsKept

LEMMA HandleVoteReplyCalls ==
    ASSUME ElectionTypeOK, CallsPast, GrantsCast, CountsCast, NEW r \in voteReps,
           HandleVoteReply(r)
    PROVE  CallsKept
<1>1. /\ voteReps' \subseteq voteReps
      /\ UNCHANGED <<voteReqs, ballots>>
    BY DEF HandleVoteReply
<1>2. CASE VoteReplyIgnored(r) \/ VoteReplyNewerTerm(r)
    BY <1>1, <1>2 DEF VoteReplyIgnored, VoteReplyNewerTerm, CallsKept
<1>3. CASE VoteReplyCounted(r)
    <2> DEFINE n     == r.to
               count == votes[n][r.term] \cup {r.from}
               won   == Cardinality(count) >= VotesNeeded
    <2>1. /\ n \in Server /\ r.from \in Server /\ r.term \in Terms
          /\ r.term \in 1..currentTerm[n] /\ r.granted
        BY <1>3 DEF ElectionTypeOK, VoteReply, CallsPast, Terms, VoteReplyCounted,
                   IsVote
    <2>2. count \subseteq Voters(n, r.term)
        BY <2>1 DEF GrantsCast, CountsCast, Voters
    <2>3. /\ votes' = [votes EXCEPT ![n][r.term] = count]
          /\ elected' \subseteq elected \cup {[term |-> currentTerm[n], leader |-> n]}
          /\ ~won => elected' = elected
        BY <1>3 DEF VoteReplyCounted
    <2>4. r.term = currentTerm[n] \/ StaleReplies
        BY DEF HandleVoteReply, Reaches
    <2> HIDE DEF count
    <2>5. ASSUME won PROVE Won(n, r.term)'
        <3>1. count \in SUBSET Voters(n, r.term) /\ IsFiniteSet(Voters(n, r.term))
            BY <2>2, ServerAssumption, FS_Subset DEF Voters
        <3>2. Cardinality(count) \in Nat /\ Cardinality(Server) \in Nat
            BY <3>1, ServerAssumption, FS_Subset, FS_CardinalityType
        <3>3. 2 * Cardinality(count) > Cardinality(Server)
            BY <2>5, <3>2 DEF VotesNeeded
        <3>4. Won(n, r.term)
            BY <2>1, <3>1, <3>3, CountWins
        <3>5. QED
            BY <1>1, <2>1, <3>4, WonStays
    <2>6. ASSUME NEW m \in Server, NEW t \in Terms, NEW v \in votes'[m][t]
          PROVE  v \in votes[m][t] \/ Ballot(v, t, m) \in ballots'
        <3>1. CASE m = n /\ t = r.term
            BY <1>1, <2>1, <2>2, <2>3, <3>1 DEF ElectionTypeOK, Voters
        <3>2. CASE m # n \/ t # r.term
            BY <2>1, <2>3, <3>2 DEF ElectionTypeOK
        <3>3. QED
            BY <3>1, <3>2
    <2>7. \A e \in elected' \ elected : \E t \in 1..e.term :
              Won(e.leader, t)' /\ (t = e.term \/ StaleReplies)
        BY <2>1, <2>3, <2>4, <2>5
    <2>8. QED
        BY <1>1, <2>6, <2>7 DEF CallsKept
<1>4. QED
    BY <1>2, <1>3 DEF HandleVoteReply

LEMMA RestartCalls ==
    ASSUME ElectionTypeOK, NEW n \in Server, RestartElection(n)
    PROVE  CallsKept
<1>1. /\ voteReqs' = {[q EXCEPT !.waiting = @ /\ q.from # n] : q \in voteReqs}
      /\ voteReps' \subseteq voteReps
      /\ votes' = [votes EXCEPT ![n] = [t \in Terms |-> {}]]
      /\ UNCHANGED elected
    BY DEF RestartElection
<1>2. ASSUME NEW m \in voteReqs'
      PROVE  \E p \in voteReqs : p.from = m.from /\ p.term = m.term
    <2>1. PICK q \in voteReqs : m = [q EXCEPT !.waiting = @ /\ q.from # n]
        BY <1>1
    <2>2. q \in VoteRequest
        BY DEF ElectionTypeOK
    <2>3. m.from = q.from /\ m.term = q.term
        BY <2>1, <2>2 DEF VoteRequest
    <2>4. QED
        BY <2>3
<1>3. \A m \in Server, t \in Terms : \A v \in votes'[m][t] : v \in votes[m][t]
    BY <1>1 DEF ElectionTypeOK
<1>4. QED
    BY <1>1, <1>2, <1>3 DEF CallsKept

LEMMA StepCalls ==
    ASSUME ElectionTypeOK, CallsPast, GrantsCast, CountsCast,
           [ElectionNext]_electionVars
    PROVE  CallsKept
<1>1. ASSUME NEW n \in Server, TimerExpires(n) PROVE CallsKept
    BY <1>1 DEF TimerExpires, CallsKept
<1>2. ASSUME NEW n \in Server, NEW tip \in LogTip, StartElection(n, tip)
      PROVE  CallsKept
    BY <1>2, StartElectionCalls
<1>3. ASSUME NEW q \in voteReqs, NEW upToDate \in BOOLEAN, HandleRequestVote(q, upToDate)
      PROVE  CallsKept
    BY <1>3, HandleRequestVoteCalls
<1>4. ASSUME NEW r \in voteReps, HandleVoteReply(r) PROVE CallsKept
    BY <1>4, HandleVoteReplyCalls
<1>5. ASSUME NEW n \in Server, NEW t \in Terms, ObserveTerm(n, t) PROVE CallsKept
    BY <1>5 DEF ObserveTerm, CallsKept
<1>6. ASSUME NEW n \in Server, RestartElection(n) PROVE CallsKept
    BY <1>6, RestartCalls
<1>7. CASE UNCHANGED electionVars
    BY <1>7 DEF electionVars, CallsKept
<1>8. QED
    BY <1>1, <1>2, <1>3, <1>4, <1>5, <1>6, <1>7 DEF ElectionNext
-----------------------------------------------------------------------------
(* The invariant. *)

LEMMA CallsStayPast ==
    ASSUME ElectionTypeOK, ElectionTypeOK', CallsPast, VotesKept, CallsKept
    PROVE  CallsPast'
<1>1. ASSUME NEW n \in Server, NEW t \in Nat, t <= currentTerm[n]
      PROVE  t <= currentTerm'[n]
    <2>1. /\ currentTerm[n] \in Nat /\ currentTerm'[n] \in Nat
          /\ currentTerm[n] <= currentTerm'[n]
        BY DEF ElectionTypeOK, Terms, VotesKept
    <2>2. QED
        BY <1>1, <2>1
<1>2. \A q \in voteReqs : /\ q.from \in Server /\ q.term \in Nat
                          /\ 1 <= q.term /\ q.term <= currentTerm[q.from]
    BY DEF ElectionTypeOK, VoteRequest, Terms, CallsPast
<1>3. \A r \in voteReps : /\ r.to \in Server /\ r.term \in Nat
                          /\ 1 <= r.term /\ r.term <= currentTerm[r.to]
    BY DEF ElectionTypeOK, VoteReply, Terms, CallsPast
<1>4. \A q \in voteReqs' : 1 <= q.term /\ q.term <= currentTerm'[q.from]
    BY <1>1, <1>2 DEF CallsKept
<1>5. \A r \in voteReps' : 1 <= r.term /\ r.term <= currentTerm'[r.to]
    BY <1>1, <1>2, <1>3 DEF CallsKept
<1>6. QED
    BY <1>4, <1>5 DEF CallsPast

LEMMA LeadersStayBacked ==
    ASSUME ElectionTypeOK, LeaderWon, VotesKept, CallsKept
    PROVE  LeaderWon'
<1> SUFFICES ASSUME NEW e \in elected'
             PROVE  \E t \in 1..e.term :
                        Won(e.leader, t)' /\ (t = e.term \/ StaleReplies)
    BY DEF LeaderWon
<1>1. CASE e \in elected
    <2>1. e.leader \in Server /\ e.term \in Terms
        BY <1>1 DEF ElectionTypeOK
    <2>2. PICK t \in 1..e.term : Won(e.leader, t) /\ (t = e.term \/ StaleReplies)
        BY <1>1 DEF LeaderWon
    <2>3. t \in Terms
        BY <2>1, BoundsAssumption DEF Terms
    <2>4. Won(e.leader, t)'
        BY <2>1, <2>2, <2>3, WonStays DEF VotesKept
    <2>5. QED
        BY <2>2, <2>4
<1>2. CASE e \notin elected
    BY <1>2 DEF CallsKept
<1>3. QED
    BY <1>1, <1>2

LEMMA InitLeaders == ElectionInit => LeaderInv
<1> SUFFICES ASSUME ElectionInit PROVE LeaderInv
    OBVIOUS
<1>1. VoteInv
    BY InitVotes
<1>2. CallsPast /\ GrantsCast /\ CountsCast /\ LeaderWon
    BY DEF ElectionInit, CallsPast, GrantsCast, CountsCast, LeaderWon
<1>3. QED
    BY <1>1, <1>2 DEF LeaderInv

LEMMA StepLeaderInv ==
    ASSUME MaxDiskFaults = 0, LeaderInv, [ElectionNext]_electionVars
    PROVE  LeaderInv'
<1>1. VoteInv'
    BY StepVoteInv DEF LeaderInv
<1>2. VotesKept /\ CallsKept
    BY StepVotes, StepCalls DEF LeaderInv, VoteInv
<1>3. CallsPast'
    BY <1>1, <1>2, CallsStayPast DEF LeaderInv, VoteInv
<1>4. GrantsCast'
    BY <1>2 DEF LeaderInv, GrantsCast, CallsKept, VotesKept
<1>5. CountsCast'
    <2>1. ASSUME NEW n \in Server, NEW t \in Terms, NEW v \in votes'[n][t]
          PROVE  v \in Server /\ Ballot(v, t, n) \in ballots'
        <3>1. v \in Server
            BY <1>1 DEF VoteInv, ElectionTypeOK
        <3>2. v \in votes[n][t] => Ballot(v, t, n) \in ballots
            BY DEF LeaderInv, CountsCast, Voters
        <3>3. QED
            BY <1>2, <3>1, <3>2 DEF CallsKept, VotesKept
    <2>2. QED
        BY <2>1 DEF CountsCast, Voters
<1>6. LeaderWon'
    BY <1>2, LeadersStayBacked DEF LeaderInv, VoteInv
<1>7. QED
    BY <1>1, <1>3, <1>4, <1>5, <1>6 DEF LeaderInv

LEMMA LeaderInvHolds ==
    ASSUME MaxDiskFaults = 0
    PROVE  ElectionSpec => []LeaderInv
<1>1. LeaderInv /\ [ElectionNext]_electionVars => LeaderInv'
    BY StepLeaderInv
<1>2. QED
    BY <1>1, InitLeaders, PTL DEF ElectionSpec
-----------------------------------------------------------------------------
(* Its consequences. *)

\* A vote a reply grants is on the voter's disk, until the voter has a later term.
THEOREM GrantsDurable ==
    ASSUME MaxDiskFaults = 0
    PROVE  ElectionSpec => []GrantDurable
<1>1. ASSUME LeaderInv PROVE GrantDurable
    <2> SUFFICES ASSUME NEW r \in voteReps, r.granted
                 PROVE  \/ saved[r.from].term > r.term
                        \/ saved[r.from] = Pair(r.term, r.to)
        BY DEF GrantDurable
    <2>1. /\ r.from \in Server /\ r.to \in Server /\ r.term \in Nat
          /\ currentTerm[r.from] \in Nat
        BY <1>1 DEF LeaderInv, VoteInv, ElectionTypeOK, VoteReply, Terms
    <2>2. Ballot(r.from, r.term, r.to) \in ballots
        BY <1>1 DEF LeaderInv, GrantsCast
    <2>3. /\ r.term <= currentTerm[r.from]
          /\ r.term = currentTerm[r.from] => votedFor[r.from] = r.to
        BY <1>1, <2>2 DEF LeaderInv, VoteInv, BallotsPast, Ballot
    <2>4. saved[r.from] = Pair(currentTerm[r.from], votedFor[r.from])
        BY <1>1, <2>1 DEF LeaderInv, VoteInv, SavedCurrent
    <2>5. saved[r.from].term = currentTerm[r.from]
        BY <2>4 DEF Pair
    <2>6. QED
        BY <2>1, <2>3, <2>4, <2>5
<1>2. QED
    BY <1>1, LeaderInvHolds, PTL

\* However late replies are, nobody leads who has not won an election.
THEOREM LeadersBacked ==
    ASSUME MaxDiskFaults = 0
    PROVE  ElectionSpec => []LeaderBacked
<1>1. LeaderInv => LeaderBacked
    BY DEF LeaderInv, LeaderWon, LeaderBacked
<1>2. QED
    BY <1>1, LeaderInvHolds, PTL

\* Where no reply is handled in a later term than that of its call, no term has
\* two leaders; the run of Election with late replies shows the condition is needed.
THEOREM OneLeaderPerTerm ==
    ASSUME MaxDiskFaults = 0, StaleReplies = FALSE
    PROVE  ElectionSpec => []ElectionSafety
<1>1. ASSUME LeaderInv PROVE ElectionSafety
    <2> SUFFICES ASSUME NEW e \in elected, NEW f \in elected, e.term = f.term
                 PROVE  e.leader = f.leader
        BY DEF ElectionSafety
    <2>1. Won(e.leader, e.term) /\ Won(f.leader, e.term)
        BY <1>1 DEF LeaderInv, LeaderWon
    <2> DEFINE A == Voters(e.leader, e.term)
               B == Voters(f.leader, e.term)
    <2>2. /\ A \in SUBSET Server /\ 2 * Cardinality(A) > Cardinality(Server)
          /\ B \in SUBSET Server /\ 2 * Cardinality(B) > Cardinality(Server)
        BY <2>1 DEF Won, Voters, Ballot
    <2> HIDE DEF A, B
    <2>3. PICK v : v \in A /\ v \in B
        BY <2>2, MajoritiesMeet
    <2>4. /\ Ballot(v, e.term, e.leader) \in ballots
          /\ Ballot(v, e.term, f.leader) \in ballots
        BY <2>3 DEF A, B, Voters
    <2>5. QED
        BY <1>1, <2>4 DEF LeaderInv, VoteInv, VoteOnce, Ballot
<1>2. QED
    BY <1>1, LeaderInvHolds, PTL
-----------------------------------------------------------------------------
(* No election is won unnoticed, in a cluster of at least two. *)

\* A candidate has no majority when it starts, and a count that becomes one makes
\* it leader in the same critical section.
LEMMA CandidateLacksMajority ==
    ASSUME Cardinality(Server) >= 2, ElectionTypeOK, MajorityLeads, ElectionNext
    PROVE  MajorityLeads'
<1>0. Cardinality(Server) \in Nat
    BY ServerAssumption, FS_CardinalityType
<1> USE DEF MajorityLeads
<1>1. ASSUME NEW n \in Server, TimerExpires(n) PROVE MajorityLeads'
    BY <1>1 DEF TimerExpires
<1>2. ASSUME NEW n \in Server, NEW tip \in LogTip, StartElection(n, tip)
      PROVE  MajorityLeads'
    <2> DEFINE term == currentTerm[n] + 1
    <2>1. /\ term \in Terms
          /\ state' = [state EXCEPT ![n] = "Candidate"]
          /\ currentTerm' = [currentTerm EXCEPT ![n] = term]
          /\ votes' = [votes EXCEPT ![n][term] = {n}]
        BY <1>2, BoundsAssumption DEF StartElection, ElectionTypeOK, Terms
    <2> HIDE DEF term
    <2>2. Cardinality({n}) = 1
        BY FS_Singleton
    <2>3. votes'[n][currentTerm'[n]] = {n}
        BY <2>1 DEF ElectionTypeOK
    <2>4. ASSUME NEW m \in Server, m # n
          PROVE  /\ state'[m] = state[m] /\ currentTerm'[m] = currentTerm[m]
                 /\ votes'[m] = votes[m]
        BY <2>1, <2>4 DEF ElectionTypeOK
    <2>5. 2 * Cardinality(votes'[n][currentTerm'[n]]) <= Cardinality(Server)
        BY <1>0, <2>2, <2>3
    <2>6. QED
        BY <2>4, <2>5
<1>3. ASSUME NEW q \in voteReqs, NEW upToDate \in BOOLEAN, HandleRequestVote(q, upToDate)
      PROVE  MajorityLeads'
    <2>1. q.to \in Server
        BY DEF ElectionTypeOK, VoteRequest
    <2>2. \A m \in Server : state'[m] = "Candidate" =>
              state[m] = "Candidate" /\ currentTerm'[m] = currentTerm[m]
        BY <1>3, <2>1 DEF HandleRequestVote, ElectionTypeOK
    <2>3. UNCHANGED votes
        BY <1>3 DEF HandleRequestVote
    <2>4. QED
        BY <2>2, <2>3
<1>4. ASSUME NEW n \in Server, NEW t \in Terms, StepDown(n, t), UNCHANGED votes
      PROVE  MajorityLeads'
    <2>1. \A m \in Server : state'[m] = "Candidate" =>
              state[m] = "Candidate" /\ currentTerm'[m] = currentTerm[m]
        BY <1>4 DEF StepDown, ElectionTypeOK
    <2>2. QED
        BY <1>4, <2>1
<1>5. ASSUME NEW r \in voteReps, VoteReplyCounted(r) PROVE MajorityLeads'
    <2> DEFINE n     == r.to
               count == votes[n][r.term] \cup {r.from}
               won   == Cardinality(count) >= VotesNeeded
    <2>1. n \in Server /\ r.from \in Server /\ r.term \in Terms
        BY DEF ElectionTypeOK, VoteReply
    <2>2. count \in SUBSET Server
        BY <2>1 DEF ElectionTypeOK
    <2>3. /\ votes' = [votes EXCEPT ![n][r.term] = count]
          /\ state' = [state EXCEPT ![n] = IF won THEN "Leader" ELSE @]
          /\ currentTerm' = currentTerm
        BY <1>5 DEF VoteReplyCounted
    <2> HIDE DEF count
    <2>4. Cardinality(count) \in Nat
        BY <2>2, ServerAssumption, FS_Subset, FS_CardinalityType
    <2>5. ~won => 2 * Cardinality(count) <= Cardinality(Server)
        BY <1>0, <2>4 DEF VotesNeeded
    <2> HIDE DEF won
    <2>6. SUFFICES ASSUME NEW m \in Server, state'[m] = "Candidate"
                   PROVE  2 * Cardinality(votes'[m][currentTerm'[m]]) <= Cardinality(Server)
        OBVIOUS
    <2>7. CASE m = n
        <3>1. ~won /\ state[m] = "Candidate" /\ currentTerm[m] \in Terms
            BY <2>1, <2>3, <2>6, <2>7 DEF ElectionTypeOK
        <3>2. \/ votes'[m][currentTerm'[m]] = count
              \/ votes'[m][currentTerm'[m]] = votes[m][currentTerm[m]]
            BY <2>1, <2>3, <2>7, <3>1 DEF ElectionTypeOK
        <3>3. QED
            BY <2>5, <3>1, <3>2
    <2>8. CASE m # n
        <3>1. state[m] = "Candidate" /\ votes'[m] = votes[m]
            BY <2>1, <2>3, <2>6, <2>8 DEF ElectionTypeOK
        <3>2. QED
            BY <2>3, <3>1
    <2>9. QED
        BY <2>7, <2>8
<1>6. ASSUME NEW r \in voteReps, HandleVoteReply(r) PROVE MajorityLeads'
    <2>1. r.to \in Server /\ r.replyTerm \in Terms
        BY DEF ElectionTypeOK, VoteReply
    <2>2. CASE VoteReplyIgnored(r)
        BY <2>2 DEF VoteReplyIgnored
    <2>3. CASE VoteReplyNewerTerm(r)
        BY <1>4, <2>1, <2>3 DEF VoteReplyNewerTerm
    <2>4. CASE VoteReplyCounted(r)
        BY <1>5, <2>4
    <2>5. QED
        BY <1>6, <2>2, <2>3, <2>4 DEF HandleVoteReply
<1>7. ASSUME NEW n \in Server, NEW t \in Terms, ObserveTerm(n, t) PROVE MajorityLeads'
    BY <1>4, <1>7 DEF ObserveTerm
<1>8. ASSUME NEW n \in Server, RestartElection(n) PROVE MajorityLeads'
    <2>1. /\ state' = [state EXCEPT ![n] = "Follower"]
          /\ currentTerm' = [currentTerm EXCEPT ![n] = LoadRaftState(n).term]
          /\ votes' = [votes EXCEPT ![n] = [t \in Terms |-> {}]]
        BY <1>8 DEF RestartElection
    <2>2. ASSUME NEW m \in Server, state'[m] = "Candidate"
          PROVE  state[m] = "Candidate" /\ votes'[m] = votes[m]
                 /\ currentTerm'[m] = currentTerm[m]
        BY <2>1, <2>2 DEF ElectionTypeOK
    <2>3. QED
        BY <2>2
<1>9. QED
    BY <1>1, <1>2, <1>3, <1>6, <1>7, <1>8 DEF ElectionNext

\* With at least two servers a candidate with a majority is leader already, also
\* when writes fail; the run with one server shows the condition is needed.
THEOREM MajoritiesLead ==
    ASSUME Cardinality(Server) >= 2
    PROVE  ElectionSpec => []MajorityLeads
<1>1. ElectionInit => MajorityLeads
    BY DEF ElectionInit, MajorityLeads
<1>2. ElectionTypeOK /\ MajorityLeads /\ [ElectionNext]_electionVars => MajorityLeads'
    <2>1. CASE ElectionNext
        BY <2>1, CandidateLacksMajority
    <2>2. CASE UNCHANGED electionVars
        BY <2>2 DEF electionVars, MajorityLeads
    <2>3. QED
        BY <2>1, <2>2
<1>3. QED
    BY <1>1, <1>2, TypeCorrect, PTL DEF ElectionSpec
-----------------------------------------------------------------------------
(***************************************************************************)
(* Election implements Roles, for any servers and bounds, where writes     *)
(* succeed and no reply is stale: what the layers above take for granted   *)
(* of terms and leaders is what the elections of the code do.  A step of   *)
(* Election moves one server at most, and in one of three ways.            *)
(***************************************************************************)

Leads == [n \in Server |-> state[n] = "Leader"]
Victory(n) == [term |-> currentTerm[n], leader |-> n]

\* Who leads was elected in its present term.
LeadersElected == \A n \in Server : state[n] = "Leader" => Victory(n) \in elected

Rests == UNCHANGED <<currentTerm, Leads>>
Rises(n, t) ==
    /\ t > currentTerm[n]
    /\ currentTerm' = [currentTerm EXCEPT ![n] = t]
    /\ Leads' = [Leads EXCEPT ![n] = FALSE]
Falls(n) ==
    /\ state[n] = "Leader"
    /\ Leads' = [Leads EXCEPT ![n] = FALSE]
    /\ UNCHANGED currentTerm
Wins(n) ==
    /\ state[n] # "Leader"
    /\ Leads' = [Leads EXCEPT ![n] = TRUE]
    /\ UNCHANGED currentTerm
    /\ Victory(n) \in elected'

Moves ==
    /\ elected \subseteq elected'
    /\ \/ Rests
       \/ \E n \in Server : Falls(n) \/ Wins(n) \/ \E t \in Terms : Rises(n, t)
-----------------------------------------------------------------------------
\* A server that becomes, or stays, something else than leader.
LEMMA LeavesLead ==
    ASSUME ElectionTypeOK, NEW n \in Server, NEW s \in {"Follower", "Candidate"},
           state' = [state EXCEPT ![n] = s]
    PROVE  Leads' = [Leads EXCEPT ![n] = FALSE]
BY DEF ElectionTypeOK, Leads

LEMMA StepDownMoves ==
    ASSUME ElectionTypeOK, NEW n \in Server, NEW t \in Terms, t > currentTerm[n],
           StepDown(n, t), UNCHANGED elected
    PROVE  Moves
<1>1. Leads' = [Leads EXCEPT ![n] = FALSE]
    BY LeavesLead DEF StepDown
<1>2. Rises(n, t)
    BY <1>1 DEF Rises, StepDown
<1>3. QED
    BY <1>2 DEF Moves

LEMMA StartElectionMoves ==
    ASSUME ElectionTypeOK, NEW n \in Server, NEW tip \in LogTip, StartElection(n, tip)
    PROVE  Moves
<1>1. currentTerm[n] + 1 \in Terms /\ currentTerm[n] + 1 > currentTerm[n]
    BY BoundsAssumption DEF StartElection, ElectionTypeOK, Terms
<1>2. Leads' = [Leads EXCEPT ![n] = FALSE]
    BY LeavesLead DEF StartElection
<1>3. Rises(n, currentTerm[n] + 1)
    BY <1>1, <1>2 DEF Rises, StartElection
<1>4. UNCHANGED elected
    BY DEF StartElection
<1>5. QED
    BY <1>1, <1>3, <1>4 DEF Moves

\* A leader votes for itself, so in its term it grants no other vote; if it did, it
\* would fall, and this lemma needs to know no more.
LEMMA HandleRequestVoteMoves ==
    ASSUME ElectionTypeOK, NEW q \in voteReqs, NEW upToDate \in BOOLEAN,
           HandleRequestVote(q, upToDate)
    PROVE  Moves
<1> DEFINE n     == q.to
           newer == q.term > currentTerm[n]
           term  == IF newer THEN q.term ELSE currentTerm[n]
           voted == IF newer THEN Nil ELSE votedFor[n]
           grant == q.term = term /\ GivesVote(voted, q.from, upToDate)
<1>1. n \in Server /\ q.term \in Terms /\ currentTerm[n] \in Terms
    BY DEF ElectionTypeOK, VoteRequest
<1>2. /\ currentTerm' = [currentTerm EXCEPT ![n] = term]
      /\ state' = [state EXCEPT ![n] = IF newer \/ grant THEN "Follower" ELSE @]
      /\ UNCHANGED elected
    BY DEF HandleRequestVote
<1> HIDE DEF n, grant
<1>3. CASE newer
    <2>1. Leads' = [Leads EXCEPT ![n] = FALSE]
        BY <1>1, <1>2, <1>3, LeavesLead
    <2>2. Rises(n, q.term)
        BY <1>2, <1>3, <2>1 DEF Rises
    <2>3. QED
        BY <1>1, <1>2, <2>2 DEF Moves
<1>4. CASE ~newer
    <2>1. UNCHANGED currentTerm
        BY <1>1, <1>2, <1>4 DEF ElectionTypeOK
    <2>2. CASE ~grant \/ state[n] # "Leader"
        <3>1. Leads' = Leads
            BY <1>1, <1>2, <1>4, <2>2 DEF ElectionTypeOK, Leads
        <3>2. QED
            BY <1>2, <2>1, <3>1 DEF Moves, Rests
    <2>3. CASE grant /\ state[n] = "Leader"
        <3>1. Leads' = [Leads EXCEPT ![n] = FALSE]
            BY <1>1, <1>2, <2>3, LeavesLead
        <3>2. QED
            BY <1>1, <1>2, <2>1, <2>3, <3>1 DEF Moves, Falls
    <2>4. QED
        BY <2>2, <2>3
<1>5. QED
    BY <1>3, <1>4

LEMMA HandleVoteReplyMoves ==
    ASSUME ElectionTypeOK, NEW r \in voteReps, HandleVoteReply(r)
    PROVE  Moves
<1>1. r.to \in Server /\ r.replyTerm \in Terms
    BY DEF ElectionTypeOK, VoteReply
<1>2. CASE VoteReplyIgnored(r)
    BY <1>2 DEF VoteReplyIgnored, Moves, Rests, Leads
<1>3. CASE VoteReplyNewerTerm(r)
    BY <1>1, <1>3, StepDownMoves DEF VoteReplyNewerTerm
<1>4. CASE VoteReplyCounted(r)
    <2> DEFINE n   == r.to
               won == Cardinality(votes[n][r.term] \cup {r.from}) >= VotesNeeded
    <2>1. /\ state[n] = "Candidate"
          /\ state' = [state EXCEPT ![n] = IF won THEN "Leader" ELSE @]
          /\ elected' = IF won THEN elected \cup {Victory(n)} ELSE elected
          /\ UNCHANGED currentTerm
        BY <1>4 DEF VoteReplyCounted, Victory
    <2> HIDE DEF won
    <2>2. CASE won
        <3>1. Leads' = [Leads EXCEPT ![n] = TRUE]
            BY <1>1, <2>1, <2>2 DEF ElectionTypeOK, Leads
        <3>2. Wins(n)
            BY <2>1, <2>2, <3>1 DEF Wins
        <3>3. QED
            BY <1>1, <2>1, <2>2, <3>2 DEF Moves
    <2>3. CASE ~won
        BY <1>1, <2>1, <2>3 DEF ElectionTypeOK, Leads, Moves, Rests
    <2>4. QED
        BY <2>2, <2>3
<1>5. QED
    BY <1>2, <1>3, <1>4 DEF HandleVoteReply

\* Since disk and memory agree, a restart takes nobody to another term.
LEMMA RestartMoves ==
    ASSUME ElectionTypeOK, SavedCurrent, NEW n \in Server, RestartElection(n)
    PROVE  Moves
<1>1. currentTerm' = currentTerm
    <2>1. currentTerm' = [currentTerm EXCEPT ![n] = saved[n].term]
        BY DEF RestartElection, LoadRaftState
    <2>2. saved[n].term = currentTerm[n]
        <3>1. saved[n] = Pair(currentTerm[n], votedFor[n])
            BY DEF SavedCurrent
        <3>2. QED
            BY <3>1 DEF Pair
    <2>3. QED
        BY <2>1, <2>2 DEF ElectionTypeOK
<1>2. Leads' = [Leads EXCEPT ![n] = FALSE]
    BY LeavesLead DEF RestartElection
<1>3. UNCHANGED elected
    BY DEF RestartElection
<1>4. CASE state[n] = "Leader"
    BY <1>1, <1>2, <1>3, <1>4 DEF Moves, Falls
<1>5. CASE state[n] # "Leader"
    <2>1. Leads' = Leads
        BY <1>2, <1>5 DEF Leads
    <2>2. QED
        BY <1>1, <1>3, <2>1 DEF Moves, Rests
<1>6. QED
    BY <1>4, <1>5

LEMMA StepMoves ==
    ASSUME ElectionTypeOK, SavedCurrent, [ElectionNext]_electionVars
    PROVE  Moves
<1>1. ASSUME NEW n \in Server, TimerExpires(n) PROVE Moves
    BY <1>1 DEF TimerExpires, Moves, Rests, Leads
<1>2. ASSUME NEW n \in Server, NEW tip \in LogTip, StartElection(n, tip) PROVE Moves
    BY <1>2, StartElectionMoves
<1>3. ASSUME NEW q \in voteReqs, NEW upToDate \in BOOLEAN, HandleRequestVote(q, upToDate)
      PROVE  Moves
    BY <1>3, HandleRequestVoteMoves
<1>4. ASSUME NEW r \in voteReps, HandleVoteReply(r) PROVE Moves
    BY <1>4, HandleVoteReplyMoves
<1>5. ASSUME NEW n \in Server, NEW t \in Terms, ObserveTerm(n, t) PROVE Moves
    BY <1>5, StepDownMoves DEF ObserveTerm
<1>6. ASSUME NEW n \in Server, RestartElection(n) PROVE Moves
    BY <1>6, RestartMoves
<1>7. CASE UNCHANGED electionVars
    BY <1>7 DEF electionVars, Moves, Rests, Leads
<1>8. QED
    BY <1>1, <1>2, <1>3, <1>4, <1>5, <1>6, <1>7 DEF ElectionNext
-----------------------------------------------------------------------------
\* Leaders stay elected: a server that leads after a step has just won, or led in
\* the same term before.
LEMMA LeadersStayElected ==
    ASSUME ElectionTypeOK, ElectionTypeOK', Moves, LeadersElected
    PROVE  LeadersElected'
<1> SUFFICES ASSUME NEW m \in Server, state'[m] = "Leader"
             PROVE  Victory(m)' \in elected'
    BY DEF LeadersElected
<1>1. Leads'[m] = TRUE
    BY DEF Leads
<1>2. ASSUME Leads[m] = TRUE, currentTerm'[m] = currentTerm[m]
      PROVE  Victory(m)' \in elected'
    BY <1>2 DEF Leads, LeadersElected, Victory, Moves
<1>3. CASE Rests
    BY <1>1, <1>2, <1>3 DEF Rests
<1>4. ASSUME NEW n \in Server, Falls(n)
      PROVE  Victory(m)' \in elected'
    BY <1>1, <1>2, <1>4 DEF Falls, Leads
<1>5. ASSUME NEW n \in Server, NEW t \in Terms, Rises(n, t)
      PROVE  Victory(m)' \in elected'
    BY <1>1, <1>2, <1>5 DEF Rises, Leads, ElectionTypeOK
<1>6. ASSUME NEW n \in Server, Wins(n)
      PROVE  Victory(m)' \in elected'
    <2>1. CASE m = n
        BY <1>6, <2>1 DEF Wins, Victory
    <2>2. CASE m # n
        BY <1>1, <1>2, <1>6, <2>2 DEF Wins, Leads
    <2>3. QED
        BY <2>1, <2>2
<1>7. QED
    BY <1>3, <1>4, <1>5, <1>6 DEF Moves

\* A move is a step of Roles: a winner meets no other leader of its term, for both
\* would have been elected.
LEMMA MovesAsRoles ==
    ASSUME ElectionTypeOK, LeadersElected, Moves, ElectionSafety'
    PROVE  [SeenAsRoles!RolesNext]_(SeenAsRoles!roleVars)
<1> USE DEF Leads
<1>1. CASE Rests
    BY <1>1 DEF Rests, SeenAsRoles!roleVars
<1>2. ASSUME NEW n \in Server, Falls(n)
      PROVE  SeenAsRoles!RolesNext
    <2>1. SeenAsRoles!StepDown(n)
        BY <1>2 DEF Falls, SeenAsRoles!StepDown
    <2>2. QED
        BY <2>1 DEF SeenAsRoles!RolesNext
<1>3. ASSUME NEW n \in Server, NEW t \in Terms, Rises(n, t)
      PROVE  SeenAsRoles!RolesNext
    <2>1. SeenAsRoles!Advance(n, t)
        BY <1>3 DEF Rises, SeenAsRoles!Advance
    <2>2. QED
        BY <2>1 DEF SeenAsRoles!RolesNext
<1>4. ASSUME NEW n \in Server, Wins(n)
      PROVE  SeenAsRoles!RolesNext
    <2>1. ASSUME NEW m \in Server, state[m] = "Leader"
          PROVE  currentTerm[m] # currentTerm[n]
        <3>1. Victory(m) \in elected' /\ Victory(n) \in elected'
            BY <1>4, <2>1 DEF Wins, LeadersElected, Moves
        <3>2. m # n
            BY <1>4, <2>1 DEF Wins
        <3>3. QED
            BY <3>1, <3>2 DEF ElectionSafety, Victory
    <2>2. SeenAsRoles!Win(n)
        BY <1>4, <2>1 DEF Wins, SeenAsRoles!Win
    <2>3. QED
        BY <2>2 DEF SeenAsRoles!RolesNext
<1>5. QED
    BY <1>1, <1>2, <1>3, <1>4 DEF Moves
-----------------------------------------------------------------------------
\* Nobody leads a term it was not elected in.
LEMMA LeadersElectedHolds ==
    ASSUME MaxDiskFaults = 0
    PROVE  ElectionSpec => []LeadersElected
<1>1. ElectionInit => LeadersElected
    BY DEF ElectionInit, LeadersElected
<1>2. LeaderInv => ElectionTypeOK /\ SavedCurrent
    BY DEF LeaderInv, VoteInv
<1>3. LeaderInv /\ LeaderInv' /\ LeadersElected /\ [ElectionNext]_electionVars
      => LeadersElected'
    <2> SUFFICES ASSUME LeaderInv, LeaderInv', LeadersElected, [ElectionNext]_electionVars
                 PROVE  LeadersElected'
        OBVIOUS
    <2>1. ElectionTypeOK'
        BY DEF LeaderInv, VoteInv
    <2>2. QED
        BY <1>2, <2>1, StepMoves, LeadersStayElected
<1>4. QED
    BY <1>1, <1>3, LeaderInvHolds, PTL DEF ElectionSpec

\* What elections do is what Roles allows: terms only go up, a new term finds a
\* server a follower, and nobody comes to lead a term that another one leads.
THEOREM ElectionsAreRoles ==
    ASSUME MaxDiskFaults = 0, StaleReplies = FALSE
    PROVE  ElectionSpec => RolesSpec
<1>1. ElectionInit => SeenAsRoles!RolesInit
    BY DEF ElectionInit, SeenAsRoles!RolesInit
<1>2. /\ LeaderInv /\ LeadersElected /\ ElectionSafety'
      /\ [ElectionNext]_electionVars
      => [SeenAsRoles!RolesNext]_(SeenAsRoles!roleVars)
    BY StepMoves, MovesAsRoles DEF LeaderInv, VoteInv
<1>3. QED
    BY <1>1, <1>2, LeaderInvHolds, LeadersElectedHolds, OneLeaderPerTerm, PTL
       DEF ElectionSpec, RolesSpec, SeenAsRoles!RolesSpec
=============================================================================
