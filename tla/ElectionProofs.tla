---------------------------- MODULE ElectionProofs ----------------------------
(***************************************************************************)
(* Proofs about module Election: types, votes and terms.                   *)
(***************************************************************************)
EXTENDS Election, FiniteSetTheorems, TLAPS

-----------------------------------------------------------------------------
(* What a handler's calls of SaveRaftState leave behind. *)

\* Whatever fails, the disk holds a pair of the right type and the count of
\* failures stays within its bound.
LEMMA PersistTyped ==
    ASSUME NEW n \in Server, NEW writes \in Seq(Durable), ElectionTypeOK,
           Persist(n, writes)
    PROVE  /\ saved' \in [Server -> Durable]
           /\ diskFaults' \in 0..MaxDiskFaults
<1>1. PICK lost \in 0..Len(writes) :
          /\ diskFaults + lost <= MaxDiskFaults
          /\ diskFaults' = diskFaults + lost
          /\ saved' = IF lost = Len(writes) THEN saved
                      ELSE [saved EXCEPT ![n] = writes[Len(writes) - lost]]
    BY DEF Persist
<1>2. diskFaults' \in 0..MaxDiskFaults
    BY <1>1, BoundsAssumption DEF ElectionTypeOK
<1>3. CASE lost = Len(writes)
    BY <1>1, <1>2, <1>3 DEF ElectionTypeOK
<1>4. CASE lost # Len(writes)
    <2>1. Len(writes) - lost \in 1..Len(writes)
        BY <1>4
    <2>2. writes[Len(writes) - lost] \in Durable
        BY <2>1
    <2>3. QED
        BY <1>1, <1>2, <1>4, <2>2 DEF ElectionTypeOK
<1>5. QED
    BY <1>3, <1>4

\* The calls the RequestVote handler makes write pairs of the right type.
LEMMA WritesTyped ==
    ASSUME NEW t \in Terms, NEW c \in Server, NEW a \in BOOLEAN, NEW b \in BOOLEAN
    PROVE  (IF a THEN <<Pair(t, Nil)>> ELSE << >>) \o (IF b THEN <<Pair(t, c)>> ELSE << >>)
               \in Seq(Durable)
<1>1. Pair(t, Nil) \in Durable /\ Pair(t, c) \in Durable
    BY DEF Pair, Durable
<1>2. (IF a THEN <<Pair(t, Nil)>> ELSE << >>) \in Seq(Durable)
    BY <1>1
<1>3. (IF b THEN <<Pair(t, c)>> ELSE << >>) \in Seq(Durable)
    BY <1>1
<1>4. QED
    BY <1>2, <1>3

\* Stepping down keeps the memory and the disk of a server well-typed.
LEMMA StepDownTyped ==
    ASSUME NEW n \in Server, NEW t \in Terms, ElectionTypeOK, StepDown(n, t)
    PROVE  /\ currentTerm' \in [Server -> Terms]
           /\ votedFor' \in [Server -> Server \cup {Nil}]
           /\ state' \in [Server -> State]
           /\ saved' \in [Server -> Durable]
           /\ diskFaults' \in 0..MaxDiskFaults
<1>1. <<Pair(t, Nil)>> \in Seq(Durable)
    BY DEF Pair, Durable
<1>2. /\ saved' \in [Server -> Durable]
      /\ diskFaults' \in 0..MaxDiskFaults
    BY <1>1, PersistTyped DEF StepDown
<1>3. QED
    BY <1>2 DEF StepDown, ElectionTypeOK, State
-----------------------------------------------------------------------------
(* Type correctness: one lemma per action. *)

LEMMA InitTyped == ElectionInit => ElectionTypeOK
BY BoundsAssumption
   DEF ElectionInit, ElectionTypeOK, Terms, State, Durable, Pair

LEMMA TimerExpiresTyped ==
    ASSUME ElectionTypeOK, NEW n \in Server, TimerExpires(n)
    PROVE  ElectionTypeOK'
BY DEF ElectionTypeOK, TimerExpires

LEMMA StartElectionTyped ==
    ASSUME ElectionTypeOK, NEW n \in Server, NEW tip \in LogTip, StartElection(n, tip)
    PROVE  ElectionTypeOK'
<1> DEFINE term == currentTerm[n] + 1
<1>1. term \in Terms
    BY BoundsAssumption DEF ElectionTypeOK, StartElection, Terms
<1>2. <<Pair(term, n)>> \in Seq(Durable)
    BY <1>1 DEF Pair, Durable
<1>3. /\ saved' \in [Server -> Durable]
      /\ diskFaults' \in 0..MaxDiskFaults
    BY <1>2, PersistTyped DEF StartElection
<1>4. /\ currentTerm' \in [Server -> Terms]
      /\ votedFor' \in [Server -> Server \cup {Nil}]
      /\ state' \in [Server -> State]
      /\ timer' \in [Server -> {"sleeping", "expired"}]
    BY <1>1 DEF StartElection, ElectionTypeOK, State
<1>5. votes' \in [Server -> [Terms -> SUBSET Server]]
    BY <1>1 DEF StartElection, ElectionTypeOK
<1>6. /\ voteReqs' \subseteq VoteRequest
      /\ \A m \in voteReqs' : m.from # m.to
    <2>1. voteReqs' = voteReqs \cup
              {[from |-> n, to |-> p, term |-> term, tip |-> tip, waiting |-> TRUE] :
                  p \in Peers(n)}
        BY DEF StartElection
    <2>2. ASSUME NEW p \in Peers(n)
          PROVE  LET q == [from |-> n, to |-> p, term |-> term, tip |-> tip,
                           waiting |-> TRUE]
                 IN  q \in VoteRequest /\ q.from # q.to
        BY <1>1, <2>2 DEF VoteRequest, Peers
    <2>3. QED
        BY <2>1, <2>2 DEF ElectionTypeOK
<1>7. ballots' \subseteq [voter : Server, term : Terms, cand : Server]
    BY <1>1 DEF StartElection, ElectionTypeOK
<1>8. elections' \in 0..MaxElections
    BY BoundsAssumption DEF StartElection, ElectionTypeOK
<1>9. UNCHANGED <<voteReps, elected, restarts>>
    BY DEF StartElection
<1>10. QED
    BY <1>3, <1>4, <1>5, <1>6, <1>7, <1>8, <1>9 DEF ElectionTypeOK

LEMMA HandleRequestVoteTyped ==
    ASSUME ElectionTypeOK, NEW q \in voteReqs, NEW upToDate \in BOOLEAN,
           HandleRequestVote(q, upToDate)
    PROVE  ElectionTypeOK'
<1> DEFINE n     == q.to
           newer == q.term > currentTerm[n]
           term  == IF newer THEN q.term ELSE currentTerm[n]
           voted == IF newer THEN Nil ELSE votedFor[n]
           grant == q.term = term /\ GivesVote(voted, q.from, upToDate)
<1>1. /\ q \in VoteRequest /\ n \in Server /\ q.from \in Server /\ q.from # n
      /\ q.term \in Terms /\ term \in Terms /\ voted \in Server \cup {Nil}
      /\ newer \in BOOLEAN /\ grant \in BOOLEAN
    BY DEF ElectionTypeOK, VoteRequest, GivesVote
<1>2. /\ saved' \in [Server -> Durable]
      /\ diskFaults' \in 0..MaxDiskFaults
    BY <1>1, WritesTyped, PersistTyped DEF HandleRequestVote
<1>3. /\ currentTerm' \in [Server -> Terms]
      /\ votedFor' \in [Server -> Server \cup {Nil}]
      /\ state' \in [Server -> State]
    BY <1>1 DEF HandleRequestVote, ElectionTypeOK, State
<1>4. /\ voteReqs' \subseteq voteReqs
      /\ voteReps' \subseteq voteReps \cup
             {[from |-> n, to |-> q.from, term |-> q.term,
               replyTerm |-> term, granted |-> grant]}
      /\ ballots' \subseteq ballots \cup {[voter |-> n, term |-> term, cand |-> q.from]}
    BY DEF HandleRequestVote
<1>5. /\ voteReps' \subseteq VoteReply
      /\ \A m \in voteReqs' \cup voteReps' : m.from # m.to
    <2> DEFINE reply == [from |-> n, to |-> q.from, term |-> q.term,
                         replyTerm |-> term, granted |-> grant]
    <2>1. reply \in VoteReply /\ reply.from # reply.to
        BY <1>1 DEF VoteReply
    <2>2. voteReqs' \subseteq voteReqs /\ voteReps' \subseteq voteReps \cup {reply}
        BY <1>4
    <2> HIDE DEF reply
    <2>3. QED
        BY <2>1, <2>2 DEF ElectionTypeOK
<1>6. ballots' \subseteq [voter : Server, term : Terms, cand : Server]
    BY <1>1, <1>4 DEF ElectionTypeOK
<1>7. UNCHANGED <<timer, votes, elected, elections, restarts>>
    BY DEF HandleRequestVote
<1>8. QED
    BY <1>2, <1>3, <1>4, <1>5, <1>6, <1>7 DEF ElectionTypeOK

LEMMA HandleVoteReplyTyped ==
    ASSUME ElectionTypeOK, NEW r \in voteReps, HandleVoteReply(r)
    PROVE  ElectionTypeOK'
<1>1. r \in VoteReply /\ r.from # r.to
    BY DEF ElectionTypeOK
<1>2. /\ voteReps' \subseteq voteReps
      /\ UNCHANGED <<timer, voteReqs, ballots, elections, restarts>>
    BY DEF HandleVoteReply
<1>3. /\ currentTerm' \in [Server -> Terms]
      /\ votedFor' \in [Server -> Server \cup {Nil}]
      /\ state' \in [Server -> State]
      /\ saved' \in [Server -> Durable]
      /\ diskFaults' \in 0..MaxDiskFaults
      /\ votes' \in [Server -> [Terms -> SUBSET Server]]
      /\ elected' \subseteq [term : Terms, leader : Server]
    <2>1. CASE VoteReplyIgnored(r)
        BY <2>1 DEF VoteReplyIgnored, ElectionTypeOK
    <2>2. CASE VoteReplyNewerTerm(r)
        BY <1>1, <2>2, StepDownTyped DEF VoteReplyNewerTerm, VoteReply, ElectionTypeOK
    <2>3. CASE VoteReplyCounted(r)
        BY <1>1, <2>3 DEF VoteReplyCounted, VoteReply, ElectionTypeOK, State
    <2>4. QED
        BY <2>1, <2>2, <2>3 DEF HandleVoteReply
<1>4. QED
    BY <1>2, <1>3 DEF ElectionTypeOK

LEMMA ObserveTermTyped ==
    ASSUME ElectionTypeOK, NEW n \in Server, NEW t \in Terms, ObserveTerm(n, t)
    PROVE  ElectionTypeOK'
<1>1. StepDown(n, t)
    BY DEF ObserveTerm
<1>2. QED
    BY <1>1, StepDownTyped DEF ObserveTerm, ElectionTypeOK

LEMMA RestartTyped ==
    ASSUME ElectionTypeOK, NEW n \in Server, RestartElection(n)
    PROVE  ElectionTypeOK'
<1>1. saved[n].term \in Terms /\ saved[n].vote \in Server \cup {Nil}
    BY DEF ElectionTypeOK, Durable
<1>2. /\ currentTerm' \in [Server -> Terms]
      /\ votedFor' \in [Server -> Server \cup {Nil}]
      /\ state' \in [Server -> State]
      /\ timer' \in [Server -> {"sleeping", "expired"}]
      /\ votes' \in [Server -> [Terms -> SUBSET Server]]
    BY <1>1 DEF RestartElection, LoadRaftState, ElectionTypeOK, State
<1>3. /\ voteReqs' \subseteq VoteRequest
      /\ \A m \in voteReqs' : m.from # m.to
    <2>1. voteReqs' = {[q EXCEPT !.waiting = @ /\ q.from # n] : q \in voteReqs}
        BY DEF RestartElection
    <2>2. SUFFICES ASSUME NEW m \in voteReqs'
                   PROVE  m \in VoteRequest /\ m.from # m.to
        OBVIOUS
    <2>3. PICK q \in voteReqs : m = [q EXCEPT !.waiting = @ /\ q.from # n]
        BY <2>1
    <2>4. q \in VoteRequest /\ q.from # q.to
        BY DEF ElectionTypeOK
    <2>5. QED
        BY <2>3, <2>4 DEF VoteRequest
<1>4. restarts' \in 0..MaxRestarts
    BY BoundsAssumption DEF RestartElection, ElectionTypeOK
<1>5. voteReps' \subseteq voteReps /\ UNCHANGED <<saved, ballots, elected, elections, diskFaults>>
    BY DEF RestartElection
<1>6. QED
    <2>1. \A m \in voteReqs' \cup voteReps' : m.from # m.to
        BY <1>3, <1>5 DEF ElectionTypeOK
    <2>2. QED
        BY <1>2, <1>3, <1>4, <1>5, <2>1 DEF ElectionTypeOK

\* Every variable keeps its type, whatever fails and however late replies come.
LEMMA StepTyped == ElectionTypeOK /\ [ElectionNext]_electionVars => ElectionTypeOK'
<1> SUFFICES ASSUME ElectionTypeOK, [ElectionNext]_electionVars
             PROVE  ElectionTypeOK'
    OBVIOUS
<1>1. ASSUME NEW n \in Server, TimerExpires(n) PROVE ElectionTypeOK'
    BY <1>1, TimerExpiresTyped
<1>2. ASSUME NEW n \in Server, NEW tip \in LogTip, StartElection(n, tip)
      PROVE  ElectionTypeOK'
    BY <1>2, StartElectionTyped
<1>3. ASSUME NEW q \in voteReqs, NEW upToDate \in BOOLEAN, HandleRequestVote(q, upToDate)
      PROVE  ElectionTypeOK'
    BY <1>3, HandleRequestVoteTyped
<1>4. ASSUME NEW r \in voteReps, HandleVoteReply(r) PROVE ElectionTypeOK'
    BY <1>4, HandleVoteReplyTyped
<1>5. ASSUME NEW n \in Server, NEW t \in Terms, ObserveTerm(n, t) PROVE ElectionTypeOK'
    BY <1>5, ObserveTermTyped
<1>6. ASSUME NEW n \in Server, RestartElection(n) PROVE ElectionTypeOK'
    BY <1>6, RestartTyped
<1>7. CASE UNCHANGED electionVars
    BY <1>7 DEF electionVars, ElectionTypeOK
<1>8. QED
    BY <1>1, <1>2, <1>3, <1>4, <1>5, <1>6, <1>7 DEF ElectionNext

\* The state of the election protocol is well-typed in every reachable state,
\* for any servers, bounds and number of write failures.
THEOREM TypeCorrect == ElectionSpec => []ElectionTypeOK
<1>1. QED
    BY InitTyped, StepTyped, PTL DEF ElectionSpec
-----------------------------------------------------------------------------
(***************************************************************************)
(* Votes and terms, for every cluster whose calls of SaveRaftState succeed *)
(* (MaxDiskFaults = 0).  Everything rests on two facts: disk and memory    *)
(* agree on term and vote between two critical sections, and a server has  *)
(* no ballot in a term it has not reached, nor one in its present term     *)
(* that it would not repeat.                                               *)
(***************************************************************************)

\* Disk and memory agree, so that a restart changes neither term nor vote.
SavedCurrent == \A n \in Server : saved[n] = Pair(currentTerm[n], votedFor[n])

\* A server's ballots are of terms it has reached; that of its present term, if
\* there is one, is for votedFor.
BallotsPast ==
    \A b \in ballots : /\ b.term <= currentTerm[b.voter]
                       /\ b.term = currentTerm[b.voter] => votedFor[b.voter] = b.cand

VoteInv == ElectionTypeOK /\ SavedCurrent /\ BallotsPast /\ VoteOnce

\* What every step may do to terms, votes and ballots: terms do not go back, a
\* vote is kept for the whole term, a new ballot is the voter's present vote.
VotesKept ==
    /\ \A n \in Server : currentTerm'[n] >= currentTerm[n]
    /\ \A n \in Server : currentTerm'[n] = currentTerm[n] =>
                            votedFor[n] \in {Nil, votedFor'[n]}
    /\ ballots \subseteq ballots'
    /\ \A b \in ballots' \ ballots : /\ b.term = currentTerm'[b.voter]
                                     /\ b.cand = votedFor'[b.voter]
-----------------------------------------------------------------------------
(* Memory and disk. *)

\* When no call of SaveRaftState fails, the last one of a handler counts.
LEMMA PersistLast ==
    ASSUME MaxDiskFaults = 0, ElectionTypeOK, NEW n \in Server,
           NEW writes \in Seq(Durable), Persist(n, writes)
    PROVE  saved' = IF Len(writes) = 0 THEN saved
                    ELSE [saved EXCEPT ![n] = writes[Len(writes)]]
<1>1. PICK lost \in 0..Len(writes) :
          /\ diskFaults + lost <= MaxDiskFaults
          /\ saved' = IF lost = Len(writes) THEN saved
                      ELSE [saved EXCEPT ![n] = writes[Len(writes) - lost]]
    BY DEF Persist
<1>2. diskFaults \in Nat /\ diskFaults <= 0
    BY BoundsAssumption DEF ElectionTypeOK
<1>3. lost = 0
    BY <1>1, <1>2
<1>4. QED
    BY <1>1, <1>3

\* A handler with one call.
LEMMA PersistOne ==
    ASSUME MaxDiskFaults = 0, ElectionTypeOK, NEW n \in Server,
           NEW pair \in Durable, Persist(n, <<pair>>)
    PROVE  saved' = [saved EXCEPT ![n] = pair]
<1>1. <<pair>> \in Seq(Durable)
    OBVIOUS
<1>2. saved' = IF Len(<<pair>>) = 0 THEN saved
               ELSE [saved EXCEPT ![n] = <<pair>>[Len(<<pair>>)]]
    BY <1>1, PersistLast
<1>3. Len(<<pair>>) = 1 /\ <<pair>>[1] = pair
    OBVIOUS
<1>4. QED
    BY <1>2, <1>3

\* A handler with up to two calls: the one that comes last, if any, counts.
LEMMA PersistTwo ==
    ASSUME MaxDiskFaults = 0, ElectionTypeOK, NEW n \in Server,
           NEW p \in Durable, NEW v \in Durable, NEW a \in BOOLEAN, NEW b \in BOOLEAN,
           Persist(n, (IF a THEN <<p>> ELSE << >>) \o (IF b THEN <<v>> ELSE << >>))
    PROVE  saved' = IF b THEN [saved EXCEPT ![n] = v]
                    ELSE IF a THEN [saved EXCEPT ![n] = p]
                    ELSE saved
<1> DEFINE writes == (IF a THEN <<p>> ELSE << >>) \o (IF b THEN <<v>> ELSE << >>)
<1>1. writes \in Seq(Durable)
    OBVIOUS
<1>2. /\ Len(writes) = (IF a THEN 1 ELSE 0) + (IF b THEN 1 ELSE 0)
      /\ b => writes[Len(writes)] = v
      /\ a /\ ~b => writes[Len(writes)] = p
    OBVIOUS
<1>3. Persist(n, writes)
    OBVIOUS
<1> HIDE DEF writes
<1>4. saved' = IF Len(writes) = 0 THEN saved
               ELSE [saved EXCEPT ![n] = writes[Len(writes)]]
    BY <1>1, <1>3, PersistLast
<1>5. CASE b
    <2>1. Len(writes) # 0 /\ writes[Len(writes)] = v
        BY <1>2, <1>5
    <2>2. QED
        BY <1>4, <1>5, <2>1
<1>6. CASE a /\ ~b
    <2>1. Len(writes) # 0 /\ writes[Len(writes)] = p
        BY <1>2, <1>6
    <2>2. QED
        BY <1>4, <1>6, <2>1
<1>7. CASE ~a /\ ~b
    <2>1. Len(writes) = 0
        BY <1>2, <1>7
    <2>2. QED
        BY <1>4, <1>7, <2>1
<1>8. QED
    BY <1>5, <1>6, <1>7

\* Whoever steps down has the new term, and no vote, on disk as in memory.
LEMMA StepDownSaved ==
    ASSUME MaxDiskFaults = 0, ElectionTypeOK, SavedCurrent, NEW n \in Server,
           NEW t \in Terms, StepDown(n, t)
    PROVE  SavedCurrent'
<1>1. Pair(t, Nil) \in Durable
    BY DEF Pair, Durable
<1>2. saved' = [saved EXCEPT ![n] = Pair(t, Nil)]
    BY <1>1, PersistOne DEF StepDown
<1>3. QED
    BY <1>2 DEF StepDown, SavedCurrent, ElectionTypeOK

\* Whoever steps down moves to a later term and casts no vote.
LEMMA StepDownKeeps ==
    ASSUME ElectionTypeOK, NEW n \in Server, NEW t \in Terms, t > currentTerm[n],
           StepDown(n, t), UNCHANGED ballots
    PROVE  VotesKept
BY DEF StepDown, VotesKept, ElectionTypeOK, Terms
-----------------------------------------------------------------------------
(* Every step keeps votes and leaves disk and memory in agreement. *)

LEMMA StartElectionVotes ==
    ASSUME MaxDiskFaults = 0, ElectionTypeOK, SavedCurrent, NEW n \in Server,
           NEW tip \in LogTip, StartElection(n, tip)
    PROVE  SavedCurrent' /\ VotesKept
<1> DEFINE term == currentTerm[n] + 1
<1>1. term \in Terms /\ term > currentTerm[n]
    BY BoundsAssumption DEF ElectionTypeOK, StartElection, Terms
<1>2. /\ currentTerm' = [currentTerm EXCEPT ![n] = term]
      /\ votedFor' = [votedFor EXCEPT ![n] = n]
      /\ ballots' = ballots \cup {[voter |-> n, term |-> term, cand |-> n]}
      /\ Persist(n, <<Pair(term, n)>>)
    BY DEF StartElection
<1> HIDE DEF term
<1>3. Pair(term, n) \in Durable
    BY <1>1 DEF Pair, Durable
<1>4. saved' = [saved EXCEPT ![n] = Pair(term, n)]
    BY <1>2, <1>3, PersistOne
<1>5. SavedCurrent'
    BY <1>2, <1>4 DEF SavedCurrent, ElectionTypeOK
<1>6. VotesKept
    BY <1>1, <1>2 DEF VotesKept, ElectionTypeOK, Terms
<1>7. QED
    BY <1>5, <1>6

LEMMA HandleRequestVoteVotes ==
    ASSUME MaxDiskFaults = 0, ElectionTypeOK, SavedCurrent, NEW q \in voteReqs,
           NEW upToDate \in BOOLEAN, HandleRequestVote(q, upToDate)
    PROVE  SavedCurrent' /\ VotesKept
<1> DEFINE n     == q.to
           newer == q.term > currentTerm[n]
           term  == IF newer THEN q.term ELSE currentTerm[n]
           voted == IF newer THEN Nil ELSE votedFor[n]
           grant == q.term = term /\ GivesVote(voted, q.from, upToDate)
           step  == IF newer THEN <<Pair(term, Nil)>> ELSE << >>
           vote  == IF grant THEN <<Pair(term, q.from)>> ELSE << >>
<1>1. /\ n \in Server /\ q.from \in Server /\ q.term \in Terms
      /\ currentTerm[n] \in Terms /\ term \in Terms /\ term >= currentTerm[n]
    BY DEF ElectionTypeOK, VoteRequest, Terms
<1>2. /\ currentTerm' = [currentTerm EXCEPT ![n] = term]
      /\ votedFor' = [votedFor EXCEPT ![n] = IF grant THEN q.from ELSE voted]
      /\ ballots' = IF grant
                    THEN ballots \cup {[voter |-> n, term |-> term, cand |-> q.from]}
                    ELSE ballots
      /\ Persist(n, step \o vote)
    BY DEF HandleRequestVote
<1>3. newer \in BOOLEAN /\ grant \in BOOLEAN
    BY DEF GivesVote
<1>4. grant => voted \in {Nil, q.from}
    BY DEF GivesVote
<1>5. newer => voted = Nil
    OBVIOUS
<1>6. ~newer => term = currentTerm[n] /\ voted = votedFor[n]
    OBVIOUS
<1>7. newer => term > currentTerm[n]
    OBVIOUS
<1>8. Pair(term, Nil) \in Durable /\ Pair(term, q.from) \in Durable
    BY <1>1 DEF Pair, Durable
<1>9. saved' = IF grant THEN [saved EXCEPT ![n] = Pair(term, q.from)]
               ELSE IF newer THEN [saved EXCEPT ![n] = Pair(term, Nil)]
               ELSE saved
    <2> HIDE DEF n, newer, term, voted, grant
    <2>1. QED
        BY <1>1, <1>2, <1>3, <1>8, PersistTwo
<1> HIDE DEF newer, term, voted, grant, step, vote
<1>10. SavedCurrent'
    BY <1>1, <1>2, <1>5, <1>6, <1>9 DEF SavedCurrent, ElectionTypeOK
<1>11. VotesKept
    BY <1>1, <1>2, <1>4, <1>5, <1>6, <1>7 DEF VotesKept, ElectionTypeOK, Terms
<1>12. QED
    BY <1>10, <1>11

LEMMA HandleVoteReplyVotes ==
    ASSUME MaxDiskFaults = 0, ElectionTypeOK, SavedCurrent, NEW r \in voteReps,
           HandleVoteReply(r)
    PROVE  SavedCurrent' /\ VotesKept
<1>1. r.to \in Server /\ r.replyTerm \in Terms
    BY DEF ElectionTypeOK, VoteReply
<1>2. UNCHANGED ballots
    BY DEF HandleVoteReply
<1>3. CASE VoteReplyNewerTerm(r)
    BY <1>1, <1>2, <1>3, StepDownSaved, StepDownKeeps DEF VoteReplyNewerTerm
<1>4. CASE VoteReplyIgnored(r) \/ VoteReplyCounted(r)
    <2>1. UNCHANGED <<currentTerm, votedFor, saved>>
        BY <1>4 DEF VoteReplyIgnored, VoteReplyCounted
    <2>2. QED
        BY <1>2, <2>1 DEF SavedCurrent, VotesKept, ElectionTypeOK, Terms
<1>5. QED
    BY <1>3, <1>4 DEF HandleVoteReply

LEMMA ObserveTermVotes ==
    ASSUME MaxDiskFaults = 0, ElectionTypeOK, SavedCurrent, NEW n \in Server,
           NEW t \in Terms, ObserveTerm(n, t)
    PROVE  SavedCurrent' /\ VotesKept
BY StepDownSaved, StepDownKeeps DEF ObserveTerm

\* What was on disk is what was in memory: a restart changes neither.
LEMMA RestartVotes ==
    ASSUME ElectionTypeOK, SavedCurrent, NEW n \in Server, RestartElection(n)
    PROVE  SavedCurrent' /\ VotesKept
<1>1. UNCHANGED <<saved, ballots>>
    BY DEF RestartElection
<1>2. saved[n] = [term |-> currentTerm[n], vote |-> votedFor[n]]
    BY DEF SavedCurrent, Pair
<1>3. currentTerm' = currentTerm /\ votedFor' = votedFor
    BY <1>2 DEF RestartElection, LoadRaftState, ElectionTypeOK
<1>4. QED
    BY <1>1, <1>3 DEF SavedCurrent, VotesKept, ElectionTypeOK, Terms

LEMMA StepVotes ==
    ASSUME MaxDiskFaults = 0, ElectionTypeOK, SavedCurrent, [ElectionNext]_electionVars
    PROVE  SavedCurrent' /\ VotesKept
<1>1. ASSUME NEW n \in Server, TimerExpires(n) PROVE SavedCurrent' /\ VotesKept
    BY <1>1 DEF TimerExpires, SavedCurrent, VotesKept, ElectionTypeOK, Terms
<1>2. ASSUME NEW n \in Server, NEW tip \in LogTip, StartElection(n, tip)
      PROVE  SavedCurrent' /\ VotesKept
    BY <1>2, StartElectionVotes
<1>3. ASSUME NEW q \in voteReqs, NEW upToDate \in BOOLEAN, HandleRequestVote(q, upToDate)
      PROVE  SavedCurrent' /\ VotesKept
    BY <1>3, HandleRequestVoteVotes
<1>4. ASSUME NEW r \in voteReps, HandleVoteReply(r) PROVE SavedCurrent' /\ VotesKept
    BY <1>4, HandleVoteReplyVotes
<1>5. ASSUME NEW n \in Server, NEW t \in Terms, ObserveTerm(n, t)
      PROVE  SavedCurrent' /\ VotesKept
    BY <1>5, ObserveTermVotes
<1>6. ASSUME NEW n \in Server, RestartElection(n) PROVE SavedCurrent' /\ VotesKept
    BY <1>6, RestartVotes
<1>7. CASE UNCHANGED electionVars
    BY <1>7 DEF electionVars, SavedCurrent, VotesKept, ElectionTypeOK, Terms
<1>8. QED
    BY <1>1, <1>2, <1>3, <1>4, <1>5, <1>6, <1>7 DEF ElectionNext
-----------------------------------------------------------------------------
(* One vote per term. *)

\* A step that keeps votes keeps BallotsPast.
LEMMA BallotsStayPast ==
    ASSUME ElectionTypeOK, ElectionTypeOK', BallotsPast, VotesKept
    PROVE  BallotsPast'
<1> SUFFICES ASSUME NEW b \in ballots'
             PROVE  /\ b.term <= currentTerm'[b.voter]
                    /\ b.term = currentTerm'[b.voter] => votedFor'[b.voter] = b.cand
    BY DEF BallotsPast
<1>1. /\ b.voter \in Server /\ b.cand \in Server /\ b.term \in Nat /\ b.cand # Nil
      /\ currentTerm[b.voter] \in Nat /\ currentTerm'[b.voter] \in Nat
    BY NilAssumption DEF ElectionTypeOK, Terms
<1>2. CASE b \in ballots
    BY <1>1, <1>2 DEF BallotsPast, VotesKept
<1>3. CASE b \notin ballots
    BY <1>1, <1>3 DEF VotesKept
<1>4. QED
    BY <1>2, <1>3

\* A ballot cast by such a step is the voter's only one in its term.
LEMMA VotesStayUnique ==
    ASSUME BallotsPast', VotesKept, VoteOnce
    PROVE  VoteOnce'
<1> SUFFICES ASSUME NEW b \in ballots', NEW c \in ballots',
                    b.voter = c.voter, b.term = c.term
             PROVE  b.cand = c.cand
    BY DEF VoteOnce
<1>1. CASE b \in ballots /\ c \in ballots
    BY <1>1 DEF VoteOnce
<1>2. CASE b \notin ballots
    BY <1>2 DEF VotesKept, BallotsPast
<1>3. CASE c \notin ballots
    BY <1>3 DEF VotesKept, BallotsPast
<1>4. QED
    BY <1>1, <1>2, <1>3

LEMMA InitVotes == ElectionInit => VoteInv
<1> SUFFICES ASSUME ElectionInit PROVE VoteInv
    OBVIOUS
<1>1. ElectionTypeOK
    BY InitTyped
<1>2. SavedCurrent /\ BallotsPast /\ VoteOnce
    BY DEF ElectionInit, SavedCurrent, BallotsPast, VoteOnce
<1>3. QED
    BY <1>1, <1>2 DEF VoteInv

LEMMA StepVoteInv ==
    ASSUME MaxDiskFaults = 0, VoteInv, [ElectionNext]_electionVars
    PROVE  VoteInv'
<1>1. ElectionTypeOK'
    BY StepTyped DEF VoteInv
<1>2. SavedCurrent' /\ VotesKept
    BY StepVotes DEF VoteInv
<1>3. BallotsPast'
    BY <1>1, <1>2, BallotsStayPast DEF VoteInv
<1>4. VoteOnce'
    BY <1>2, <1>3, VotesStayUnique DEF VoteInv
<1>5. QED
    BY <1>1, <1>2, <1>3, <1>4 DEF VoteInv

LEMMA VoteInvHolds ==
    ASSUME MaxDiskFaults = 0
    PROVE  ElectionSpec => []VoteInv
<1>1. VoteInv /\ [ElectionNext]_electionVars => VoteInv'
    BY StepVoteInv
<1>2. QED
    BY <1>1, InitVotes, PTL DEF ElectionSpec

\* No server ever votes for two candidates of a term, whatever is restarted and
\* however late messages come, as long as its writes succeed.
THEOREM VotesUnique ==
    ASSUME MaxDiskFaults = 0
    PROVE  ElectionSpec => []VoteOnce
<1>1. VoteInv => VoteOnce
    BY DEF VoteInv
<1>2. QED
    BY <1>1, VoteInvHolds, PTL

\* No step, a restart included, takes a server back to an earlier term.
THEOREM TermsMonotone ==
    ASSUME MaxDiskFaults = 0
    PROVE  ElectionSpec => TermMonotone
<1>1. VoteInv /\ [ElectionNext]_electionVars =>
          [\A n \in Server : currentTerm'[n] >= currentTerm[n]]_electionVars
    BY StepVotes DEF VoteInv, VotesKept
<1>2. QED
    BY <1>1, VoteInvHolds, PTL DEF ElectionSpec, TermMonotone
=============================================================================
