---------------------------- MODULE RaftLogProofs ----------------------------
(***************************************************************************)
(* Why the logs of module Raft match, as long as no server restarts (the   *)
(* log a restart finds on disk is another one), writes succeed, and a      *)
(* reply is handled in the term of its call.  Every log is put together    *)
(* from what leaders held: the history variable ledger.                    *)
(***************************************************************************)
EXTENDS RaftProofs

Undisturbed == MaxDiskFaults = 0 /\ MaxRestarts = 0 /\ StaleReplies = FALSE

\* What holds of elections and of the terms of entries and calls.
Base == RaftInv /\ LeaderInv /\ LeadersElected /\ ElectionSafety /\ EntriesReached

LEMMA BaseHolds ==
    ASSUME Undisturbed
    PROVE  RaftSpec => []Base
<1>1. MaxDiskFaults = 0 /\ StaleReplies = FALSE
    BY DEF Undisturbed
<1>2. QED
    BY <1>1, RaftElects, RaftInvHolds, LeaderInvHolds, LeadersElectedHolds,
       OneLeaderPerTerm, EntriesReachedHolds, PTL
       DEF Base

\* What a step from one such state to another may do to terms, votes and leaders.
LEMMA BaseStep ==
    ASSUME Undisturbed, Base, [RaftNext]_vars
    PROVE  [ElectionNext]_electionVars /\ VotesKept /\ CallsKept /\ Moves
<1>1. MaxDiskFaults = 0 /\ RaftTypeOK /\ CallsBehind /\ ElectionTypeOK /\ SavedCurrent
      /\ CallsPast /\ GrantsCast /\ CountsCast
    BY DEF Undisturbed, Base, RaftInv, LeaderInv, VoteInv
<1>2. [ElectionNext]_electionVars
    BY <1>1, RaftStepsElect
<1>3. QED
    BY <1>1, <1>2, StepVotes, StepCalls, StepMoves
-----------------------------------------------------------------------------
(* A term is won once. *)

\* Candidates and leaders have their own vote; who was elected in a term leads it
\* until it leaves the term; nobody votes in a term its candidate has not reached.
OwnVotes ==
    /\ \A n \in Server : state[n] # "Follower" => votedFor[n] = n
    /\ \A e \in elected : /\ e.term <= currentTerm[e.leader]
                          /\ e.term = currentTerm[e.leader] => state[e.leader] = "Leader"
    /\ \A b \in ballots : b.term <= currentTerm[b.cand]

\* What a step has to show: whoever changes its term rises and leads nothing, whoever
\* keeps its term goes on leading.
LEMMA LeadsOn ==
    ASSUME ElectionTypeOK, OwnVotes, elected' = elected,
           \A n \in Server : /\ currentTerm'[n] \in Nat
                             /\ \/ currentTerm'[n] > currentTerm[n]
                                \/ /\ currentTerm'[n] = currentTerm[n]
                                   /\ state[n] = "Leader" => state'[n] = "Leader"
    PROVE  \A e \in elected' :
              /\ e.term <= currentTerm'[e.leader]
              /\ e.term = currentTerm'[e.leader] => state'[e.leader] = "Leader"
<1> SUFFICES ASSUME NEW e \in elected
             PROVE  /\ e.term <= currentTerm'[e.leader]
                    /\ e.term = currentTerm'[e.leader] => state'[e.leader] = "Leader"
    OBVIOUS
<1>1. e.leader \in Server /\ e.term \in Nat /\ currentTerm[e.leader] \in Nat
    BY DEF ElectionTypeOK, Terms
<1>2. /\ e.term <= currentTerm[e.leader]
      /\ e.term = currentTerm[e.leader] => state[e.leader] = "Leader"
    BY DEF OwnVotes
<1>3. QED
    BY <1>1, <1>2

\* A server that steps down to a later term.
LEMMA StepDownOwn ==
    ASSUME ElectionTypeOK, OwnVotes, NEW n \in Server, NEW t \in Terms,
           t > currentTerm[n], StepDown(n, t), UNCHANGED <<elected, ballots>>
    PROVE  OwnVotes'
<1>1. /\ currentTerm' = [currentTerm EXCEPT ![n] = t]
      /\ state' = [state EXCEPT ![n] = "Follower"]
      /\ votedFor' = [votedFor EXCEPT ![n] = Nil]
    BY DEF StepDown
<1>2. \A m \in Server : currentTerm[m] \in Nat /\ t \in Nat
    BY DEF ElectionTypeOK, Terms
<1>3. \A m \in Server : state'[m] # "Follower" => votedFor'[m] = m
    BY <1>1 DEF OwnVotes, ElectionTypeOK
<1>4. \A e \in elected' : /\ e.term <= currentTerm'[e.leader]
                          /\ e.term = currentTerm'[e.leader] => state'[e.leader] = "Leader"
    BY <1>1, <1>2, LeadsOn DEF ElectionTypeOK
<1>5. \A b \in ballots' : b.term <= currentTerm'[b.cand]
    <2> SUFFICES ASSUME NEW b \in ballots
                 PROVE  b.term <= currentTerm'[b.cand]
        OBVIOUS
    <2>1. b.cand \in Server /\ b.term \in Nat /\ b.term <= currentTerm[b.cand]
        BY DEF OwnVotes, ElectionTypeOK, Terms
    <2>2. QED
        BY <1>1, <1>2, <2>1 DEF ElectionTypeOK
<1>6. QED
    BY <1>3, <1>4, <1>5 DEF OwnVotes

LEMMA StepOwnVotes ==
    ASSUME Undisturbed, LeaderInv, OwnVotes, [ElectionNext]_electionVars
    PROVE  OwnVotes'
<1>1. /\ ElectionTypeOK /\ CallsPast /\ StaleReplies = FALSE /\ MaxRestarts = 0
      /\ \A n \in Server : currentTerm[n] \in Nat /\ currentTerm[n] \in Terms
    BY DEF LeaderInv, VoteInv, Undisturbed, ElectionTypeOK, Terms
<1>2. ASSUME NEW n \in Server, TimerExpires(n) PROVE OwnVotes'
    BY <1>2 DEF TimerExpires, OwnVotes
<1>3. ASSUME NEW n \in Server, NEW tip \in LogTip, StartElection(n, tip) PROVE OwnVotes'
    <2> DEFINE term == currentTerm[n] + 1
    <2>1. /\ term \in Nat /\ term > currentTerm[n]
          /\ state' = [state EXCEPT ![n] = "Candidate"]
          /\ currentTerm' = [currentTerm EXCEPT ![n] = term]
          /\ votedFor' = [votedFor EXCEPT ![n] = n]
          /\ ballots' = ballots \cup {[voter |-> n, term |-> term, cand |-> n]}
          /\ elected' = elected
        BY <1>1, <1>3 DEF StartElection
    <2> HIDE DEF term
    <2>2. \A m \in Server : state'[m] # "Follower" => votedFor'[m] = m
        BY <1>1, <2>1 DEF OwnVotes, ElectionTypeOK
    <2>3. \A e \in elected' :
              /\ e.term <= currentTerm'[e.leader]
              /\ e.term = currentTerm'[e.leader] => state'[e.leader] = "Leader"
        BY <1>1, <2>1, LeadsOn DEF ElectionTypeOK
    <2>4. ASSUME NEW b \in ballots' PROVE b.term <= currentTerm'[b.cand]
        <3>1. CASE b \in ballots
            <4>1. b.cand \in Server /\ b.term \in Nat /\ b.term <= currentTerm[b.cand]
                BY <1>1, <3>1 DEF OwnVotes, ElectionTypeOK, Terms
            <4>2. QED
                BY <1>1, <2>1, <4>1 DEF ElectionTypeOK
        <3>2. CASE b = [voter |-> n, term |-> term, cand |-> n]
            BY <1>1, <2>1, <3>2 DEF ElectionTypeOK
        <3>3. QED
            BY <2>1, <3>1, <3>2
    <2>5. QED
        BY <2>2, <2>3, <2>4 DEF OwnVotes
<1>4. ASSUME NEW q \in voteReqs, NEW upToDate \in BOOLEAN, HandleRequestVote(q, upToDate)
      PROVE  OwnVotes'
    <2> DEFINE n     == q.to
               newer == q.term > currentTerm[n]
               term  == IF newer THEN q.term ELSE currentTerm[n]
               voted == IF newer THEN Nil ELSE votedFor[n]
               grant == q.term = term /\ GivesVote(voted, q.from, upToDate)
    <2>1. /\ n \in Server /\ q.from \in Server /\ q.from # n
          /\ q.term \in Nat /\ q.term <= currentTerm[q.from]
        BY <1>1 DEF ElectionTypeOK, VoteRequest, CallsPast, Terms
    <2>2. /\ currentTerm' = [currentTerm EXCEPT ![n] = term]
          /\ state' = [state EXCEPT ![n] = IF newer \/ grant THEN "Follower" ELSE @]
          /\ votedFor' = [votedFor EXCEPT ![n] = IF grant THEN q.from ELSE voted]
          /\ ballots' = IF grant
                        THEN ballots \cup {[voter |-> n, term |-> term, cand |-> q.from]}
                        ELSE ballots
          /\ elected' = elected
        BY <1>4 DEF HandleRequestVote
    <2>3. /\ term \in Nat /\ term >= currentTerm[n]
          /\ newer => term > currentTerm[n]
          /\ ~newer => term = currentTerm[n] /\ voted = votedFor[n]
          /\ grant => q.term = term /\ voted \in {Nil, q.from}
        BY <1>1, <2>1 DEF GivesVote
    <2>4. ~newer /\ grant => state[n] # "Leader"
        BY <2>1, <2>3, NilAssumption DEF OwnVotes
    <2> HIDE DEF n, newer, term, voted, grant
    <2>5. \A m \in Server : state'[m] # "Follower" => votedFor'[m] = m
        BY <1>1, <2>1, <2>2, <2>3 DEF OwnVotes, ElectionTypeOK
    <2>6. \A m \in Server : /\ currentTerm'[m] \in Nat
                            /\ \/ currentTerm'[m] > currentTerm[m]
                               \/ /\ currentTerm'[m] = currentTerm[m]
                                  /\ state[m] = "Leader" => state'[m] = "Leader"
        BY <1>1, <2>1, <2>2, <2>3, <2>4 DEF ElectionTypeOK
    <2>7. \A e \in elected' :
              /\ e.term <= currentTerm'[e.leader]
              /\ e.term = currentTerm'[e.leader] => state'[e.leader] = "Leader"
        BY <1>1, <2>2, <2>6, LeadsOn
    <2>8. ASSUME NEW b \in ballots' PROVE b.term <= currentTerm'[b.cand]
        <3>1. \A m \in Server : currentTerm'[m] \in Nat /\ currentTerm'[m] >= currentTerm[m]
            BY <1>1, <2>6
        <3>2. CASE b \in ballots
            <4>1. b.cand \in Server /\ b.term \in Nat /\ b.term <= currentTerm[b.cand]
                BY <1>1, <3>2 DEF OwnVotes, ElectionTypeOK, Terms
            <4>2. QED
                BY <1>1, <3>1, <4>1
        <3>3. CASE grant /\ b = [voter |-> n, term |-> term, cand |-> q.from]
            BY <1>1, <2>1, <2>3, <3>1, <3>3
        <3>4. QED
            BY <2>2, <3>2, <3>3
    <2>9. QED
        BY <2>5, <2>7, <2>8 DEF OwnVotes
<1>5. ASSUME NEW r \in voteReps, HandleVoteReply(r) PROVE OwnVotes'
    <2>1. /\ r.to \in Server /\ r.term \in Terms /\ r.replyTerm \in Terms
          /\ UNCHANGED ballots
        BY <1>1, <1>5 DEF ElectionTypeOK, VoteReply, HandleVoteReply
    <2>2. CASE VoteReplyIgnored(r)
        BY <2>1, <2>2 DEF VoteReplyIgnored, OwnVotes
    <2>3. CASE VoteReplyNewerTerm(r)
        BY <1>1, <2>1, <2>3, StepDownOwn DEF VoteReplyNewerTerm
    <2>4. CASE VoteReplyCounted(r)
        <3> DEFINE n == r.to
                   won == Cardinality(votes[n][r.term] \cup {r.from}) >= VotesNeeded
        <3>1. /\ state[n] = "Candidate"
              /\ state' = [state EXCEPT ![n] = IF won THEN "Leader" ELSE @]
              /\ elected' = IF won
                            THEN elected \cup {[term |-> currentTerm[n], leader |-> n]}
                            ELSE elected
              /\ UNCHANGED <<currentTerm, votedFor>>
            BY <2>4 DEF VoteReplyCounted
        <3> HIDE DEF won
        <3>2. \A m \in Server : state'[m] # "Follower" => votedFor'[m] = m
            BY <1>1, <2>1, <3>1 DEF OwnVotes, ElectionTypeOK
        <3>3. ASSUME NEW e \in elected'
              PROVE  /\ e.term <= currentTerm'[e.leader]
                     /\ e.term = currentTerm'[e.leader] => state'[e.leader] = "Leader"
            <4>1. CASE e \in elected
                <5>1. e.leader \in Server
                    BY <1>1, <4>1 DEF ElectionTypeOK
                <5>2. QED
                    BY <1>1, <2>1, <3>1, <4>1, <5>1 DEF OwnVotes, ElectionTypeOK
            <4>2. CASE won /\ e = [term |-> currentTerm[n], leader |-> n]
                BY <1>1, <2>1, <3>1, <4>2 DEF ElectionTypeOK
            <4>3. QED
                BY <3>1, <4>1, <4>2
        <3>4. QED
            BY <2>1, <3>1, <3>2, <3>3 DEF OwnVotes
    <2>5. QED
        BY <1>5, <2>2, <2>3, <2>4 DEF HandleVoteReply
<1>6. ASSUME NEW n \in Server, NEW t \in Terms, ObserveTerm(n, t) PROVE OwnVotes'
    BY <1>1, <1>6, StepDownOwn DEF ObserveTerm
<1>7. ASSUME NEW n \in Server, RestartElection(n) PROVE OwnVotes'
    BY <1>1, <1>7 DEF RestartElection, ElectionTypeOK
<1>8. CASE UNCHANGED electionVars
    BY <1>8 DEF electionVars, OwnVotes
<1>9. QED
    BY <1>2, <1>3, <1>4, <1>5, <1>6, <1>7, <1>8 DEF ElectionNext

-----------------------------------------------------------------------------
(* Logs that agree. *)

\* l and k have the same entries up to i.
Agrees(l, k, i) == i <= Len(l) /\ i <= Len(k) /\ \A j \in 1..i : l[j] = k[j]

\* Every entry of l, with all that comes before it, is from the log that the leader
\* of its term had: from led[t] for an entry of term t.
From(l, led) == \A i \in 1..Len(l) : Agrees(l, led[l[i].term], i)

\* No leader's log was ever shortened.
Grows(old, new) == \A t \in Terms : Agrees(new[t], old[t], Len(old[t]))

Led(t) == \E e \in elected : e.term = t

LEMMA EntryTyped ==
    ASSUME NEW l \in Seq(Entry), NEW i \in 1..Len(l)
    PROVE  l[i] \in Entry /\ l[i].term \in Terms /\ l[i].term \in Nat
<1>1. l[i] \in Entry
    BY ElementOfSeq
<1>2. QED
    BY <1>1 DEF Entry, Terms

LEMMA SameTermAgree ==
    ASSUME NEW l \in Seq(Entry), NEW k \in Seq(Entry), NEW led,
           From(l, led), From(k, led),
           NEW i \in 1..Len(l), i <= Len(k), l[i].term = k[i].term
    PROVE  Agrees(l, k, i)
BY DEF From, Agrees

LEMMA FromGrows ==
    ASSUME NEW l \in Seq(Entry), NEW old \in [Terms -> Seq(Entry)],
           NEW new \in [Terms -> Seq(Entry)], From(l, old), Grows(old, new)
    PROVE  From(l, new)
<1> SUFFICES ASSUME NEW i \in 1..Len(l)
             PROVE  Agrees(l, new[l[i].term], i)
    BY DEF From
<1>1. l[i].term \in Terms
    BY EntryTyped
<1>2. Agrees(l, old[l[i].term], i) /\ Agrees(new[l[i].term], old[l[i].term], Len(old[l[i].term]))
    BY <1>1 DEF From, Grows
<1>3. old[l[i].term] \in Seq(Entry) /\ new[l[i].term] \in Seq(Entry)
    BY <1>1
<1>4. QED
    BY <1>2, <1>3 DEF Agrees

\* What agrees throughout with a log from leaders is itself from leaders.
LEMMA FromPrefix ==
    ASSUME NEW l \in Seq(Entry), NEW k \in Seq(Entry), NEW led,
           From(l, led), Agrees(k, l, Len(k))
    PROVE  From(k, led)
BY DEF From, Agrees

\* A leader's log, extended, still holds what it held before.
LEMMA AgreesGrows ==
    ASSUME NEW l \in Seq(Entry), NEW old \in [Terms -> Seq(Entry)],
           NEW new \in [Terms -> Seq(Entry)], Grows(old, new),
           NEW t \in Terms, NEW i \in Nat, Agrees(l, old[t], i)
    PROVE  Agrees(l, new[t], i)
<1>1. old[t] \in Seq(Entry) /\ new[t] \in Seq(Entry) /\ Agrees(new[t], old[t], Len(old[t]))
    BY DEF Grows
<1>2. QED
    BY <1>1 DEF Agrees
-----------------------------------------------------------------------------
(* The invariant. *)

\* A leader's log carries its indexes, terms it has reached, in order.
Ordered(l, t) ==
    \A i \in 1..Len(l) : /\ l[i].index = i
                         /\ 1 <= l[i].term /\ l[i].term <= t
                         /\ \A j \in i..Len(l) : l[i].term <= l[j].term

LedgerSound ==
    \A t \in Terms : /\ Ordered(ledger[t], t)
                     /\ From(ledger[t], ledger)
                     /\ ledger[t] # << >> => Led(t)

LogsFrom == \A n \in Server : From(log[n], ledger)

LeaderLog == \A n \in Server : state[n] = "Leader" => log[n] = ledger[currentTerm[n]]

\* A call is a part of what the leader of its term has held.
CallsFrom ==
    \A q \in appendReqs :
        /\ [term |-> q.term, leader |-> q.from] \in elected
        /\ q.from # q.to
        /\ q.prevIndex + Len(q.entries) <= Len(ledger[q.term])
        /\ q.prevTerm = TermAt(ledger[q.term], q.prevIndex)
        /\ \A k \in 1..Len(q.entries) : q.entries[k] = ledger[q.term][q.prevIndex + k]

\* A success is reported of what was acknowledged.
RepliesTrue ==
    \A r \in appendReps :
        /\ [term |-> r.term, leader |-> r.to] \in elected
        /\ r.from # r.to
        /\ r.success => r.match <= acked[r.from][r.term]

\* As long as n is in a term, it holds what it has acknowledged in it.
Held(n, t) ==
    /\ acked[n][t] <= Len(ledger[t])
    /\ acked[n][t] > 0 => t <= currentTerm[n]
    /\ t = currentTerm[n] => Agrees(log[n], ledger[t], acked[n][t])

AckedHeld == \A n \in Server, t \in Terms : Held(n, t)

\* A leader knows of its peers what they have acknowledged, or less, and has
\* acknowledged its own entries.
LeaderKnows ==
    \A n \in Server : state[n] = "Leader" =>
        /\ \A p \in Server \ {n} : /\ matchIndex[n][p] <= acked[p][currentTerm[n]]
                                   /\ nextIndex[n][p] <= Len(log[n]) + 1
        /\ \A i \in 1..Len(log[n]) :
              log[n][i].term = currentTerm[n] => i <= acked[n][currentTerm[n]]

LogInv == /\ LedgerSound /\ LogsFrom /\ LeaderLog /\ CallsFrom
          /\ RepliesTrue /\ AckedHeld /\ LeaderKnows
-----------------------------------------------------------------------------
(* What a step does to logs and leaders. *)

\* Nothing but terms and calls that go away; nobody comes to lead.
Quiet ==
    /\ UNCHANGED <<log, ledger, acked, peerVars, applyVars>>
    /\ appendReqs' \subseteq appendReqs
    /\ appendReps' \subseteq appendReps
    /\ \A n \in Server : state'[n] = "Leader" =>
          state[n] = "Leader" /\ currentTerm'[n] = currentTerm[n]

\* n wins its term.
Winning(n) ==
    /\ state[n] = "Candidate" /\ ~Led(currentTerm[n])
    /\ state' = [state EXCEPT ![n] = "Leader"]
    /\ Won(n, currentTerm[n])
    /\ elected' = elected \cup {Victory(n)}
    /\ ledger' = [ledger EXCEPT ![currentTerm[n]] = log[n]]
    /\ nextIndex' = [nextIndex EXCEPT ![n] = [p \in Server |-> Len(log[n]) + 1]]
    /\ matchIndex' = [matchIndex EXCEPT ![n] = [p \in Server |-> 0]]
    /\ UNCHANGED <<currentTerm, ballots, voteReqs, logVars, applyVars, rpcVars, acked>>

\* The reply r, in the term of its call, has been taken into account.
Acknowledged(r) ==
    /\ r.term = currentTerm[r.to]
    /\ appendReps' = appendReps \ {r}
    /\ AckSuccess(r) \/ AckFailure(r)
    /\ UNCHANGED <<logVars, appendReqs, losses, history>>

\* A server that does not newly lead after a step, led before it in the same term.
LEMMA MovesLeads ==
    ASSUME ElectionTypeOK, Moves, NEW n \in Server, state'[n] = "Leader"
    PROVE  \/ state[n] = "Leader" /\ currentTerm'[n] = currentTerm[n]
           \/ state[n] # "Leader" /\ Wins(n)
<1>1. Leads'[n] = TRUE
    BY DEF Leads
<1>2. CASE Rests
    BY <1>1, <1>2 DEF Rests, Leads
<1>3. ASSUME NEW m \in Server, Falls(m)
      PROVE  state[n] = "Leader" /\ currentTerm'[n] = currentTerm[n]
    BY <1>1, <1>3 DEF Falls, Leads
<1>4. ASSUME NEW m \in Server, NEW t \in Terms, Rises(m, t)
      PROVE  state[n] = "Leader" /\ currentTerm'[n] = currentTerm[n]
    BY <1>1, <1>4 DEF Rises, Leads, ElectionTypeOK
<1>5. ASSUME NEW m \in Server, Wins(m)
      PROVE  \/ state[n] = "Leader" /\ currentTerm'[n] = currentTerm[n]
             \/ state[n] # "Leader" /\ Wins(n)
    BY <1>1, <1>5 DEF Wins, Leads
<1>6. QED
    BY <1>2, <1>3, <1>4, <1>5 DEF Moves

\* A vote that makes a leader makes the first leader of its term, by a majority.
LEMMA VoteWins ==
    ASSUME Undisturbed, Base, OwnVotes, ElectionSafety', LeaderInv', NEW r \in voteReps,
           ReceiveVote(r), state[r.to] # "Leader", state'[r.to] = "Leader"
    PROVE  Winning(r.to)
<1> DEFINE n == r.to
           won == Cardinality(votes[n][r.term] \cup {r.from}) >= VotesNeeded
<1>1. /\ ElectionTypeOK /\ n \in Server /\ currentTerm[n] \in Terms
      /\ r.from \in Server /\ r.term \in Terms /\ r.replyTerm \in Terms
      /\ StaleReplies = FALSE
    BY DEF Base, LeaderInv, VoteInv, ElectionTypeOK, VoteReply, Undisturbed
<1>2. HandleVoteReply(r)
    BY DEF ReceiveVote
<1>3. ~ VoteReplyIgnored(r) /\ ~ VoteReplyNewerTerm(r)
    BY <1>1 DEF VoteReplyIgnored, VoteReplyNewerTerm, StepDown, ElectionTypeOK
<1>4. VoteReplyCounted(r) /\ UNCHANGED <<timer, voteReqs, ballots, elections, restarts>>
    BY <1>2, <1>3 DEF HandleVoteReply
<1>5. /\ state[n] = "Candidate"
      /\ state' = [state EXCEPT ![n] = IF won THEN "Leader" ELSE @]
      /\ elected' = IF won THEN elected \cup {Victory(n)} ELSE elected
      /\ UNCHANGED <<currentTerm, votedFor, saved, diskFaults>>
    BY <1>4 DEF VoteReplyCounted, Victory
<1>6. won
    BY <1>1, <1>5 DEF ElectionTypeOK
<1> HIDE DEF won
<1>7. ASSUME Led(currentTerm[n]) PROVE FALSE
    <2>1. PICK e \in elected : e.term = currentTerm[n]
        BY <1>7 DEF Led
    <2>2. e.leader = n
        <3>1. e \in elected' /\ Victory(n) \in elected'
            BY <1>5, <1>6, <2>1
        <3>2. Victory(n).term = currentTerm[n] /\ Victory(n).leader = n
            BY DEF Victory
        <3>3. QED
            BY <2>1, <3>1, <3>2 DEF ElectionSafety
    <2>3. QED
        BY <1>5, <2>1, <2>2 DEF OwnVotes
<1>8. Won(n, currentTerm[n])
    <2>1. Victory(n) \in elected'
        BY <1>5, <1>6
    <2>2. PICK t \in 1..Victory(n).term : Won(n, t)' /\ (t = Victory(n).term \/ StaleReplies)
        BY <2>1 DEF LeaderInv, LeaderWon, Victory
    <2>3. Won(n, currentTerm[n])'
        BY <1>1, <1>5, <2>2 DEF Victory
    <2>4. ballots' = ballots /\ currentTerm' = currentTerm
        BY <1>4, <1>5
    <2>5. QED
        BY <2>3, <2>4 DEF Won
<1>9. /\ nextIndex' = [nextIndex EXCEPT ![n] = [p \in Server |-> Len(log[n]) + 1]]
      /\ matchIndex' = [matchIndex EXCEPT ![n] = [p \in Server |-> 0]]
      /\ ledger' = [ledger EXCEPT ![currentTerm[n]] = log[n]]
      /\ UNCHANGED <<logVars, applyVars, rpcVars, acked>>
    BY DEF ReceiveVote
<1>10. QED
    BY <1>1, <1>4, <1>5, <1>6, <1>7, <1>8, <1>9 DEF Winning, ElectionTypeOK

\* The kinds of steps there are, for logs and leaders.
LEMMA StepKinds ==
    ASSUME Undisturbed, Base, Base', OwnVotes, [RaftNext]_vars
    PROVE  \/ Quiet
           \/ \E n \in Server : Winning(n)
           \/ \E n \in Server, cmd \in Command : StartCommand(n, cmd)
           \/ \E n \in Server, p \in Server : SendAppend(n, p)
           \/ \E q \in appendReqs : AppendEntries(q)
           \/ \E r \in appendReps : Acknowledged(r)
<1>1. /\ RaftTypeOK /\ ElectionTypeOK /\ Moves
      /\ MaxRestarts = 0 /\ StaleReplies = FALSE
    BY BaseStep DEF Base, RaftInv, LeaderInv, VoteInv, Undisturbed
<1> DEFINE NoneRises == \A n \in Server : state'[n] = "Leader" => state[n] = "Leader"
<1>2. ASSUME NoneRises
      PROVE  \A n \in Server : state'[n] = "Leader" =>
                 state[n] = "Leader" /\ currentTerm'[n] = currentTerm[n]
    BY <1>1, <1>2, MovesLeads
<1>3. ASSUME NoneRises, UNCHANGED raftVars
      PROVE  Quiet
    BY <1>2, <1>3 DEF Quiet, raftVars, logVars, rpcVars, history
<1>4. ASSUME NEW n \in Server, TimeOut(n) PROVE Quiet
    BY <1>3, <1>4 DEF TimeOut, TimerExpires
<1>5. ASSUME NEW n \in Server, Campaign(n) PROVE Quiet
    <2>1. state' = [state EXCEPT ![n] = "Candidate"] /\ UNCHANGED raftVars
        BY <1>5 DEF Campaign, StartElection
    <2>2. QED
        BY <1>1, <1>3, <2>1 DEF ElectionTypeOK
<1>6. ASSUME NEW q \in voteReqs, RequestVote(q) PROVE Quiet
    <2>1. \E f \in BOOLEAN :
              state' = [state EXCEPT ![q.to] = IF f THEN "Follower" ELSE @]
        BY <1>6 DEF RequestVote, HandleRequestVote
    <2>2. NoneRises
        BY <1>1, <2>1 DEF ElectionTypeOK
    <2>3. QED
        BY <1>3, <1>6, <2>2 DEF RequestVote
<1>7. ASSUME NEW r \in voteReps, ReceiveVote(r) PROVE Quiet \/ Winning(r.to)
    <2>1. CASE state[r.to] # "Leader" /\ state'[r.to] = "Leader"
        <3>1. ElectionSafety' /\ LeaderInv'
            BY DEF Base
        <3>2. QED
            BY <1>7, <2>1, <3>1, VoteWins
    <2>2. CASE ~ (state[r.to] # "Leader" /\ state'[r.to] = "Leader")
        <3>1. UNCHANGED raftVars
            BY <1>7, <2>2
            DEF ReceiveVote, raftVars, logVars, applyVars, peerVars, rpcVars, history
        <3>2. \A m \in Server : m # r.to => state'[m] \in {state[m], "Follower"}
            BY <1>1, <1>7
            DEF ReceiveVote, HandleVoteReply, VoteReplyIgnored, VoteReplyNewerTerm, StepDown,
                VoteReplyCounted, ElectionTypeOK
        <3>3. QED
            BY <1>3, <2>2, <3>1, <3>2
    <2>3. QED
        BY <2>1, <2>2
<1>8. ASSUME NEW r \in appendReps, ReceiveAck(r) PROVE Quiet \/ Acknowledged(r)
    <2>1. /\ appendReps' = appendReps \ {r}
          /\ UNCHANGED <<logVars, appendReqs, losses, history>>
          /\ r.term = currentTerm[r.to]
        BY <1>1, <1>8 DEF ReceiveAck, Reaches
    <2>2. CASE AckIgnored(r)
        BY <1>2, <2>1, <2>2 DEF AckIgnored, electionVars, Quiet, logVars, history
    <2>3. CASE AckNewerTerm(r)
        <3>1. NoneRises
            BY <1>1, <2>3 DEF AckNewerTerm, StepDown, ElectionTypeOK
        <3>2. QED
            BY <1>2, <2>1, <2>3, <3>1 DEF AckNewerTerm, Quiet, logVars, history
    <2>4. QED
        BY <1>8, <2>1, <2>2, <2>3 DEF ReceiveAck, Acknowledged
<1>9. ASSUME NEW q \in appendReqs, LoseRequest(q) PROVE Quiet
    BY <1>2, <1>9 DEF LoseRequest, electionVars, Quiet, logVars, history
<1>10. ASSUME NEW r \in appendReps, LoseReply(r) PROVE Quiet
    BY <1>2, <1>10 DEF LoseReply, electionVars, Quiet, logVars, history
<1>11. ASSUME NEW n \in Server, Restart(n) PROVE FALSE
    BY <1>1, <1>11 DEF Restart, RestartElection, ElectionTypeOK
<1>12. CASE UNCHANGED vars
    BY <1>3, <1>12 DEF vars, electionVars
<1>13. QED
    BY <1>4, <1>5, <1>6, <1>7, <1>8, <1>9, <1>10, <1>11, <1>12, <1>1
    DEF RaftNext, ElectionTypeOK, VoteReply

-----------------------------------------------------------------------------
(* Every kind of step keeps the invariant. *)

\* The types of what the invariant speaks of, before and after a step.
Typed ==
    /\ state \in [Server -> State]
    /\ currentTerm \in [Server -> Terms]
    /\ elected \subseteq [term : Terms, leader : Server]
    /\ log \in [Server -> Seq(Entry)]
    /\ ledger \in [Terms -> Seq(Entry)]
    /\ acked \in [Server -> [Terms -> Nat]]
    /\ matchIndex \in [Server -> [Server -> Nat]]
    /\ nextIndex \in [Server -> [Server -> Nat \ {0}]]
    /\ appendReqs \subseteq AppendRequest
    /\ appendReps \subseteq AppendReply

LEMMA BaseTyped == Base => Typed
BY DEF Base, RaftInv, RaftTypeOK, ElectionTypeOK, Typed

LEMMA TermsNat == Terms \subseteq Nat
BY DEF Terms

\* A server that has neither lost entries nor acknowledged more.
LEMMA HeldStays ==
    ASSUME Typed, Typed', AckedHeld, NEW n \in Server, NEW t \in Terms,
           acked'[n][t] = acked[n][t], log'[n] = log[n],
           currentTerm'[n] >= currentTerm[n], Grows(ledger, ledger')
    PROVE  Held(n, t)'
<1>1. /\ currentTerm[n] \in Nat /\ currentTerm'[n] \in Nat /\ t \in Nat
      /\ acked[n][t] \in Nat
      /\ log[n] \in Seq(Entry) /\ ledger[t] \in Seq(Entry) /\ ledger'[t] \in Seq(Entry)
      /\ ledger \in [Terms -> Seq(Entry)] /\ ledger' \in [Terms -> Seq(Entry)]
    <2>1. currentTerm[n] \in Terms /\ currentTerm'[n] \in Terms
        BY DEF Typed
    <2>2. acked[n][t] \in Nat
        BY DEF Typed
    <2>3. /\ log[n] \in Seq(Entry) /\ ledger[t] \in Seq(Entry) /\ ledger'[t] \in Seq(Entry)
          /\ ledger \in [Terms -> Seq(Entry)] /\ ledger' \in [Terms -> Seq(Entry)]
        BY DEF Typed
    <2>4. QED
        BY <2>1, <2>2, <2>3, TermsNat
<1>2. Held(n, t)
    BY DEF AckedHeld
<1>3. acked[n][t] <= Len(ledger[t]) /\ Agrees(ledger'[t], ledger[t], Len(ledger[t]))
    BY <1>2 DEF Held, Grows
<1>4. acked'[n][t] <= Len(ledger'[t])
    BY <1>1, <1>3 DEF Agrees
<1>5. acked'[n][t] > 0 => t <= currentTerm'[n]
    BY <1>1, <1>2 DEF Held
<1>6. ASSUME t = currentTerm'[n]
      PROVE  Agrees(log'[n], ledger'[t], acked'[n][t])
    <2>1. CASE t = currentTerm[n]
        <3>1. Agrees(log[n], ledger[t], acked[n][t])
            BY <1>2, <2>1 DEF Held
        <3>2. QED
            BY <1>1, <3>1, AgreesGrows
    <2>2. CASE t # currentTerm[n]
        <3>1. acked[n][t] = 0
            BY <1>1, <1>2, <1>6, <2>2 DEF Held
        <3>2. QED
            BY <1>1, <3>1 DEF Agrees
    <2>3. QED
        BY <2>1, <2>2
<1>7. QED
    BY <1>4, <1>5, <1>6 DEF Held

LEMMA SameGrows ==
    ASSUME NEW led \in [Terms -> Seq(Entry)]
    PROVE  Grows(led, led)
BY DEF Grows, Agrees

LEMMA QuietLogs ==
    ASSUME Typed, Typed', LogInv, Quiet, elected \subseteq elected',
           \A n \in Server : currentTerm'[n] >= currentTerm[n]
    PROVE  LogInv'
<1>1. /\ log' = log /\ ledger' = ledger /\ acked' = acked
      /\ nextIndex' = nextIndex /\ matchIndex' = matchIndex
      /\ appendReqs' \subseteq appendReqs /\ appendReps' \subseteq appendReps
      /\ \A n \in Server : state'[n] = "Leader" =>
          state[n] = "Leader" /\ currentTerm'[n] = currentTerm[n]
    BY DEF Quiet, peerVars
<1>2. LedgerSound'
    BY <1>1 DEF LogInv, LedgerSound, Led
<1>3. LogsFrom'
    BY <1>1 DEF LogInv, LogsFrom
<1>4. LeaderLog'
    BY <1>1 DEF LogInv, LeaderLog
<1>5. CallsFrom'
    BY <1>1 DEF LogInv, CallsFrom
<1>6. RepliesTrue'
    BY <1>1 DEF LogInv, RepliesTrue
<1>7. AckedHeld'
    <2> SUFFICES ASSUME NEW n \in Server, NEW t \in Terms
                 PROVE  Held(n, t)'
        BY DEF AckedHeld
    <2>1. Grows(ledger, ledger')
        BY <1>1, SameGrows DEF Typed
    <2>2. QED
        BY <1>1, <2>1, HeldStays DEF LogInv
<1>8. LeaderKnows'
    BY <1>1 DEF LogInv, LeaderKnows
<1>9. QED
    BY <1>2, <1>3, <1>4, <1>5, <1>6, <1>7, <1>8 DEF LogInv

\* Two leaders of the same term are one.
LEMMA OneLeads ==
    ASSUME LeadersElected, ElectionSafety, NEW m \in Server, NEW n \in Server,
           state[m] = "Leader", state[n] = "Leader", currentTerm[m] = currentTerm[n]
    PROVE  m = n
<1>1. Victory(m) \in elected /\ Victory(n) \in elected
    BY DEF LeadersElected
<1>2. Victory(m).term = Victory(n).term /\ Victory(m).leader = m /\ Victory(n).leader = n
    BY DEF Victory
<1>3. QED
    BY <1>1, <1>2 DEF ElectionSafety

\* A log from leaders, of terms up to t, is in order.
LEMMA FromOrdered ==
    ASSUME LedgerSound, NEW l \in Seq(Entry), NEW t \in Terms, From(l, ledger),
           UpToTerm(l, t)
    PROVE  Ordered(l, t)
<1> SUFFICES ASSUME NEW i \in 1..Len(l)
             PROVE  /\ l[i].index = i
                    /\ 1 <= l[i].term /\ l[i].term <= t
                    /\ \A j \in i..Len(l) : l[i].term <= l[j].term
    BY DEF Ordered
<1>1. l[i].term \in Terms /\ Agrees(l, ledger[l[i].term], i)
    BY EntryTyped DEF From
<1>2. /\ i \in 1..Len(ledger[l[i].term])
      /\ l[i] = ledger[l[i].term][i]
      /\ Ordered(ledger[l[i].term], l[i].term)
    BY <1>1 DEF Agrees, LedgerSound
<1>3. l[i].index = i /\ 1 <= l[i].term
    BY <1>2 DEF Ordered
<1>4. l[i].term <= t
    BY DEF UpToTerm
<1>5. ASSUME NEW j \in i..Len(l)
      PROVE  l[i].term <= l[j].term
    <2>1. j \in 1..Len(l)
        OBVIOUS
    <2>2. l[j].term \in Terms /\ Agrees(l, ledger[l[j].term], j)
        BY <2>1, EntryTyped DEF From
    <2>3. /\ i \in 1..Len(ledger[l[j].term]) /\ j \in i..Len(ledger[l[j].term])
          /\ l[i] = ledger[l[j].term][i] /\ l[j] = ledger[l[j].term][j]
          /\ Ordered(ledger[l[j].term], l[j].term)
        BY <2>1, <2>2 DEF Agrees, LedgerSound
    <2>4. QED
        BY <2>3 DEF Ordered
<1>6. QED
    BY <1>3, <1>4, <1>5

LEMMA WinningLogs ==
    ASSUME Base, Typed', LogInv, NEW n \in Server, Winning(n)
    PROVE  LogInv'
<1> DEFINE T == currentTerm[n]
<1>1. /\ Typed /\ LeadersElected /\ EntriesReached
      /\ LedgerSound /\ LogsFrom /\ LeaderLog /\ CallsFrom
      /\ RepliesTrue /\ AckedHeld /\ LeaderKnows
    BY BaseTyped DEF Base, LogInv
<1>2. /\ state' = [state EXCEPT ![n] = "Leader"]
      /\ elected' = elected \cup {Victory(n)}
      /\ ledger' = [ledger EXCEPT ![T] = log[n]]
      /\ nextIndex' = [nextIndex EXCEPT ![n] = [p \in Server |-> Len(log[n]) + 1]]
      /\ matchIndex' = [matchIndex EXCEPT ![n] = [p \in Server |-> 0]]
      /\ currentTerm' = currentTerm /\ log' = log /\ acked' = acked
      /\ appendReqs' = appendReqs /\ appendReps' = appendReps
      /\ ~Led(T)
    BY DEF Winning, logVars, rpcVars
<1>3. /\ T \in Terms /\ log[n] \in Seq(Entry) /\ log \in [Server -> Seq(Entry)]
      /\ ledger \in [Terms -> Seq(Entry)] /\ ledger' \in [Terms -> Seq(Entry)]
      /\ acked \in [Server -> [Terms -> Nat]]
      /\ \A m \in Server : log[m] \in Seq(Entry) /\ currentTerm[m] \in Nat
    BY <1>1, TermsNat DEF Typed
<1>4. ledger[T] = << >>
    BY <1>1, <1>2, <1>3 DEF LedgerSound
<1>5. Grows(ledger, ledger')
    <2> SUFFICES ASSUME NEW t \in Terms
                 PROVE  Agrees(ledger'[t], ledger[t], Len(ledger[t]))
        BY DEF Grows
    <2>1. CASE t = T
        BY <1>3, <1>4, <2>1 DEF Agrees
    <2>2. CASE t # T
        BY <1>2, <1>3, <2>2 DEF Agrees
    <2>3. QED
        BY <2>1, <2>2
<1>6. \A t \in Terms : ledger'[t] = IF t = T THEN log[n] ELSE ledger[t]
    BY <1>2, <1>3
<1>7. LedgerSound'
    <2> SUFFICES ASSUME NEW t \in Terms
                 PROVE  /\ Ordered(ledger'[t], t)
                        /\ From(ledger'[t], ledger')
                        /\ ledger'[t] # << >> => Led(t)'
        BY DEF LedgerSound
    <2>1. CASE t = T
        <3>1. UpToTerm(log[n], T) /\ From(log[n], ledger)
            BY <1>1 DEF EntriesReached, LogsFrom
        <3>2. Ordered(log[n], T)
            BY <1>1, <1>3, <3>1, FromOrdered
        <3>3. From(log[n], ledger')
            BY <1>3, <1>5, <3>1, FromGrows
        <3>4. Led(t)'
            <4>1. Victory(n) \in elected'
                BY <1>2
            <4>2. Victory(n).term = t
                BY <2>1 DEF Victory
            <4>3. QED
                BY <4>1, <4>2 DEF Led
        <3>5. ledger'[t] = log[n]
            BY <1>6, <2>1
        <3> HIDE DEF T
        <3>6. QED
            BY <2>1, <3>2, <3>3, <3>4, <3>5
    <2>2. CASE t # T
        <3>1. /\ Ordered(ledger[t], t) /\ From(ledger[t], ledger)
              /\ ledger[t] # << >> => Led(t)
            BY <1>1 DEF LedgerSound
        <3>2. From(ledger[t], ledger')
            BY <1>3, <1>5, <3>1, FromGrows
        <3>3. QED
            BY <1>2, <1>6, <2>2, <3>1, <3>2 DEF Led
    <2>3. QED
        BY <2>1, <2>2
<1>8. LogsFrom'
    <2> SUFFICES ASSUME NEW m \in Server
                 PROVE  From(log[m], ledger')
        BY <1>2 DEF LogsFrom
    <2>1. QED
        BY <1>1, <1>3, <1>5, FromGrows DEF LogsFrom
<1>9. ASSUME NEW m \in Server, m # n, state'[m] = "Leader"
      PROVE  state[m] = "Leader" /\ currentTerm[m] # T
    <2>1. state[m] = "Leader"
        BY <1>1, <1>2, <1>9 DEF Typed
    <2>2. Victory(m) \in elected
        BY <1>1, <2>1 DEF LeadersElected
    <2>3. QED
        BY <1>2, <2>1, <2>2 DEF Led, Victory
<1>10. LeaderLog'
    <2> SUFFICES ASSUME NEW m \in Server, state'[m] = "Leader"
                 PROVE  log[m] = ledger'[currentTerm[m]]
        BY <1>2 DEF LeaderLog
    <2>1. currentTerm[m] \in Terms
        BY <1>1 DEF Typed
    <2>2. CASE m = n
        BY <1>6, <2>1, <2>2
    <2>3. CASE m # n
        BY <1>1, <1>6, <1>9, <2>1, <2>3 DEF LeaderLog
    <2>4. QED
        BY <2>2, <2>3
<1>11. CallsFrom'
    <2> SUFFICES ASSUME NEW q \in appendReqs
                 PROVE  /\ [term |-> q.term, leader |-> q.from] \in elected'
                        /\ q.from # q.to
                        /\ q.prevIndex + Len(q.entries) <= Len(ledger'[q.term])
                        /\ q.prevTerm = TermAt(ledger'[q.term], q.prevIndex)
                        /\ \A k \in 1..Len(q.entries) :
                              q.entries[k] = ledger'[q.term][q.prevIndex + k]
        BY <1>2 DEF CallsFrom
    <2>1. [term |-> q.term, leader |-> q.from] \in elected /\ q.term \in Terms
        BY <1>1 DEF CallsFrom, Typed, AppendRequest
    <2>2. q.term # T
        BY <1>2, <2>1 DEF Led
    <2>3. ledger'[q.term] = ledger[q.term]
        BY <1>6, <2>1, <2>2
    <2>4. QED
        BY <1>1, <1>2, <2>1, <2>3 DEF CallsFrom
<1>12. RepliesTrue'
    BY <1>1, <1>2 DEF RepliesTrue
<1>13. AckedHeld'
    <2> SUFFICES ASSUME NEW m \in Server, NEW t \in Terms
                 PROVE  Held(m, t)'
        BY DEF AckedHeld
    <2>1. currentTerm'[m] >= currentTerm[m]
        BY <1>2, <1>3
    <2>2. QED
        BY <1>1, <1>2, <1>5, <2>1, HeldStays
<1>14. LeaderKnows'
    <2> SUFFICES ASSUME NEW m \in Server, state'[m] = "Leader"
                 PROVE  /\ \A p \in Server \ {m} :
                              /\ matchIndex'[m][p] <= acked[p][currentTerm[m]]
                              /\ nextIndex'[m][p] <= Len(log[m]) + 1
                        /\ \A i \in 1..Len(log[m]) : log[m][i].term = currentTerm[m]
                               => i <= acked[m][currentTerm[m]]
        BY <1>2 DEF LeaderKnows
    <2>1. CASE m = n
        <3>1. \A p \in Server : /\ matchIndex'[n][p] = 0 /\ nextIndex'[n][p] = Len(log[n]) + 1
                                /\ acked[p][T] \in Nat
            BY <1>1, <1>2, <1>3 DEF Typed
        <3>2. ASSUME NEW i \in 1..Len(log[n]), log[n][i].term = T
              PROVE  FALSE
            <4>1. Agrees(log[n], ledger[T], i)
                BY <1>1, <3>2 DEF LogsFrom, From
            <4>2. QED
                BY <1>3, <1>4, <4>1 DEF Agrees
        <3>3. QED
            BY <1>3, <2>1, <3>1, <3>2
    <2>2. CASE m # n
        BY <1>1, <1>2, <1>9, <2>2 DEF LeaderKnows, Typed
    <2>3. QED
        BY <2>1, <2>2
<1>15. QED
    BY <1>7, <1>8, <1>10, <1>11, <1>12, <1>13, <1>14 DEF LogInv

\* What the leader of a call has put into it stays a part of its log.
LEMMA CallsGrow ==
    ASSUME Typed, Typed', CallsFrom, Grows(ledger, ledger'), elected \subseteq elected',
           NEW q \in appendReqs
    PROVE  /\ [term |-> q.term, leader |-> q.from] \in elected'
           /\ q.from # q.to
           /\ q.prevIndex + Len(q.entries) <= Len(ledger'[q.term])
           /\ q.prevTerm = TermAt(ledger'[q.term], q.prevIndex)
           /\ \A k \in 1..Len(q.entries) : q.entries[k] = ledger'[q.term][q.prevIndex + k]
<1> DEFINE old == ledger[q.term]
           new == ledger'[q.term]
<1>1. /\ q.term \in Terms /\ q.prevIndex \in Nat /\ q.entries \in Seq(Entry)
    BY DEF Typed, AppendRequest
<1>2. old \in Seq(Entry) /\ new \in Seq(Entry)
    BY <1>1 DEF Typed
<1>3. Agrees(new, old, Len(old))
    BY <1>1 DEF Grows
<1>4. /\ [term |-> q.term, leader |-> q.from] \in elected
      /\ q.from # q.to
      /\ q.prevIndex + Len(q.entries) <= Len(old)
      /\ q.prevTerm = TermAt(old, q.prevIndex)
      /\ \A k \in 1..Len(q.entries) : q.entries[k] = old[q.prevIndex + k]
    BY DEF CallsFrom
<1> HIDE DEF old, new
<1>5. Len(old) <= Len(new) /\ \A j \in 1..Len(old) : new[j] = old[j]
    BY <1>3 DEF Agrees
<1>6. Len(old) \in Nat /\ Len(new) \in Nat /\ Len(q.entries) \in Nat
    BY <1>1, <1>2
<1>7. q.prevIndex + Len(q.entries) <= Len(new)
    BY <1>1, <1>4, <1>5, <1>6
<1>8. TermAt(new, q.prevIndex) = TermAt(old, q.prevIndex)
    <2>1. q.prevIndex \in 1..Len(new) <=> q.prevIndex \in 1..Len(old)
        BY <1>1, <1>4, <1>5, <1>6
    <2>2. QED
        BY <1>5, <2>1 DEF TermAt
<1>9. ASSUME NEW k \in 1..Len(q.entries)
      PROVE  q.entries[k] = new[q.prevIndex + k]
    <2>1. q.prevIndex + k \in 1..Len(old)
        BY <1>1, <1>4, <1>6
    <2>2. QED
        BY <1>4, <1>5, <2>1
<1>10. QED
    BY <1>4, <1>7, <1>8, <1>9 DEF new

LEMMA StartCommandLogs ==
    ASSUME Undisturbed, Base, Typed', LogInv, NEW n \in Server, NEW cmd \in Command,
           StartCommand(n, cmd)
    PROVE  LogInv'
<1> DEFINE T == currentTerm[n]
           last == Len(log[n]) + 1
           entry == [index |-> last, term |-> T, cmd |-> cmd]
           longer == Append(log[n], entry)
<1>1. /\ Typed /\ LeadersElected /\ ElectionSafety /\ EntriesReached /\ LeaderInv
      /\ LedgerSound /\ LogsFrom /\ LeaderLog /\ CallsFrom
      /\ RepliesTrue /\ AckedHeld /\ LeaderKnows
    BY BaseTyped DEF Base, LogInv
<1>2. /\ state[n] = "Leader"
      /\ log' = [log EXCEPT ![n] = Append(@, entry)]
      /\ ledger' = [ledger EXCEPT ![T] = Append(@, entry)]
      /\ acked' = [acked EXCEPT ![n][T] = last]
      /\ state' = state /\ currentTerm' = currentTerm /\ elected' = elected
      /\ matchIndex' = matchIndex /\ nextIndex' = nextIndex
      /\ appendReqs' = appendReqs /\ appendReps' = appendReps
    BY DEF StartCommand, electionVars, peerVars, rpcVars
<1>3. /\ T \in Terms /\ log[n] \in Seq(Entry) /\ last \in Nat \ {0}
      /\ ledger \in [Terms -> Seq(Entry)] /\ ledger' \in [Terms -> Seq(Entry)]
      /\ log \in [Server -> Seq(Entry)] /\ acked \in [Server -> [Terms -> Nat]]
      /\ ledger[T] = log[n]
    BY <1>1, <1>2 DEF Typed, LeaderLog
<1>4. T \in Nat /\ 1 <= T
    <2>1. Victory(n) \in elected
        BY <1>1, <1>2 DEF LeadersElected
    <2>2. \E t \in 1..Victory(n).term : TRUE
        BY <1>1, <2>1 DEF LeaderInv, LeaderWon
    <2>3. Victory(n).term = T /\ T \in Nat
        BY <1>3, TermsNat DEF Victory
    <2>4. QED
        BY <2>2, <2>3
<1>5. /\ log'[n] = longer /\ ledger'[T] = longer
      /\ \A m \in Server : m # n => log'[m] = log[m]
      /\ \A t \in Terms : t # T => ledger'[t] = ledger[t]
      /\ acked'[n][T] = last
      /\ \A m \in Server, t \in Terms : m # n \/ t # T => acked'[m][t] = acked[m][t]
    BY <1>2, <1>3
<1>6. /\ longer \in Seq(Entry) /\ Len(longer) = last
      /\ longer[last] = entry /\ longer[last].term = T /\ longer[last].index = last
      /\ \A i \in 1..Len(log[n]) : longer[i] = log[n][i]
    <2>1. longer \in Seq(Entry)
        BY <1>3, <1>5
    <2>2. QED
        BY <1>3, <2>1
<1> HIDE DEF entry, longer
<1>7. Grows(ledger, ledger')
    <2> SUFFICES ASSUME NEW t \in Terms
                 PROVE  Agrees(ledger'[t], ledger[t], Len(ledger[t]))
        BY DEF Grows
    <2>1. CASE t = T
        BY <1>3, <1>5, <1>6, <2>1 DEF Agrees
    <2>2. CASE t # T
        BY <1>3, <1>5, <2>2 DEF Agrees
    <2>3. QED
        BY <2>1, <2>2
<1>8. From(longer, ledger')
    <2> SUFFICES ASSUME NEW i \in 1..Len(longer)
                 PROVE  Agrees(longer, ledger'[longer[i].term], i)
        BY DEF From
    <2>1. CASE i = last
        BY <1>3, <1>5, <1>6, <2>1 DEF Agrees
    <2>2. CASE i # last
        <3>1. i \in 1..Len(log[n])
            BY <1>3, <1>6, <2>2
        <3>2. From(log[n], ledger')
            BY <1>1, <1>3, <1>7, FromGrows DEF LogsFrom
        <3>3. longer[i].term = log[n][i].term /\ Agrees(log[n], ledger'[log[n][i].term], i)
            BY <1>6, <3>1, <3>2 DEF From
        <3>4. QED
            BY <1>3, <1>6, <3>1, <3>3 DEF Agrees
    <2>3. QED
        BY <2>1, <2>2
<1>9. Ordered(longer, T)
    <2> SUFFICES ASSUME NEW i \in 1..Len(longer)
                 PROVE  /\ longer[i].index = i
                        /\ 1 <= longer[i].term /\ longer[i].term <= T
                        /\ \A j \in i..Len(longer) : longer[i].term <= longer[j].term
        BY DEF Ordered
    <2>1. CASE i = last
        BY <1>3, <1>4, <1>6, <2>1
    <2>2. CASE i # last
        <3>1. i \in 1..Len(log[n])
            BY <1>3, <1>6, <2>2
        <3>2. Ordered(log[n], T)
            BY <1>1, <1>3 DEF LedgerSound
        <3>3. /\ log[n][i].index = i /\ longer[i] = log[n][i]
              /\ 1 <= log[n][i].term /\ log[n][i].term <= T
              /\ \A j \in i..Len(log[n]) : log[n][i].term <= log[n][j].term
            BY <1>6, <3>1, <3>2 DEF Ordered
        <3>4. ASSUME NEW j \in i..Len(longer)
              PROVE  longer[i].term <= longer[j].term
            <4>1. CASE j = last
                BY <1>6, <3>3, <4>1
            <4>2. CASE j # last
                <5>1. j \in 1..Len(log[n]) /\ j \in i..Len(log[n])
                    BY <1>3, <1>6, <3>1, <4>2
                <5>2. QED
                    BY <1>6, <3>3, <5>1
            <4>3. QED
                BY <4>1, <4>2
        <3>5. QED
            BY <3>3, <3>4
    <2>3. QED
        BY <2>1, <2>2
<1>10. LedgerSound'
    <2> SUFFICES ASSUME NEW t \in Terms
                 PROVE  /\ Ordered(ledger'[t], t)
                        /\ From(ledger'[t], ledger')
                        /\ ledger'[t] # << >> => Led(t)'
        BY DEF LedgerSound
    <2>1. CASE t = T
        <3>1. Victory(n) \in elected /\ Victory(n).term = T
            BY <1>1, <1>2 DEF LeadersElected, Victory
        <3>2. Led(t)'
            BY <1>2, <2>1, <3>1 DEF Led
        <3> HIDE DEF T
        <3>3. QED
            BY <1>5, <1>8, <1>9, <2>1, <3>2
    <2>2. CASE t # T
        <3>1. /\ Ordered(ledger[t], t) /\ From(ledger[t], ledger)
              /\ ledger[t] # << >> => Led(t)
            BY <1>1 DEF LedgerSound
        <3>2. From(ledger[t], ledger')
            BY <1>3, <1>7, <3>1, FromGrows
        <3>3. QED
            BY <1>2, <1>5, <2>2, <3>1, <3>2 DEF Led
    <2>3. QED
        BY <2>1, <2>2
<1>11. LogsFrom'
    <2> SUFFICES ASSUME NEW m \in Server
                 PROVE  From(log'[m], ledger')
        BY DEF LogsFrom
    <2>1. CASE m = n
        BY <1>5, <1>8, <2>1
    <2>2. CASE m # n
        <3>1. log[m] \in Seq(Entry)
            BY <1>3
        <3>2. QED
            BY <1>1, <1>3, <1>5, <1>7, <2>2, <3>1, FromGrows DEF LogsFrom
    <2>3. QED
        BY <2>1, <2>2
<1>12. ASSUME NEW m \in Server, state[m] = "Leader", m # n
       PROVE  currentTerm[m] # T /\ currentTerm[m] \in Terms
    BY <1>1, <1>2, <1>12, OneLeads DEF Typed
<1>13. LeaderLog'
    <2> SUFFICES ASSUME NEW m \in Server, state[m] = "Leader"
                 PROVE  log'[m] = ledger'[currentTerm[m]]
        BY <1>2 DEF LeaderLog
    <2>1. CASE m = n
        BY <1>5, <2>1
    <2>2. CASE m # n
        BY <1>1, <1>5, <1>12, <2>2 DEF LeaderLog
    <2>3. QED
        BY <2>1, <2>2
<1>14. CallsFrom'
    <2> SUFFICES ASSUME NEW q \in appendReqs
                 PROVE  /\ [term |-> q.term, leader |-> q.from] \in elected'
                        /\ q.from # q.to
                        /\ q.prevIndex + Len(q.entries) <= Len(ledger'[q.term])
                        /\ q.prevTerm = TermAt(ledger'[q.term], q.prevIndex)
                        /\ \A k \in 1..Len(q.entries) :
                              q.entries[k] = ledger'[q.term][q.prevIndex + k]
        BY <1>2 DEF CallsFrom
    <2>1. QED
        BY <1>1, <1>2, <1>7, CallsGrow
<1>15. acked[n][T] <= last
    <2>1. acked[n][T] <= Len(ledger[T]) /\ acked[n][T] \in Nat
        BY <1>1, <1>3 DEF AckedHeld, Held
    <2>2. QED
        BY <1>3, <2>1
<1>16. RepliesTrue'
    <2> SUFFICES ASSUME NEW r \in appendReps
                 PROVE  /\ [term |-> r.term, leader |-> r.to] \in elected
                        /\ r.from # r.to
                        /\ r.success => r.match <= acked'[r.from][r.term]
        BY <1>2 DEF RepliesTrue
    <2>1. r.from \in Server /\ r.term \in Terms /\ r.match \in Nat
        BY <1>1 DEF Typed, AppendReply
    <2>2. acked[r.from][r.term] <= acked'[r.from][r.term] /\ acked[r.from][r.term] \in Nat
          /\ acked'[r.from][r.term] \in Nat
        <3>1. acked[r.from][r.term] \in Nat
            BY <1>3, <2>1
        <3>2. CASE r.from = n /\ r.term = T
            BY <1>3, <1>5, <1>15, <3>1, <3>2
        <3>3. CASE ~ (r.from = n /\ r.term = T)
            BY <1>5, <2>1, <3>1, <3>3
        <3>4. QED
            BY <3>2, <3>3
    <2>3. QED
        BY <1>1, <2>1, <2>2 DEF RepliesTrue
<1>17. AckedHeld'
    <2> SUFFICES ASSUME NEW m \in Server, NEW t \in Terms
                 PROVE  Held(m, t)'
        BY DEF AckedHeld
    <2>1. currentTerm'[m] = currentTerm[m] /\ currentTerm[m] \in Nat
        BY <1>1, <1>2, TermsNat DEF Typed
    <2>2. CASE m = n /\ t = T
        <3>1. Agrees(longer, longer, last)
            BY <1>3, <1>6 DEF Agrees
        <3>2. T <= currentTerm'[m] /\ last <= Len(longer)
            BY <1>3, <1>4, <1>6, <2>1, <2>2
        <3> HIDE DEF T, last
        <3>3. QED
            BY <1>5, <2>1, <2>2, <3>1, <3>2 DEF Held
    <2>3. CASE m # n
        BY <1>1, <1>5, <1>7, <2>1, <2>3, HeldStays
    <2>4. CASE m = n /\ t # T
        <3>1. acked[n][t] <= Len(ledger[t]) /\ (acked[n][t] > 0 => t <= currentTerm[n])
            BY <1>1 DEF AckedHeld, Held
        <3>2. acked'[n][t] = acked[n][t] /\ ledger'[t] = ledger[t] /\ t # currentTerm'[n]
            BY <1>2, <1>5, <2>4
        <3>3. QED
            BY <2>1, <2>4, <3>1, <3>2 DEF Held
    <2>5. QED
        BY <2>2, <2>3, <2>4
<1>18. LeaderKnows'
    <2> SUFFICES ASSUME NEW m \in Server, state[m] = "Leader"
                 PROVE  /\ \A p \in Server \ {m} :
                              /\ matchIndex[m][p] <= acked'[p][currentTerm[m]]
                              /\ nextIndex[m][p] <= Len(log'[m]) + 1
                        /\ \A i \in 1..Len(log'[m]) : log'[m][i].term = currentTerm[m]
                               => i <= acked'[m][currentTerm[m]]
        BY <1>2 DEF LeaderKnows
    <2>1. CASE m = n
        <3>1. ASSUME NEW p \in Server \ {n}
              PROVE  /\ matchIndex[n][p] <= acked'[p][T]
                     /\ nextIndex[n][p] <= Len(longer) + 1
            <4>1. matchIndex[n][p] <= acked[p][T] /\ nextIndex[n][p] <= last
                BY <1>1, <1>2 DEF LeaderKnows
            <4>2. acked'[p][T] = acked[p][T]
                BY <1>3, <1>5
            <4>3. nextIndex[n][p] \in Nat
                BY <1>1 DEF Typed
            <4>4. QED
                BY <1>3, <1>6, <4>1, <4>2, <4>3
        <3>2. \A i \in 1..Len(longer) : i <= last
            BY <1>3, <1>6
        <3> HIDE DEF last
        <3>3. QED
            BY <1>5, <2>1, <3>1, <3>2
    <2>2. CASE m # n
        BY <1>1, <1>5, <1>12, <2>2 DEF LeaderKnows
    <2>3. QED
        BY <2>1, <2>2
<1>19. QED
    BY <1>10, <1>11, <1>13, <1>14, <1>16, <1>17, <1>18 DEF LogInv

LEMMA SendAppendLogs ==
    ASSUME Base, Typed', LogInv, NEW n \in Server, NEW p \in Server, SendAppend(n, p)
    PROVE  LogInv'
<1> DEFINE T == currentTerm[n]
           prev == nextIndex[n][p] - 1
           part == SubSeq(log[n], prev + 1, Len(log[n]))
<1>1. /\ Typed /\ LeadersElected
      /\ LedgerSound /\ LogsFrom /\ LeaderLog /\ CallsFrom
      /\ RepliesTrue /\ AckedHeld /\ LeaderKnows
    BY BaseTyped DEF Base, LogInv
<1>2. /\ state[n] = "Leader" /\ n # p
      /\ log' = log /\ ledger' = ledger /\ acked' = acked
      /\ state' = state /\ currentTerm' = currentTerm /\ elected' = elected
      /\ matchIndex' = matchIndex /\ nextIndex' = nextIndex /\ appendReps' = appendReps
    BY DEF SendAppend, electionVars, logVars, peerVars, history
<1>3. ASSUME NEW q \in appendReqs'
      PROVE  \/ q \in appendReqs
             \/ /\ q.term = T /\ q.from = n /\ q.to = p /\ q.prevIndex = prev
                /\ q.prevTerm = TermAt(log[n], prev) /\ q.entries = part
    BY DEF SendAppend
<1>4. log[n] \in Seq(Entry) /\ log[n] = ledger[T] /\ [term |-> T, leader |-> n] \in elected
    BY <1>1, <1>2 DEF Typed, LeaderLog, LeadersElected, Victory
<1>5. /\ prev \in Nat /\ prev <= Len(log[n]) /\ Len(log[n]) \in Nat
      /\ prev + 1 \in Nat \ {0}
    <2>1. nextIndex[n][p] \in Nat \ {0} /\ nextIndex[n][p] <= Len(log[n]) + 1
        BY <1>1, <1>2 DEF Typed, LeaderKnows
    <2>2. QED
        BY <1>4, <2>1
<1>6. /\ part \in Seq(Entry) /\ prev + Len(part) = Len(log[n])
      /\ \A k \in 1..Len(part) : part[k] = log[n][prev + k]
    <2>1. /\ part \in Seq(Entry)
          /\ Len(part) = IF prev + 1 <= Len(log[n]) THEN Len(log[n]) - (prev + 1) + 1 ELSE 0
          /\ \A k \in 1..Len(part) : part[k] = log[n][(prev + 1) + k - 1]
        <3> HIDE DEF prev
        <3>1. Len(log[n]) <= Len(log[n])
            BY <1>5
        <3>2. QED
            BY <1>4, <1>5, <3>1, SliceTyped
    <2> HIDE DEF part, prev
    <2>2. prev + Len(part) = Len(log[n])
        BY <1>5, <2>1
    <2>3. \A k \in 1..Len(part) : (prev + 1) + k - 1 = prev + k
        BY <1>5
    <2>4. QED
        BY <2>1, <2>2, <2>3
<1> HIDE DEF part, prev, T
<1>7. CallsFrom'
    <2> SUFFICES ASSUME NEW q \in appendReqs'
                 PROVE  /\ [term |-> q.term, leader |-> q.from] \in elected
                        /\ q.from # q.to
                        /\ q.prevIndex + Len(q.entries) <= Len(ledger[q.term])
                        /\ q.prevTerm = TermAt(ledger[q.term], q.prevIndex)
                        /\ \A k \in 1..Len(q.entries) :
                              q.entries[k] = ledger[q.term][q.prevIndex + k]
        BY <1>2 DEF CallsFrom
    <2>1. CASE q \in appendReqs
        BY <1>1, <2>1 DEF CallsFrom
    <2>2. CASE q \notin appendReqs
        <3>1. prev + Len(part) <= Len(log[n])
            BY <1>5, <1>6
        <3>2. QED
            BY <1>2, <1>3, <1>4, <1>6, <2>2, <3>1
    <2>3. QED
        BY <2>1, <2>2
<1>8. LedgerSound' /\ LogsFrom' /\ LeaderLog' /\ RepliesTrue' /\ LeaderKnows'
    BY <1>1, <1>2 DEF LedgerSound, LogsFrom, LeaderLog, RepliesTrue, LeaderKnows, Led
<1>9. AckedHeld'
    BY <1>1, <1>2 DEF AckedHeld, Held
<1>10. QED
    BY <1>7, <1>8, <1>9 DEF LogInv

LEMMA AcknowledgedLogs ==
    ASSUME Base, LogInv, NEW r \in appendReps, Acknowledged(r)
    PROVE  LogInv'
<1> DEFINE n == r.to
           T == currentTerm[n]
<1>1. /\ Typed
      /\ LedgerSound /\ LogsFrom /\ LeaderLog /\ CallsFrom
      /\ RepliesTrue /\ AckedHeld /\ LeaderKnows
    BY BaseTyped DEF Base, LogInv
<1>2. /\ n \in Server /\ r.from \in Server /\ r.match \in Nat /\ T \in Terms
      /\ matchIndex \in [Server -> [Server -> Nat]]
      /\ nextIndex \in [Server -> [Server -> Nat \ {0}]]
    BY <1>1 DEF Typed, AppendReply
<1>3. /\ r.term = T
      /\ appendReps' \subseteq appendReps /\ appendReqs' = appendReqs
      /\ log' = log /\ ledger' = ledger /\ acked' = acked
      /\ state' = state /\ currentTerm' = currentTerm /\ elected' = elected
      /\ state[n] = "Leader"
    BY DEF Acknowledged, AckSuccess, AckFailure, logVars, history, electionVars
<1>4. LedgerSound' /\ LogsFrom' /\ LeaderLog' /\ CallsFrom' /\ RepliesTrue' /\ AckedHeld'
    BY <1>1, <1>3 DEF LedgerSound, LogsFrom, LeaderLog, CallsFrom, RepliesTrue, AckedHeld,
                      Held, Led
<1>5. ASSUME NEW p \in Server \ {n}
      PROVE  matchIndex'[n][p] <= acked[p][T] /\ nextIndex'[n][p] <= Len(log[n]) + 1
    <2>1. /\ matchIndex[n][p] <= acked[p][T] /\ nextIndex[n][p] <= Len(log[n]) + 1
          /\ nextIndex[n][p] \in Nat \ {0} /\ log[n] \in Seq(Entry) /\ acked[p][T] \in Nat
        BY <1>1, <1>2, <1>3 DEF LeaderKnows, Typed
    <2>2. CASE AckSuccess(r)
        <3>1. /\ matchIndex' = [matchIndex EXCEPT ![n][r.from] = r.match]
              /\ nextIndex' = [nextIndex EXCEPT ![n][r.from] = r.match + 1]
              /\ r.success
            BY <2>2 DEF AckSuccess, AckOfCall, NextAfter
        <3>2. CASE p = r.from
            <4>1. r.match <= acked[p][T]
                BY <1>1, <1>3, <3>1, <3>2 DEF RepliesTrue
            <4>2. acked[p][T] <= Len(ledger[T]) /\ ledger[T] = log[n]
                BY <1>1, <1>2, <1>3 DEF AckedHeld, Held, LeaderLog
            <4>3. matchIndex'[n][p] = r.match /\ nextIndex'[n][p] = r.match + 1
                BY <1>2, <3>1, <3>2
            <4>4. Len(log[n]) \in Nat /\ Len(ledger[T]) = Len(log[n])
                BY <2>1, <4>2
            <4>5. r.match <= Len(log[n])
                BY <1>2, <2>1, <4>1, <4>2, <4>4, SMTT(30)
            <4>6. r.match + 1 <= Len(log[n]) + 1
                BY <1>2, <4>4, <4>5
            <4>7. QED
                BY <4>1, <4>3, <4>6
        <3>3. CASE p # r.from
            BY <1>2, <2>1, <3>1, <3>3
        <3>4. QED
            BY <3>2, <3>3
    <2>3. CASE AckFailure(r)
        <3>1. /\ matchIndex' = matchIndex
              /\ nextIndex' = [nextIndex EXCEPT ![n][r.from] = IF @ > 1 THEN @ - 1 ELSE @]
            BY <2>3 DEF AckFailure
        <3>2. nextIndex'[n][p] \in {nextIndex[n][p], nextIndex[n][p] - 1}
            BY <1>2, <3>1
        <3>3. QED
            BY <2>1, <3>1, <3>2
    <2>4. QED
        BY <2>2, <2>3 DEF Acknowledged
<1>6. LeaderKnows'
    <2> SUFFICES ASSUME NEW m \in Server, state[m] = "Leader"
                 PROVE  /\ \A p \in Server \ {m} :
                              /\ matchIndex'[m][p] <= acked[p][currentTerm[m]]
                              /\ nextIndex'[m][p] <= Len(log[m]) + 1
                        /\ \A i \in 1..Len(log[m]) : log[m][i].term = currentTerm[m]
                               => i <= acked[m][currentTerm[m]]
        BY <1>3 DEF LeaderKnows
    <2>1. CASE m = n
        BY <1>1, <1>3, <1>5, <2>1 DEF LeaderKnows
    <2>2. CASE m # n
        <3>1. matchIndex'[m] = matchIndex[m] /\ nextIndex'[m] = nextIndex[m]
            BY <1>2, <2>2 DEF Acknowledged, AckSuccess, AckFailure
        <3>2. QED
            BY <1>1, <3>1 DEF LeaderKnows
    <2>3. QED
        BY <2>1, <2>2
<1>7. QED
    BY <1>4, <1>6 DEF LogInv

-----------------------------------------------------------------------------
(* The AppendEntries handler. *)

\* Nothing that old has in common with the leader's log is lost in new.
Keeps(new, old, lead) == \A i \in Nat : Agrees(old, lead, i) => Agrees(new, old, i)

\* Dropping the entry that differs, and what follows, loses nothing in common.
LEMMA CutKeeps ==
    ASSUME NEW l \in Seq(Entry), NEW lead, NEW led, From(l, led),
           NEW d \in 1..Len(l), ~ Agrees(l, lead, d)
    PROVE  LET cut == SubSeq(l, 1, d - 1)
           IN  cut \in Seq(Entry) /\ Keeps(cut, l, lead) /\ From(cut, led)
<1> DEFINE cut == SubSeq(l, 1, d - 1)
<1>1. d - 1 \in Nat /\ d - 1 <= Len(l) /\ Len(l) \in Nat
    OBVIOUS
<1>2. /\ cut \in Seq(Entry) /\ Len(cut) = d - 1
      /\ \A x \in 1..(d - 1) : cut[x] = l[x]
    <2>1. /\ cut \in Seq(Entry)
          /\ Len(cut) = IF 1 <= d - 1 THEN (d - 1) - 1 + 1 ELSE 0
          /\ \A x \in 1..Len(cut) : cut[x] = l[1 + x - 1]
        BY <1>1, SliceTyped
    <2> HIDE DEF cut
    <2>2. Len(cut) = d - 1
        BY <1>1, <2>1
    <2>3. \A x \in 1..(d - 1) : 1 + x - 1 = x
        OBVIOUS
    <2>4. QED
        BY <2>1, <2>2, <2>3
<1> HIDE DEF cut
<1>3. Agrees(cut, l, Len(cut))
    BY <1>1, <1>2 DEF Agrees
<1>4. From(cut, led)
    BY <1>2, <1>3, FromPrefix
<1>5. ASSUME NEW i \in Nat, Agrees(l, lead, i)
      PROVE  Agrees(cut, l, i)
    <2>1. i < d
        BY <1>1, <1>5 DEF Agrees
    <2>2. QED
        BY <1>1, <1>2, <2>1 DEF Agrees
<1>6. QED
    BY <1>2, <1>4, <1>5 DEF Keeps, cut

\* What the entry loop makes of a log that has everything before the new entries in
\* common with the leader's: it has the new ones in common too.
LEMMA MergeKeeps ==
    ASSUME NEW l \in Seq(Entry), NEW lead \in Seq(Entry), NEW led,
           From(l, led), From(lead, led),
           NEW prev \in 0..Len(l), Agrees(l, lead, prev), NEW entries \in Seq(Entry),
           prev + Len(entries) <= Len(lead),
           \A k \in 1..Len(entries) : entries[k] = lead[prev + k]
    PROVE  LET merged == Merge(l, prev, entries)
           IN  /\ merged \in Seq(Entry) /\ From(merged, led) /\ Keeps(merged, l, lead)
               /\ Agrees(merged, lead, prev + Len(entries))
<1> DEFINE merged == Merge(l, prev, entries)
           upto == prev + Len(entries)
<1>1. /\ Len(l) \in Nat /\ Len(lead) \in Nat /\ Len(entries) \in Nat /\ prev \in Nat
      /\ upto \in Nat
    OBVIOUS
<1>2. ASSUME merged = l, upto <= Len(l),
             \A i \in 1..Len(entries) : l[prev + i].term = entries[i].term
      PROVE  From(merged, led) /\ Keeps(merged, l, lead) /\ Agrees(merged, lead, upto)
    <2>1. Agrees(l, lead, upto)
        <3>1. CASE Len(entries) = 0
            BY <1>1, <3>1
        <3>2. CASE Len(entries) # 0
            <4>1. Len(entries) \in 1..Len(entries) /\ upto \in 1..Len(l)
                BY <1>1, <1>2, <3>2
            <4>2. l[upto].term = lead[upto].term
                BY <1>2, <4>1
            <4>3. QED
                BY <4>1, <4>2, SameTermAgree
        <3>3. QED
            BY <3>1, <3>2
    <2>2. Keeps(l, l, lead)
        BY DEF Keeps, Agrees
    <2> HIDE DEF merged
    <2>3. QED
        BY <1>2, <2>1, <2>2 DEF merged
<1>3. ASSUME NEW d \in 1..Len(entries),
             prev + d > Len(l) \/ l[prev + d].term # entries[d].term,
             \A i \in 1..(d - 1) : prev + i <= Len(l) /\ l[prev + i].term = entries[i].term,
             merged \in Seq(Entry),
             Len(merged) = upto,
             \A x \in 1..(prev + d - 1) : x <= Len(l) /\ merged[x] = l[x],
             \A x \in (prev + d)..upto : merged[x] = entries[x - prev]
      PROVE  From(merged, led) /\ Keeps(merged, l, lead) /\ Agrees(merged, lead, upto)
    <2> HIDE DEF merged
    <2>1. Agrees(l, lead, prev + d - 1)
        <3>1. CASE d = 1
            BY <3>1
        <3>2. CASE d # 1
            <4>1. d - 1 \in 1..(d - 1) /\ d - 1 \in 1..Len(entries)
                BY <3>2
            <4>2. prev + (d - 1) \in 1..Len(l) /\ prev + (d - 1) <= Len(lead)
                BY <1>1, <1>3, <4>1
            <4>3. l[prev + (d - 1)].term = lead[prev + (d - 1)].term
                BY <1>3, <4>1
            <4>4. Agrees(l, lead, prev + (d - 1))
                BY <4>2, <4>3, SameTermAgree
            <4>5. prev + (d - 1) = prev + d - 1
                OBVIOUS
            <4>6. QED
                BY <4>4, <4>5
        <3>3. QED
            BY <3>1, <3>2
    <2>2. ASSUME NEW x \in 1..upto PROVE merged[x] = lead[x]
        <3>1. CASE x <= prev + d - 1
            BY <1>3, <2>1, <3>1 DEF Agrees
        <3>2. CASE x > prev + d - 1
            <4>1. x \in (prev + d)..upto /\ x - prev \in 1..Len(entries)
                  /\ prev + (x - prev) = x
                BY <1>1, <3>2
            <4>2. merged[x] = entries[x - prev] /\ entries[x - prev] = lead[prev + (x - prev)]
                BY <1>3, <4>1
            <4>3. QED
                BY <4>1, <4>2
        <3>3. QED
            BY <1>1, <3>1, <3>2
    <2>3. Agrees(merged, lead, upto)
        BY <1>1, <1>3, <2>2 DEF Agrees
    <2>4. From(merged, led)
        BY <1>3, <2>3, FromPrefix
    <2>5. ASSUME NEW i \in Nat, Agrees(l, lead, i)
          PROVE  Agrees(merged, l, i)
        <3>1. i < prev + d
            <4>1. SUFFICES ASSUME i >= prev + d
                           PROVE  FALSE
                BY <1>1
            <4>2. prev + d \in 1..i /\ prev + d <= Len(l) /\ i <= Len(l)
                BY <1>1, <2>5, <4>1 DEF Agrees
            <4>3. l[prev + d] = lead[prev + d]
                BY <2>5, <4>2 DEF Agrees
            <4>4. QED
                BY <1>1, <1>3, <4>2, <4>3
        <3>2. i <= prev + d - 1 /\ i <= Len(l) /\ i <= Len(merged)
            BY <1>1, <1>3, <2>5, <3>1 DEF Agrees
        <3>3. \A x \in 1..i : merged[x] = l[x]
            BY <1>1, <1>3, <3>2
        <3>4. QED
            BY <3>2, <3>3 DEF Agrees
    <2>6. QED
        BY <2>3, <2>4, <2>5 DEF Keeps
<1>4. merged \in Seq(Entry)
    BY MergeTyped
<1>5. \/ /\ merged = l
         /\ upto <= Len(l)
         /\ \A i \in 1..Len(entries) : l[prev + i].term = entries[i].term
      \/ \E d \in 1..Len(entries) :
            /\ prev + d > Len(l) \/ l[prev + d].term # entries[d].term
            /\ \A i \in 1..(d - 1) : prev + i <= Len(l) /\ l[prev + i].term = entries[i].term
            /\ merged \in Seq(Entry)
            /\ Len(merged) = upto
            /\ \A x \in 1..(prev + d - 1) : x <= Len(l) /\ merged[x] = l[x]
            /\ \A x \in (prev + d)..upto : merged[x] = entries[x - prev]
    BY MergeShape, ZenonT(60)
<1>6. From(merged, led) /\ Keeps(merged, l, lead) /\ Agrees(merged, lead, upto)
    <2> HIDE DEF merged, upto
    <2>1. QED
        BY <1>2, <1>3, <1>5
<1>7. QED
    BY <1>4, <1>6

\* Where two logs from leaders agree on the entry before the new ones, or there is
\* none, they agree up to it.
LEMMA PrevAgrees ==
    ASSUME NEW l \in Seq(Entry), NEW lead \in Seq(Entry), NEW led,
           From(l, led), From(lead, led), NEW prev \in Nat, prev <= Len(lead),
           \/ prev = 0
           \/ prev \in 1..Len(l) /\ l[prev].term = TermAt(lead, prev)
    PROVE  prev \in 0..Len(l) /\ Agrees(l, lead, prev)
<1>1. CASE prev = 0
    BY <1>1 DEF Agrees
<1>2. CASE prev \in 1..Len(l) /\ l[prev].term = TermAt(lead, prev)
    <2>1. prev \in 1..Len(lead)
        BY <1>2
    <2>2. l[prev].term = lead[prev].term
        BY <1>2, <2>1 DEF TermAt
    <2>3. QED
        BY <1>2, <2>2, SameTermAgree
<1>3. QED
    BY <1>1, <1>2

\* The receiver of a call it does not refuse as outdated ends in the term of the
\* call, and does not lead it: the caller does.
LEMMA Adopted ==
    ASSUME Base, CallsFrom, NEW q \in appendReqs, AdoptTerm(q),
           q.term >= currentTerm[q.to]
    PROVE  /\ currentTerm'[q.to] = q.term /\ state'[q.to] # "Leader"
           /\ \A m \in Server : m # q.to => /\ currentTerm'[m] = currentTerm[m]
                                            /\ state'[m] = state[m]
           /\ elected' = elected
<1>1. /\ Typed /\ LeadersElected /\ ElectionSafety
      /\ q.to \in Server /\ q.term \in Terms /\ q.term \in Nat
      /\ currentTerm[q.to] \in Nat
    BY BaseTyped, TermsNat DEF Base, Typed, AppendRequest
<1>2. CASE q.term > currentTerm[q.to]
    BY <1>1, <1>2 DEF AdoptTerm, StepDown, Typed
<1>3. CASE ~ (q.term > currentTerm[q.to])
    <2>1. UNCHANGED electionVars /\ currentTerm[q.to] = q.term
        BY <1>1, <1>3 DEF AdoptTerm
    <2>2. ASSUME state[q.to] = "Leader" PROVE FALSE
        <3>1. Victory(q.to) \in elected /\ Victory(q.to).term = q.term
              /\ Victory(q.to).leader = q.to
            BY <1>1, <2>1, <2>2 DEF LeadersElected, Victory
        <3>2. [term |-> q.term, leader |-> q.from] \in elected /\ q.from # q.to
            BY DEF CallsFrom
        <3>3. QED
            BY <1>1, <3>1, <3>2 DEF ElectionSafety
    <2>3. QED
        BY <2>1, <2>2 DEF electionVars
<1>4. QED
    BY <1>2, <1>3

\* What a run of the handler has to show of its server n, for LogInv to go on.
LEMMA HandlerLogs ==
    ASSUME Typed, Typed', LogInv, NEW q \in appendReqs, NEW n \in Server, n = q.to,
           ledger' = ledger, elected' = elected, UNCHANGED peerVars,
           appendReqs' \subseteq appendReqs,
           \A m \in Server : m # n => /\ currentTerm'[m] = currentTerm[m]
                                      /\ state'[m] = state[m] /\ log'[m] = log[m],
           state'[n] = "Leader" => /\ state[n] = "Leader" /\ log'[n] = log[n]
                                   /\ currentTerm'[n] = currentTerm[n],
           From(log'[n], ledger),
           \A m \in Server, t \in Terms : acked'[m][t] >= acked[m][t],
           \A m \in Server, t \in Terms : m # n => acked'[m][t] = acked[m][t],
           \A t \in Terms : Held(n, t)',
           \A r \in appendReps' : \/ r \in appendReps
                                  \/ /\ r.from = n /\ r.to = q.from /\ r.term = q.term
                                     /\ r.success => r.match <= acked'[n][q.term]
    PROVE  LogInv'
<1>1. /\ LedgerSound /\ LogsFrom /\ LeaderLog /\ CallsFrom
      /\ RepliesTrue /\ AckedHeld /\ LeaderKnows
    BY DEF LogInv
<1>2. \A m \in Server, t \in Terms : acked[m][t] \in Nat /\ acked'[m][t] \in Nat
    BY DEF Typed
<1>3. LedgerSound'
    BY <1>1 DEF LedgerSound, Led
<1>4. LogsFrom'
    BY <1>1 DEF LogsFrom
<1>5. LeaderLog'
    BY <1>1 DEF LeaderLog
<1>6. CallsFrom'
    BY <1>1 DEF CallsFrom
<1>7. RepliesTrue'
    <2> SUFFICES ASSUME NEW r \in appendReps'
                 PROVE  /\ [term |-> r.term, leader |-> r.to] \in elected
                        /\ r.from # r.to
                        /\ r.success => r.match <= acked'[r.from][r.term]
        BY DEF RepliesTrue
    <2>1. CASE r \in appendReps
        <3>1. r.from \in Server /\ r.term \in Terms /\ r.match \in Nat
            BY <2>1 DEF Typed, AppendReply
        <3>2. QED
            BY <1>1, <1>2, <2>1, <3>1 DEF RepliesTrue
    <2>2. CASE r \notin appendReps
        BY <1>1, <2>2 DEF CallsFrom
    <2>3. QED
        BY <2>1, <2>2
<1>8. AckedHeld'
    <2> SUFFICES ASSUME NEW m \in Server, NEW t \in Terms
                 PROVE  Held(m, t)'
        BY DEF AckedHeld
    <2>1. CASE m # n
        <3>1. Grows(ledger, ledger')
            BY SameGrows DEF Typed
        <3>2. currentTerm'[m] >= currentTerm[m]
            BY <2>1, TermsNat, SMTT(30) DEF Typed
        <3>3. QED
            BY <1>1, <2>1, <3>1, <3>2, HeldStays
    <2>2. QED
        BY <2>1
<1>9. LeaderKnows'
    <2> SUFFICES ASSUME NEW m \in Server, state'[m] = "Leader"
                 PROVE  /\ \A p \in Server \ {m} :
                              /\ matchIndex'[m][p] <= acked'[p][currentTerm'[m]]
                              /\ nextIndex'[m][p] <= Len(log'[m]) + 1
                        /\ \A i \in 1..Len(log'[m]) : log'[m][i].term = currentTerm'[m]
                               => i <= acked'[m][currentTerm'[m]]
        BY DEF LeaderKnows
    <2>1. /\ state[m] = "Leader" /\ log'[m] = log[m] /\ currentTerm'[m] = currentTerm[m]
          /\ matchIndex' = matchIndex /\ nextIndex' = nextIndex
        BY DEF peerVars
    <2>2. currentTerm[m] \in Terms /\ log[m] \in Seq(Entry)
        BY DEF Typed
    <2>3. ASSUME NEW p \in Server \ {m}
          PROVE  matchIndex[m][p] <= acked'[p][currentTerm[m]]
        <3>1. matchIndex[m][p] <= acked[p][currentTerm[m]] /\ matchIndex[m][p] \in Nat
            BY <1>1, <2>1 DEF LeaderKnows, Typed
        <3>2. QED
            BY <1>2, <2>2, <3>1
    <2>4. ASSUME NEW i \in 1..Len(log[m]), log[m][i].term = currentTerm[m]
          PROVE  i <= acked'[m][currentTerm[m]]
        <3>1. i <= acked[m][currentTerm[m]] /\ i \in Nat
            BY <1>1, <2>1, <2>2, <2>4 DEF LeaderKnows
        <3>2. QED
            BY <1>2, <2>2, <3>1
    <2>5. QED
        BY <1>1, <2>1, <2>3, <2>4 DEF LeaderKnows
<1>10. QED
    BY <1>3, <1>4, <1>5, <1>6, <1>7, <1>8, <1>9 DEF LogInv

\* What the branches of the handler that take the call's term have to show.
LEMMA AdoptingLogs ==
    ASSUME Base, Typed', LogInv, NEW q \in appendReqs, NEW n \in Server, n = q.to,
           NEW lead, lead = ledger[q.term], NEW a \in Nat,
           q.term >= currentTerm[n], AdoptTerm(q),
           ledger' = ledger, UNCHANGED peerVars, appendReqs' \subseteq appendReqs,
           \A m \in Server : m # n => log'[m] = log[m],
           From(log'[n], ledger), Keeps(log'[n], log[n], lead),
           acked' = [acked EXCEPT ![n][q.term] = a],
           a >= acked[n][q.term], a <= Len(lead),
           a = acked[n][q.term] \/ Agrees(log'[n], lead, a),
           \A r \in appendReps' : \/ r \in appendReps
                                  \/ /\ r.from = n /\ r.to = q.from /\ r.term = q.term
                                     /\ r.success => r.match <= a
    PROVE  LogInv'
<1>1. /\ Typed /\ CallsFrom /\ AckedHeld
      /\ q.term \in Terms /\ q.term \in Nat
      /\ currentTerm[n] \in Nat
    BY BaseTyped, TermsNat DEF Base, LogInv, Typed, AppendRequest
<1>2. /\ currentTerm'[n] = q.term /\ state'[n] # "Leader"
      /\ \A m \in Server : m # n => /\ currentTerm'[m] = currentTerm[m]
                                    /\ state'[m] = state[m]
      /\ elected' = elected
    BY <1>1, Adopted
<1>3. \A m \in Server, t \in Terms :
          /\ acked[m][t] \in Nat
          /\ acked'[m][t] = IF m = n /\ t = q.term THEN a ELSE acked[m][t]
    <2>1. acked \in [Server -> [Terms -> Nat]]
        BY <1>1 DEF Typed
    <2>2. QED
        BY <1>1, <2>1
<1>4. /\ log[n] \in Seq(Entry) /\ log'[n] \in Seq(Entry) /\ lead \in Seq(Entry)
      /\ \A t \in Terms : t \in Nat
    BY <1>1, TermsNat DEF Typed
<1>5. Agrees(log'[n], lead, acked[n][q.term])
    <2>1. Held(n, q.term)
        BY <1>1 DEF AckedHeld
    <2>2. CASE q.term = currentTerm[n]
        <3>1. Agrees(log[n], lead, acked[n][q.term])
            BY <2>1, <2>2 DEF Held
        <3>2. Agrees(log'[n], log[n], acked[n][q.term])
            BY <1>1, <1>3, <3>1 DEF Keeps
        <3>3. QED
            BY <1>1, <1>3, <1>4, <3>1, <3>2 DEF Agrees
    <2>3. CASE q.term # currentTerm[n]
        <3>1. acked[n][q.term] = 0
            BY <1>1, <1>3, <2>1, <2>3 DEF Held
        <3>2. QED
            BY <1>4, <3>1 DEF Agrees
    <2>4. QED
        BY <2>2, <2>3
<1>6. ASSUME NEW t \in Terms PROVE Held(n, t)'
    <2>1. CASE t = q.term
        <3>1. acked'[n][t] = a /\ ledger'[t] = lead /\ currentTerm'[n] = t
            BY <1>2, <1>3, <2>1
        <3>2. a <= Len(lead) /\ (a > 0 => t <= t) /\ Agrees(log'[n], lead, a)
            BY <1>1, <1>5, <2>1
        <3>3. QED
            BY <3>1, <3>2 DEF Held
    <2>2. CASE t # q.term
        <3>1. acked[n][t] <= Len(ledger[t]) /\ (acked[n][t] > 0 => t <= currentTerm[n])
            BY <1>1 DEF AckedHeld, Held
        <3>2. acked[n][t] > 0 => t <= q.term
            BY <1>1, <1>4, <3>1
        <3>3. acked'[n][t] = acked[n][t] /\ t # currentTerm'[n]
            BY <1>2, <1>3, <2>2
        <3>4. QED
            BY <1>2, <3>1, <3>2, <3>3 DEF Held
    <2>3. QED
        BY <2>1, <2>2
<1>7. \A m \in Server, t \in Terms : acked'[m][t] >= acked[m][t]
    BY <1>3
<1>8. \A m \in Server, t \in Terms : m # n => acked'[m][t] = acked[m][t]
    BY <1>3
<1>9. acked'[n][q.term] = a
    BY <1>1, <1>3
<1>10. QED
    BY <1>1, <1>2, <1>6, <1>7, <1>8, <1>9, HandlerLogs

\* A reply that is under way after the handler has run is an old one or its own.
LEMMA AnswerGiven ==
    ASSUME NEW q \in appendReqs, NEW replyTerm, NEW success, Answer(q, replyTerm, success)
    PROVE  /\ appendReqs' \subseteq appendReqs
           /\ \A r \in appendReps' :
                \/ r \in appendReps
                \/ /\ r.from = q.to /\ r.to = q.from /\ r.term = q.term
                   /\ r.success = success /\ r.match = q.prevIndex + Len(q.entries)
BY DEF Answer

\* Where the handler finds another term at the entry before the new ones, the log
\* has less than that in common with the leader's.
LEMMA ConflictDiffers ==
    ASSUME NEW l \in Seq(Entry), NEW lead \in Seq(Entry), NEW d \in 1..Len(l),
           l[d].term # TermAt(lead, d)
    PROVE  ~ Agrees(l, lead, d)
BY DEF Agrees, TermAt

\* Of a call that is not outdated: the term is adopted, nothing that the log had in
\* common with the leader's is lost, and if it is accepted, the new entries are in
\* common too.
LEMMA HandlerLog ==
    ASSUME Base, LogInv, NEW q \in appendReqs, NEW n, n = q.to, NEW lead,
           lead = ledger[q.term], NEW lastNew, lastNew = q.prevIndex + Len(q.entries),
           AppendGap(q) \/ AppendConflict(q) \/ AppendAccepted(q)
    PROVE  /\ n \in Server /\ q.term \in Terms /\ q.term >= currentTerm[n] /\ AdoptTerm(q)
           /\ ledger' = ledger
           /\ \A m \in Server : m # n => log'[m] = log[m]
           /\ lead \in Seq(Entry) /\ From(lead, ledger)
           /\ lastNew \in Nat /\ lastNew <= Len(lead)
           /\ log'[n] \in Seq(Entry) /\ From(log'[n], ledger) /\ Keeps(log'[n], log[n], lead)
           /\ AppendAccepted(q) => Agrees(log'[n], lead, lastNew)
<1>1. Typed /\ LedgerSound /\ LogsFrom /\ CallsFrom
    BY BaseTyped DEF Base, LogInv
<1>2. /\ n \in Server /\ q.term \in Terms /\ q.prevIndex \in Nat
      /\ q.entries \in Seq(Entry) /\ Len(q.entries) \in Nat
      /\ log[n] \in Seq(Entry) /\ log \in [Server -> Seq(Entry)]
      /\ lead \in Seq(Entry)
    <2>1. q \in AppendRequest
        BY <1>1 DEF Typed
    <2>2. n \in Server /\ q.term \in Terms /\ q.prevIndex \in Nat /\ q.entries \in Seq(Entry)
        BY <2>1 DEF AppendRequest
    <2>3. Len(q.entries) \in Nat
        BY <2>2
    <2>4. log[n] \in Seq(Entry) /\ log \in [Server -> Seq(Entry)] /\ lead \in Seq(Entry)
        BY <1>1, <2>2 DEF Typed
    <2>5. QED
        BY <2>2, <2>3, <2>4
<1>3. From(log[n], ledger) /\ From(lead, ledger)
    BY <1>1, <1>2 DEF LogsFrom, LedgerSound
<1>4. /\ lastNew <= Len(lead) /\ lastNew \in Nat /\ q.prevIndex <= Len(lead)
      /\ q.prevTerm = TermAt(lead, q.prevIndex)
      /\ \A k \in 1..Len(q.entries) : q.entries[k] = lead[q.prevIndex + k]
    <2>1. /\ lastNew <= Len(lead)
          /\ q.prevTerm = TermAt(lead, q.prevIndex)
          /\ \A k \in 1..Len(q.entries) : q.entries[k] = lead[q.prevIndex + k]
        BY <1>1 DEF CallsFrom
    <2>2. Len(lead) \in Nat
        BY <1>2
    <2>3. lastNew \in Nat /\ q.prevIndex <= Len(lead)
        BY <1>2, <2>1, <2>2
    <2>4. QED
        BY <2>1, <2>3
<1>5. q.term >= currentTerm[n] /\ AdoptTerm(q) /\ ledger' = ledger
    BY DEF AppendGap, AppendConflict, AppendAccepted, history
<1>6. CASE AppendGap(q)
    <2>1. log' = log /\ q.prevIndex > Len(log[n])
        BY <1>6 DEF AppendGap, logVars
    <2>2. Keeps(log[n], log[n], lead)
        BY <1>2 DEF Keeps, Agrees
    <2>3. ~ AppendAccepted(q)
        <3>1. ~ (q.prevIndex = 0 \/ q.prevIndex \in 1..Len(log[n]))
            BY <1>2, <2>1
        <3>2. QED
            BY <3>1 DEF AppendAccepted
    <2>4. QED
        BY <1>2, <1>3, <1>4, <1>5, <2>1, <2>2, <2>3
<1>7. CASE AppendConflict(q)
    <2>1. /\ q.prevIndex \in 1..Len(log[n]) /\ log[n][q.prevIndex].term # q.prevTerm
          /\ log' = [log EXCEPT ![n] = SubSeq(@, 1, q.prevIndex - 1)]
        BY <1>7 DEF AppendConflict
    <2>2. ~ Agrees(log[n], lead, q.prevIndex)
        BY <1>2, <1>4, <2>1, ConflictDiffers
    <2>3. /\ log'[n] = SubSeq(log[n], 1, q.prevIndex - 1)
          /\ \A m \in Server : m # n => log'[m] = log[m]
        BY <1>2, <2>1
    <2>4. log'[n] \in Seq(Entry) /\ From(log'[n], ledger) /\ Keeps(log'[n], log[n], lead)
        BY <1>2, <1>3, <2>1, <2>2, <2>3, CutKeeps
    <2>5. ~ AppendAccepted(q)
        <3>1. ~ \/ q.prevIndex = 0
                \/ q.prevIndex \in 1..Len(log[n]) /\ log[n][q.prevIndex].term = q.prevTerm
            BY <1>2, <2>1
        <3>2. QED
            BY <3>1 DEF AppendAccepted
    <2>6. QED
        BY <1>2, <1>3, <1>4, <1>5, <2>1, <2>3, <2>4, <2>5
<1>8. CASE AppendAccepted(q)
    <2> DEFINE merged == Merge(log[n], q.prevIndex, q.entries)
    <2>1. /\ \/ q.prevIndex = 0
             \/ q.prevIndex \in 1..Len(log[n]) /\ log[n][q.prevIndex].term = q.prevTerm
          /\ log' = [log EXCEPT ![n] = merged]
        BY <1>8 DEF AppendAccepted
    <2>2. q.prevIndex \in 0..Len(log[n]) /\ Agrees(log[n], lead, q.prevIndex)
        BY <1>2, <1>3, <1>4, <2>1, PrevAgrees
    <2>3. /\ merged \in Seq(Entry) /\ From(merged, ledger) /\ Keeps(merged, log[n], lead)
          /\ Agrees(merged, lead, lastNew)
        BY <1>2, <1>3, <1>4, <2>2, MergeKeeps
    <2> HIDE DEF merged
    <2>4. log'[n] = merged /\ \A m \in Server : m # n => log'[m] = log[m]
        BY <1>2, <2>1
    <2>5. QED
        BY <1>2, <1>3, <1>4, <1>5, <2>3, <2>4
<1>9. QED
    BY <1>6, <1>7, <1>8

LEMMA AppendEntriesLogs ==
    ASSUME Base, Typed', LogInv, NEW q \in appendReqs, AppendEntries(q)
    PROVE  LogInv'
<1> DEFINE n       == q.to
           lead    == ledger[q.term]
           lastNew == q.prevIndex + Len(q.entries)
           was     == acked[n][q.term]
<1>1. Typed /\ LogsFrom /\ AckedHeld
    BY BaseTyped DEF Base, LogInv
<1>2. /\ n \in Server /\ q.term \in Terms
      /\ lead \in Seq(Entry) /\ was \in Nat /\ acked \in [Server -> [Terms -> Nat]]
    <2>1. q \in AppendRequest
        BY <1>1 DEF Typed
    <2>2. n \in Server /\ q.term \in Terms
        BY <2>1 DEF AppendRequest
    <2>3. lead \in Seq(Entry) /\ acked \in [Server -> [Terms -> Nat]]
        BY <1>1, <2>2 DEF Typed
    <2>4. was \in Nat
        BY <2>2, <2>3
    <2>5. QED
        BY <2>2, <2>3, <2>4
<1>3. was <= Len(lead)
    BY <1>1, <1>2 DEF AckedHeld, Held
<1>4. UNCHANGED peerVars
    BY DEF AppendEntries
<1>5. acked = [acked EXCEPT ![n][q.term] = was]
    BY <1>2
<1>6. ASSUME AppendGap(q) \/ AppendConflict(q) \/ AppendAccepted(q), NEW a \in Nat,
             appendReqs' \subseteq appendReqs,
             acked' = [acked EXCEPT ![n][q.term] = a],
             a >= was, a <= Len(lead),
             a = was \/ Agrees(log'[n], lead, a),
             \A r \in appendReps' : \/ r \in appendReps
                                    \/ /\ r.from = n /\ r.to = q.from /\ r.term = q.term
                                       /\ r.success => r.match <= a
      PROVE  LogInv'
    <2>1. /\ q.term >= currentTerm[n] /\ AdoptTerm(q) /\ ledger' = ledger
          /\ \A m \in Server : m # n => log'[m] = log[m]
          /\ From(log'[n], ledger) /\ Keeps(log'[n], log[n], lead)
        BY <1>6, HandlerLog
    <2>2. QED
        BY <1>2, <1>4, <1>6, <2>1, AdoptingLogs
<1> HIDE DEF was
<1>7. CASE AppendOutdated(q)
    <2>1. /\ UNCHANGED <<log, ledger, acked>> /\ Answer(q, currentTerm[n], FALSE)
          /\ state' = state /\ currentTerm' = currentTerm /\ elected' = elected
        BY <1>7 DEF AppendOutdated, logVars, history, electionVars
    <2>2. \A t \in Terms : Held(n, t)'
        BY <1>1, <1>2, <2>1 DEF AckedHeld, Held
    <2>3. /\ appendReqs' \subseteq appendReqs
          /\ \A r \in appendReps' :
               \/ r \in appendReps
               \/ /\ r.from = n /\ r.to = q.from /\ r.term = q.term
                  /\ r.success => r.match <= acked'[n][q.term]
        BY <2>1, AnswerGiven, ZenonT(60)
    <2>4. \A m \in Server, t \in Terms : acked'[m][t] >= acked[m][t]
        BY <1>2, <2>1
    <2>5. From(log[n], ledger)
        BY <1>1, <1>2 DEF LogsFrom
    <2>6. QED
        BY <1>1, <1>2, <1>4, <2>1, <2>2, <2>3, <2>4, <2>5, HandlerLogs
<1>8. CASE AppendGap(q) \/ AppendConflict(q)
    <2>1. Answer(q, q.term, FALSE) /\ acked' = acked
        BY <1>8 DEF AppendGap, AppendConflict, history
    <2>2. /\ appendReqs' \subseteq appendReqs
          /\ \A r \in appendReps' :
               \/ r \in appendReps
               \/ /\ r.from = n /\ r.to = q.from /\ r.term = q.term
                  /\ r.success => r.match <= was
        BY <2>1, AnswerGiven, ZenonT(60)
    <2>3. was >= was
        BY <1>2
    <2> HIDE DEF n, lead
    <2>4. QED
        BY <1>2, <1>3, <1>5, <1>6, <1>8, <2>1, <2>2, <2>3
<1>9. CASE AppendAccepted(q)
    <2> DEFINE a == Greater(was, lastNew)
    <2>1. Answer(q, q.term, TRUE) /\ acked' = [acked EXCEPT ![n][q.term] = a]
        BY <1>9 DEF AppendAccepted, was
    <2>2. lastNew \in Nat /\ lastNew <= Len(lead) /\ Agrees(log'[n], lead, lastNew)
        BY <1>9, HandlerLog
    <2> HIDE DEF lead
    <2>3. a \in Nat /\ a >= was /\ a <= Len(lead) /\ lastNew <= a /\ (a = was \/ a = lastNew)
        <3> HIDE DEF lastNew
        <3>1. QED
            BY <1>2, <1>3, <2>2 DEF Greater
    <2> HIDE DEF a
    <2>4. /\ appendReqs' \subseteq appendReqs
          /\ \A r \in appendReps' :
               \/ r \in appendReps
               \/ /\ r.from = n /\ r.to = q.from /\ r.term = q.term
                  /\ r.success => r.match <= a
        BY <2>1, <2>3, AnswerGiven, ZenonT(60)
    <2>5. a = was \/ Agrees(log'[n], lead, a)
        BY <2>2, <2>3
    <2> HIDE DEF n
    <2>6. QED
        BY <1>6, <1>9, <2>1, <2>3, <2>4, <2>5
<1>10. QED
    BY <1>7, <1>8, <1>9 DEF AppendEntries
-----------------------------------------------------------------------------
(* The invariant holds, and with it what the runs check of logs. *)

LEMMA LogsKept ==
    ASSUME Undisturbed, Base, Base', OwnVotes, LogInv, [RaftNext]_vars
    PROVE  OwnVotes' /\ LogInv'
<1>1. [ElectionNext]_electionVars /\ VotesKept /\ Moves /\ LeaderInv /\ Typed /\ Typed'
    <2>1. [ElectionNext]_electionVars /\ VotesKept /\ Moves
        BY BaseStep
    <2>2. LeaderInv /\ Typed
        BY BaseTyped DEF Base
    <2>3. RaftTypeOK'
        BY DEF Base, RaftInv
    <2>4. Typed'
        BY <2>3 DEF RaftTypeOK, ElectionTypeOK, Typed
    <2>5. QED
        BY <2>1, <2>2, <2>4
<1>2. OwnVotes'
    BY <1>1, StepOwnVotes
<1>3. CASE Quiet
    <2>1. elected \subseteq elected' /\ \A n \in Server : currentTerm'[n] >= currentTerm[n]
        BY <1>1 DEF Moves, VotesKept
    <2>2. QED
        BY <1>1, <1>2, <1>3, <2>1, QuietLogs
<1>4. ASSUME NEW n \in Server, Winning(n) PROVE LogInv'
    BY <1>1, <1>4, WinningLogs
<1>5. ASSUME NEW n \in Server, NEW cmd \in Command, StartCommand(n, cmd) PROVE LogInv'
    BY <1>1, <1>5, StartCommandLogs
<1>6. ASSUME NEW n \in Server, NEW p \in Server, SendAppend(n, p) PROVE LogInv'
    BY <1>1, <1>6, SendAppendLogs
<1>7. ASSUME NEW q \in appendReqs, AppendEntries(q) PROVE LogInv'
    BY <1>1, <1>7, AppendEntriesLogs
<1>8. ASSUME NEW r \in appendReps, Acknowledged(r) PROVE LogInv'
    BY <1>8, AcknowledgedLogs
<1>9. QED
    BY <1>2, <1>3, <1>4, <1>5, <1>6, <1>7, <1>8, StepKinds

LEMMA LogsInit == RaftInit => OwnVotes /\ LogInv
<1> SUFFICES ASSUME RaftInit PROVE OwnVotes /\ LogInv
    OBVIOUS
<1>1. /\ \A n \in Server : state[n] = "Follower" /\ log[n] = << >>
      /\ \A t \in Terms : ledger[t] = << >>
      /\ \A n \in Server, t \in Terms : acked[n][t] = 0
      /\ elected = {} /\ ballots = {} /\ appendReqs = {} /\ appendReps = {}
    BY DEF RaftInit, ElectionInit
<1>2. OwnVotes
    BY <1>1 DEF OwnVotes
<1>3. LedgerSound
    BY <1>1 DEF LedgerSound, Ordered, From
<1>4. LogsFrom /\ LeaderLog /\ CallsFrom /\ RepliesTrue /\ LeaderKnows
    BY <1>1 DEF LogsFrom, From, LeaderLog, CallsFrom, RepliesTrue, LeaderKnows
<1>5. AckedHeld
    BY <1>1 DEF AckedHeld, Held, Agrees
<1>6. QED
    BY <1>2, <1>3, <1>4, <1>5 DEF LogInv

LEMMA LogInvHolds ==
    ASSUME Undisturbed
    PROVE  RaftSpec => [](Base /\ OwnVotes /\ LogInv)
<1>1. Base /\ Base' /\ OwnVotes /\ LogInv /\ [RaftNext]_vars => OwnVotes' /\ LogInv'
    BY LogsKept
<1>2. RaftSpec => []Base
    BY BaseHolds
<1>3. QED
    BY <1>1, <1>2, LogsInit, PTL DEF RaftSpec

\* Slices of two sequences that agree up to i are the same.
LEMMA SlicesAgree ==
    ASSUME NEW l \in Seq(Entry), NEW k \in Seq(Entry), NEW i \in Nat, Agrees(l, k, i)
    PROVE  i <= Len(l) /\ SubSeq(l, 1, i) = SubSeq(k, 1, i)
<1> DEFINE a == SubSeq(l, 1, i)
           b == SubSeq(k, 1, i)
<1>1. i <= Len(l) /\ i <= Len(k) /\ \A x \in 1..i : l[x] = k[x]
    BY DEF Agrees
<1>2. /\ a \in Seq(Entry) /\ Len(a) = i
      /\ \A x \in 1..i : a[x] = l[x]
    <2>1. /\ a \in Seq(Entry) /\ Len(a) = IF 1 <= i THEN i - 1 + 1 ELSE 0
          /\ \A x \in 1..Len(a) : a[x] = l[1 + x - 1]
        BY <1>1, SliceTyped
    <2> HIDE DEF a
    <2>2. \A x \in 1..i : 1 + x - 1 = x
        OBVIOUS
    <2>3. QED
        BY <2>1, <2>2
<1>3. /\ b \in Seq(Entry) /\ Len(b) = i
      /\ \A x \in 1..i : b[x] = k[x]
    <2>1. /\ b \in Seq(Entry) /\ Len(b) = IF 1 <= i THEN i - 1 + 1 ELSE 0
          /\ \A x \in 1..Len(b) : b[x] = k[1 + x - 1]
        BY <1>1, SliceTyped
    <2> HIDE DEF b
    <2>2. \A x \in 1..i : 1 + x - 1 = x
        OBVIOUS
    <2>3. QED
        BY <2>1, <2>2
<1> HIDE DEF a, b
<1>4. \A x \in 1..i : a[x] = b[x]
    BY <1>1, <1>2, <1>3
<1>5. a = b
    BY <1>2, <1>3, <1>4, SeqEqual
<1>6. QED
    BY <1>1, <1>5 DEF a, b

\* Two logs that agree on the term of an entry agree on everything up to it: what
\* the AppendEntries handler keeps, cuts and appends (log.go) never makes a log that
\* is not, entry by entry, from the logs leaders had.
THEOREM LogsMatch ==
    ASSUME MaxDiskFaults = 0, MaxRestarts = 0, StaleReplies = FALSE
    PROVE  RaftSpec => []LogMatching
<1>1. Undisturbed
    BY DEF Undisturbed
<1>2. Base /\ LogInv => LogMatching
    <2> SUFFICES ASSUME Base, LogInv, NEW m \in Server, NEW n \in Server,
                        NEW i \in 1..Lesser(Len(log[m]), Len(log[n])),
                        log[m][i].term = log[n][i].term
                 PROVE  SubSeq(log[m], 1, i) = SubSeq(log[n], 1, i)
        BY DEF LogMatching
    <2>1. /\ log[m] \in Seq(Entry) /\ log[n] \in Seq(Entry)
          /\ From(log[m], ledger) /\ From(log[n], ledger)
        BY BaseTyped DEF Typed, LogInv, LogsFrom
    <2>2. i \in 1..Len(log[m]) /\ i <= Len(log[n]) /\ i \in Nat
        BY <2>1 DEF Lesser
    <2>3. Agrees(log[m], log[n], i)
        BY <2>1, <2>2, SameTermAgree
    <2>4. QED
        BY <2>1, <2>2, <2>3, SlicesAgree
<1>3. RaftSpec => [](Base /\ OwnVotes /\ LogInv)
    BY <1>1, LogInvHolds
<1>4. QED
    BY <1>2, <1>3, PTL

\* What a leader believes a peer of its term to hold (matchIndex, from which the
\* commit index is computed), the peer holds.
THEOREM MatchesSound ==
    ASSUME MaxDiskFaults = 0, MaxRestarts = 0, StaleReplies = FALSE
    PROVE  RaftSpec => []MatchSound
<1>1. Undisturbed
    BY DEF Undisturbed
<1>2. Base /\ LogInv => MatchSound
    <2> SUFFICES ASSUME Base, LogInv, NEW l \in Server, NEW p \in Server,
                        state[l] = "Leader", l # p, currentTerm[p] = currentTerm[l]
                 PROVE  /\ matchIndex[l][p] <= Len(log[p])
                        /\ SubSeq(log[p], 1, matchIndex[l][p])
                              = SubSeq(log[l], 1, matchIndex[l][p])
        BY DEF MatchSound
    <2> DEFINE T == currentTerm[l]
               i == matchIndex[l][p]
    <2>1. /\ log[l] \in Seq(Entry) /\ log[p] \in Seq(Entry) /\ T \in Terms
          /\ acked[p][T] \in Nat /\ i \in Nat
        BY BaseTyped DEF Typed
    <2>2. i <= acked[p][T] /\ log[l] = ledger[T]
        BY DEF LogInv, LeaderKnows, LeaderLog
    <2>3. Agrees(log[p], ledger[T], acked[p][T])
        BY <2>1 DEF LogInv, AckedHeld, Held
    <2>4. Agrees(log[p], log[l], i)
        BY <2>1, <2>2, <2>3 DEF Agrees
    <2> HIDE DEF i
    <2>5. i <= Len(log[p]) /\ SubSeq(log[p], 1, i) = SubSeq(log[l], 1, i)
        BY <2>1, <2>4, SlicesAgree
    <2>6. QED
        BY <2>5 DEF i
<1>3. RaftSpec => [](Base /\ OwnVotes /\ LogInv)
    BY <1>1, LogInvHolds
<1>4. QED
    BY <1>2, <1>3, PTL
=============================================================================
