------------------------------ MODULE Election ------------------------------
(***************************************************************************)
(* Leader election of src/raft/election.go: the election timer, the        *)
(* RequestVote handler, the goroutine that receives each vote, and the     *)
(* (term, vote) pair that src/raft/persistence.go keeps on disk.  A step   *)
(* is one critical section of rf.mu.  Logs appear only as the "tip" a      *)
(* candidate advertises and the verdict of isLogUpToDate; module Raft      *)
(* instantiates both.                                                      *)
(***************************************************************************)
EXTENDS Naturals, FiniteSets, Sequences

CONSTANTS
    Server,         \* the members, the same for every node (rf.peers + rf.id)
    Nil,            \* votedFor = ""
    LogTip,         \* what a candidate can say of the end of its log
    MaxTerm,        \* bound: no election is started beyond this term
    MaxElections,   \* bound: elections started, all servers together
    MaxRestarts,    \* bound: process restarts, all servers together
    MaxDiskFaults,  \* bound: failed calls of SaveRaftState
    StaleReplies    \* TRUE: a reply may be handled however late it comes, as
                    \* in the code.  FALSE: an environment in which a caller
                    \* gets a reply only while it is in the term of the call

ASSUME ServerAssumption == IsFiniteSet(Server) /\ Server # {}
ASSUME NilAssumption    == Nil \notin Server
ASSUME BoundsAssumption == /\ MaxTerm \in Nat
                           /\ MaxElections \in Nat
                           /\ MaxRestarts \in Nat
                           /\ MaxDiskFaults \in Nat
ASSUME StaleAssumption  == StaleReplies \in BOOLEAN

VARIABLES
    currentTerm, votedFor, state,  \* the fields of Raft, in memory
    saved,       \* saved[n]: the pair in n's raft_state bucket
    timer,       \* "expired": the timer loop is between its test and StartElection
    votes,       \* votes[n][t]: the votes map closed over by n's election for t
    voteReqs,    \* RequestVote calls not yet handled
    voteReps,    \* RequestVote replies not yet handled
    ballots,     \* history: every vote cast, self-votes included
    elected,     \* history: who became leader, and in which term
    elections, restarts, diskFaults  \* counters of what is bounded

electionVars == <<currentTerm, votedFor, state, saved, timer, votes, voteReqs,
                  voteReps, ballots, elected, elections, restarts, diskFaults>>
-----------------------------------------------------------------------------
Terms == 0..MaxTerm
State == {"Follower", "Candidate", "Leader"}
Durable == [term : Terms, vote : Server \cup {Nil}]

VoteRequest ==
    [from : Server, to : Server, term : Terms, tip : LogTip, waiting : BOOLEAN]

VoteReply ==
    [from : Server, to : Server, term : Terms, replyTerm : Terms, granted : BOOLEAN]

\* rf.peers of n.
AllServers(n) == Server       \* mutant: n is in its own list of peers
Peers(n) == Server \ {n}

\* votesNeeded of StartElection; len(rf.peers)+1 is the number of servers.
AllVotes == Cardinality(Server)   \* mutant: a majority is not enough
VotesNeeded == Cardinality(Server) \div 2 + 1

Pair(t, v) == [term |-> t, vote |-> v]

\* Mutant of Persist: only the first of the calls a handler makes is there.
PersistFirst(n, writes) ==
    /\ saved' = IF writes = << >> THEN saved ELSE [saved EXCEPT ![n] = writes[1]]
    /\ UNCHANGED diskFaults

\* The calls of SaveRaftState by n, in order.  A failed call is logged
\* and ignored, so what is on disk is the last write that succeeded.
Persist(n, writes) ==
    \E lost \in 0..Len(writes) :
        /\ diskFaults + lost <= MaxDiskFaults
        /\ diskFaults' = diskFaults + lost
        /\ saved' = IF lost = Len(writes) THEN saved
                    ELSE [saved EXCEPT ![n] = writes[Len(writes) - lost]]

\* Mutant of StepDown: the new term is not saved.
StepDownUnsaved(n, t) ==
    /\ currentTerm' = [currentTerm EXCEPT ![n] = t]
    /\ state' = [state EXCEPT ![n] = "Follower"]
    /\ votedFor' = [votedFor EXCEPT ![n] = Nil]
    /\ UNCHANGED <<saved, diskFaults>>

\* n learns of the higher term t: follower, no vote, saved.
StepDown(n, t) ==
    /\ currentTerm' = [currentTerm EXCEPT ![n] = t]
    /\ state' = [state EXCEPT ![n] = "Follower"]
    /\ votedFor' = [votedFor EXCEPT ![n] = Nil]
    /\ Persist(n, <<Pair(t, Nil)>>)

\* LoadRaftState of n's file.
LoadedTermOnly(n) == Pair(saved[n].term, Nil)   \* mutant: the vote is not read
LoadRaftState(n) == saved[n]

\* A server that has adopted the candidate's term gives its vote if it has none,
\* or repeats it, and only to a candidate whose log is not behind its own.
GivesAnyVote(voted, cand, upToDate) == upToDate   \* mutant: votedFor not tested
GivesVote(voted, cand, upToDate) == voted \in {Nil, cand} /\ upToDate
-----------------------------------------------------------------------------
\* LoadRaftState of a data file that does not exist yet, on every server.
ElectionInit ==
    /\ currentTerm = [n \in Server |-> 0]
    /\ votedFor = [n \in Server |-> Nil]
    /\ state = [n \in Server |-> "Follower"]
    /\ saved = [n \in Server |-> Pair(0, Nil)]
    /\ timer = [n \in Server |-> "sleeping"]
    /\ votes = [n \in Server |-> [t \in Terms |-> {}]]
    /\ voteReqs = {}
    /\ voteReps = {}
    /\ ballots = {}
    /\ elected = {}
    /\ elections = 0
    /\ restarts = 0
    /\ diskFaults = 0

\* runElectionTimer finds the time out passed and n not leader, and unlocks.
\* Elapsed time is abstracted: the test on lastHeartbeat may come out either way.
TimerExpires(n) ==
    /\ timer[n] = "sleeping"
    /\ state[n] # "Leader"
    /\ currentTerm[n] < MaxTerm /\ elections < MaxElections
    /\ timer' = [timer EXCEPT ![n] = "expired"]
    /\ UNCHANGED <<currentTerm, votedFor, state, saved, votes, voteReqs,
                   voteReps, ballots, elected, elections, restarts, diskFaults>>

\* StartElection takes the lock again and looks at nothing: whatever happened
\* since the test, n becomes a candidate.  tip is the end of its log.
StartElection(n, tip) ==
    LET term == currentTerm[n] + 1
    IN  /\ timer[n] = "expired"
        /\ term <= MaxTerm /\ elections < MaxElections
        /\ elections' = elections + 1
        /\ timer' = [timer EXCEPT ![n] = "sleeping"]
        /\ state' = [state EXCEPT ![n] = "Candidate"]
        /\ currentTerm' = [currentTerm EXCEPT ![n] = term]
        /\ votedFor' = [votedFor EXCEPT ![n] = n]
        /\ Persist(n, <<Pair(term, n)>>)
        /\ votes' = [votes EXCEPT ![n][term] = {n}]
        /\ voteReqs' = voteReqs \cup
              {[from |-> n, to |-> p, term |-> term, tip |-> tip, waiting |-> TRUE] :
                  p \in Peers(n)}
        /\ ballots' = ballots \cup {[voter |-> n, term |-> term, cand |-> n]}
        /\ UNCHANGED <<voteReps, elected, restarts>>

\* The RequestVote handler at q.to.  upToDate is the verdict of isLogUpToDate.
\* The term is adopted, and saved, before the vote is decided, and saved again
\* with the vote.  A caller that has restarted since is not waiting for a reply,
\* and a refusal without a newer term, which no caller acts on, is not kept.
HandleRequestVote(q, upToDate) ==
    LET n     == q.to
        newer == q.term > currentTerm[n]
        term  == IF newer THEN q.term ELSE currentTerm[n]
        voted == IF newer THEN Nil ELSE votedFor[n]
        grant == q.term = term /\ GivesVote(voted, q.from, upToDate)
        step  == IF newer THEN <<Pair(term, Nil)>> ELSE << >>
        vote  == IF grant THEN <<Pair(term, q.from)>> ELSE << >>
        noted == q.waiting /\ (grant \/ term > q.term)
    IN  /\ q \in voteReqs
        /\ voteReqs' = voteReqs \ {q}
        /\ currentTerm' = [currentTerm EXCEPT ![n] = term]
        /\ state' = [state EXCEPT ![n] = IF newer \/ grant THEN "Follower" ELSE @]
        /\ votedFor' = [votedFor EXCEPT ![n] = IF grant THEN q.from ELSE voted]
        /\ Persist(n, step \o vote)
        /\ voteReps' = IF noted
                       THEN voteReps \cup {[from |-> n, to |-> q.from, term |-> q.term,
                                            replyTerm |-> term, granted |-> grant]}
                       ELSE voteReps
        /\ ballots' = IF grant
                      THEN ballots \cup {[voter |-> n, term |-> term, cand |-> q.from]}
                      ELSE ballots
        /\ UNCHANGED <<timer, votes, elected, elections, restarts>>

\* The conditions under which a reply of a call made in term t reaches n.
Reaches(n, t) == StaleReplies \/ currentTerm[n] = t

\* Whether the reply r is a vote.
AnyReplyIsVote(r) == TRUE   \* mutant: refusals are counted
IsVote(r) == r.granted

\* The goroutine of StartElection that asked r.from has the lock.  It tests the
\* state, not that the election it belongs to is the current one.
VoteReplyIgnored(r) ==
    /\ \/ state[r.to] # "Candidate"
       \/ r.replyTerm <= currentTerm[r.to] /\ ~IsVote(r)
    /\ UNCHANGED <<currentTerm, votedFor, state, saved, votes, elected, diskFaults>>

VoteReplyNewerTerm(r) ==
    /\ state[r.to] = "Candidate"
    /\ r.replyTerm > currentTerm[r.to]
    /\ StepDown(r.to, r.replyTerm)
    /\ UNCHANGED <<votes, elected>>

\* becomeLeader when the count of this election's map reaches votesNeeded.
VoteReplyCounted(r) ==
    LET n     == r.to
        count == votes[n][r.term] \cup {r.from}
        won   == Cardinality(count) >= VotesNeeded
    IN  /\ state[n] = "Candidate"
        /\ r.replyTerm <= currentTerm[n]
        /\ IsVote(r)
        /\ votes' = [votes EXCEPT ![n][r.term] = count]
        /\ state' = [state EXCEPT ![n] = IF won THEN "Leader" ELSE @]
        /\ elected' = IF won
                      THEN elected \cup {[term |-> currentTerm[n], leader |-> n]}
                      ELSE elected
        /\ UNCHANGED <<currentTerm, votedFor, saved, diskFaults>>

HandleVoteReply(r) ==
    /\ r \in voteReps
    /\ Reaches(r.to, r.term)
    /\ voteReps' = voteReps \ {r}
    /\ VoteReplyIgnored(r) \/ VoteReplyNewerTerm(r) \/ VoteReplyCounted(r)
    /\ UNCHANGED <<timer, voteReqs, ballots, elections, restarts>>

\* An AppendEntries request, or at a leader the reply to one, carries the
\* higher term t.  The term is one that some server has reached.
ObserveTerm(n, t) ==
    /\ t > currentTerm[n]
    /\ \E m \in Server : currentTerm[m] >= t
    /\ StepDown(n, t)
    /\ UNCHANGED <<timer, votes, voteReqs, voteReps, ballots, elected, elections,
                   restarts>>

\* n's process ends and NewRaft runs again: memory is what LoadRaftState reads,
\* the goroutines of its elections are gone, its requests may still arrive.
RestartElection(n) ==
    /\ restarts < MaxRestarts
    /\ restarts' = restarts + 1
    /\ currentTerm' = [currentTerm EXCEPT ![n] = LoadRaftState(n).term]
    /\ votedFor' = [votedFor EXCEPT ![n] = LoadRaftState(n).vote]
    /\ state' = [state EXCEPT ![n] = "Follower"]
    /\ timer' = [timer EXCEPT ![n] = "sleeping"]
    /\ votes' = [votes EXCEPT ![n] = [t \in Terms |-> {}]]
    /\ voteReqs' = {[q EXCEPT !.waiting = @ /\ q.from # n] : q \in voteReqs}
    /\ voteReps' = {r \in voteReps : r.to # n}
    /\ UNCHANGED <<saved, ballots, elected, elections, diskFaults>>

ElectionNext ==
    \/ \E n \in Server : TimerExpires(n)
    \/ \E n \in Server, tip \in LogTip : StartElection(n, tip)
    \/ \E q \in voteReqs, upToDate \in BOOLEAN : HandleRequestVote(q, upToDate)
    \/ \E r \in voteReps : HandleVoteReply(r)
    \/ \E n \in Server, t \in Terms : ObserveTerm(n, t)
    \/ \E n \in Server : RestartElection(n)

ElectionSpec == ElectionInit /\ [][ElectionNext]_electionVars
-----------------------------------------------------------------------------
\* Every variable has the values its Go counterpart can have, calls go between
\* different servers, and the counters stay within their bounds.
ElectionTypeOK ==
    /\ currentTerm \in [Server -> Terms]
    /\ votedFor \in [Server -> Server \cup {Nil}]
    /\ state \in [Server -> State]
    /\ saved \in [Server -> Durable]
    /\ timer \in [Server -> {"sleeping", "expired"}]
    /\ votes \in [Server -> [Terms -> SUBSET Server]]
    /\ voteReqs \subseteq VoteRequest
    /\ voteReps \subseteq VoteReply
    /\ \A m \in voteReqs \cup voteReps : m.from # m.to
    /\ ballots \subseteq [voter : Server, term : Terms, cand : Server]
    /\ elected \subseteq [term : Terms, leader : Server]
    /\ elections \in 0..MaxElections
    /\ restarts \in 0..MaxRestarts
    /\ diskFaults \in 0..MaxDiskFaults

\* A server votes for at most one candidate in a term, restarts included:
\* "Nodes cannot vote twice in same term" (PERSISTENCE_INTEGRATION.md).
VoteOnce ==
    \A b, c \in ballots : b.voter = c.voter /\ b.term = c.term => b.cand = c.cand

\* A vote is on the voter's disk before the reply that grants it exists, and
\* stays there until the voter has moved on to a later term.
GrantDurable ==
    \A r \in voteReps : r.granted =>
        \/ saved[r.from].term > r.term
        \/ saved[r.from] = Pair(r.term, r.to)

\* At most one leader per term, over the whole history: the safety property of
\* elections, "Split-brain prevention via majority quorum" (src/routes/index.tsx).
ElectionSafety ==
    \A e, f \in elected : e.term = f.term => e.leader = f.leader

\* c has the votes of a majority for term t.
Won(c, t) ==
    2 * Cardinality({v \in Server : [voter |-> v, term |-> t, cand |-> c] \in ballots})
        > Cardinality(Server)

\* Whoever became leader had a majority behind it in that term or, because late
\* replies are counted, in an earlier one of its elections; no server ever
\* leads without having won an election.
LeaderBacked ==
    \A e \in elected : \E t \in 1..e.term : Won(e.leader, t)

\* A candidate that counts a majority for its election is leader by then: no
\* election is won unnoticed.  TESTING.md says so of one server as well ("Node
\* becomes leader (single-node cluster)"); there the code makes it false, since
\* the votes are compared with votesNeeded only when a reply has arrived.
MajorityLeads ==
    \A n \in Server : state[n] = "Candidate" =>
        2 * Cardinality(votes[n][currentTerm[n]]) <= Cardinality(Server)

\* Neither a message, a late reply nor a restart takes a server back to an
\* earlier term, in which it could vote or lead again.
TermMonotone ==
    [][\A n \in Server : currentTerm'[n] >= currentTerm[n]]_electionVars

\* Who leads which term, seen from outside: what the HTTP handlers and the browser
\* console are built on.  A server leads only a term that nobody else leads, and a
\* new term always finds it a follower, through elections, messages and restarts.
SeenAsRoles ==
    INSTANCE Roles WITH term <- currentTerm, Term <- Terms,
                        leads <- [n \in Server |-> state[n] = "Leader"]
RolesSpec == SeenAsRoles!RolesSpec
=============================================================================
