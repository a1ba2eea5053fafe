-------------------------------- MODULE Raft --------------------------------
(***************************************************************************)
(* Log replication of src/raft/log.go on top of the elections of module    *)
(* Election: StartCommand, the AppendEntries calls of runHeartbeatLoop,    *)
(* the AppendEntries handler, updateCommitIndex, applyLogs, and the log    *)
(* bucket on disk that NewRaft reads back.  Nothing in the repository      *)
(* calls GenerateSnapshot or InstallSnapshot, so lastIncludedIndex is 0    *)
(* here and an index is a position in rf.log.                              *)
(***************************************************************************)
EXTENDS Election, Storage, SequencesExt

CONSTANTS
    Command,      \* what clients submit
    MaxLog,       \* bound: length of a leader's log
    MaxLosses,    \* bound: AppendEntries calls that fail
    MaxInFlight   \* bound: AppendEntries calls under way, all servers together

ASSUME LogAssumption == /\ MaxLog \in Nat
                        /\ MaxLosses \in Nat
                        /\ MaxInFlight \in Nat \ {0}
                        /\ LogTip = [index : 0..MaxLog, term : Terms]

VARIABLES
    log,          \* log[n]: rf.log
    diskLog,      \* diskLog[n]: the log bucket
    commitIndex, lastApplied,
    applied,      \* applied[n]: what was sent to applyCh since n started
    nextIndex, matchIndex,
    appendReqs, appendReps,  \* AppendEntries calls and replies not yet handled
    losses,       \* counter of the calls that failed
    ledger,       \* history: ledger[t] is the log of the leader of term t, as
                  \* long as it has been
    acked         \* history: acked[n][t] is how much of ledger[t] server n has
                  \* acknowledged in term t

logVars   == <<log, diskLog>>
applyVars == <<commitIndex, lastApplied, applied>>
peerVars  == <<nextIndex, matchIndex>>
rpcVars   == <<appendReqs, appendReps, losses>>
history   == <<ledger, acked>>
raftVars  == <<logVars, applyVars, peerVars, rpcVars, history>>
vars      == <<electionVars, raftVars>>
-----------------------------------------------------------------------------
Entry == [index : 1..MaxLog, term : Terms, cmd : Command]

AppendRequest ==
    [from : Server, to : Server, slot : 1..MaxInFlight, term : Terms,
     prevIndex : Nat, prevTerm : Terms, entries : Seq(Entry),
     leaderCommit : Nat, waiting : BOOLEAN]

AppendReply ==
    [from : Server, to : Server, slot : 1..MaxInFlight, term : Terms,
     match : Nat, replyTerm : Terms, success : BOOLEAN]

Lesser(i, j) == IF i < j THEN i ELSE j
Greater(i, j) == IF i < j THEN j ELSE i

TermAt(l, i) == IF i \in 1..Len(l) THEN l[i].term ELSE 0

\* lastLogIndex and lastLogTerm, from the last entry itself, not its position.
Tip(l) == IF l = << >> THEN [index |-> 0, term |-> 0]
          ELSE [index |-> Last(l).index, term |-> Last(l).term]

\* Mutants of IsLogUpToDate: no test, and the term left out of it.
AlwaysUpToDate(l, tip) == TRUE
LongerIsUpToDate(l, tip) == tip.index >= Tip(l).index

\* isLogUpToDate of a server with log l, asked about a candidate's tip.
IsLogUpToDate(l, tip) ==
    IF tip.term # Tip(l).term THEN tip.term > Tip(l).term
                              ELSE tip.index >= Tip(l).index

\* Mutant of Merge: entries already there are kept whatever their term.
MergeKeeping(l, prev, entries) ==
    IF prev + Len(entries) <= Len(l) THEN l
    ELSE l \o SubSeq(entries, Len(l) - prev + 1, Len(entries))

\* The log after the entry loop of AppendEntries: the first entry that is new
\* or differs in term replaces the rest, those before it are left alone.
Merge(l, prev, entries) ==
    LET differs == {i \in 1..Len(entries) :
                       prev + i > Len(l) \/ l[prev + i].term # entries[i].term}
        first   == CHOOSE i \in differs : \A j \in differs : i <= j
    IN  IF differs = {} THEN l
        ELSE SubSeq(l, 1, prev + first - 1) \o SubSeq(entries, first, Len(entries))

\* Mutant of MajorityIndex: the last of the sorted indexes.
HighestIndex(match) ==
    CHOOSE v \in {match[s] : s \in Server} : \A s \in Server : match[s] <= v

\* matchIndexes[n/2] once sorted: the value with at most n \div 2 smaller ones
\* and more than n \div 2 that do not exceed it.
MajorityIndex(match) ==
    CHOOSE v \in {match[s] : s \in Server} :
        /\ Cardinality({s \in Server : match[s] < v}) <= Cardinality(Server) \div 2
        /\ Cardinality({s \in Server : match[s] <= v}) > Cardinality(Server) \div 2

\* Where applyLogs goes on: lastApplied is incremented before it is used.
LastOnceMore(n) == IF lastApplied[n] = 0 THEN 1 ELSE lastApplied[n]   \* mutant
FirstToApply(n) == lastApplied[n] + 1

\* applyLogs, with the log and commit index n has by then: every position up to
\* the commit index counts as applied, those beyond the log deliver nothing.
ApplyUpTo(n, l, commit) ==
    /\ commitIndex' = [commitIndex EXCEPT ![n] = commit]
    /\ IF commit > lastApplied[n]
       THEN /\ lastApplied' = [lastApplied EXCEPT ![n] = commit]
            /\ applied' = [applied EXCEPT ![n] =
                  @ \o SubSeq(l, FirstToApply(n), Lesser(commit, Len(l)))]
       ELSE UNCHANGED <<lastApplied, applied>>
-----------------------------------------------------------------------------
RaftInit ==
    /\ ElectionInit
    /\ log = [n \in Server |-> << >>]
    /\ diskLog = [n \in Server |-> << >>]
    /\ commitIndex = [n \in Server |-> 0]
    /\ lastApplied = [n \in Server |-> 0]
    /\ applied = [n \in Server |-> << >>]
    /\ nextIndex = [n \in Server |-> [p \in Server |-> 1]]
    /\ matchIndex = [n \in Server |-> [p \in Server |-> 0]]
    /\ appendReqs = {}
    /\ appendReps = {}
    /\ losses = 0
    /\ ledger = [t \in Terms |-> << >>]
    /\ acked = [n \in Server |-> [t \in Terms |-> 0]]

\* The election steps, with the candidate's log tip and the voter's verdict.
TimeOut(n) ==
    /\ TimerExpires(n)
    /\ UNCHANGED raftVars

Campaign(n) ==
    /\ StartElection(n, Tip(log[n]))
    /\ UNCHANGED raftVars

RequestVote(q) ==
    /\ HandleRequestVote(q, IsLogUpToDate(log[q.to], q.tip))
    /\ UNCHANGED raftVars

\* becomeLeader also resets what the leader believes of its peers.
ReceiveVote(r) ==
    LET n       == r.to
        becomes == state[n] # "Leader" /\ state'[n] = "Leader"
    IN  /\ HandleVoteReply(r)
        /\ nextIndex' = IF becomes
              THEN [nextIndex EXCEPT ![n] = [p \in Server |-> Len(log[n]) + 1]]
              ELSE nextIndex
        /\ matchIndex' = IF becomes
              THEN [matchIndex EXCEPT ![n] = [p \in Server |-> 0]]
              ELSE matchIndex
        /\ ledger' = IF becomes THEN [ledger EXCEPT ![currentTerm[n]] = log[n]]
                     ELSE ledger
        /\ UNCHANGED <<logVars, applyVars, rpcVars, acked>>

\* StartCommand appends at the leader, in memory and on disk.
StartCommand(n, cmd) ==
    LET entry == [index |-> Len(log[n]) + 1, term |-> currentTerm[n], cmd |-> cmd]
    IN  /\ state[n] = "Leader"
        /\ Len(log[n]) < MaxLog
        /\ log' = [log EXCEPT ![n] = Append(@, entry)]
        /\ diskLog' = [diskLog EXCEPT ![n] = AppendLogEntry(@, entry)]
        /\ ledger' = [ledger EXCEPT ![currentTerm[n]] = Append(@, entry)]
        /\ acked' = [acked EXCEPT ![n][currentTerm[n]] = Len(log[n]) + 1]
        /\ UNCHANGED <<electionVars, applyVars, peerVars, rpcVars>>

\* Two calls with the same arguments are two calls: each has its own slot.
FreeSlots == (1..MaxInFlight) \ {x.slot : x \in appendReqs \cup appendReps}

\* A goroutine of runHeartbeatLoop: whatever follows nextIndex goes to p.
SendAppend(n, p) ==
    LET prev == nextIndex[n][p] - 1
    IN  /\ state[n] = "Leader"
        /\ n # p
        /\ FreeSlots # {}
        /\ appendReqs' = appendReqs \cup
              {[from |-> n, to |-> p,
                slot |-> CHOOSE i \in FreeSlots : \A j \in FreeSlots : i <= j,
                term |-> currentTerm[n], prevIndex |-> prev,
                prevTerm |-> TermAt(log[n], prev),
                entries |-> SubSeq(log[n], prev + 1, Len(log[n])),
                leaderCommit |-> commitIndex[n], waiting |-> TRUE]}
        /\ UNCHANGED <<electionVars, logVars, applyVars, peerVars, appendReps, losses,
                       history>>

\* The reply to q, if its caller still runs.
Answer(q, replyTerm, success) ==
    /\ appendReqs' = appendReqs \ {q}
    /\ appendReps' =
          IF q.waiting
          THEN appendReps \cup
                 {[from |-> q.to, to |-> q.from, slot |-> q.slot, term |-> q.term,
                   match |-> q.prevIndex + Len(q.entries),
                   replyTerm |-> replyTerm, success |-> success]}
          ELSE appendReps

\* Mutants of AdoptTerm: the vote of the old term is kept; nothing is saved.
AdoptTermWithVote(q) ==
    IF q.term > currentTerm[q.to]
    THEN /\ currentTerm' = [currentTerm EXCEPT ![q.to] = q.term]
         /\ state' = [state EXCEPT ![q.to] = "Follower"]
         /\ Persist(q.to, <<Pair(q.term, votedFor[q.to])>>)
         /\ UNCHANGED <<votedFor, timer, votes, voteReqs, voteReps, ballots, elected,
                        elections, restarts>>
    ELSE UNCHANGED electionVars

AdoptTermUnsaved(q) ==
    IF q.term > currentTerm[q.to]
    THEN /\ StepDownUnsaved(q.to, q.term)
         /\ UNCHANGED <<timer, votes, voteReqs, voteReps, ballots, elected,
                        elections, restarts>>
    ELSE UNCHANGED electionVars

\* The first lines of the AppendEntries handler: a higher term is adopted.  An
\* equal term leaves the state alone, a candidate stays a candidate.
AdoptTerm(q) ==
    IF q.term > currentTerm[q.to]
    THEN /\ StepDown(q.to, q.term)
         /\ UNCHANGED <<timer, votes, voteReqs, voteReps, ballots, elected,
                        elections, restarts>>
    ELSE UNCHANGED electionVars

AppendOutdated(q) ==
    /\ q.term < currentTerm[q.to]
    /\ UNCHANGED electionVars
    /\ Answer(q, currentTerm[q.to], FALSE)
    /\ UNCHANGED <<logVars, applyVars, history>>

\* The entry before the new ones is missing.
AppendGap(q) ==
    /\ q.term >= currentTerm[q.to]
    /\ q.prevIndex > Len(log[q.to])
    /\ AdoptTerm(q)
    /\ Answer(q, q.term, FALSE)
    /\ UNCHANGED <<logVars, applyVars, history>>

\* The entry before the new ones has another term: it goes, and so does what
\* follows it; on disk TruncateLog runs for every index that is left.
AppendConflict(q) ==
    LET n == q.to
    IN  /\ q.term >= currentTerm[n]
        /\ q.prevIndex \in 1..Len(log[n])
        /\ log[n][q.prevIndex].term # q.prevTerm
        /\ AdoptTerm(q)
        /\ Answer(q, q.term, FALSE)
        /\ log' = [log EXCEPT ![n] = SubSeq(@, 1, q.prevIndex - 1)]
        /\ diskLog' = [diskLog EXCEPT ![n] = TruncateFrom(@, q.prevIndex - 1)]
        /\ UNCHANGED <<applyVars, history>>

\* Whether the commit index is moved to what the leader has sent.
AlwaysFollows(q) == TRUE      \* mutant: whatever the leader sent is taken
FollowsBeyond(q) ==           \* mutant: compared with what the call brings
    q.leaderCommit > commitIndex[q.to] + q.prevIndex + Len(q.entries)
CommitFollows(q) == q.leaderCommit > commitIndex[q.to]

\* The new entries are merged into the log and all of them appended to the
\* bucket; the commit index follows the leader's, and applyLogs runs.
AppendAccepted(q) ==
    LET n       == q.to
        merged  == Merge(log[n], q.prevIndex, q.entries)
        lastNew == q.prevIndex + Len(q.entries)
    IN  /\ q.term >= currentTerm[n]
        /\ \/ q.prevIndex = 0
           \/ q.prevIndex \in 1..Len(log[n]) /\ log[n][q.prevIndex].term = q.prevTerm
        /\ AdoptTerm(q)
        /\ Answer(q, q.term, TRUE)
        /\ log' = [log EXCEPT ![n] = merged]
        /\ diskLog' = [diskLog EXCEPT ![n] = AppendLogEntries(@, q.entries)]
        /\ acked' = [acked EXCEPT ![n][q.term] = Greater(@, lastNew)]
        /\ UNCHANGED ledger
        /\ IF CommitFollows(q)
           THEN ApplyUpTo(n, merged, Lesser(q.leaderCommit, lastNew))
           ELSE UNCHANGED applyVars

AppendEntries(q) ==
    /\ q \in appendReqs
    /\ \/ AppendOutdated(q)
       \/ AppendGap(q)
       \/ AppendConflict(q)
       \/ AppendAccepted(q)
    /\ UNCHANGED <<peerVars, losses>>
-----------------------------------------------------------------------------
\* updateCommitIndex of leader n, its matchIndex map being match.
UpdateCommitIndex(n, match) ==
    LET majority == MajorityIndex([match EXCEPT ![n] = Len(log[n])])
    IN  IF /\ majority > commitIndex[n]
           /\ TermAt(log[n], majority) = currentTerm[n]
        THEN ApplyUpTo(n, log[n], majority)
        ELSE UNCHANGED applyVars

\* The goroutine of the heartbeat loop gets its reply.  It tests the state, not
\* that the node is still in the term of the call.
AckIgnored(r) ==
    /\ state[r.to] # "Leader"
    /\ UNCHANGED <<electionVars, peerVars, applyVars>>

AckNewerTerm(r) ==
    /\ state[r.to] = "Leader"
    /\ r.replyTerm > currentTerm[r.to]
    /\ StepDown(r.to, r.replyTerm)
    /\ UNCHANGED <<timer, votes, voteReqs, voteReps, ballots, elected, elections,
                   restarts, peerVars, applyVars>>

\* The index a success stands for is that of the call, not of the log by now.
AckOfPresentLog(r) == Len(log[r.to])   \* mutant
AckOfCall(r) == r.match

\* nextIndex once everything up to match is known to be there.
NextIsMatch(match) == match   \* mutant: off by one
NextAfter(match) == match + 1

AckSuccess(r) ==
    LET n     == r.to
        match == AckOfCall(r)
    IN  /\ state[n] = "Leader"
        /\ r.replyTerm <= currentTerm[n]
        /\ r.success
        /\ matchIndex' = [matchIndex EXCEPT ![n][r.from] = match]
        /\ nextIndex' = [nextIndex EXCEPT ![n][r.from] = NextAfter(match)]
        /\ UpdateCommitIndex(n, [matchIndex[n] EXCEPT ![r.from] = match])
        /\ UNCHANGED electionVars

AckFailure(r) ==
    /\ state[r.to] = "Leader"
    /\ r.replyTerm <= currentTerm[r.to]
    /\ ~r.success
    /\ nextIndex' = [nextIndex EXCEPT ![r.to][r.from] = IF @ > 1 THEN @ - 1 ELSE @]
    /\ UNCHANGED <<electionVars, matchIndex, applyVars>>

ReceiveAck(r) ==
    /\ r \in appendReps
    /\ Reaches(r.to, r.term)
    /\ appendReps' = appendReps \ {r}
    /\ AckIgnored(r) \/ AckNewerTerm(r) \/ AckSuccess(r) \/ AckFailure(r)
    /\ UNCHANGED <<logVars, appendReqs, losses, history>>

\* A call fails: the request, or the reply to it, never arrives.
LoseRequest(q) ==
    /\ losses < MaxLosses
    /\ losses' = losses + 1
    /\ appendReqs' = appendReqs \ {q}
    /\ UNCHANGED <<electionVars, logVars, applyVars, peerVars, appendReps, history>>

LoseReply(r) ==
    /\ losses < MaxLosses
    /\ losses' = losses + 1
    /\ appendReps' = appendReps \ {r}
    /\ UNCHANGED <<electionVars, logVars, applyVars, peerVars, appendReqs, history>>

\* NewRaft after the process ended: the log is what the bucket holds.
Restart(n) ==
    LET loaded == GetLogEntries(diskLog[n], 1, Len(diskLog[n]))
    IN  /\ RestartElection(n)
        /\ log' = [log EXCEPT ![n] = loaded]
        /\ commitIndex' = [commitIndex EXCEPT ![n] = 0]
        /\ lastApplied' = [lastApplied EXCEPT ![n] = 0]
        /\ applied' = [applied EXCEPT ![n] = << >>]
        /\ nextIndex' = [nextIndex EXCEPT ![n] = [p \in Server |-> Len(loaded) + 1]]
        /\ matchIndex' = [matchIndex EXCEPT ![n] = [p \in Server |-> 0]]
        /\ appendReqs' = {[q EXCEPT !.waiting = @ /\ q.from # n] : q \in appendReqs}
        /\ appendReps' = {r \in appendReps : r.to # n}
        /\ UNCHANGED <<diskLog, losses, history>>

RaftNext ==
    \/ \E n \in Server : TimeOut(n)
    \/ \E n \in Server : Campaign(n)
    \/ \E q \in voteReqs : RequestVote(q)
    \/ \E r \in voteReps : ReceiveVote(r)
    \/ \E n \in Server, cmd \in Command : StartCommand(n, cmd)
    \/ \E n, p \in Server : SendAppend(n, p)
    \/ \E q \in appendReqs : AppendEntries(q)
    \/ \E r \in appendReps : ReceiveAck(r)
    \/ \E q \in appendReqs : LoseRequest(q)
    \/ \E r \in appendReps : LoseReply(r)
    \/ \E n \in Server : Restart(n)

RaftSpec == RaftInit /\ [][RaftNext]_vars
-----------------------------------------------------------------------------
\* Every variable has the values its Go counterpart can have.
RaftTypeOK ==
    /\ ElectionTypeOK
    /\ log \in [Server -> Seq(Entry)]
    /\ diskLog \in [Server -> Seq(Entry)]
    /\ commitIndex \in [Server -> Nat]
    /\ lastApplied \in [Server -> Nat]
    /\ applied \in [Server -> Seq(Entry)]
    /\ nextIndex \in [Server -> [Server -> Nat \ {0}]]
    /\ matchIndex \in [Server -> [Server -> Nat]]
    /\ appendReqs \subseteq AppendRequest
    /\ appendReps \subseteq AppendReply
    /\ losses \in 0..MaxLosses
    /\ ledger \in [Terms -> Seq(Entry)]
    /\ acked \in [Server -> [Terms -> Nat]]

\* Two logs that agree on the term of an entry agree on everything up to it,
\* whatever the AppendEntries handler kept, cut and appended.
LogMatching ==
    \A m, n \in Server : \A i \in 1..Lesser(Len(log[m]), Len(log[n])) :
        log[m][i].term = log[n][i].term =>
            SubSeq(log[m], 1, i) = SubSeq(log[n], 1, i)

Committed(n) == SubSeq(log[n], 1, commitIndex[n])

\* A leader no server is ahead of has every entry any server knows committed:
\* votes are refused to candidates whose log is behind.
LeaderCompleteness ==
    \A l, n \in Server :
        state[l] = "Leader" /\ (\A m \in Server : currentTerm[m] <= currentTerm[l])
            => IsPrefix(Committed(n), log[l])

\* State machines are fed the same commands in the same order, without gaps
\* other than being behind: "No data loss" (README.md).
StateMachineSafety ==
    \A m, n \in Server :
        IsPrefix(applied[m], applied[n]) \/ IsPrefix(applied[n], applied[m])

Holders(n, i) ==
    {s \in Server : Len(log[s]) >= i /\ log[s][i] = log[n][i]}

\* "Commit index advances only when a log entry is replicated on a majority"
\* (README.md), and a majority goes on holding it.
CommitOnMajority ==
    \A n \in Server : \A i \in 1..commitIndex[n] :
        Len(log[n]) >= i /\ 2 * Cardinality(Holders(n, i)) > Cardinality(Server)

\* What a leader believes a peer of its term to hold, the peer holds.
MatchSound ==
    \A l, p \in Server :
        state[l] = "Leader" /\ l # p /\ currentTerm[p] = currentTerm[l] =>
            /\ matchIndex[l][p] <= Len(log[p])
            /\ SubSeq(log[p], 1, matchIndex[l][p]) = SubSeq(log[l], 1, matchIndex[l][p])

\* The commit index never goes back, although the handler assigns it without
\* comparing the new value with the old.
CommitMonotone ==
    [][\A n \in Server : commitIndex'[n] >= commitIndex[n]]_vars

\* A node that loses its memory never forgets a term it holds entries of: every
\* entry, in memory or on disk, is of a term that is on disk.
EntriesOfSavedTerms ==
    \A n \in Server :
        /\ \A i \in 1..Len(log[n]) : log[n][i].term <= saved[n].term
        /\ \A i \in 1..Len(diskLog[n]) : diskLog[n][i].term <= saved[n].term

\* After a crash a node has the log it had before: "Log entries survive crashes"
\* (PERSISTENCE_INTEGRATION.md).
LogSurvivesCrash ==
    [][\A n \in Server : Restart(n) => log'[n] = log[n]]_vars

\* What any node has delivered, as far as any has: the chosen log.
Longest == CHOOSE l \in {applied[n] : n \in Server} :
               \A n \in Server : Len(applied[n]) <= Len(l)

Abstract == INSTANCE ReplicatedLog WITH chosen <- Longest, delivered <- applied

\* The cluster behaves as one log, delivered to every state machine in order.
OneLog == Abstract!LogSpec

\* The system gives every peer its turn: a leader's heartbeat goroutines run, and
\* calls that are under way are handled or fail.
Fairness ==
    /\ \A p \in Server : SF_vars(\E n \in Server : SendAppend(n, p))
    /\ WF_vars(\E q \in appendReqs : AppendEntries(q))
    /\ WF_vars(\E r \in appendReps : ReceiveAck(r))

\* A command a leader has taken in its own term reaches every state machine, or
\* the leader is deposed; entries of earlier terms are promised nothing.
OwnEntriesApplied ==
    \A n \in Server : \A i \in 1..MaxLog :
        (state[n] = "Leader" /\ TermAt(log[n], i) = currentTerm[n])
            ~> (state[n] # "Leader" \/ \A p \in Server : lastApplied[p] >= i)
=============================================================================
