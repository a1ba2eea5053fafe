--------------------------- MODULE RaftCommitProofs ---------------------------
(***************************************************************************)
(* What is committed stays committed: why the servers of module Raft apply *)
(* the same entries in the same order, under the assumptions of module     *)
(* RaftLogProofs and, for updateCommitIndex, with an odd number of         *)
(* servers.  The argument looks at entries of a leader's own term: such an *)
(* entry is chosen once a majority has acknowledged it in that term, and   *)
(* doomed once a majority has left the term without.                       *)
(***************************************************************************)
EXTENDS RaftLogProofs

Quorums == {Q \in SUBSET Server : 2 * Cardinality(Q) > Cardinality(Server)}

\* Position i of the log that the leader of term t had, where t put it itself.
Own(t, i) == i \in 1..Len(ledger[t]) /\ ledger[t][i].term = t

Has(l, t, i) == i \in 1..Len(l) /\ l[i].term = t

Doomed(t, i) == \E Q \in Quorums : \A v \in Q : currentTerm[v] > t /\ acked[v][t] < i

Chosen(t, i) == Own(t, i) /\ \E Q \in Quorums : \A v \in Q : acked[v][t] >= i

\* What a server has acknowledged it keeps, unless it can never be chosen.
AckedKept ==
    \A n \in Server, t \in Terms, i \in Nat :
        1 <= i /\ i <= acked[n][t] /\ Own(t, i) => Has(log[n], t, i) \/ Doomed(t, i)

\* A leader has every own entry of every earlier leader that may be chosen.
LeadersComplete ==
    \A u \in Terms, t \in Terms, i \in Nat :
        Led(u) /\ t < u /\ Own(t, i) => Has(ledger[u], t, i) \/ Doomed(t, i)

\* The election of c for term t goes on.
Running(c, t) == state[c] = "Candidate" /\ currentTerm[c] = t /\ ~Led(t)

\* What a voter had acknowledged when it voted, the candidate has.
VotersKnown ==
    \A b \in ballots : Running(b.cand, b.term) =>
        \A t \in Terms, i \in Nat :
            t < b.term /\ 1 <= i /\ i <= acked[b.voter][t] /\ Own(t, i)
                => Has(log[b.cand], t, i) \/ Doomed(t, i)

\* A candidate's log does not change while its election goes on.
TipsTrue == \A q \in voteReqs : Running(q.from, q.term) => q.tip = Tip(log[q.from])

\* The first c entries of l are chosen, by a leader of a term up to u.
Sound(l, c, u) ==
    \/ c = 0
    \/ \E t \in Terms, j \in Nat : t <= u /\ c <= j /\ Chosen(t, j) /\ Agrees(l, ledger[t], c)

CommitsSound == \A n \in Server : Sound(log[n], commitIndex[n], currentTerm[n])

CallsSound ==
    \A q \in appendReqs : /\ Sound(ledger[q.term], q.leaderCommit, q.term)
                          /\ q.leaderCommit <= q.prevIndex + Len(q.entries)

\* What was applied is what is committed.
Delivered(n) ==
    /\ lastApplied[n] = commitIndex[n]
    /\ Len(applied[n]) = commitIndex[n]
    /\ Agrees(applied[n], log[n], commitIndex[n])

AppliedSound == \A n \in Server : Delivered(n)

CommitInv == /\ AckedKept /\ LeadersComplete /\ VotersKnown /\ TipsTrue
             /\ CommitsSound /\ CallsSound /\ AppliedSound

\* What is known already.
Known == Base /\ OwnVotes /\ LogInv
-----------------------------------------------------------------------------
(* What was doomed or chosen is so for good. *)

\* What every step does to terms, leaders and what is acknowledged: that grows only
\* in the present term.
Progress ==
    /\ \A n \in Server : currentTerm'[n] >= currentTerm[n]
    /\ Grows(ledger, ledger')
    /\ elected \subseteq elected'
    /\ \A n \in Server, t \in Terms :
          /\ acked'[n][t] >= acked[n][t]
          /\ acked'[n][t] # acked[n][t] => currentTerm'[n] = t

\* The types of what is added here.
LEMMA KnownTyped ==
    ASSUME Typed
    PROVE  /\ \A n \in Server : currentTerm[n] \in Terms /\ currentTerm[n] \in Nat
           /\ \A n \in Server, t \in Terms : acked[n][t] \in Nat
           /\ \A t \in Terms : t \in Nat /\ ledger[t] \in Seq(Entry) /\ Len(ledger[t]) \in Nat
           /\ \A n \in Server : log[n] \in Seq(Entry) /\ Len(log[n]) \in Nat
<1>1. \A n \in Server : currentTerm[n] \in Terms
    BY DEF Typed
<1>2. \A n \in Server, t \in Terms : acked[n][t] \in Nat
    BY DEF Typed
<1>3. \A t \in Terms : ledger[t] \in Seq(Entry) /\ Len(ledger[t]) \in Nat
    BY DEF Typed
<1>4. \A n \in Server : log[n] \in Seq(Entry) /\ Len(log[n]) \in Nat
    BY DEF Typed
<1>5. QED
    BY <1>1, <1>2, <1>3, <1>4, TermsNat

LEMMA KnownTypedNext ==
    ASSUME Typed'
    PROVE  /\ \A n \in Server : currentTerm'[n] \in Terms /\ currentTerm'[n] \in Nat
           /\ \A n \in Server, t \in Terms : acked'[n][t] \in Nat
           /\ \A t \in Terms : ledger'[t] \in Seq(Entry) /\ Len(ledger'[t]) \in Nat
           /\ \A n \in Server : log'[n] \in Seq(Entry) /\ Len(log'[n]) \in Nat
<1>1. \A n \in Server : currentTerm'[n] \in Terms
    BY DEF Typed
<1>2. \A n \in Server, t \in Terms : acked'[n][t] \in Nat
    BY DEF Typed
<1>3. \A t \in Terms : ledger'[t] \in Seq(Entry) /\ Len(ledger'[t]) \in Nat
    BY DEF Typed
<1>4. \A n \in Server : log'[n] \in Seq(Entry) /\ Len(log'[n]) \in Nat
    BY DEF Typed
<1>5. QED
    BY <1>1, <1>2, <1>3, <1>4, TermsNat

LEMMA DoomedStays ==
    ASSUME Typed, Typed', Progress, NEW t \in Terms, NEW i \in Nat, Doomed(t, i)
    PROVE  Doomed(t, i)'
<1>1. PICK Q \in Quorums : \A v \in Q : currentTerm[v] > t /\ acked[v][t] < i
    BY DEF Doomed
<1>2. Q \subseteq Server /\ Q \in Quorums'
    BY DEF Quorums
<1>3. ASSUME NEW v \in Q
      PROVE  currentTerm'[v] > t /\ acked'[v][t] < i
    <2>1. /\ currentTerm[v] \in Nat /\ currentTerm'[v] \in Nat /\ t \in Nat
          /\ acked[v][t] \in Nat /\ acked'[v][t] \in Nat
        BY <1>2, KnownTyped, KnownTypedNext
    <2>2. /\ currentTerm'[v] >= currentTerm[v]
          /\ acked'[v][t] # acked[v][t] => currentTerm'[v] = t
        BY <1>2 DEF Progress
    <2>3. QED
        BY <1>1, <2>1, <2>2
<1>4. QED
    BY <1>2, <1>3 DEF Doomed

LEMMA OwnStays ==
    ASSUME Typed, Typed', Progress, NEW t \in Terms, NEW i \in Nat
    PROVE  /\ Own(t, i) => Own(t, i)'
           /\ Own(t, i)' /\ i <= Len(ledger[t]) => Own(t, i)
<1>1. Agrees(ledger'[t], ledger[t], Len(ledger[t]))
    BY DEF Progress, Grows
<1>2. Len(ledger[t]) \in Nat /\ Len(ledger'[t]) \in Nat
    BY KnownTyped, KnownTypedNext
<1>3. QED
    BY <1>1, <1>2 DEF Agrees, Own

LEMMA ChosenStays ==
    ASSUME Typed, Typed', Progress, NEW t \in Terms, NEW i \in Nat, Chosen(t, i)
    PROVE  Chosen(t, i)'
<1>1. PICK Q \in Quorums : \A v \in Q : acked[v][t] >= i
    BY DEF Chosen
<1>2. Q \subseteq Server /\ Q \in Quorums'
    BY DEF Quorums
<1>3. ASSUME NEW v \in Q
      PROVE  acked'[v][t] >= i
    <2>1. acked[v][t] \in Nat /\ acked'[v][t] \in Nat /\ acked'[v][t] >= acked[v][t]
        BY <1>2, KnownTyped, KnownTypedNext DEF Progress
    <2>2. QED
        BY <1>1, <2>1
<1>4. Own(t, i)'
    BY OwnStays DEF Chosen
<1>5. QED
    BY <1>2, <1>3, <1>4 DEF Chosen

LEMMA ChosenNotDoomed ==
    ASSUME Typed, NEW t \in Terms, NEW i \in Nat, Chosen(t, i)
    PROVE  ~ Doomed(t, i)
<1>1. SUFFICES ASSUME Doomed(t, i)
               PROVE  FALSE
    OBVIOUS
<1>2. PICK P \in Quorums : \A v \in P : acked[v][t] >= i
    BY DEF Chosen
<1>3. PICK Q \in Quorums : \A v \in Q : acked[v][t] < i
    BY <1>1 DEF Doomed
<1>4. P \cap Q # {}
    BY MajoritiesMeet DEF Quorums
<1>5. PICK v \in P \cap Q : TRUE
    BY <1>4
<1>6. v \in Server
    BY DEF Quorums
<1>7. acked[v][t] \in Nat /\ acked[v][t] >= i /\ acked[v][t] < i
    BY <1>2, <1>3, <1>6, KnownTyped
<1>8. QED
    BY <1>7

\* Two logs from leaders with the same term at i agree up to it.
LEMMA HasAgrees ==
    ASSUME NEW l \in Seq(Entry), NEW k \in Seq(Entry), NEW led,
           From(l, led), From(k, led), NEW t, NEW i, Has(l, t, i), Has(k, t, i)
    PROVE  Agrees(l, k, i)
<1>1. i \in 1..Len(l) /\ i <= Len(k) /\ l[i].term = k[i].term
    BY DEF Has
<1>2. QED
    BY <1>1, SameTermAgree

LEMMA AgreesHas ==
    ASSUME NEW l \in Seq(Entry), NEW k \in Seq(Entry), NEW t, NEW i,
           NEW j \in Nat, Has(k, t, i), i <= j, Agrees(l, k, j)
    PROVE  Has(l, t, i)
BY DEF Has, Agrees

LEMMA AgreesLess ==
    ASSUME NEW l \in Seq(Entry), NEW k \in Seq(Entry), NEW i \in Nat, NEW j \in Nat,
           i <= j, Agrees(l, k, j)
    PROVE  Agrees(l, k, i) /\ Agrees(k, l, i)
BY DEF Agrees

LEMMA AgreesThrough ==
    ASSUME NEW l \in Seq(Entry), NEW k \in Seq(Entry), NEW m \in Seq(Entry), NEW i \in Nat,
           Agrees(l, k, i), Agrees(k, m, i)
    PROVE  Agrees(l, m, i)
BY DEF Agrees

-----------------------------------------------------------------------------
(* What the parts of the invariant need of a step, whatever the step is. *)

LEMMA AckedKeptStays ==
    ASSUME Typed, Typed', Progress, AckedHeld, AckedHeld', AckedKept,
           \A n \in Server, t \in Terms, i \in Nat :
              i <= acked[n][t] /\ Own(t, i) /\ Has(log[n], t, i)
                  => Has(log'[n], t, i) \/ Doomed(t, i)
    PROVE  AckedKept'
<1> SUFFICES ASSUME NEW n \in Server, NEW t \in Terms, NEW i \in Nat,
                    1 <= i, i <= acked'[n][t], Own(t, i)'
             PROVE  Has(log'[n], t, i) \/ Doomed(t, i)'
    BY DEF AckedKept
<1>1. /\ acked[n][t] \in Nat /\ acked'[n][t] \in Nat /\ t \in Nat
      /\ Len(ledger[t]) \in Nat /\ ledger'[t] \in Seq(Entry) /\ log'[n] \in Seq(Entry)
    BY KnownTyped, KnownTypedNext
<1>2. CASE i <= acked[n][t]
    <2>1. i <= Len(ledger[t])
        BY <1>1, <1>2 DEF AckedHeld, Held
    <2>2. Own(t, i)
        BY <2>1, OwnStays
    <2>3. Has(log[n], t, i) \/ Doomed(t, i)
        BY <1>2, <2>2 DEF AckedKept
    <2>4. QED
        BY <1>2, <2>2, <2>3, DoomedStays
<1>3. CASE i > acked[n][t]
    <2>1. currentTerm'[n] = t
        BY <1>1, <1>3 DEF Progress
    <2>2. Agrees(log'[n], ledger'[t], acked'[n][t])
        BY <2>1 DEF AckedHeld, Held
    <2>3. Has(ledger'[t], t, i)
        BY DEF Own, Has
    <2>4. QED
        BY <1>1, <2>2, <2>3, AgreesHas
<1>4. QED
    BY <1>1, <1>2, <1>3

\* Where a term has a leader, a majority is past the earlier terms: what is not
\* there by then comes too late.
LEMMA LedLeft ==
    ASSUME Undisturbed, Base, AckedHeld, NEW u \in Terms, Led(u), NEW t \in Terms, t < u,
           NEW i \in Nat, i > Len(ledger[t])
    PROVE  Doomed(t, i)
<1>1. Typed /\ LeaderWon /\ BallotsPast /\ ElectionTypeOK /\ StaleReplies = FALSE
    BY BaseTyped DEF Base, LeaderInv, VoteInv, Undisturbed
<1>2. PICK e \in elected : e.term = u
    BY DEF Led
<1>3. PICK s \in 1..e.term : Won(e.leader, s) /\ (s = e.term \/ StaleReplies)
    BY <1>1 DEF LeaderWon
<1>4. Won(e.leader, u)
    BY <1>1, <1>2, <1>3
<1> DEFINE Q == {v \in Server : [voter |-> v, term |-> u, cand |-> e.leader] \in ballots}
<1>5. Q \in Quorums
    BY <1>4 DEF Won, Quorums
<1>6. ASSUME NEW v \in Q
      PROVE  currentTerm[v] > t /\ acked[v][t] < i
    <2>1. v \in Server /\ [voter |-> v, term |-> u, cand |-> e.leader] \in ballots
        OBVIOUS
    <2>2. u <= currentTerm[v]
        BY <1>1, <2>1 DEF BallotsPast
    <2>3. /\ currentTerm[v] \in Nat /\ u \in Nat /\ t \in Nat /\ acked[v][t] \in Nat
          /\ Len(ledger[t]) \in Nat
        BY <1>1, <2>1, KnownTyped
    <2>4. acked[v][t] <= Len(ledger[t])
        BY <2>1 DEF AckedHeld, Held
    <2>5. QED
        BY <2>2, <2>3, <2>4
<1>7. QED
    BY <1>5, <1>6 DEF Doomed

LEMMA LeadersCompleteStays ==
    ASSUME Undisturbed, Base, Typed', Progress, AckedHeld, LeadersComplete,
           \A u \in Terms : Led(u)' => \/ Led(u)
                                       \/ \A t \in Terms, i \in Nat :
                                             t < u /\ Own(t, i)'
                                                => Has(ledger'[u], t, i) \/ Doomed(t, i)'
    PROVE  LeadersComplete'
<1> SUFFICES ASSUME NEW u \in Terms, NEW t \in Terms, NEW i \in Nat,
                    Led(u)', t < u, Own(t, i)'
             PROVE  Has(ledger'[u], t, i) \/ Doomed(t, i)'
    BY DEF LeadersComplete
<1>1. /\ Typed
      /\ ledger[t] \in Seq(Entry) /\ Len(ledger[t]) \in Nat
      /\ ledger[u] \in Seq(Entry) /\ ledger'[u] \in Seq(Entry)
    BY BaseTyped, KnownTyped, KnownTypedNext
<1>2. CASE Led(u)
    <2>1. CASE i <= Len(ledger[t])
        <3>1. Own(t, i)
            BY <1>1, <2>1, OwnStays
        <3>2. Has(ledger[u], t, i) \/ Doomed(t, i)
            BY <1>2, <3>1 DEF LeadersComplete
        <3>3. Agrees(ledger'[u], ledger[u], Len(ledger[u])) /\ Len(ledger[u]) \in Nat
            BY <1>1 DEF Progress, Grows
        <3>4. Has(ledger[u], t, i) => Has(ledger'[u], t, i)
            <4>1. Has(ledger[u], t, i) => i <= Len(ledger[u])
                BY <3>3 DEF Has
            <4>2. QED
                BY <1>1, <3>3, <4>1, AgreesHas
        <3>5. QED
            BY <1>1, <3>2, <3>4, DoomedStays
    <2>2. CASE i > Len(ledger[t])
        <3>1. Doomed(t, i)
            BY <1>2, <2>2, LedLeft
        <3>2. QED
            BY <1>1, <3>1, DoomedStays
    <2>3. QED
        BY <1>1, <2>1, <2>2
<1>3. CASE ~Led(u)
    BY <1>3
<1>4. QED
    BY <1>2, <1>3

\* An election that goes on, goes on with the same log.
RunsOn ==
    \A c \in Server, t \in Terms :
        t <= currentTerm[c] /\ Running(c, t)' => Running(c, t) /\ log'[c] = log[c]

LEMMA VotersKnownStays ==
    ASSUME Base, OwnVotes, Typed', Progress, AckedHeld, RunsOn, VotersKnown,
           \A b \in ballots' : \/ b \in ballots
                               \/ Running(b.cand, b.term)' =>
                                    \A t \in Terms, i \in Nat :
                                       /\ t < b.term
                                       /\ 1 <= i /\ i <= acked'[b.voter][t] /\ Own(t, i)'
                                       => Has(log'[b.cand], t, i) \/ Doomed(t, i)'
    PROVE  VotersKnown'
<1> SUFFICES ASSUME NEW b \in ballots', Running(b.cand, b.term)',
                    NEW t \in Terms, NEW i \in Nat, t < b.term, 1 <= i,
                    i <= acked'[b.voter][t], Own(t, i)'
             PROVE  Has(log'[b.cand], t, i) \/ Doomed(t, i)'
    BY DEF VotersKnown
<1>1. CASE b \in ballots
    <2>1. /\ Typed /\ BallotsPast
          /\ b.voter \in Server /\ b.cand \in Server /\ b.term \in Terms
        BY <1>1, BaseTyped DEF Base, LeaderInv, VoteInv, ElectionTypeOK
    <2>2. /\ currentTerm[b.voter] \in Nat /\ currentTerm'[b.voter] \in Nat
          /\ t \in Nat /\ b.term \in Nat
          /\ acked[b.voter][t] \in Nat /\ acked'[b.voter][t] \in Nat
          /\ Len(ledger[t]) \in Nat
        BY <2>1, KnownTyped, KnownTypedNext
    <2>3. b.term <= currentTerm[b.voter] /\ currentTerm[b.voter] <= currentTerm'[b.voter]
        BY <1>1, <2>1, <2>2 DEF BallotsPast, Progress
    <2>4. acked'[b.voter][t] = acked[b.voter][t]
        BY <2>1, <2>2, <2>3 DEF Progress
    <2>5. i <= Len(ledger[t])
        <3>1. acked[b.voter][t] <= Len(ledger[t])
            BY <2>1 DEF AckedHeld, Held
        <3>2. QED
            BY <2>2, <2>4, <3>1
    <2>6. Own(t, i)
        BY <2>1, <2>5, OwnStays
    <2>7. Running(b.cand, b.term) /\ log'[b.cand] = log[b.cand]
        BY <1>1, <2>1 DEF RunsOn, OwnVotes
    <2>8. Has(log[b.cand], t, i) \/ Doomed(t, i)
        BY <1>1, <2>4, <2>6, <2>7 DEF VotersKnown
    <2>9. QED
        BY <2>1, <2>7, <2>8, DoomedStays
<1>2. CASE b \notin ballots
    BY <1>2
<1>3. QED
    BY <1>1, <1>2

LEMMA TipsTrueStays ==
    ASSUME Base, Typed', RunsOn, TipsTrue,
           \A q \in voteReqs' : \/ q \in voteReqs
                                \/ q.tip = Tip(log'[q.from])
    PROVE  TipsTrue'
<1> SUFFICES ASSUME NEW q \in voteReqs', Running(q.from, q.term)'
             PROVE  q.tip = Tip(log'[q.from])
    BY DEF TipsTrue
<1>1. CASE q \in voteReqs
    <2>1. q.from \in Server /\ q.term \in Terms /\ q.term <= currentTerm[q.from]
        BY <1>1 DEF Base, LeaderInv, VoteInv, ElectionTypeOK, VoteRequest, CallsPast
    <2>2. Running(q.from, q.term) /\ log'[q.from] = log[q.from]
        BY <2>1 DEF RunsOn
    <2>3. QED
        BY <1>1, <2>2 DEF TipsTrue
<1>2. QED
    BY <1>1

LEMMA SoundStays ==
    ASSUME Typed, Typed', Progress, NEW l \in Seq(Entry), NEW c \in Nat, NEW u \in Nat,
           NEW w \in Nat, u <= w, Sound(l, c, u)
    PROVE  Sound(l, c, w)'
<1>1. CASE c = 0
    BY <1>1 DEF Sound
<1>2. ASSUME NEW t \in Terms, NEW j \in Nat, t <= u, c <= j, Chosen(t, j),
             Agrees(l, ledger[t], c)
      PROVE  Sound(l, c, w)'
    <2>1. Chosen(t, j)'
        BY <1>2, ChosenStays
    <2>2. ledger \in [Terms -> Seq(Entry)] /\ ledger' \in [Terms -> Seq(Entry)]
        BY DEF Typed
    <2>3. Agrees(l, ledger'[t], c)
        BY <1>2, <2>2, AgreesGrows DEF Progress
    <2>4. t <= w
        BY <1>2, TermsNat
    <2>5. QED
        BY <1>2, <2>1, <2>3, <2>4 DEF Sound
<1>3. QED
    BY <1>1, <1>2 DEF Sound

\* What a leader of term u holds of what is chosen up to u: all of it.
LEMMA LeaderHas ==
    ASSUME Typed, LedgerSound, LeadersComplete, NEW t \in Terms, NEW j \in Nat, Chosen(t, j),
           NEW u \in Terms, t <= u, Led(u)
    PROVE  Agrees(ledger[u], ledger[t], j)
<1>1. /\ t \in Nat /\ u \in Nat /\ ledger[t] \in Seq(Entry) /\ ledger[u] \in Seq(Entry)
      /\ From(ledger[t], ledger) /\ From(ledger[u], ledger) /\ Own(t, j)
    BY KnownTyped DEF LedgerSound, Chosen
<1>2. Has(ledger[t], t, j)
    BY <1>1 DEF Own, Has
<1>3. Has(ledger[u], t, j)
    <2>1. CASE t = u
        BY <1>2, <2>1
    <2>2. CASE t < u
        BY <1>1, <2>2, ChosenNotDoomed DEF LeadersComplete
    <2>3. QED
        BY <1>1, <2>1, <2>2
<1>4. QED
    BY <1>1, <1>2, <1>3, HasAgrees

-----------------------------------------------------------------------------
(* The kinds of steps there are, for elections and commits. *)

\* Nothing but terms, votes counted and calls that go away.
Still ==
    /\ Quiet
    /\ UNCHANGED <<elected, ballots>>
    /\ voteReqs' \subseteq voteReqs
    /\ \A n \in Server : state'[n] = "Candidate" =>
          state[n] = "Candidate" /\ currentTerm'[n] = currentTerm[n]

LEMMA CommitKinds ==
    ASSUME Undisturbed, Known, Base', [RaftNext]_vars
    PROVE  \/ Still
           \/ \E n \in Server : Campaign(n)
           \/ \E q \in voteReqs : RequestVote(q)
           \/ \E n \in Server : Winning(n)
           \/ \E n \in Server, cmd \in Command : StartCommand(n, cmd)
           \/ \E n \in Server, p \in Server : SendAppend(n, p)
           \/ \E q \in appendReqs : AppendEntries(q)
           \/ \E r \in appendReps : Acknowledged(r)
<1>1. /\ Base /\ OwnVotes /\ RaftTypeOK /\ ElectionTypeOK /\ Moves
      /\ MaxRestarts = 0 /\ StaleReplies = FALSE
    BY BaseStep DEF Known, Base, RaftInv, LeaderInv, VoteInv, Undisturbed
<1>2. ASSUME UNCHANGED <<state, currentTerm, elected, ballots, voteReqs>>,
             UNCHANGED <<log, ledger, acked, peerVars, applyVars>>,
             appendReqs' \subseteq appendReqs, appendReps' \subseteq appendReps
      PROVE  Still
    BY <1>2 DEF Still, Quiet
<1>3. ASSUME NEW n \in Server, state' = [state EXCEPT ![n] = "Follower"],
             \A m \in Server : m # n => currentTerm'[m] = currentTerm[m],
             UNCHANGED <<elected, ballots>>, voteReqs' \subseteq voteReqs,
             UNCHANGED <<log, ledger, acked, peerVars, applyVars>>,
             appendReqs' \subseteq appendReqs, appendReps' \subseteq appendReps
      PROVE  Still
    BY <1>1, <1>3 DEF Still, Quiet, ElectionTypeOK
<1>4. ASSUME NEW n \in Server, TimeOut(n) PROVE Still
    BY <1>2, <1>4 DEF TimeOut, TimerExpires, raftVars, logVars, rpcVars, history
<1>5. ASSUME NEW r \in voteReps, ReceiveVote(r) PROVE Still \/ Winning(r.to)
    <2>1. r.to \in Server /\ r.replyTerm \in Terms
        BY <1>1 DEF ElectionTypeOK, VoteReply
    <2>2. CASE state[r.to] # "Leader" /\ state'[r.to] = "Leader"
        <3>1. ElectionSafety' /\ LeaderInv'
            BY DEF Base
        <3>2. QED
            BY <1>1, <1>5, <2>2, <3>1, VoteWins
    <2>3. CASE ~ (state[r.to] # "Leader" /\ state'[r.to] = "Leader")
        <3>1. /\ UNCHANGED <<log, ledger, acked, peerVars, applyVars, appendReqs, appendReps>>
              /\ HandleVoteReply(r) /\ UNCHANGED <<voteReqs, ballots>>
            BY <1>5, <2>3
            DEF ReceiveVote, HandleVoteReply, logVars, rpcVars, peerVars
        <3>2. CASE VoteReplyIgnored(r)
            BY <1>2, <3>1, <3>2 DEF VoteReplyIgnored
        <3>3. CASE VoteReplyNewerTerm(r)
            <4>1. /\ state' = [state EXCEPT ![r.to] = "Follower"]
                  /\ \A m \in Server : m # r.to => currentTerm'[m] = currentTerm[m]
                  /\ UNCHANGED elected
                BY <1>1, <2>1, <3>3 DEF VoteReplyNewerTerm, StepDown, ElectionTypeOK
            <4>2. QED
                BY <1>3, <2>1, <3>1, <4>1
        <3>4. CASE VoteReplyCounted(r)
            <4> DEFINE won == Cardinality(votes[r.to][r.term] \cup {r.from}) >= VotesNeeded
            <4>1. /\ state[r.to] = "Candidate"
                  /\ state' = [state EXCEPT ![r.to] = IF won THEN "Leader" ELSE @]
                  /\ elected' = IF won
                                THEN elected \cup {[term |-> currentTerm[r.to], leader |-> r.to]}
                                ELSE elected
                  /\ UNCHANGED currentTerm
                BY <3>4 DEF VoteReplyCounted
            <4> HIDE DEF won
            <4>2. ~won
                BY <1>1, <2>1, <2>3, <4>1 DEF ElectionTypeOK
            <4>3. state' = state /\ elected' = elected
                BY <1>1, <4>1, <4>2 DEF ElectionTypeOK
            <4>4. QED
                BY <1>2, <3>1, <4>1, <4>3
        <3>5. QED
            BY <3>1, <3>2, <3>3, <3>4 DEF HandleVoteReply
    <2>4. QED
        BY <2>2, <2>3
<1>6. ASSUME NEW r \in appendReps, ReceiveAck(r) PROVE Still \/ Acknowledged(r)
    <2>1. /\ appendReps' = appendReps \ {r}
          /\ UNCHANGED <<logVars, appendReqs, losses, history>>
          /\ r.term = currentTerm[r.to]
        BY <1>1, <1>6 DEF ReceiveAck, Reaches
    <2>2. r.to \in Server /\ appendReps' \subseteq appendReps /\ appendReqs' \subseteq appendReqs
        BY <1>1, <2>1 DEF RaftTypeOK, AppendReply
    <2>3. CASE AckIgnored(r)
        BY <1>2, <2>1, <2>2, <2>3 DEF AckIgnored, electionVars, logVars, history
    <2>4. CASE AckNewerTerm(r)
        <3>1. /\ state' = [state EXCEPT ![r.to] = "Follower"]
              /\ \A m \in Server : m # r.to => currentTerm'[m] = currentTerm[m]
              /\ UNCHANGED <<elected, ballots, voteReqs, peerVars, applyVars>>
            BY <1>1, <2>2, <2>4 DEF AckNewerTerm, StepDown, ElectionTypeOK
        <3>2. QED
            BY <1>3, <2>1, <2>2, <3>1 DEF logVars, history
    <2>5. QED
        BY <1>6, <2>1, <2>3, <2>4 DEF ReceiveAck, Acknowledged
<1>7. ASSUME NEW q \in appendReqs, LoseRequest(q) PROVE Still
    BY <1>2, <1>7 DEF LoseRequest, electionVars, logVars, history
<1>8. ASSUME NEW r \in appendReps, LoseReply(r) PROVE Still
    BY <1>2, <1>8 DEF LoseReply, electionVars, logVars, history
<1>9. ASSUME NEW n \in Server, Restart(n) PROVE FALSE
    BY <1>1, <1>9 DEF Restart, RestartElection, ElectionTypeOK
<1>10. CASE UNCHANGED vars
    BY <1>2, <1>10 DEF vars, electionVars, raftVars, logVars, rpcVars, history
<1>11. QED
    BY <1>1, <1>4, <1>5, <1>6, <1>7, <1>8, <1>9, <1>10
    DEF RaftNext, ElectionTypeOK, VoteReply

\* What a leader takes is added to its log, and it has acknowledged it.
LEMMA CommandAdds ==
    ASSUME Known, Typed', NEW n \in Server, NEW cmd \in Command, StartCommand(n, cmd)
    PROVE  LET T == currentTerm[n]
           IN  /\ Grows(ledger, ledger')
               /\ \A m \in Server : Agrees(log'[m], log[m], Len(log[m]))
               /\ acked'[n][T] = Len(log[n]) + 1 /\ acked[n][T] <= Len(log[n])
               /\ \A m \in Server, t \in Terms : m # n \/ t # T => acked'[m][t] = acked[m][t]
<1> DEFINE T == currentTerm[n]
           last == Len(log[n]) + 1
           entry == [index |-> last, term |-> T, cmd |-> cmd]
           longer == Append(log[n], entry)
<1>1. Typed /\ LeaderLog /\ AckedHeld
    BY BaseTyped DEF Known, LogInv
<1>2. /\ state[n] = "Leader"
      /\ log' = [log EXCEPT ![n] = Append(@, entry)]
      /\ ledger' = [ledger EXCEPT ![T] = Append(@, entry)]
      /\ acked' = [acked EXCEPT ![n][T] = last]
    BY DEF StartCommand
<1>3. /\ T \in Terms /\ log[n] \in Seq(Entry) /\ last \in Nat
      /\ ledger \in [Terms -> Seq(Entry)] /\ log \in [Server -> Seq(Entry)]
      /\ ledger[T] = log[n]
      /\ acked \in [Server -> [Terms -> Nat]]
    BY <1>1, <1>2 DEF Typed, LeaderLog
<1>4. /\ log'[n] = longer /\ ledger'[T] = longer
      /\ \A m \in Server : m # n => log'[m] = log[m]
      /\ \A t \in Terms : t # T => ledger'[t] = ledger[t]
      /\ acked'[n][T] = last
      /\ \A m \in Server, t \in Terms : m # n \/ t # T => acked'[m][t] = acked[m][t]
    BY <1>2, <1>3
<1>5. Agrees(longer, log[n], Len(log[n]))
    <2>1. longer \in Seq(Entry)
        BY <1>4, KnownTypedNext
    <2>2. QED
        BY <1>3, <2>1 DEF Agrees
<1> HIDE DEF longer
<1>6. ASSUME NEW l \in Seq(Entry) PROVE Agrees(l, l, Len(l))
    BY DEF Agrees
<1>7. Grows(ledger, ledger')
    <2> SUFFICES ASSUME NEW t \in Terms
                 PROVE  Agrees(ledger'[t], ledger[t], Len(ledger[t]))
        BY DEF Grows
    <2>1. CASE t = T
        BY <1>3, <1>4, <1>5, <2>1
    <2>2. CASE t # T
        BY <1>3, <1>4, <1>6, <2>2
    <2>3. QED
        BY <2>1, <2>2
<1>8. \A m \in Server : Agrees(log'[m], log[m], Len(log[m]))
    BY <1>3, <1>4, <1>5, <1>6
<1>9. acked[n][T] <= Len(log[n])
    BY <1>1, <1>3 DEF AckedHeld, Held
<1>10. QED
    BY <1>4, <1>7, <1>8, <1>9

LEMMA WinningGrows ==
    ASSUME Known, NEW n \in Server, Winning(n)
    PROVE  /\ Grows(ledger, ledger') /\ ledger[currentTerm[n]] = << >>
           /\ ledger'[currentTerm[n]] = log[n]
           /\ \A t \in Terms : t # currentTerm[n] => ledger'[t] = ledger[t]
<1>1. Typed /\ LedgerSound
    BY BaseTyped DEF Known, LogInv
<1>2. /\ currentTerm[n] \in Terms /\ ledger \in [Terms -> Seq(Entry)]
      /\ log[n] \in Seq(Entry)
    BY <1>1 DEF Typed
<1>3. /\ ledger[currentTerm[n]] = << >>
      /\ ledger' = [ledger EXCEPT ![currentTerm[n]] = log[n]]
    BY <1>1, <1>2 DEF Winning, LedgerSound
<1>4. Grows(ledger, ledger')
    <2> SUFFICES ASSUME NEW t \in Terms
                 PROVE  Agrees(ledger'[t], ledger[t], Len(ledger[t]))
        BY DEF Grows
    <2>1. CASE t = currentTerm[n]
        BY <1>2, <1>3, <2>1 DEF Agrees
    <2>2. CASE t # currentTerm[n]
        BY <1>2, <1>3, <2>2 DEF Agrees
    <2>3. QED
        BY <2>1, <2>2
<1>5. QED
    BY <1>2, <1>3, <1>4

\* What the handler acknowledges is of the term it ends in.
LEMMA HandlerAcks ==
    ASSUME Known, NEW q \in appendReqs, AppendEntries(q)
    PROVE  /\ ledger' = ledger
           /\ \A m \in Server, t \in Terms :
                /\ acked'[m][t] >= acked[m][t]
                /\ acked'[m][t] # acked[m][t] => currentTerm'[m] = t
<1>1. /\ Base /\ LogInv /\ Typed /\ CallsFrom
    BY BaseTyped DEF Known, LogInv
<1>2. /\ acked \in [Server -> [Terms -> Nat]]
      /\ q.to \in Server /\ q.term \in Terms
      /\ q.prevIndex \in Nat /\ q.entries \in Seq(Entry)
    BY <1>1 DEF Typed, AppendRequest
<1>3. CASE AppendAccepted(q)
    <2> DEFINE lastNew == q.prevIndex + Len(q.entries)
               a == Greater(acked[q.to][q.term], lastNew)
    <2>1. /\ acked' = [acked EXCEPT ![q.to][q.term] = a]
          /\ q.term >= currentTerm[q.to] /\ AdoptTerm(q) /\ ledger' = ledger
        BY <1>3 DEF AppendAccepted
    <2>2. currentTerm'[q.to] = q.term
        BY <1>1, <2>1, Adopted
    <2>3. a >= acked[q.to][q.term]
        <3>1. lastNew \in Nat /\ acked[q.to][q.term] \in Nat
            BY <1>2
        <3>2. QED
            BY <3>1 DEF Greater
    <2> HIDE DEF a
    <2>4. QED
        BY <1>2, <2>1, <2>2, <2>3
<1>4. CASE ~ AppendAccepted(q)
    <2>1. ledger' = ledger /\ acked' = acked
        BY <1>4 DEF AppendEntries, AppendOutdated, AppendGap, AppendConflict, history
    <2>2. \A m \in Server, t \in Terms : acked[m][t] >= acked[m][t]
        BY <1>1, KnownTyped
    <2>3. QED
        BY <2>1, <2>2
<1>5. QED
    BY <1>3, <1>4

LEMMA StepProgress ==
    ASSUME Undisturbed, Known, Base', [RaftNext]_vars
    PROVE  Progress /\ Typed /\ Typed'
<1>1. /\ Typed /\ VotesKept /\ Moves
    BY BaseStep, BaseTyped DEF Known
<1>2. Typed'
    <2>1. RaftTypeOK'
        BY DEF Base, RaftInv
    <2>2. QED
        BY <2>1 DEF RaftTypeOK, ElectionTypeOK, Typed
<1>3. /\ \A n \in Server : currentTerm'[n] >= currentTerm[n]
      /\ elected \subseteq elected'
    BY <1>1 DEF VotesKept, Moves
<1>4. ASSUME ledger' = ledger, acked' = acked
      PROVE  Progress
    <2>1. Grows(ledger, ledger')
        BY <1>1, <1>4, SameGrows DEF Typed
    <2>2. \A n \in Server, t \in Terms : acked[n][t] >= acked[n][t]
        BY <1>1, KnownTyped
    <2>3. QED
        BY <1>3, <1>4, <2>1, <2>2 DEF Progress
<1>5. ASSUME NEW n \in Server, Winning(n) PROVE Progress
    <2>1. acked' = acked /\ Grows(ledger, ledger')
        BY <1>5, WinningGrows DEF Winning
    <2>2. \A m \in Server, t \in Terms : acked[m][t] >= acked[m][t]
        BY <1>1, KnownTyped
    <2>3. QED
        BY <1>3, <2>1, <2>2 DEF Progress
<1>6. ASSUME NEW n \in Server, NEW cmd \in Command, StartCommand(n, cmd) PROVE Progress
    <2> DEFINE T == currentTerm[n]
    <2>1. /\ Grows(ledger, ledger')
          /\ acked'[n][T] = Len(log[n]) + 1 /\ acked[n][T] <= Len(log[n])
          /\ \A m \in Server, t \in Terms : m # n \/ t # T => acked'[m][t] = acked[m][t]
        BY <1>2, <1>6, CommandAdds
    <2>2. currentTerm' = currentTerm
        BY <1>6 DEF StartCommand, electionVars
    <2>3. /\ \A m \in Server, t \in Terms : acked[m][t] \in Nat
          /\ T \in Terms /\ Len(log[n]) \in Nat
        BY <1>1, KnownTyped
    <2> HIDE DEF T
    <2>4. ASSUME NEW m \in Server, NEW t \in Terms
          PROVE  /\ acked'[m][t] >= acked[m][t]
                 /\ acked'[m][t] # acked[m][t] => m = n /\ t = T
        <3>1. CASE m = n /\ t = T
            BY <2>1, <2>3, <3>1
        <3>2. CASE ~ (m = n /\ t = T)
            BY <2>1, <2>3, <3>2
        <3>3. QED
            BY <3>1, <3>2
    <2>5. QED
        BY <1>3, <2>1, <2>2, <2>4 DEF Progress, T
<1>7. ASSUME NEW n \in Server, NEW p \in Server, SendAppend(n, p) PROVE Progress
    BY <1>4, <1>7 DEF SendAppend, history
<1>8. ASSUME NEW q \in appendReqs, AppendEntries(q) PROVE Progress
    <2>1. Grows(ledger, ledger')
        BY <1>1, <1>8, HandlerAcks, SameGrows DEF Typed
    <2>2. QED
        BY <1>3, <1>8, <2>1, HandlerAcks DEF Progress
<1>9. ASSUME NEW r \in appendReps, Acknowledged(r) PROVE Progress
    BY <1>4, <1>9 DEF Acknowledged, history
<1>10. ASSUME Quiet PROVE Progress
    BY <1>4, <1>10 DEF Quiet
<1>11. \/ Quiet
       \/ \E n \in Server : Winning(n)
       \/ \E n \in Server, cmd \in Command : StartCommand(n, cmd)
       \/ \E n \in Server, p \in Server : SendAppend(n, p)
       \/ \E q \in appendReqs : AppendEntries(q)
       \/ \E r \in appendReps : Acknowledged(r)
    BY StepKinds DEF Known
<1>12. Progress
    BY <1>5, <1>6, <1>7, <1>8, <1>9, <1>10, <1>11
<1>13. QED
    BY <1>1, <1>2, <1>12

-----------------------------------------------------------------------------
(* Elections: what a leader has that comes after what was chosen. *)

\* The step leaves the votes, and who leads, alone.
LEMMA HandlerElects ==
    ASSUME Known, NEW q \in appendReqs, AppendEntries(q)
    PROVE  elected' = elected /\ ballots' = ballots /\ voteReqs' = voteReqs
<1>1. AdoptTerm(q) \/ UNCHANGED electionVars
    BY DEF AppendEntries, AppendOutdated, AppendGap, AppendConflict, AppendAccepted
<1>2. QED
    BY <1>1 DEF AdoptTerm, StepDown, electionVars

LEMMA RunsOnHolds ==
    ASSUME Undisturbed, Known, Base', Typed', [RaftNext]_vars
    PROVE  RunsOn
<1>1. /\ Typed /\ ElectionTypeOK /\ Base /\ CallsFrom /\ OwnVotes
    BY BaseTyped DEF Known, Base, LeaderInv, VoteInv, LogInv
<1>2. ASSUME log' = log, elected' = elected,
             \A c \in Server : state'[c] = "Candidate" =>
                 \/ state[c] = "Candidate" /\ currentTerm'[c] = currentTerm[c]
                 \/ currentTerm'[c] > currentTerm[c]
      PROVE  RunsOn
    <2>1. SUFFICES ASSUME NEW c \in Server, NEW t \in Terms, t <= currentTerm[c],
                          Running(c, t)'
                   PROVE  Running(c, t) /\ log'[c] = log[c]
        BY DEF RunsOn
    <2>2. state'[c] = "Candidate" /\ currentTerm'[c] = t /\ ~Led(t)
        BY <1>2, <2>1 DEF Running, Led
    <2>3. t \in Nat /\ currentTerm[c] \in Nat
        BY <1>1, KnownTyped
    <2>4. QED
        BY <1>2, <2>1, <2>2, <2>3 DEF Running
<1>3. CASE Still
    BY <1>2, <1>3 DEF Still, Quiet
<1>4. ASSUME NEW n \in Server, Campaign(n) PROVE RunsOn
    <2>1. /\ state' = [state EXCEPT ![n] = "Candidate"]
          /\ currentTerm' = [currentTerm EXCEPT ![n] = currentTerm[n] + 1]
          /\ elected' = elected /\ log' = log
        BY <1>4 DEF Campaign, StartElection, raftVars, logVars
    <2>2. currentTerm[n] + 1 > currentTerm[n]
        BY <1>1, KnownTyped
    <2>3. QED
        BY <1>1, <1>2, <2>1, <2>2 DEF ElectionTypeOK
<1>5. ASSUME NEW q \in voteReqs, RequestVote(q) PROVE RunsOn
    <2> DEFINE newer == q.term > currentTerm[q.to]
               term == IF newer THEN q.term ELSE currentTerm[q.to]
    <2>1. /\ \E f \in BOOLEAN :
                state' = [state EXCEPT ![q.to] = IF newer \/ f THEN "Follower" ELSE @]
          /\ currentTerm' = [currentTerm EXCEPT ![q.to] = term]
          /\ elected' = elected /\ log' = log
        BY <1>5 DEF RequestVote, HandleRequestVote, raftVars, logVars
    <2>2. q.to \in Server
        BY <1>1 DEF ElectionTypeOK, VoteRequest
    <2>3. ~newer => term = currentTerm[q.to]
        OBVIOUS
    <2> HIDE DEF newer, term
    <2>4. \A c \in Server : state'[c] = "Candidate" =>
              state[c] = "Candidate" /\ currentTerm'[c] = currentTerm[c]
        BY <1>1, <2>1, <2>2, <2>3 DEF ElectionTypeOK
    <2>5. QED
        BY <1>2, <2>1, <2>4
<1>6. ASSUME NEW n \in Server, Winning(n) PROVE RunsOn
    <2>1. /\ state' = [state EXCEPT ![n] = "Leader"] /\ elected \subseteq elected'
          /\ log' = log /\ currentTerm' = currentTerm
        BY <1>6 DEF Winning, logVars
    <2>2. QED
        BY <1>1, <2>1 DEF RunsOn, Running, Led, Typed
<1>7. ASSUME NEW n \in Server, NEW cmd \in Command, StartCommand(n, cmd) PROVE RunsOn
    <2>1. /\ state[n] = "Leader" /\ state' = state /\ elected' = elected
          /\ currentTerm' = currentTerm
          /\ \A m \in Server : m # n => log'[m] = log[m]
        BY <1>1, <1>7 DEF StartCommand, electionVars, Typed
    <2>2. QED
        BY <2>1 DEF RunsOn, Running, Led
<1>8. ASSUME NEW n \in Server, NEW p \in Server, SendAppend(n, p) PROVE RunsOn
    BY <1>8 DEF SendAppend, electionVars, logVars, RunsOn, Running, Led
<1>9. ASSUME NEW q \in appendReqs, AppendEntries(q) PROVE RunsOn
    <2>1. CASE AppendOutdated(q)
        BY <2>1 DEF AppendOutdated, electionVars, logVars, RunsOn, Running, Led
    <2>2. CASE AppendGap(q) \/ AppendConflict(q) \/ AppendAccepted(q)
        <3>1. /\ q.term >= currentTerm[q.to] /\ AdoptTerm(q)
              /\ \A m \in Server : m # q.to => log'[m] = log[m]
            BY <2>2, HandlerLog DEF Known
        <3>2. /\ currentTerm'[q.to] = q.term /\ elected' = elected
              /\ \A m \in Server : m # q.to => /\ currentTerm'[m] = currentTerm[m]
                                               /\ state'[m] = state[m]
            BY <1>1, <3>1, Adopted
        <3>3. [term |-> q.term, leader |-> q.from] \in elected
            BY <1>1 DEF CallsFrom
        <3>4. Led(q.term)'
            BY <3>2, <3>3 DEF Led
        <3>5. QED
            BY <3>1, <3>2, <3>4 DEF RunsOn, Running, Led
    <2>3. QED
        BY <1>9, <2>1, <2>2 DEF AppendEntries
<1>10. ASSUME NEW r \in appendReps, Acknowledged(r) PROVE RunsOn
    BY <1>10 DEF Acknowledged, AckSuccess, AckFailure, electionVars, logVars,
                 RunsOn, Running, Led
<1>11. QED
    BY <1>3, <1>4, <1>5, <1>6, <1>7, <1>8, <1>9, <1>10, CommitKinds

\* What AppendEntries leaves of a log still has every acknowledged entry that may
\* be chosen.
LEMMA HandlerRetains ==
    ASSUME Known, CommitInv, NEW q \in appendReqs, AppendEntries(q),
           NEW n \in Server, NEW t \in Terms, NEW i \in Nat,
           1 <= i, i <= acked[n][t], Own(t, i), Has(log[n], t, i),
           AckedHeld', currentTerm'[n] >= currentTerm[n], Typed', Progress
    PROVE  Has(log'[n], t, i) \/ Doomed(t, i)
<1>1. /\ Typed /\ Base /\ LogInv /\ LogsFrom /\ LeadersComplete /\ AckedHeld /\ CallsFrom
    BY BaseTyped DEF Known, LogInv, CommitInv
<1>2. CASE AppendOutdated(q)
    BY <1>2 DEF AppendOutdated, logVars
<1>5. CASE n # q.to /\ (AppendGap(q) \/ AppendConflict(q) \/ AppendAccepted(q))
    <2>1. log'[n] = log[n]
        BY <1>1, <1>5, HandlerLog
    <2>2. QED
        BY <2>1
<1>3. CASE n = q.to /\ (AppendGap(q) \/ AppendConflict(q) \/ AppendAccepted(q))
    <2> DEFINE lead == ledger[q.term]
    <2>1. /\ q.term \in Terms /\ q.term >= currentTerm[n] /\ AdoptTerm(q)
          /\ lead \in Seq(Entry) /\ From(lead, ledger)
          /\ log'[n] \in Seq(Entry) /\ Keeps(log'[n], log[n], lead)
        BY <1>1, <1>3, HandlerLog
    <2>2. /\ log[n] \in Seq(Entry) /\ From(log[n], ledger)
          /\ t \in Nat /\ q.term \in Nat /\ currentTerm[n] \in Nat /\ acked[n][t] \in Nat
        BY <1>1, <2>1, KnownTyped DEF LogsFrom
    <2>3. t <= q.term
        <3>1. t <= currentTerm[n]
            BY <1>1, <2>2 DEF AckedHeld, Held
        <3>2. QED
            BY <2>1, <2>2, <3>1
    <2>4. Has(lead, t, i) \/ Doomed(t, i)
        <3>1. CASE t = q.term
            BY <3>1 DEF Own, Has
        <3>2. CASE t < q.term
            <4>1. Led(q.term)
                BY <1>1 DEF CallsFrom, Led
            <4>2. QED
                BY <1>1, <2>1, <3>2, <4>1 DEF LeadersComplete
        <3>3. QED
            BY <2>2, <2>3, <3>1, <3>2
    <2>5. CASE Has(lead, t, i)
        <3>1. Agrees(log[n], lead, i)
            BY <2>1, <2>2, <2>5, HasAgrees
        <3>2. Agrees(log'[n], log[n], i)
            BY <2>1, <3>1 DEF Keeps
        <3>3. Has(log'[n], t, i)
            <4>1. i <= i
                OBVIOUS
            <4>2. Has(log[n], t, i) /\ log[n] \in Seq(Entry) /\ log'[n] \in Seq(Entry)
                BY <2>1, <2>2
            <4>3. QED
                BY <3>2, <4>1, <4>2, AgreesHas
        <3>4. QED
            BY <3>3
    <2>6. QED
        BY <2>4, <2>5
<1>4. QED
    BY <1>2, <1>3, <1>5 DEF AppendEntries

\* A candidate that wins has every own entry of every earlier leader that may be
\* chosen: a voter has told it, or the voters are the majority that dooms the entry.
LEMMA WinnerComplete ==
    ASSUME Known, CommitInv, Typed', Progress, NEW n \in Server, Winning(n),
           NEW t \in Terms, t < currentTerm[n], NEW i \in Nat, Own(t, i)'
    PROVE  Has(log[n], t, i) \/ Doomed(t, i)'
<1> DEFINE T == currentTerm[n]
           Q == {v \in Server : [voter |-> v, term |-> T, cand |-> n] \in ballots}
<1>1. /\ Typed /\ BallotsPast /\ VotersKnown /\ T \in Terms /\ T \in Nat /\ t \in Nat
    BY BaseTyped, KnownTyped DEF Known, Base, LeaderInv, VoteInv, CommitInv
<1>2. ledger'[t] = ledger[t]
    BY <1>1, WinningGrows
<1>3. Own(t, i) /\ 1 <= i
    BY <1>2 DEF Own
<1>4. Running(n, T)
    BY DEF Winning, Running
<1>5. Q \in Quorums
    BY DEF Winning, Won, Quorums
<1>6. ASSUME NEW v \in Q, i <= acked[v][t]
      PROVE  Has(log[n], t, i) \/ Doomed(t, i)
    <2>1. [voter |-> v, term |-> T, cand |-> n] \in ballots
        OBVIOUS
    <2>2. QED
        BY <1>1, <1>3, <1>4, <1>6, <2>1 DEF VotersKnown
<1>7. ASSUME \A v \in Q : ~ (i <= acked[v][t])
      PROVE  Doomed(t, i)
    <2>1. ASSUME NEW v \in Q
          PROVE  currentTerm[v] > t /\ acked[v][t] < i
        <3>1. v \in Server /\ [voter |-> v, term |-> T, cand |-> n] \in ballots
            OBVIOUS
        <3>2. T <= currentTerm[v]
            BY <1>1, <3>1 DEF BallotsPast
        <3>3. currentTerm[v] \in Nat /\ acked[v][t] \in Nat
            BY <1>1, <3>1, KnownTyped
        <3>4. QED
            BY <1>1, <1>7, <3>2, <3>3
    <2>2. QED
        BY <1>5, <2>1 DEF Doomed
<1>8. QED
    BY <1>1, <1>6, <1>7, DoomedStays

\* The last entry of a log from leaders: its place, and the terms before it.
LEMMA TipOrdered ==
    ASSUME LedgerSound, NEW l \in Seq(Entry), From(l, ledger), l # << >>
    PROVE  LET s == l[Len(l)].term
           IN  /\ Tip(l) = [index |-> Len(l), term |-> s] /\ s \in Terms /\ 1 <= s
               /\ Agrees(l, ledger[s], Len(l)) /\ Len(l) \in Nat \ {0} /\ Led(s)
               /\ \A i \in 1..Len(l) : l[i].term <= s
<1> DEFINE s == l[Len(l)].term
<1>1. Len(l) \in Nat \ {0} /\ Len(l) \in 1..Len(l)
    OBVIOUS
<1>2. s \in Terms
    BY <1>1, EntryTyped
<1>3. Agrees(l, ledger[s], Len(l)) /\ Ordered(ledger[s], s)
    BY <1>1, <1>2 DEF From, LedgerSound
<1>4. /\ l[Len(l)] = ledger[s][Len(l)] /\ Len(l) \in 1..Len(ledger[s])
      /\ \A i \in 1..Len(l) : l[i] = ledger[s][i] /\ i \in 1..Len(ledger[s])
                              /\ Len(l) \in i..Len(ledger[s])
    BY <1>1, <1>3 DEF Agrees
<1>5. ledger[s][Len(l)].term = s
    BY <1>4
<1>6. l[Len(l)].index = Len(l) /\ 1 <= s
    BY <1>3, <1>4 DEF Ordered
<1>7. \A i \in 1..Len(l) : l[i].term <= s
    BY <1>3, <1>4, <1>5 DEF Ordered
<1>8. Led(s)
    BY <1>1, <1>2, <1>4 DEF LedgerSound
<1>9. Tip(l) = [index |-> Len(l), term |-> s]
    BY <1>6 DEF Tip, Last
<1>10. QED
    BY <1>1, <1>2, <1>3, <1>6, <1>7, <1>8, <1>9

\* A log that is up to date with another has what the other has that may be chosen.
LEMMA UpToDateHas ==
    ASSUME Typed, LedgerSound, LeadersComplete, NEW l \in Seq(Entry), NEW k \in Seq(Entry),
           From(l, ledger), From(k, ledger), IsLogUpToDate(l, Tip(k)),
           NEW t \in Terms, NEW i \in Nat, Own(t, i), Has(l, t, i)
    PROVE  Has(k, t, i) \/ Doomed(t, i)
<1> DEFINE s == l[Len(l)].term
           u == k[Len(k)].term
<1>1. l # << >> /\ i \in 1..Len(l) /\ l[i].term = t
    BY DEF Has
<1>2. /\ Tip(l) = [index |-> Len(l), term |-> s] /\ s \in Terms /\ 1 <= s
      /\ Agrees(l, ledger[s], Len(l)) /\ Len(l) \in Nat \ {0}
      /\ \A j \in 1..Len(l) : l[j].term <= s
    BY <1>1, TipOrdered
<1>3. t <= s /\ s \in Nat /\ t \in Nat
    BY <1>1, <1>2, TermsNat
<1>4. k # << >>
    <2>1. ASSUME k = << >> PROVE Tip(k).term = 0
        BY <2>1 DEF Tip
    <2>2. QED
        BY <1>2, <1>3, <2>1 DEF IsLogUpToDate
<1>5. /\ Tip(k) = [index |-> Len(k), term |-> u] /\ u \in Terms
      /\ Agrees(k, ledger[u], Len(k)) /\ Len(k) \in Nat \ {0} /\ Led(u)
    BY <1>4, TipOrdered
<1> HIDE DEF s, u
<1>6. /\ u \in Nat
      /\ Tip(k).term = u /\ Tip(k).index = Len(k)
      /\ Tip(l).term = s /\ Tip(l).index = Len(l)
    <2>1. u \in Nat
        BY <1>5, TermsNat
    <2>2. Tip(k) = [index |-> Len(k), term |-> u] /\ Tip(l) = [index |-> Len(l), term |-> s]
        BY <1>2, <1>5
    <2>3. QED
        BY <2>1, <2>2
<1>7. \/ u = s /\ Len(l) <= Len(k)
      \/ u > s
    BY <1>2, <1>3, <1>5, <1>6 DEF IsLogUpToDate
<1>8. CASE u = s /\ Len(l) <= Len(k)
    <2>1. Agrees(k, l, Len(l))
        BY <1>2, <1>5, <1>8 DEF Agrees
    <2>2. QED
        BY <1>1, <2>1 DEF Agrees, Has
<1>9. CASE u > s
    <2>1. Has(ledger[u], t, i) \/ Doomed(t, i)
        BY <1>3, <1>5, <1>6, <1>9 DEF LeadersComplete
    <2>2. ASSUME Has(ledger[u], t, i)
          PROVE  Has(k, t, i)
        <3>1. i \in 1..Len(ledger[u]) /\ ledger[u][i].term = t
            BY <2>2 DEF Has
        <3>2. Len(k) \in 1..Len(ledger[u]) /\ ledger[u][Len(k)].term = u
            BY <1>5 DEF Agrees, u
        <3>3. i <= Len(k)
            <4>1. ASSUME i > Len(k) PROVE FALSE
                <5>1. i \in Len(k)..Len(ledger[u])
                    BY <3>1, <3>2, <4>1
                <5>2. Ordered(ledger[u], u)
                    BY <1>5 DEF LedgerSound
                <5>3. u <= t
                    BY <3>1, <3>2, <5>1, <5>2 DEF Ordered
                <5>4. QED
                    BY <1>3, <1>6, <1>9, <5>3
            <4>2. QED
                BY <1>5, <3>1, <4>1
        <3>4. QED
            BY <1>5, <3>1, <3>3 DEF Agrees, Has
    <2>3. QED
        BY <2>1, <2>2
<1>10. QED
    BY <1>7, <1>8, <1>9

\* Who is given a vote has what the voter had acknowledged.
LEMMA GrantKnows ==
    ASSUME Undisturbed, Known, CommitInv, Progress, Typed', RunsOn,
           NEW q \in voteReqs, RequestVote(q),
           NEW b \in ballots', b \notin ballots, Running(b.cand, b.term)',
           NEW t \in Terms, NEW i \in Nat, t < b.term, 1 <= i,
           i <= acked'[b.voter][t], Own(t, i)'
    PROVE  Has(log'[b.cand], t, i) \/ Doomed(t, i)'
<1> DEFINE v == q.to
           c == q.from
           grant == q.term = currentTerm'[v] /\ IsLogUpToDate(log[v], q.tip)
<1>1. /\ Typed /\ LedgerSound /\ LogsFrom /\ LeadersComplete /\ AckedKept /\ TipsTrue
      /\ CallsPast /\ ElectionTypeOK
    BY BaseTyped DEF Known, Base, LeaderInv, VoteInv, LogInv, CommitInv
<1>2. v \in Server /\ c \in Server /\ q.term \in Terms /\ q.term <= currentTerm[c]
    BY <1>1 DEF ElectionTypeOK, VoteRequest, CallsPast
<1>3. log' = log /\ ledger' = ledger /\ acked' = acked
    BY DEF RequestVote, raftVars, logVars, history
<1>4. grant /\ b = [voter |-> v, term |-> q.term, cand |-> c]
    <2> DEFINE newer == q.term > currentTerm[v]
               term == IF newer THEN q.term ELSE currentTerm[v]
               voted == IF newer THEN Nil ELSE votedFor[v]
               gives == q.term = term /\ GivesVote(voted, c, IsLogUpToDate(log[v], q.tip))
    <2>1. /\ currentTerm' = [currentTerm EXCEPT ![v] = term]
          /\ ballots' = IF gives THEN ballots \cup {[voter |-> v, term |-> term, cand |-> c]}
                                 ELSE ballots
        BY DEF RequestVote, HandleRequestVote
    <2>2. currentTerm'[v] = term
        BY <1>1, <1>2, <2>1 DEF Typed
    <2> HIDE DEF term, voted
    <2>3. gives /\ b = [voter |-> v, term |-> term, cand |-> c]
        BY <2>1
    <2>4. QED
        BY <2>2, <2>3 DEF GivesVote
<1>5. b.cand = c /\ b.voter = v /\ b.term = q.term
    BY <1>4
<1>6. Running(c, q.term)
    BY <1>2, <1>5 DEF RunsOn
<1>7. IsLogUpToDate(log[v], Tip(log[c]))
    BY <1>1, <1>4, <1>6 DEF TipsTrue
<1>8. Own(t, i) /\ i <= acked[v][t]
    BY <1>3, <1>5 DEF Own
<1>9. Has(log[v], t, i) \/ Doomed(t, i)
    BY <1>1, <1>2, <1>8 DEF AckedKept
<1>10. ASSUME Has(log[v], t, i)
       PROVE  Has(log[c], t, i) \/ Doomed(t, i)
    <2>1. /\ log[v] \in Seq(Entry) /\ log[c] \in Seq(Entry)
          /\ From(log[v], ledger) /\ From(log[c], ledger)
        BY <1>1, <1>2, KnownTyped DEF LogsFrom
    <2>2. QED
        BY <1>1, <1>7, <1>8, <1>10, <2>1, UpToDateHas
<1>11. Doomed(t, i) => Doomed(t, i)'
    BY <1>1, DoomedStays
<1>12. QED
    BY <1>3, <1>5, <1>9, <1>10, <1>11

\* So has who votes for itself.
LEMMA CampaignKnows ==
    ASSUME Known, CommitInv, Progress, Typed', NEW n \in Server, Campaign(n),
           NEW b \in ballots', b \notin ballots,
           NEW t \in Terms, NEW i \in Nat, 1 <= i,
           i <= acked'[b.voter][t], Own(t, i)'
    PROVE  Has(log'[b.cand], t, i) \/ Doomed(t, i)'
<1>1. Typed /\ AckedKept
    BY BaseTyped DEF Known, CommitInv
<1>2. log' = log /\ ledger' = ledger /\ acked' = acked
    BY DEF Campaign, raftVars, logVars, history
<1>3. b.cand = n /\ b.voter = n
    BY DEF Campaign, StartElection
<1>4. Own(t, i) /\ i <= acked[n][t]
    BY <1>2, <1>3 DEF Own
<1>5. Has(log[n], t, i) \/ Doomed(t, i)
    BY <1>1, <1>4 DEF AckedKept
<1>6. Doomed(t, i) => Doomed(t, i)'
    BY <1>1, DoomedStays
<1>7. QED
    BY <1>2, <1>3, <1>5, <1>6

\* The part of the invariant that is about elections.
HistoryInv == AckedKept /\ LeadersComplete /\ VotersKnown /\ TipsTrue

LEMMA HistoryKept ==
    ASSUME Undisturbed, Known, Known', CommitInv, [RaftNext]_vars
    PROVE  HistoryInv'
<1>1. /\ Progress /\ Typed /\ Typed' /\ Base /\ Base' /\ OwnVotes
      /\ AckedHeld /\ AckedHeld' /\ AckedKept /\ LeadersComplete /\ VotersKnown /\ TipsTrue
    BY StepProgress DEF Known, LogInv, CommitInv
<1>2. RunsOn
    BY <1>1, RunsOnHolds
<1>3. AckedKept'
    <2> DEFINE Retains == \A n \in Server, t \in Terms, i \in Nat :
                 i <= acked[n][t] /\ Own(t, i) /\ Has(log[n], t, i)
                     => Has(log'[n], t, i) \/ Doomed(t, i)
    <2>1. ASSUME log' = log PROVE Retains
        BY <2>1
    <2>2. ASSUME NEW n \in Server, NEW cmd \in Command, StartCommand(n, cmd)
          PROVE  Retains
        <3> SUFFICES ASSUME NEW m \in Server, NEW t \in Terms, NEW i \in Nat,
                            Has(log[m], t, i)
                     PROVE  Has(log'[m], t, i)
            OBVIOUS
        <3>1. Agrees(log'[m], log[m], Len(log[m])) 
            BY <1>1, <2>2, CommandAdds
        <3>2. /\ log[m] \in Seq(Entry) /\ log'[m] \in Seq(Entry) /\ Len(log[m]) \in Nat
              /\ i <= Len(log[m])
            BY <1>1, KnownTyped, KnownTypedNext DEF Has
        <3>3. QED
            BY <3>1, <3>2, AgreesHas
    <2>3. ASSUME NEW q \in appendReqs, AppendEntries(q) PROVE Retains
        <3> SUFFICES ASSUME NEW n \in Server, NEW t \in Terms, NEW i \in Nat,
                            i <= acked[n][t], Own(t, i), Has(log[n], t, i)
                     PROVE  Has(log'[n], t, i) \/ Doomed(t, i)
            OBVIOUS
        <3>1. 1 <= i /\ currentTerm'[n] >= currentTerm[n]
            BY <1>1 DEF Own, Progress
        <3>2. QED
            BY <1>1, <2>3, <3>1, HandlerRetains
    <2>4. Retains
        <3>1. ASSUME NEW n \in Server, NEW p \in Server, SendAppend(n, p) PROVE log' = log
            BY <3>1 DEF SendAppend, logVars
        <3>2. ASSUME NEW r \in appendReps, Acknowledged(r) PROVE log' = log
            BY <3>2 DEF Acknowledged, logVars
        <3>3. ASSUME NEW n \in Server, Campaign(n) PROVE log' = log
            BY <3>3 DEF Campaign, raftVars, logVars
        <3>4. ASSUME NEW q \in voteReqs, RequestVote(q) PROVE log' = log
            BY <3>4 DEF RequestVote, raftVars, logVars
        <3>5. ASSUME NEW n \in Server, Winning(n) PROVE log' = log
            BY <3>5 DEF Winning, logVars
        <3>6. ASSUME Still PROVE log' = log
            BY <3>6 DEF Still, Quiet
        <3> HIDE DEF Retains
        <3>7. QED
            BY <1>1, <2>1, <2>2, <2>3, <3>1, <3>2, <3>3, <3>4, <3>5, <3>6, CommitKinds
    <2>5. QED
        BY <1>1, <2>4, AckedKeptStays
<1>4. LeadersComplete'
    <2>1. ASSUME NEW n \in Server, Winning(n), NEW u \in Terms, Led(u)', ~Led(u),
                 NEW t \in Terms, NEW i \in Nat, t < u, Own(t, i)'
          PROVE  Has(ledger'[u], t, i) \/ Doomed(t, i)'
        <3>1. u = currentTerm[n]
            BY <2>1 DEF Winning, Victory, Led
        <3>2. ledger'[u] = log[n]
            BY <2>1, <3>1, WinningGrows
        <3>3. QED
            BY <1>1, <2>1, <3>1, <3>2, WinnerComplete
    <2>2. ASSUME NEW u \in Terms, Led(u)', ~Led(u)
          PROVE  \E n \in Server : Winning(n)
        <3>1. elected' # elected
            BY <2>2 DEF Led
        <3>2. ASSUME NEW q \in appendReqs, AppendEntries(q) PROVE FALSE
            BY <3>1, <3>2, HandlerElects
        <3>3. ~ Still
            BY <3>1 DEF Still
        <3>4. ASSUME NEW n \in Server, Campaign(n) PROVE FALSE
            BY <3>1, <3>4 DEF Campaign, StartElection
        <3>5. ASSUME NEW q \in voteReqs, RequestVote(q) PROVE FALSE
            BY <3>1, <3>5 DEF RequestVote, HandleRequestVote
        <3>6. ASSUME NEW n \in Server, NEW cmd \in Command, StartCommand(n, cmd) PROVE FALSE
            BY <3>1, <3>6 DEF StartCommand, electionVars
        <3>7. ASSUME NEW n \in Server, NEW p \in Server, SendAppend(n, p) PROVE FALSE
            BY <3>1, <3>7 DEF SendAppend, electionVars
        <3>8. ASSUME NEW r \in appendReps, Acknowledged(r) PROVE FALSE
            BY <3>1, <3>8 DEF Acknowledged, AckSuccess, AckFailure, electionVars
        <3>9. QED
            BY <1>1, <3>2, <3>3, <3>4, <3>5, <3>6, <3>7, <3>8, CommitKinds
    <2>3. QED
        BY <1>1, <2>1, <2>2, LeadersCompleteStays
<1>5. ASSUME ballots' # ballots \/ voteReqs' \ voteReqs # {}
      PROVE  \/ \E n \in Server : Campaign(n)
             \/ \E q \in voteReqs : RequestVote(q)
    <2>1. ASSUME NEW q \in appendReqs, AppendEntries(q) PROVE FALSE
        BY <1>5, <2>1, HandlerElects
    <2>2. ~ Still
        BY <1>5 DEF Still
    <2>3. ASSUME NEW n \in Server, Winning(n) PROVE FALSE
        BY <1>5, <2>3 DEF Winning
    <2>4. ASSUME NEW n \in Server, NEW cmd \in Command, StartCommand(n, cmd) PROVE FALSE
        BY <1>5, <2>4 DEF StartCommand, electionVars
    <2>5. ASSUME NEW n \in Server, NEW p \in Server, SendAppend(n, p) PROVE FALSE
        BY <1>5, <2>5 DEF SendAppend, electionVars
    <2>6. ASSUME NEW r \in appendReps, Acknowledged(r) PROVE FALSE
        BY <1>5, <2>6 DEF Acknowledged, AckSuccess, AckFailure, electionVars
    <2>7. QED
        BY <1>1, <2>1, <2>2, <2>3, <2>4, <2>5, <2>6, CommitKinds
<1>6. VotersKnown'
    <2>1. ASSUME NEW b \in ballots', b \notin ballots, Running(b.cand, b.term)',
                 NEW t \in Terms, NEW i \in Nat, t < b.term,
                 1 <= i, i <= acked'[b.voter][t], Own(t, i)'
          PROVE  Has(log'[b.cand], t, i) \/ Doomed(t, i)'
        <3>1. CASE \E n \in Server : Campaign(n)
            BY <1>1, <2>1, <3>1, CampaignKnows
        <3>2. CASE \E q \in voteReqs : RequestVote(q)
            BY <1>1, <1>2, <2>1, <3>2, GrantKnows
        <3>3. QED
            BY <1>5, <2>1, <3>1, <3>2
    <2>2. QED
        BY <1>1, <1>2, <2>1, VotersKnownStays
<1>7. TipsTrue'
    <2>1. ASSUME NEW q \in voteReqs', q \notin voteReqs
          PROVE  q.tip = Tip(log'[q.from])
        <3>1. ASSUME NEW n \in Server, Campaign(n)
              PROVE  q.tip = Tip(log'[q.from])
            <4>1. /\ voteReqs' = voteReqs \cup
                        {[from |-> n, to |-> p, term |-> currentTerm[n] + 1,
                          tip |-> Tip(log[n]), waiting |-> TRUE] : p \in Peers(n)}
                  /\ log' = log
                BY <3>1 DEF Campaign, StartElection, raftVars, logVars
            <4>2. QED
                BY <2>1, <4>1
        <3>2. ASSUME NEW p \in voteReqs, RequestVote(p) PROVE FALSE
            BY <2>1, <3>2 DEF RequestVote, HandleRequestVote
        <3>3. QED
            BY <1>5, <2>1, <3>1, <3>2
    <2>2. QED
        BY <1>1, <1>2, <2>1, TipsTrueStays
<1>8. QED
    BY <1>3, <1>4, <1>6, <1>7 DEF HistoryInv

-----------------------------------------------------------------------------
(* Commits: what the commit index is moved to is chosen. *)

\* A leader's log has what any server counts as chosen up to the leader's term.
LEMMA SoundLed ==
    ASSUME Typed, LedgerSound, LeadersComplete, NEW l \in Seq(Entry), NEW c \in Nat,
           NEW u \in Nat, NEW w \in Terms, u <= w, Led(w), Sound(l, c, u), c <= Len(l)
    PROVE  Agrees(l, ledger[w], c)
<1>1. ledger[w] \in Seq(Entry) /\ w \in Nat
    BY KnownTyped
<1>2. CASE c = 0
    BY <1>1, <1>2 DEF Agrees
<1>3. ASSUME NEW t \in Terms, NEW j \in Nat, t <= u, c <= j, Chosen(t, j),
             Agrees(l, ledger[t], c)
      PROVE  Agrees(l, ledger[w], c)
    <2>1. t \in Nat /\ ledger[t] \in Seq(Entry) /\ t <= w
        BY <1>1, <1>3, KnownTyped
    <2>2. Agrees(ledger[w], ledger[t], j)
        BY <1>3, <2>1, LeaderHas
    <2>3. Agrees(ledger[t], ledger[w], c)
        BY <1>1, <1>3, <2>1, <2>2, AgreesLess
    <2>4. QED
        BY <1>1, <1>3, <2>1, <2>3, AgreesThrough
<1>4. QED
    BY <1>2, <1>3 DEF Sound

\* What agrees with a sound log is as sound.
LEMMA SoundLike ==
    ASSUME Typed, NEW l \in Seq(Entry), NEW k \in Seq(Entry), NEW c \in Nat, NEW u,
           Sound(l, c, u), Agrees(k, l, c)
    PROVE  Sound(k, c, u)
<1>1. CASE c = 0
    BY <1>1 DEF Sound
<1>2. ASSUME NEW t \in Terms, NEW j \in Nat, t <= u, c <= j, Chosen(t, j),
             Agrees(l, ledger[t], c)
      PROVE  Sound(k, c, u)
    <2>1. ledger[t] \in Seq(Entry)
        BY KnownTyped
    <2>2. Agrees(k, ledger[t], c)
        BY <1>2, <2>1, AgreesThrough
    <2>3. QED
        BY <1>2, <2>2 DEF Sound
<1>3. QED
    BY <1>1, <1>2 DEF Sound

\* With an odd number of servers the value in the middle is reached by more than half.
LEMMA MiddleReached ==
    ASSUME Cardinality(Server) % 2 = 1, NEW match \in [Server -> Nat]
    PROVE  {s \in Server : match[s] >= MajorityIndex(match)} \in Quorums
<1> DEFINE v == MajorityIndex(match)
           N == Cardinality(Server)
           Below == {s \in Server : match[s] < v}
           Reach == {s \in Server : match[s] >= v}
<1>1. v \in {match[s] : s \in Server} /\ Cardinality(Below) <= N \div 2
    BY MajorityIndexExists
<1>2. v \in Nat
    BY <1>1
<1> HIDE DEF v
<1>3. Reach = Server \ Below
    BY <1>2
<1>4. IsFiniteSet(Server) /\ IsFiniteSet(Below)
    BY ServerAssumption, FS_Subset
<1>5. N \in Nat /\ Cardinality(Below) \in Nat
    BY <1>4, FS_CardinalityType
<1>6. Cardinality(Reach) = N - Cardinality(Below)
    <2>1. Cardinality(Server \ Below) = Cardinality(Server) - Cardinality(Server \cap Below)
        BY <1>4, FS_Difference
    <2>2. Server \cap Below = Below
        OBVIOUS
    <2>3. QED
        BY <1>3, <2>1, <2>2
<1> HIDE DEF Below, Reach, N
<1>7. 2 * Cardinality(Reach) > N
    <2>1. N % 2 = 1
        BY DEF N
    <2>2. N = 2 * (N \div 2) + 1 /\ N \div 2 \in Nat
        BY <1>5, <2>1
    <2> DEFINE h == N \div 2
    <2>3. N = 2 * h + 1 /\ h \in Nat /\ Cardinality(Below) <= h
        BY <1>1, <2>2
    <2> HIDE DEF h
    <2>4. QED
        BY <1>5, <1>6, <2>3
<1>8. QED
    BY <1>7 DEF Quorums, Reach, N, v

\* The index updateCommitIndex commits is chosen.
LEMMA MajorityChosen ==
    ASSUME Cardinality(Server) % 2 = 1, Known, NEW r \in appendReps, Acknowledged(r),
           AckSuccess(r), NEW n, n = r.to, NEW match,
           match = [[matchIndex[n] EXCEPT ![r.from] = r.match] EXCEPT ![n] = Len(log[n])],
           NEW v, v = MajorityIndex(match),
           v > commitIndex[n], TermAt(log[n], v) = currentTerm[n]
    PROVE  v \in 1..Len(log[n]) /\ Chosen(currentTerm[n], v)
<1> DEFINE T == currentTerm[n]
           Q == {s \in Server : match[s] >= v}
<1>1. /\ Typed /\ RaftTypeOK /\ LeaderLog /\ LeaderKnows /\ RepliesTrue
      /\ LeadersElected /\ LeaderWon
    BY BaseTyped DEF Known, Base, RaftInv, LeaderInv, LogInv
<1>2. /\ n \in Server /\ r.from \in Server /\ r.match \in Nat
      /\ log[n] \in Seq(Entry) /\ Len(log[n]) \in Nat /\ T \in Terms
      /\ matchIndex[n] \in [Server -> Nat] /\ commitIndex[n] \in Nat
    <2>1. /\ n \in Server /\ r.from \in Server /\ r.match \in Nat
        BY <1>1 DEF RaftTypeOK, AppendReply
    <2>2. /\ matchIndex[n] \in [Server -> Nat] /\ commitIndex[n] \in Nat
        BY <1>1, <2>1 DEF RaftTypeOK
    <2>3. QED
        BY <1>1, <2>1, <2>2, KnownTyped
<1>3. /\ state[n] = "Leader" /\ r.success /\ r.term = T
    BY DEF Acknowledged, AckSuccess
<1>4. match \in [Server -> Nat]
    BY <1>2
<1>5. v \in Nat /\ v >= 1
    <2>1. v \in {match[s] : s \in Server}
        BY <1>4, MajorityIndexExists
    <2>2. v \in Nat
        BY <1>4, <2>1
    <2>3. QED
        BY <1>2, <2>2
<1>6. T >= 1 /\ T \in Nat
    <2>1. Victory(n) \in elected
        BY <1>1, <1>2, <1>3 DEF LeadersElected
    <2>2. PICK s \in 1..Victory(n).term : Won(n, s) /\ (s = Victory(n).term \/ StaleReplies)
        BY <1>1, <2>1 DEF LeaderWon, Victory
    <2>3. Victory(n).term = T /\ T \in Nat
        BY <1>2, TermsNat DEF Victory
    <2>4. QED
        BY <2>2, <2>3
<1>7. v \in 1..Len(log[n]) /\ log[n][v].term = T
    BY <1>5, <1>6 DEF TermAt
<1>8. Own(T, v)
    BY <1>1, <1>2, <1>3, <1>7 DEF LeaderLog, Own
<1>9. Q \in Quorums
    BY <1>4, MiddleReached
<1>10. ASSUME NEW s \in Q
       PROVE  acked[s][T] >= v
    <2>1. s \in Server /\ match[s] >= v /\ match[s] \in Nat /\ acked[s][T] \in Nat
        BY <1>1, <1>2, <1>4, KnownTyped
    <2>2. CASE s = n
        BY <1>1, <1>2, <1>3, <1>7, <2>1, <2>2 DEF LeaderKnows
    <2>3. CASE s # n /\ s = r.from
        <3>1. match[s] = r.match
            BY <1>2, <2>3
        <3>2. r.match <= acked[s][T]
            BY <1>1, <1>3, <2>3 DEF RepliesTrue
        <3>3. QED
            BY <1>2, <1>5, <2>1, <3>1, <3>2
    <2>4. CASE s # n /\ s # r.from
        <3>1. match[s] = matchIndex[n][s]
            BY <1>2, <2>1, <2>4
        <3>2. matchIndex[n][s] <= acked[s][T]
            BY <1>1, <1>2, <1>3, <2>1, <2>4 DEF LeaderKnows
        <3>3. QED
            BY <1>5, <2>1, <3>1, <3>2
    <2>5. QED
        BY <2>2, <2>3, <2>4
<1>11. QED
    BY <1>7, <1>8, <1>9, <1>10 DEF Chosen

\* n commits and delivers nothing, and keeps what it has committed.
Steady(n) ==
    /\ commitIndex'[n] = commitIndex[n] /\ lastApplied'[n] = lastApplied[n]
    /\ applied'[n] = applied[n]
    /\ Agrees(log'[n], log[n], commitIndex[n])

\* n commits what is chosen, and delivers it.
Advances(n) ==
    /\ commitIndex'[n] > commitIndex[n] /\ lastApplied'[n] = commitIndex'[n]
    /\ applied'[n] = applied[n] \o SubSeq(log'[n], lastApplied[n] + 1, commitIndex'[n])
    /\ Agrees(log'[n], log[n], commitIndex[n])
    /\ commitIndex'[n] <= Len(log'[n])
    /\ Sound(log'[n], commitIndex'[n], currentTerm'[n])

LEMMA SoundWithin ==
    ASSUME NEW l \in Seq(Entry), NEW c \in Nat, NEW u, Sound(l, c, u)
    PROVE  c <= Len(l)
BY DEF Sound, Agrees

LEMMA SelfAgrees ==
    ASSUME NEW l \in Seq(Entry), NEW c \in Nat, c <= Len(l)
    PROVE  Agrees(l, l, c)
BY DEF Agrees

\* ApplyUpTo of a server that commits what is chosen.
LEMMA ApplyAdvances ==
    ASSUME RaftTypeOK, RaftTypeOK', NEW n \in Server, NEW l, l = log'[n], NEW commit \in Nat,
           ApplyUpTo(n, l, commit), commit > commitIndex[n], lastApplied[n] = commitIndex[n],
           Agrees(log'[n], log[n], commitIndex[n]),
           commit <= Len(l), Sound(l, commit, currentTerm'[n])
    PROVE  Advances(n) /\ \A m \in Server : m # n =>
               /\ commitIndex'[m] = commitIndex[m] /\ lastApplied'[m] = lastApplied[m]
               /\ applied'[m] = applied[m]
<1>1. /\ commitIndex \in [Server -> Nat] /\ lastApplied \in [Server -> Nat]
      /\ applied \in [Server -> Seq(Entry)] /\ l \in Seq(Entry)
    BY DEF RaftTypeOK
<1>2. Lesser(commit, Len(l)) = commit
    BY <1>1 DEF Lesser
<1>3. /\ commitIndex' = [commitIndex EXCEPT ![n] = commit]
      /\ lastApplied' = [lastApplied EXCEPT ![n] = commit]
      /\ applied' = [applied EXCEPT ![n] = @ \o SubSeq(l, lastApplied[n] + 1, commit)]
    BY <1>1, <1>2 DEF ApplyUpTo, FirstToApply
<1>4. /\ commitIndex'[n] = commit /\ lastApplied'[n] = commit
      /\ applied'[n] = applied[n] \o SubSeq(l, lastApplied[n] + 1, commit)
      /\ \A m \in Server : m # n =>
               /\ commitIndex'[m] = commitIndex[m] /\ lastApplied'[m] = lastApplied[m]
               /\ applied'[m] = applied[m]
    BY <1>1, <1>3
<1>5. QED
    BY <1>4 DEF Advances

\* Only n advances, the others are steady.
LEMMA HandlerCommits ==
    ASSUME Known, Known', CommitInv, Progress, NEW q \in appendReqs, AppendEntries(q),
           NEW m \in Server
    PROVE  Steady(m) \/ Advances(m)
<1> DEFINE n       == q.to
           lead    == ledger[q.term]
           lastNew == q.prevIndex + Len(q.entries)
<1>1. /\ Typed /\ RaftTypeOK /\ RaftTypeOK' /\ Base /\ LogInv /\ LedgerSound
      /\ LeadersComplete /\ CommitsSound /\ CallsSound /\ AppliedSound /\ CallsFrom
    BY BaseTyped DEF Known, Base, RaftInv, LogInv, CommitInv
<1>2. /\ log[m] \in Seq(Entry) /\ log'[m] \in Seq(Entry) /\ commitIndex[m] \in Nat
      /\ Sound(log[m], commitIndex[m], currentTerm[m])
      /\ commitIndex[m] <= Len(log[m])
      /\ currentTerm[m] \in Nat
    <2>1. /\ log[m] \in Seq(Entry) /\ log'[m] \in Seq(Entry) /\ commitIndex[m] \in Nat
        BY <1>1 DEF RaftTypeOK
    <2>2. Sound(log[m], commitIndex[m], currentTerm[m])
        BY <1>1 DEF CommitsSound
    <2>3. QED
        BY <1>1, <2>1, <2>2, SoundWithin, KnownTyped
<1>3. ASSUME UNCHANGED applyVars, log'[m] = log[m]
      PROVE  Steady(m)
    BY <1>2, <1>3, SelfAgrees DEF Steady, applyVars
<1>4. CASE AppendOutdated(q)
    BY <1>3, <1>4 DEF AppendOutdated, logVars
<1>5. ASSUME AppendGap(q) \/ AppendConflict(q) \/ AppendAccepted(q)
      PROVE  /\ n \in Server /\ q.term \in Terms /\ q.term >= currentTerm[n] /\ AdoptTerm(q)
             /\ \A s \in Server : s # n => log'[s] = log[s]
             /\ lead \in Seq(Entry) /\ lastNew \in Nat /\ lastNew <= Len(lead)
             /\ log'[n] \in Seq(Entry) /\ Keeps(log'[n], log[n], lead)
             /\ AppendAccepted(q) => Agrees(log'[n], lead, lastNew)
    BY <1>1, <1>5, HandlerLog
<1>6. ASSUME AppendGap(q) \/ AppendConflict(q) \/ AppendAccepted(q), m = n
      PROVE  Agrees(log'[m], log[m], commitIndex[m])
    <2>1. /\ q.term \in Terms /\ q.term >= currentTerm[m] /\ Keeps(log'[m], log[m], lead)
        BY <1>5, <1>6
    <2>2. Led(q.term)
        BY <1>1 DEF CallsFrom, Led
    <2>3. q.term \in Nat /\ currentTerm[m] <= q.term
        BY <1>2, <2>1, TermsNat
    <2>4. Agrees(log[m], lead, commitIndex[m])
        BY <1>1, <1>2, <2>1, <2>2, <2>3, SoundLed
    <2>5. QED
        BY <1>2, <2>1, <2>4 DEF Keeps
<1>7. CASE (AppendGap(q) \/ AppendConflict(q)) \/ (AppendAccepted(q) /\ ~CommitFollows(q))
    <2>1. UNCHANGED applyVars
        BY <1>7 DEF AppendGap, AppendConflict, AppendAccepted
    <2>2. CASE m # n
        BY <1>3, <1>5, <1>7, <2>1, <2>2
    <2>3. CASE m = n
        BY <1>6, <1>7, <2>1, <2>3 DEF Steady, applyVars
    <2>4. QED
        BY <2>2, <2>3
<1>8. CASE AppendAccepted(q) /\ CommitFollows(q)
    <2> DEFINE commit == Lesser(q.leaderCommit, lastNew)
    <2>1. /\ q.leaderCommit \in Nat /\ q.leaderCommit <= lastNew
          /\ Sound(lead, q.leaderCommit, q.term)
        BY <1>1 DEF CallsSound, RaftTypeOK, AppendRequest
    <2>2. /\ n \in Server /\ q.term \in Terms /\ lead \in Seq(Entry) /\ lastNew \in Nat
          /\ q.term >= currentTerm[n] /\ AdoptTerm(q)
          /\ log'[n] \in Seq(Entry) /\ Agrees(log'[n], lead, lastNew)
          /\ \A s \in Server : s # n => log'[s] = log[s]
        BY <1>5, <1>8
    <2>3. commit = q.leaderCommit
        BY <2>1, <2>2 DEF Lesser
    <2>4. currentTerm'[n] = q.term
        BY <1>1, <2>2, Adopted
    <2>5. Agrees(log'[n], lead, q.leaderCommit)
        BY <2>1, <2>2, AgreesLess
    <2>6. Sound(log'[n], q.leaderCommit, currentTerm'[n])
        BY <1>1, <2>1, <2>2, <2>4, <2>5, SoundLike
    <2>7. q.leaderCommit <= Len(log'[n])
        BY <2>1, <2>2, <2>6, SoundWithin
    <2>8. ApplyUpTo(n, log'[n], q.leaderCommit) /\ q.leaderCommit > commitIndex[n]
        <3>1. ApplyUpTo(n, Merge(log[n], q.prevIndex, q.entries), commit)
              /\ log' = [log EXCEPT ![n] = Merge(log[n], q.prevIndex, q.entries)]
            BY <1>8 DEF AppendAccepted
        <3>2. log'[n] = Merge(log[n], q.prevIndex, q.entries)
            BY <1>1, <2>2, <3>1 DEF RaftTypeOK
        <3>3. QED
            BY <1>8, <2>3, <3>1, <3>2 DEF CommitFollows
    <2>9. lastApplied[n] = commitIndex[n]
        BY <1>1, <2>2 DEF AppliedSound, Delivered
    <2>10. Agrees(log'[n], log[n], commitIndex[n])
        <3>1. /\ log[n] \in Seq(Entry) /\ commitIndex[n] \in Nat
              /\ Sound(log[n], commitIndex[n], currentTerm[n])
              /\ currentTerm[n] \in Nat
            BY <1>1, <2>2, KnownTyped DEF RaftTypeOK, CommitsSound
        <3>2. commitIndex[n] <= Len(log[n])
            BY <3>1, SoundWithin
        <3>3. Led(q.term)
            BY <1>1 DEF CallsFrom, Led
        <3>4. q.term \in Nat /\ currentTerm[n] <= q.term
            BY <2>2, <3>1, TermsNat
        <3>5. Agrees(log[n], lead, commitIndex[n])
            BY <1>1, <2>2, <3>1, <3>2, <3>3, <3>4, SoundLed
        <3>6. QED
            BY <1>5, <1>8, <3>1, <3>5 DEF Keeps
    <2>11. Advances(n) /\ \A s \in Server : s # n =>
               /\ commitIndex'[s] = commitIndex[s] /\ lastApplied'[s] = lastApplied[s]
               /\ applied'[s] = applied[s]
        BY <1>1, <2>1, <2>2, <2>6, <2>7, <2>8, <2>9, <2>10, ApplyAdvances
    <2>12. CASE m = n
        BY <2>11, <2>12
    <2>13. CASE m # n
        BY <1>2, <2>2, <2>11, <2>13, SelfAgrees DEF Steady
    <2>14. QED
        BY <2>12, <2>13
<1>9. QED
    BY <1>4, <1>7, <1>8 DEF AppendEntries

LEMMA LeaderCommits ==
    ASSUME Cardinality(Server) % 2 = 1, Known, Known', CommitInv, Progress,
           NEW r \in appendReps, Acknowledged(r), NEW m \in Server
    PROVE  Steady(m) \/ Advances(m)
<1> DEFINE n == r.to
           match == [[matchIndex[n] EXCEPT ![r.from] = r.match] EXCEPT ![n] = Len(log[n])]
           v == MajorityIndex(match)
<1>1. /\ Typed /\ RaftTypeOK /\ RaftTypeOK' /\ CommitsSound /\ AppliedSound
    BY BaseTyped DEF Known, Base, RaftInv, CommitInv
<1>2. /\ \A s \in Server : /\ log[s] \in Seq(Entry) /\ commitIndex[s] \in Nat
                           /\ Sound(log[s], commitIndex[s], currentTerm[s])
      /\ n \in Server /\ log' = log /\ currentTerm' = currentTerm
    BY <1>1 DEF CommitsSound, RaftTypeOK, AppendReply, Acknowledged, AckSuccess, AckFailure,
                electionVars, logVars
<1>3. \A s \in Server : Agrees(log'[s], log[s], commitIndex[s])
    BY <1>2, SoundWithin, SelfAgrees
<1>4. ASSUME UNCHANGED applyVars PROVE Steady(m)
    BY <1>3, <1>4 DEF Steady, applyVars
<1>5. CASE AckSuccess(r) /\ v > commitIndex[n] /\ TermAt(log[n], v) = currentTerm[n]
    <2>1. v \in 1..Len(log[n]) /\ Chosen(currentTerm[n], v)
        BY <1>5, MajorityChosen
    <2>2. ApplyUpTo(n, log[n], v)
        BY <1>5 DEF AckSuccess, AckOfCall, UpdateCommitIndex
    <2> HIDE DEF v
    <2>3. currentTerm[n] \in Terms /\ currentTerm[n] \in Nat /\ v \in Nat /\ v <= Len(log[n])
        BY <1>1, <1>2, <2>1, KnownTyped
    <2>4. ledger[currentTerm[n]] = log[n]
        BY <1>2, <1>5 DEF AckSuccess, Known, LogInv, LeaderLog
    <2>5. Agrees(log[n], ledger[currentTerm[n]], v)
        BY <1>2, <2>3, <2>4, SelfAgrees
    <2>6. Sound(log[n], v, currentTerm[n])
        BY <2>1, <2>3, <2>5 DEF Sound
    <2>7. lastApplied[n] = commitIndex[n]
        BY <1>1, <1>2 DEF AppliedSound, Delivered
    <2>8. Advances(n) /\ \A s \in Server : s # n =>
               /\ commitIndex'[s] = commitIndex[s] /\ lastApplied'[s] = lastApplied[s]
               /\ applied'[s] = applied[s]
        BY <1>1, <1>2, <1>3, <1>5, <2>2, <2>3, <2>6, <2>7, ApplyAdvances
    <2>9. QED
        BY <1>3, <2>8 DEF Steady
<1>6. CASE ~ (AckSuccess(r) /\ v > commitIndex[n] /\ TermAt(log[n], v) = currentTerm[n])
    <2>1. UNCHANGED applyVars
        BY <1>6 DEF Acknowledged, AckSuccess, AckFailure, AckOfCall, UpdateCommitIndex
    <2>2. QED
        BY <1>4, <2>1
<1>7. QED
    BY <1>5, <1>6

LEMMA StepCommits ==
    ASSUME Undisturbed, Cardinality(Server) % 2 = 1, Known, Known', CommitInv,
           [RaftNext]_vars, NEW m \in Server
    PROVE  Steady(m) \/ Advances(m)
<1>1. /\ Progress /\ Typed /\ Typed' /\ RaftTypeOK /\ CommitsSound /\ Base'
    BY StepProgress DEF Known, Base, RaftInv, CommitInv
<1>2. log[m] \in Seq(Entry) /\ commitIndex[m] \in Nat /\ commitIndex[m] <= Len(log[m])
    <2>1. log[m] \in Seq(Entry) /\ commitIndex[m] \in Nat
        BY <1>1 DEF RaftTypeOK
    <2>2. Sound(log[m], commitIndex[m], currentTerm[m])
        BY <1>1 DEF CommitsSound
    <2>3. QED
        BY <2>1, <2>2, SoundWithin
<1>3. ASSUME UNCHANGED applyVars, log' = log PROVE Steady(m)
    BY <1>2, <1>3, SelfAgrees DEF Steady, applyVars
<1>4. ASSUME NEW n \in Server, NEW cmd \in Command, StartCommand(n, cmd) PROVE Steady(m)
    <2>1. Agrees(log'[m], log[m], Len(log[m])) /\ UNCHANGED applyVars
        BY <1>1, <1>4, CommandAdds DEF StartCommand
    <2>2. log'[m] \in Seq(Entry) /\ Len(log[m]) \in Nat
        BY <1>1, <1>2, KnownTypedNext
    <2>3. Agrees(log'[m], log[m], commitIndex[m])
        BY <1>2, <2>1, <2>2, AgreesLess
    <2>4. QED
        BY <2>1, <2>3 DEF Steady, applyVars
<1>5. ASSUME NEW n \in Server, NEW p \in Server, SendAppend(n, p) PROVE Steady(m)
    BY <1>3, <1>5 DEF SendAppend, logVars
<1>6. ASSUME NEW n \in Server, Campaign(n) PROVE Steady(m)
    BY <1>3, <1>6 DEF Campaign, raftVars, logVars
<1>7. ASSUME NEW q \in voteReqs, RequestVote(q) PROVE Steady(m)
    BY <1>3, <1>7 DEF RequestVote, raftVars, logVars
<1>8. ASSUME NEW n \in Server, Winning(n) PROVE Steady(m)
    BY <1>3, <1>8 DEF Winning, logVars
<1>9. ASSUME Still PROVE Steady(m)
    BY <1>3, <1>9 DEF Still, Quiet
<1>10. ASSUME NEW q \in appendReqs, AppendEntries(q) PROVE Steady(m) \/ Advances(m)
    BY <1>1, <1>10, HandlerCommits
<1>11. ASSUME NEW r \in appendReps, Acknowledged(r) PROVE Steady(m) \/ Advances(m)
    BY <1>1, <1>11, LeaderCommits
<1>12. QED
    BY <1>1, <1>4, <1>5, <1>6, <1>7, <1>8, <1>9, <1>10, <1>11, CommitKinds

\* What is delivered, and then what was committed anew, is what is committed.
LEMMA DeliveredOn ==
    ASSUME NEW a \in Seq(Entry), NEW l \in Seq(Entry), NEW k \in Seq(Entry),
           NEW c \in Nat, NEW d \in Nat, c < d, d <= Len(k),
           Len(a) = c, Agrees(a, l, c), Agrees(k, l, c)
    PROVE  LET b == a \o SubSeq(k, c + 1, d)
           IN  Len(b) = d /\ Agrees(b, k, d)
<1> DEFINE s == SubSeq(k, c + 1, d)
           b == a \o s
<1>1. /\ s \in Seq(Entry) /\ Len(s) = d - c
      /\ \A x \in 1..Len(s) : s[x] = k[c + x]
    <2>1. c + 1 \in Nat \ {0} /\ c + 1 <= d
        OBVIOUS
    <2>2. /\ s \in Seq(Entry) /\ Len(s) = d - (c + 1) + 1
          /\ \A x \in 1..Len(s) : s[x] = k[(c + 1) + x - 1]
        BY <2>1, SliceTyped
    <2> HIDE DEF s
    <2>3. Len(s) = d - c
        BY <2>2
    <2>4. \A x \in 1..Len(s) : (c + 1) + x - 1 = c + x
        BY <2>3
    <2>5. QED
        BY <2>2, <2>3, <2>4
<1> HIDE DEF s
<1>2. Len(b) = d /\ \A x \in 1..d : b[x] = IF x <= c THEN a[x] ELSE s[x - c]
    BY <1>1
<1> HIDE DEF b
<1>3. ASSUME NEW x \in 1..d PROVE b[x] = k[x]
    <2>1. CASE x <= c
        BY <1>2, <2>1 DEF Agrees
    <2>2. CASE x > c
        <3>1. x - c \in 1..Len(s) /\ c + (x - c) = x
            BY <1>1, <2>2
        <3>2. s[x - c] = k[c + (x - c)]
            BY <1>1, <3>1
        <3>3. b[x] = s[x - c]
            BY <1>2, <2>2
        <3>4. QED
            BY <3>1, <3>2, <3>3
    <2>3. QED
        BY <2>1, <2>2
<1>4. QED
    BY <1>2, <1>3 DEF Agrees, b, s

LEMMA CommitsKept ==
    ASSUME Undisturbed, Cardinality(Server) % 2 = 1, Known, Known', CommitInv, [RaftNext]_vars
    PROVE  CommitsSound' /\ AppliedSound'
<1>1. /\ Progress /\ Typed /\ Typed' /\ RaftTypeOK /\ RaftTypeOK'
      /\ CommitsSound /\ AppliedSound /\ Base'
    BY StepProgress DEF Known, Base, RaftInv, CommitInv
<1>2. ASSUME NEW n \in Server
      PROVE  Sound(log[n], commitIndex[n], currentTerm[n])'
    <2>1. /\ log[n] \in Seq(Entry) /\ log'[n] \in Seq(Entry)
          /\ commitIndex[n] \in Nat /\ commitIndex'[n] \in Nat
          /\ currentTerm[n] \in Nat /\ currentTerm'[n] \in Nat
          /\ currentTerm[n] <= currentTerm'[n]
        BY <1>1, KnownTyped, KnownTypedNext DEF RaftTypeOK, Progress
    <2>2. ASSUME NEW l, NEW c, NEW u, NEW w,
                 l = log'[n], c = commitIndex'[n], w = currentTerm'[n],
                 u \in Nat, u <= w, Sound(l, c, u)
          PROVE  Sound(log[n], commitIndex[n], currentTerm[n])'
        <3>1. l \in Seq(Entry) /\ c \in Nat /\ w \in Nat
            BY <2>1, <2>2
        <3>2. Sound(l, c, w)'
            BY <1>1, <2>2, <3>1, SoundStays
        <3>3. QED
            BY <2>2, <3>2 DEF Sound
    <2>3. CASE Steady(n)
        <3>1. /\ Sound(log[n], commitIndex[n], currentTerm[n])
              /\ Agrees(log'[n], log[n], commitIndex[n])
            BY <1>1, <2>3 DEF CommitsSound, Steady
        <3>2. Sound(log'[n], commitIndex[n], currentTerm[n])
            BY <1>1, <2>1, <3>1, SoundLike
        <3>3. QED
            BY <2>1, <2>2, <2>3, <3>2 DEF Steady
    <2>4. CASE Advances(n)
        <3>1. Sound(log'[n], commitIndex'[n], currentTerm'[n])
            BY <2>4 DEF Advances
        <3>2. currentTerm'[n] <= currentTerm'[n]
            BY <2>1
        <3>3. QED
            BY <2>1, <2>2, <3>1, <3>2
    <2>5. QED
        BY <2>3, <2>4, StepCommits
<1>3. ASSUME NEW n \in Server
      PROVE  Delivered(n)'
    <2>1. /\ log[n] \in Seq(Entry) /\ log'[n] \in Seq(Entry)
          /\ applied[n] \in Seq(Entry) /\ applied'[n] \in Seq(Entry)
          /\ commitIndex[n] \in Nat /\ commitIndex'[n] \in Nat
          /\ lastApplied[n] = commitIndex[n] /\ Len(applied[n]) = commitIndex[n]
          /\ Agrees(applied[n], log[n], commitIndex[n])
        BY <1>1 DEF RaftTypeOK, AppliedSound, Delivered
    <2>2. CASE Steady(n)
        <3>1. Agrees(log[n], log'[n], commitIndex[n])
            <4>1. Agrees(log'[n], log[n], commitIndex[n]) /\ commitIndex[n] <= commitIndex[n]
                BY <2>1, <2>2 DEF Steady
            <4>2. QED
                BY <2>1, <4>1, AgreesLess
        <3>2. Agrees(applied[n], log'[n], commitIndex[n])
            BY <2>1, <3>1, AgreesThrough
        <3>3. QED
            BY <2>1, <2>2, <3>2 DEF Steady, Delivered
    <2>3. CASE Advances(n)
        <3>1. /\ commitIndex[n] < commitIndex'[n] /\ commitIndex'[n] <= Len(log'[n])
              /\ lastApplied'[n] = commitIndex'[n]
              /\ applied'[n] = applied[n] \o SubSeq(log'[n], commitIndex[n] + 1, commitIndex'[n])
              /\ Agrees(log'[n], log[n], commitIndex[n])
            BY <2>1, <2>3 DEF Advances
        <3>2. /\ Len(applied'[n]) = commitIndex'[n]
              /\ Agrees(applied'[n], log'[n], commitIndex'[n])
            <4> DEFINE b == applied[n] \o SubSeq(log'[n], commitIndex[n] + 1, commitIndex'[n])
            <4>1. /\ Len(b) = commitIndex'[n]
                  /\ Agrees(b, log'[n], commitIndex'[n])
                BY <2>1, <3>1, DeliveredOn
            <4>2. QED
                BY <3>1, <4>1
        <3>3. QED
            BY <3>1, <3>2 DEF Delivered
    <2>4. QED
        BY <2>2, <2>3, StepCommits
<1>4. QED
    BY <1>2, <1>3 DEF CommitsSound, AppliedSound

\* A call tells what the leader has committed, and brings at least that.
LEMMA CallsSoundKept ==
    ASSUME Undisturbed, Known, Known', CommitInv, [RaftNext]_vars
    PROVE  CallsSound'
<1>1. /\ Progress /\ Typed /\ Typed' /\ RaftTypeOK /\ RaftTypeOK' /\ Base'
      /\ CallsSound /\ CommitsSound /\ LeaderLog /\ LeaderKnows
    BY StepProgress DEF Known, Base, RaftInv, LogInv, CommitInv
<1>2. ASSUME NEW u \in Terms, NEW c \in Nat, Sound(ledger[u], c, u)
      PROVE  Sound(ledger[u], c, u)'
    <2>1. /\ ledger[u] \in Seq(Entry) /\ ledger'[u] \in Seq(Entry)
          /\ u \in Nat /\ u <= u
        BY <1>1, KnownTyped, KnownTypedNext
    <2>2. c <= Len(ledger[u])
        BY <1>2, <2>1, SoundWithin
    <2>3. Agrees(ledger'[u], ledger[u], c)
        <3>1. Agrees(ledger'[u], ledger[u], Len(ledger[u])) /\ Len(ledger[u]) \in Nat
            BY <1>1, <2>1 DEF Progress, Grows
        <3>2. QED
            BY <2>1, <2>2, <3>1, AgreesLess
    <2>4. Sound(ledger'[u], c, u)
        BY <1>1, <1>2, <2>1, <2>3, SoundLike
    <2>5. ASSUME NEW k, k = ledger'[u]
          PROVE  Sound(ledger[u], c, u)'
        <3>1. Sound(k, c, u)'
            BY <1>1, <2>1, <2>4, <2>5, SoundStays
        <3>2. QED
            BY <2>5, <3>1 DEF Sound
    <2>6. QED
        BY <2>5
<1>3. ASSUME NEW q \in appendReqs
      PROVE  /\ Sound(ledger[q.term], q.leaderCommit, q.term)'
             /\ q.leaderCommit <= q.prevIndex + Len(q.entries)
    <2>1. q.term \in Terms /\ q.leaderCommit \in Nat
        BY <1>1 DEF RaftTypeOK, AppendRequest
    <2>2. /\ Sound(ledger[q.term], q.leaderCommit, q.term)
          /\ q.leaderCommit <= q.prevIndex + Len(q.entries)
        BY <1>1 DEF CallsSound
    <2>3. QED
        BY <1>2, <2>1, <2>2
<1>4. ASSUME appendReqs' \subseteq appendReqs
      PROVE  CallsSound'
    BY <1>3, <1>4 DEF CallsSound
<1>5. ASSUME NEW n \in Server, NEW p \in Server, SendAppend(n, p)
      PROVE  CallsSound'
    <2> DEFINE prev == nextIndex[n][p] - 1
               part == SubSeq(log[n], prev + 1, Len(log[n]))
               T    == currentTerm[n]
    <2>1. /\ state[n] = "Leader" /\ n # p
          /\ \A q \in appendReqs' :
                \/ q \in appendReqs
                \/ /\ q.term = T /\ q.prevIndex = prev
                   /\ q.entries = part /\ q.leaderCommit = commitIndex[n]
        BY <1>5 DEF SendAppend
    <2>2. /\ log[n] \in Seq(Entry) /\ Len(log[n]) \in Nat /\ T \in Terms
          /\ commitIndex[n] \in Nat /\ nextIndex[n][p] \in Nat \ {0}
        BY <1>1, KnownTyped DEF RaftTypeOK
    <2>3. ledger[T] = log[n] /\ nextIndex[n][p] <= Len(log[n]) + 1
        BY <1>1, <2>1 DEF LeaderLog, LeaderKnows
    <2>4. Sound(ledger[T], commitIndex[n], T)
        BY <1>1, <2>3 DEF CommitsSound
    <2>5. commitIndex[n] <= Len(log[n])
        BY <2>2, <2>3, <2>4, SoundWithin
    <2>6. prev + Len(part) = Len(log[n])
        <3>1. prev + 1 \in Nat \ {0} /\ prev <= Len(log[n]) /\ Len(log[n]) <= Len(log[n])
            BY <2>2, <2>3
        <3>2. Len(part) = IF prev + 1 <= Len(log[n]) THEN Len(log[n]) - (prev + 1) + 1 ELSE 0
            BY <2>2, <3>1, SliceTyped
        <3> HIDE DEF part
        <3>3. prev \in Nat
            BY <2>2
        <3> HIDE DEF prev
        <3>4. QED
            BY <2>2, <3>1, <3>2, <3>3
    <2> HIDE DEF prev, part
    <2>7. ASSUME NEW q \in appendReqs', NEW t, t = T, NEW c, c = commitIndex[n],
                 q.term = T, q.prevIndex = prev, q.entries = part, q.leaderCommit = c
          PROVE  /\ Sound(ledger[q.term], q.leaderCommit, q.term)'
                 /\ q.leaderCommit <= q.prevIndex + Len(q.entries)
        <3>1. t \in Terms /\ c \in Nat /\ Sound(ledger[t], c, t)
            BY <2>2, <2>4, <2>7
        <3>2. Sound(ledger[t], c, t)'
            BY <1>2, <3>1
        <3>3. q.term = t /\ q.leaderCommit = c
            BY <2>7
        <3>4. QED
            BY <2>5, <2>6, <2>7, <3>2, <3>3
    <2>8. QED
        BY <1>3, <2>1, <2>7 DEF CallsSound
<1>6. ASSUME NEW q \in appendReqs, AppendEntries(q) PROVE CallsSound'
    BY <1>4, <1>6
    DEF AppendEntries, AppendOutdated, AppendGap, AppendConflict, AppendAccepted, Answer
<1>7. ASSUME NEW n \in Server, Campaign(n) PROVE CallsSound'
    BY <1>4, <1>7 DEF Campaign, raftVars, rpcVars
<1>8. ASSUME NEW q \in voteReqs, RequestVote(q) PROVE CallsSound'
    BY <1>4, <1>8 DEF RequestVote, raftVars, rpcVars
<1>9. ASSUME NEW n \in Server, Winning(n) PROVE CallsSound'
    BY <1>4, <1>9 DEF Winning, rpcVars
<1>10. ASSUME NEW n \in Server, NEW cmd \in Command, StartCommand(n, cmd) PROVE CallsSound'
    BY <1>4, <1>10 DEF StartCommand, rpcVars
<1>11. ASSUME NEW r \in appendReps, Acknowledged(r) PROVE CallsSound'
    BY <1>4, <1>11 DEF Acknowledged
<1>12. ASSUME Still PROVE CallsSound'
    BY <1>4, <1>12 DEF Still, Quiet
<1>13. QED
    BY <1>1, <1>5, <1>6, <1>7, <1>8, <1>9, <1>10, <1>11, <1>12, CommitKinds

-----------------------------------------------------------------------------
LEMMA CommitsInit == RaftInit => CommitInv
<1> SUFFICES ASSUME RaftInit PROVE CommitInv
    OBVIOUS
<1>1. /\ \A n \in Server : /\ state[n] = "Follower" /\ log[n] = << >>
                           /\ commitIndex[n] = 0 /\ lastApplied[n] = 0 /\ applied[n] = << >>
      /\ \A t \in Terms : ledger[t] = << >>
      /\ elected = {} /\ ballots = {} /\ voteReqs = {} /\ appendReqs = {}
    BY DEF RaftInit, ElectionInit
<1>2. AckedKept
    BY <1>1 DEF AckedKept, Own
<1>3. LeadersComplete
    BY <1>1 DEF LeadersComplete, Led
<1>4. VotersKnown /\ TipsTrue /\ CallsSound
    BY <1>1 DEF VotersKnown, TipsTrue, CallsSound
<1>5. CommitsSound
    BY <1>1 DEF CommitsSound, Sound
<1>6. AppliedSound
    BY <1>1 DEF AppliedSound, Delivered, Agrees
<1>7. QED
    BY <1>2, <1>3, <1>4, <1>5, <1>6 DEF CommitInv

LEMMA CommitInvKept ==
    ASSUME Undisturbed, Cardinality(Server) % 2 = 1, Known, Known', CommitInv, [RaftNext]_vars
    PROVE  CommitInv'
<1>1. HistoryInv'
    BY HistoryKept
<1>2. CommitsSound' /\ AppliedSound'
    BY CommitsKept
<1>3. CallsSound'
    BY CallsSoundKept
<1>4. QED
    BY <1>1, <1>2, <1>3 DEF CommitInv, HistoryInv

LEMMA CommitInvHolds ==
    ASSUME Undisturbed, Cardinality(Server) % 2 = 1
    PROVE  RaftSpec => [](Known /\ CommitInv)
<1>1. Known /\ Known' /\ CommitInv /\ [RaftNext]_vars => CommitInv'
    BY CommitInvKept
<1>2. RaftSpec => []Known
    BY LogInvHolds DEF Known
<1>3. QED
    BY <1>1, <1>2, CommitsInit, PTL DEF RaftSpec

\* Of two logs, what each has of what is chosen: one is the beginning of the other.
LEMMA SoundCompare ==
    ASSUME Typed, LedgerSound, LeadersComplete, NEW l \in Seq(Entry), NEW k \in Seq(Entry),
           NEW c \in Nat, NEW d \in Nat, NEW u, NEW w, c <= d, Sound(l, c, u), Sound(k, d, w)
    PROVE  Agrees(l, k, c)
<1>1. CASE c = 0
    BY <1>1 DEF Agrees
<1>2. CASE c # 0
    <2>1. PICK t \in Terms, i \in Nat : c <= i /\ Chosen(t, i) /\ Agrees(l, ledger[t], c)
        BY <1>2 DEF Sound
    <2>2. d # 0
        BY <1>2
    <2>3. PICK s \in Terms, j \in Nat : d <= j /\ Chosen(s, j) /\ Agrees(k, ledger[s], d)
        BY <2>2 DEF Sound
    <2>4. /\ t \in Nat /\ s \in Nat
          /\ ledger[t] \in Seq(Entry) /\ ledger[s] \in Seq(Entry)
          /\ Led(t) /\ Led(s)
        <3>1. ledger[t] # << >> /\ ledger[s] # << >>
            BY <2>1, <2>3 DEF Chosen, Own
        <3>2. QED
            BY <2>1, <2>3, <3>1, KnownTyped DEF LedgerSound
    <2>5. Agrees(ledger[t], ledger[s], c)
        <3>1. CASE t <= s
            <4>1. Agrees(ledger[s], ledger[t], i)
                BY <2>1, <2>4, <3>1, LeaderHas
            <4>2. QED
                BY <2>1, <2>4, <4>1, AgreesLess
        <3>2. CASE s <= t
            <4>1. Agrees(ledger[t], ledger[s], j) /\ c <= j
                BY <2>3, <2>4, <3>2, LeaderHas
            <4>2. QED
                BY <2>4, <4>1, AgreesLess
        <3>3. QED
            BY <2>4, <3>1, <3>2
    <2>6. Agrees(ledger[s], k, c)
        BY <2>3, <2>4, AgreesLess
    <2>7. QED
        BY <2>1, <2>4, <2>5, <2>6, AgreesThrough
<1>3. QED
    BY <1>1, <1>2

\* A sequence that another agrees with throughout is a prefix of it.
LEMMA AgreesPrefix ==
    ASSUME NEW l \in Seq(Entry), NEW k \in Seq(Entry), Agrees(l, k, Len(l))
    PROVE  IsPrefix(l, k)
<1>1. Len(l) \in Nat /\ Len(l) <= Len(k)
    BY DEF Agrees
<1>2. SubSeq(l, 1, Len(l)) = SubSeq(k, 1, Len(l))
    BY <1>1, SlicesAgree
<1>3. QED
    BY <1>1, <1>2 DEF IsPrefix

LEMMA AppliedCompare ==
    ASSUME Known, CommitInv, NEW m \in Server, NEW n \in Server,
           Len(applied[m]) <= Len(applied[n])
    PROVE  Agrees(applied[m], applied[n], Len(applied[m]))
<1>1. /\ Typed /\ RaftTypeOK /\ LedgerSound /\ LeadersComplete /\ CommitsSound
      /\ AppliedSound
    BY BaseTyped DEF Known, Base, RaftInv, LogInv, CommitInv
<1>2. /\ log[m] \in Seq(Entry) /\ log[n] \in Seq(Entry)
      /\ applied[m] \in Seq(Entry) /\ applied[n] \in Seq(Entry)
      /\ commitIndex[m] \in Nat /\ commitIndex[n] \in Nat
    BY <1>1 DEF RaftTypeOK
<1>3. /\ Len(applied[m]) = commitIndex[m] /\ Agrees(applied[m], log[m], commitIndex[m])
      /\ Len(applied[n]) = commitIndex[n] /\ Agrees(applied[n], log[n], commitIndex[n])
      /\ Sound(log[m], commitIndex[m], currentTerm[m])
      /\ Sound(log[n], commitIndex[n], currentTerm[n])
    BY <1>1 DEF AppliedSound, Delivered, CommitsSound
<1>4. commitIndex[m] <= commitIndex[n]
    BY <1>3
<1>5. Agrees(log[m], log[n], commitIndex[m])
    BY <1>1, <1>2, <1>3, <1>4, SoundCompare
<1>6. Agrees(log[n], applied[n], commitIndex[m])
    BY <1>2, <1>3, <1>4, AgreesLess
<1>7. Agrees(applied[m], applied[n], commitIndex[m])
    BY <1>2, <1>3, <1>5, <1>6, AgreesThrough
<1>8. QED
    BY <1>3, <1>7

\* Whatever two servers have handed to their state machines, one is the beginning of
\* the other: log.go applies only what updateCommitIndex or a leader's call has
\* committed, and no leader comes that has other entries there.
THEOREM MachinesAgree ==
    ASSUME MaxDiskFaults = 0, MaxRestarts = 0, StaleReplies = FALSE,
           Cardinality(Server) % 2 = 1
    PROVE  RaftSpec => []StateMachineSafety
<1>1. Undisturbed
    BY DEF Undisturbed
<1>2. Known /\ CommitInv => StateMachineSafety
    <2> SUFFICES ASSUME Known, CommitInv, NEW m \in Server, NEW n \in Server
                 PROVE  IsPrefix(applied[m], applied[n]) \/ IsPrefix(applied[n], applied[m])
        BY DEF StateMachineSafety
    <2>1. applied[m] \in Seq(Entry) /\ applied[n] \in Seq(Entry)
        BY DEF Known, Base, RaftInv, RaftTypeOK
    <2>2. CASE Len(applied[m]) <= Len(applied[n])
        BY <2>1, <2>2, AppliedCompare, AgreesPrefix
    <2>3. CASE Len(applied[n]) <= Len(applied[m])
        BY <2>1, <2>3, AppliedCompare, AgreesPrefix
    <2>4. QED
        BY <2>1, <2>2, <2>3
<1>3. QED
    BY <1>1, <1>2, CommitInvHolds, PTL

\* What a server has committed, a leader that no server is ahead of has in its log:
\* the RequestVote handler refuses a candidate whose log is behind.
THEOREM LeadersAreComplete ==
    ASSUME MaxDiskFaults = 0, MaxRestarts = 0, StaleReplies = FALSE,
           Cardinality(Server) % 2 = 1
    PROVE  RaftSpec => []LeaderCompleteness
<1>1. Undisturbed
    BY DEF Undisturbed
<1>2. Known /\ CommitInv => LeaderCompleteness
    <2> SUFFICES ASSUME Known, CommitInv, NEW l \in Server, NEW n \in Server,
                        state[l] = "Leader",
                        \A m \in Server : currentTerm[m] <= currentTerm[l]
                 PROVE  IsPrefix(Committed(n), log[l])
        BY DEF LeaderCompleteness
    <2> DEFINE c == commitIndex[n]
               T == currentTerm[l]
    <2>1. /\ Typed /\ RaftTypeOK /\ LedgerSound /\ LeadersComplete /\ CommitsSound
          /\ LeaderLog /\ LeadersElected
        BY BaseTyped DEF Known, Base, RaftInv, LogInv, CommitInv
    <2>2. /\ log[l] \in Seq(Entry) /\ log[n] \in Seq(Entry) /\ c \in Nat
          /\ T \in Terms /\ currentTerm[n] \in Nat /\ currentTerm[n] <= T
        BY <2>1, KnownTyped DEF RaftTypeOK
    <2>3. Led(T) /\ log[l] = ledger[T]
        BY <2>1 DEF LeadersElected, LeaderLog, Led, Victory
    <2>4. Sound(log[n], c, currentTerm[n]) /\ c <= Len(log[n])
        BY <2>1, <2>2, SoundWithin DEF CommitsSound
    <2>5. Agrees(log[n], log[l], c)
        BY <2>1, <2>2, <2>3, <2>4, SoundLed
    <2>6. SubSeq(log[n], 1, c) = SubSeq(log[l], 1, c) /\ c <= Len(log[l])
        BY <2>2, <2>5, SlicesAgree DEF Agrees
    <2>7. SubSeq(log[n], 1, c) \in Seq(Entry) /\ Len(SubSeq(log[n], 1, c)) = c
          /\ \A x \in 1..c : SubSeq(log[n], 1, c)[x] = log[n][x]
        <3>1. /\ SubSeq(log[n], 1, c) \in Seq(Entry)
              /\ Len(SubSeq(log[n], 1, c)) = IF 1 <= c THEN c - 1 + 1 ELSE 0
              /\ \A x \in 1..Len(SubSeq(log[n], 1, c)) : SubSeq(log[n], 1, c)[x] = log[n][1 + x - 1]
            BY <2>2, <2>4, SliceTyped
        <3> DEFINE s == SubSeq(log[n], 1, c)
        <3> HIDE DEF s, c
        <3>2. Len(s) = c
            BY <2>2, <3>1 DEF s
        <3>3. \A x \in 1..c : 1 + x - 1 = x
            BY <2>2
        <3>4. QED
            BY <3>1, <3>2, <3>3 DEF s
    <2>8. Agrees(Committed(n), log[l], c)
        BY <2>2, <2>5, <2>7 DEF Committed, Agrees
    <2>9. QED
        BY <2>2, <2>7, <2>8, AgreesPrefix DEF Committed
<1>3. QED
    BY <1>1, <1>2, CommitInvHolds, PTL

\* No commit index goes back, although AppendEntries and updateCommitIndex assign it.
THEOREM CommitsAdvance ==
    ASSUME MaxDiskFaults = 0, MaxRestarts = 0, StaleReplies = FALSE,
           Cardinality(Server) % 2 = 1
    PROVE  RaftSpec => CommitMonotone
<1>1. Undisturbed
    BY DEF Undisturbed
<1>2. /\ Known /\ Known' /\ CommitInv /\ [RaftNext]_vars
      => [\A n \in Server : commitIndex'[n] >= commitIndex[n]]_vars
    <2> SUFFICES ASSUME Known, Known', CommitInv, [RaftNext]_vars, NEW n \in Server
                 PROVE  commitIndex'[n] >= commitIndex[n]
        OBVIOUS
    <2>1. commitIndex[n] \in Nat
        BY DEF Known, Base, RaftInv, RaftTypeOK
    <2>2. Steady(n) \/ Advances(n)
        BY <1>1, StepCommits
    <2>3. CASE Steady(n)
        <3>1. commitIndex'[n] = commitIndex[n]
            BY <2>3 DEF Steady
        <3>2. QED
            BY <2>1, <3>1
    <2>4. CASE Advances(n)
        <3>1. commitIndex'[n] > commitIndex[n] /\ commitIndex'[n] \in Nat
            BY <2>4 DEF Advances, Known, Base, RaftInv, RaftTypeOK
        <3>2. QED
            BY <2>1, <3>1
    <2>5. QED
        BY <2>2, <2>3, <2>4
<1>3. QED
    BY <1>1, <1>2, CommitInvHolds, PTL DEF RaftSpec, CommitMonotone

\* What a server has committed is held by a majority, which goes on holding it: what
\* the majority acknowledged, no handler of AppendEntries cuts off again.
THEOREM CommitsHeld ==
    ASSUME MaxDiskFaults = 0, MaxRestarts = 0, StaleReplies = FALSE,
           Cardinality(Server) % 2 = 1
    PROVE  RaftSpec => []CommitOnMajority
<1>1. Undisturbed
    BY DEF Undisturbed
<1>2. Known /\ CommitInv => CommitOnMajority
    <2> SUFFICES ASSUME Known, CommitInv, NEW n \in Server, NEW i \in 1..commitIndex[n]
                 PROVE  Len(log[n]) >= i /\ 2 * Cardinality(Holders(n, i)) > Cardinality(Server)
        BY DEF CommitOnMajority
    <2> DEFINE c == commitIndex[n]
    <2>1. /\ Typed /\ RaftTypeOK /\ LedgerSound /\ LogsFrom /\ CommitsSound /\ AckedKept
        BY BaseTyped DEF Known, Base, RaftInv, LogInv, CommitInv
    <2>2. c \in Nat /\ c # 0 /\ i \in Nat /\ 1 <= i /\ i <= c /\ log[n] \in Seq(Entry)
        BY <2>1 DEF RaftTypeOK
    <2>3. PICK t \in Terms, j \in Nat : c <= j /\ Chosen(t, j) /\ Agrees(log[n], ledger[t], c)
        BY <2>1, <2>2 DEF CommitsSound, Sound
    <2>4. PICK Q \in Quorums : \A v \in Q : acked[v][t] >= j
        BY <2>3 DEF Chosen
    <2>5. /\ ledger[t] \in Seq(Entry) /\ From(ledger[t], ledger) /\ Own(t, j)
          /\ i <= Len(log[n]) /\ log[n][i] = ledger[t][i] /\ i <= j
        <3>1. ledger[t] \in Seq(Entry) /\ From(ledger[t], ledger) /\ Own(t, j)
            BY <2>1, <2>3, KnownTyped DEF LedgerSound, Chosen
        <3>2. c <= Len(log[n]) /\ \A x \in 1..c : log[n][x] = ledger[t][x]
            BY <2>3 DEF Agrees
        <3>3. c <= j /\ i \in 1..c
            BY <2>3
        <3> HIDE DEF c
        <3>4. QED
            BY <2>2, <3>1, <3>2, <3>3
    <2>6. ASSUME NEW v \in Q
          PROVE  v \in Holders(n, i)
        <3>1. v \in Server
            BY DEF Quorums
        <3>2. /\ log[v] \in Seq(Entry) /\ From(log[v], ledger) /\ acked[v][t] \in Nat
              /\ j <= acked[v][t] /\ 1 <= j
            BY <2>1, <2>4, <2>5, <3>1, KnownTyped DEF LogsFrom, Own
        <3>3. Has(log[v], t, j)
            BY <2>1, <2>3, <2>5, <3>1, <3>2, ChosenNotDoomed DEF AckedKept
        <3>4. Has(ledger[t], t, j)
            BY <2>5 DEF Own, Has
        <3>5. Agrees(log[v], ledger[t], j)
            BY <2>5, <3>2, <3>3, <3>4, HasAgrees
        <3>6. i <= Len(log[v]) /\ log[v][i] = ledger[t][i]
            BY <2>2, <2>5, <3>2, <3>5 DEF Agrees
        <3>7. QED
            BY <2>2, <2>5, <3>1, <3>2, <3>6 DEF Holders
    <2>7. Q \subseteq Holders(n, i) /\ Holders(n, i) \subseteq Server
        BY <2>6 DEF Holders
    <2>8. IsFiniteSet(Holders(n, i)) /\ IsFiniteSet(Q) /\ IsFiniteSet(Server)
        BY <2>7, ServerAssumption, FS_Subset
    <2>9. /\ Cardinality(Q) \in Nat /\ Cardinality(Holders(n, i)) \in Nat
          /\ Cardinality(Server) \in Nat
          /\ Cardinality(Q) <= Cardinality(Holders(n, i))
        BY <2>7, <2>8, FS_Subset, FS_CardinalityType
    <2>10. 2 * Cardinality(Q) > Cardinality(Server)
        BY <2>4 DEF Quorums
    <2>11. 2 * Cardinality(Holders(n, i)) > Cardinality(Server)
        BY <2>9, <2>10
    <2>12. QED
        BY <2>2, <2>5, <2>11
<1>3. QED
    BY <1>1, <1>2, CommitInvHolds, PTL
-----------------------------------------------------------------------------
(* The state machines together behave as one log. *)

\* One of the applied sequences is as long as any, and all the others begin it.
LongestCovers ==
    /\ Longest \in {applied[n] : n \in Server}
    /\ \A n \in Server : /\ Len(applied[n]) <= Len(Longest)
                         /\ Agrees(applied[n], Longest, Len(applied[n]))

LEMMA LongestIs ==
    ASSUME Known, CommitInv
    PROVE  LongestCovers
<1> DEFINE Lens == {Len(applied[n]) : n \in Server}
           Above == {b \in Nat : \A x \in Lens : x <= b}
<1>1. /\ \A n \in Server : applied[n] \in Seq(Entry)
      /\ IsFiniteSet(Server) /\ Server # {}
    BY ServerAssumption DEF Known, Base, RaftInv, RaftTypeOK
<1>2. Lens \subseteq Nat /\ \A n \in Server : Len(applied[n]) \in Lens
    BY <1>1
<1>3. IsFiniteSet(Lens)
    <2> DEFINE len == [n \in Server |-> Len(applied[n])]
    <2>1. len \in Surjection(Server, Lens)
        BY DEF Surjection
    <2>2. QED
        BY <1>1, <2>1, FS_Surjection
<1>4. Above # {}
    BY <1>2, <1>3, FiniteBounded
<1>5. PICK b \in Above : \A x \in Above : b <= x
    BY <1>4, LeastExists
<1>6. b \in Nat /\ \A x \in Lens : x <= b
    OBVIOUS
<1>7. b \in Lens
    <2>1. SUFFICES ASSUME b \notin Lens
                   PROVE  FALSE
        OBVIOUS
    <2>2. PICK x \in Lens : TRUE
        BY <1>1
    <2>3. x \in Nat /\ x <= b /\ x # b
        BY <1>2, <1>6, <2>1
    <2>4. b - 1 \in Nat
        BY <1>6, <2>3
    <2>5. \A y \in Lens : y <= b - 1
        BY <1>2, <1>6, <2>1
    <2>6. b - 1 \in Above
        BY <2>4, <2>5
    <2>7. QED
        BY <1>5, <1>6, <2>6
<1>8. PICK m \in Server : Len(applied[m]) = b
    BY <1>7
<1>9. \A n \in Server : Len(applied[n]) <= Len(applied[m])
    BY <1>2, <1>6, <1>8
<1>10. /\ Longest \in {applied[n] : n \in Server}
       /\ \A n \in Server : Len(applied[n]) <= Len(Longest)
    BY <1>8, <1>9 DEF Longest
<1>11. PICK k \in Server : Longest = applied[k]
    BY <1>10
<1>12. QED
    BY <1>10, <1>11, AppliedCompare DEF LongestCovers

LEMMA SameSequence ==
    ASSUME NEW l \in Seq(Entry), NEW k \in Seq(Entry), Len(l) = Len(k),
           Agrees(l, k, Len(l))
    PROVE  l = k
BY DEF Agrees

\* A step delivers at one server at most.
LEMMA OneApplies ==
    ASSUME RaftTypeOK, [RaftNext]_vars
    PROVE  \E n \in Server : applied' = [applied EXCEPT ![n] = applied'[n]]
<1>1. /\ applied \in [Server -> Seq(Entry)] /\ Server # {}
    BY ServerAssumption DEF RaftTypeOK
<1> DEFINE One == \E n \in Server : applied' = [applied EXCEPT ![n] = applied'[n]]
<1>2. ASSUME applied' = applied PROVE One
    <2>1. PICK n \in Server : TRUE
        BY <1>1
    <2>2. QED
        BY <1>1, <1>2, <2>1
<1>3. ASSUME NEW n \in Server, NEW l, NEW commit, ApplyUpTo(n, l, commit) PROVE One
    <2>1. CASE commit > lastApplied[n]
        <3>1. \E s : applied' = [applied EXCEPT ![n] = s]
            BY <1>3, <2>1 DEF ApplyUpTo
        <3>2. QED
            BY <1>1, <3>1
    <2>2. CASE ~ (commit > lastApplied[n])
        BY <1>2, <1>3, <2>2 DEF ApplyUpTo
    <2>3. QED
        BY <2>1, <2>2
<1>4. ASSUME NEW n \in Server, TimeOut(n) \/ Campaign(n) PROVE One
    BY <1>2, <1>4 DEF TimeOut, Campaign, raftVars, applyVars
<1>5. ASSUME NEW q \in voteReqs, RequestVote(q) PROVE One
    BY <1>2, <1>5 DEF RequestVote, raftVars, applyVars
<1>6. ASSUME NEW r \in voteReps, ReceiveVote(r) PROVE One
    BY <1>2, <1>6 DEF ReceiveVote, applyVars
<1>7. ASSUME NEW n \in Server, NEW cmd \in Command, StartCommand(n, cmd) PROVE One
    BY <1>2, <1>7 DEF StartCommand, applyVars
<1>8. ASSUME NEW n \in Server, NEW p \in Server, SendAppend(n, p) PROVE One
    BY <1>2, <1>8 DEF SendAppend, applyVars
<1>9. ASSUME NEW q \in appendReqs, AppendEntries(q) PROVE One
    <2>1. q.to \in Server
        BY DEF RaftTypeOK, AppendRequest
    <2>2. UNCHANGED applyVars \/ \E l, commit : ApplyUpTo(q.to, l, commit)
        BY <1>9 DEF AppendEntries, AppendOutdated, AppendGap, AppendConflict, AppendAccepted
    <2>3. QED
        BY <1>2, <1>3, <2>1, <2>2 DEF applyVars
<1>10. ASSUME NEW r \in appendReps, ReceiveAck(r) PROVE One
    <2>1. r.to \in Server
        BY DEF RaftTypeOK, AppendReply
    <2>2. UNCHANGED applyVars \/ \E l, commit : ApplyUpTo(r.to, l, commit)
        BY <1>10 DEF ReceiveAck, AckIgnored, AckNewerTerm, AckSuccess, AckFailure,
                     UpdateCommitIndex
    <2>3. QED
        BY <1>2, <1>3, <2>1, <2>2 DEF applyVars
<1>11. ASSUME NEW q \in appendReqs, LoseRequest(q) PROVE One
    BY <1>2, <1>11 DEF LoseRequest, applyVars
<1>12. ASSUME NEW r \in appendReps, LoseReply(r) PROVE One
    BY <1>2, <1>12 DEF LoseReply, applyVars
<1>13. ASSUME NEW n \in Server, Restart(n) PROVE One
    BY <1>1, <1>13 DEF Restart
<1>14. CASE UNCHANGED vars
    BY <1>2, <1>14 DEF vars, raftVars, applyVars
<1>15. QED
    BY <1>4, <1>5, <1>6, <1>7, <1>8, <1>9, <1>10, <1>11, <1>12, <1>13, <1>14 DEF RaftNext

\* What is delivered is never taken back.
LEMMA AppliedGrows ==
    ASSUME Undisturbed, Cardinality(Server) % 2 = 1, Known, Known', CommitInv,
           [RaftNext]_vars, NEW m \in Server
    PROVE  /\ Agrees(applied[m], applied'[m], Len(applied[m]))
           /\ Len(applied[m]) <= Len(applied'[m])
<1>1. /\ applied[m] \in Seq(Entry) /\ applied'[m] \in Seq(Entry)
      /\ log'[m] \in Seq(Entry) /\ commitIndex[m] \in Nat /\ commitIndex'[m] \in Nat
      /\ lastApplied[m] = commitIndex[m]
    BY DEF Known, Base, RaftInv, RaftTypeOK, CommitInv, AppliedSound, Delivered
<1>2. Steady(m) \/ Advances(m)
    BY StepCommits
<1>3. CASE Steady(m)
    BY <1>1, <1>3, SelfAgrees DEF Steady
<1>4. CASE Advances(m)
    <2> DEFINE s == SubSeq(log'[m], commitIndex[m] + 1, commitIndex'[m])
    <2>1. /\ applied'[m] = applied[m] \o s /\ commitIndex'[m] <= Len(log'[m])
        BY <1>1, <1>4 DEF Advances
    <2>2. s \in Seq(Entry)
        <3>1. commitIndex[m] + 1 \in Nat \ {0}
            BY <1>1
        <3>2. QED
            BY <1>1, <2>1, <3>1, SliceTyped
    <2> HIDE DEF s
    <2>3. QED
        BY <1>1, <2>1, <2>2 DEF Agrees
<1>5. QED
    BY <1>2, <1>3, <1>4

LEMMA StepsOneLog ==
    ASSUME Undisturbed, Cardinality(Server) % 2 = 1, Known, Known', CommitInv,
           LongestCovers, LongestCovers', [RaftNext]_vars
    PROVE  Abstract!LogNext \/ UNCHANGED <<Longest, applied>>
<1>1. /\ applied \in [Server -> Seq(Entry)] /\ applied' \in [Server -> Seq(Entry)]
    BY DEF Known, Base, RaftInv, RaftTypeOK
<1>2. PICK n \in Server : applied' = [applied EXCEPT ![n] = applied'[n]]
    BY OneApplies DEF Known, Base, RaftInv
<1>3. \A m \in Server : m # n => applied'[m] = applied[m]
    BY <1>1, <1>2
<1>4. \A m \in Server : /\ Agrees(applied[m], applied'[m], Len(applied[m]))
                        /\ Len(applied[m]) <= Len(applied'[m])
    BY AppliedGrows
<1> DEFINE L == Longest
           M == Longest'
           d == Len(applied'[n])
<1>5. PICK k \in Server : L = applied[k]
    BY DEF LongestCovers
<1>6. \A m \in Server : Len(applied[m]) <= Len(L)
    BY DEF LongestCovers
<1>7. PICK j \in Server : M = applied'[j]
    BY DEF LongestCovers
<1>8. \A m \in Server : /\ Len(applied'[m]) <= Len(M)
                        /\ Agrees(applied'[m], M, Len(applied'[m]))
    BY DEF LongestCovers
<1>9. L \in Seq(Entry) /\ M \in Seq(Entry) /\ applied[n] \in Seq(Entry) /\ applied'[n] \in Seq(Entry)
    BY <1>1, <1>5, <1>7
<1>10. Agrees(L, M, Len(L))
    <2>1. /\ Agrees(L, applied'[k], Len(L)) /\ Len(L) <= Len(applied'[k])
          /\ Agrees(applied'[k], M, Len(applied'[k])) /\ applied'[k] \in Seq(Entry)
        BY <1>1, <1>4, <1>5, <1>8
    <2> HIDE DEF L, M
    <2>2. Len(L) \in Nat /\ Len(applied'[k]) \in Nat
        BY <1>9, <2>1
    <2>3. Agrees(applied'[k], M, Len(L))
        BY <1>9, <2>1, <2>2, AgreesLess
    <2>4. QED
        BY <1>9, <2>1, <2>2, <2>3, AgreesThrough
<1>11. CASE Len(M) <= Len(L)
    <2>1. M = L
        <3> HIDE DEF L, M
        <3>1. Len(M) = Len(L)
            BY <1>9, <1>10, <1>11 DEF Agrees
        <3>2. QED
            BY <1>9, <1>10, <3>1, SameSequence
    <2>2. Longest' = Longest
        BY <2>1
    <2>3. d \in Len(applied[n])..Len(L)
        <3>1. Len(applied[n]) \in Nat /\ d \in Nat /\ Len(L) \in Nat
            BY <1>9
        <3>2. Len(applied[n]) <= d /\ d <= Len(L)
            BY <1>4, <1>8, <2>1
        <3> HIDE DEF L, d
        <3>3. QED
            BY <3>1, <3>2
    <2>4. applied'[n] = SubSeq(L, 1, d)
        <3>1. Agrees(applied'[n], L, d) /\ d \in Nat
            BY <1>8, <1>9, <2>1
        <3> HIDE DEF L
        <3>2. SubSeq(applied'[n], 1, d) = SubSeq(L, 1, d)
            BY <1>9, <3>1, SlicesAgree
        <3>3. SubSeq(applied'[n], 1, d) = applied'[n]
            BY <1>9
        <3>4. QED
            BY <3>2, <3>3
    <2>5. applied' = [applied EXCEPT ![n] = SubSeq(L, 1, d)]
        BY <1>2, <2>4
    <2>6. Abstract!CatchUp(n)
        <3> HIDE DEF d
        <3>1. QED
            BY <2>2, <2>3, <2>5 DEF Abstract!CatchUp
    <2>7. QED
        BY <2>6 DEF Abstract!LogNext
<1>12. CASE Len(M) > Len(L)
    <2>1. j = n
        <3>1. ASSUME j # n PROVE FALSE
            <4>1. M = applied[j]
                BY <1>3, <1>7, <3>1
            <4>2. Len(M) <= Len(L) /\ Len(M) \in Nat /\ Len(L) \in Nat
                BY <1>6, <1>9, <4>1
            <4> HIDE DEF L, M
            <4>3. QED
                BY <1>12, <4>2
        <3>2. QED
            BY <3>1
    <2>2. IsPrefix(L, M)
        <3> HIDE DEF L, M
        <3>1. QED
            BY <1>9, <1>10, AgreesPrefix
    <2>3. applied' = [applied EXCEPT ![n] = M]
        BY <1>2, <1>7, <2>1
    <2>4. Abstract!Extend(n)
        BY <2>2, <2>3 DEF Abstract!Extend, Abstract!IsPrefix, IsPrefix
    <2>5. QED
        BY <2>4 DEF Abstract!LogNext
<1>13. QED
    <2>1. Len(L) \in Nat /\ Len(M) \in Nat
        BY <1>9
    <2> HIDE DEF L, M
    <2>2. Len(M) <= Len(L) \/ Len(M) > Len(L)
        BY <2>1
    <2>3. QED
        BY <1>11, <1>12, <2>2

LEMMA StartsOneLog == RaftInit => Abstract!LogInit
<1> SUFFICES ASSUME RaftInit PROVE Abstract!LogInit
    OBVIOUS
<1>1. applied = [n \in Server |-> << >>] /\ Server # {}
    BY ServerAssumption DEF RaftInit
<1>2. {applied[n] : n \in Server} = {<< >>}
    BY <1>1
<1>3. \A n \in Server : Len(applied[n]) <= Len(<< >>)
    BY <1>1
<1>4. Longest = << >>
    BY <1>2, <1>3 DEF Longest
<1>5. QED
    BY <1>1, <1>4 DEF Abstract!LogInit

\* The cluster is one replicated log: there is a sequence that only grows, and each
\* server hands its state machine a beginning of it, in order and once.
THEOREM ClusterIsOneLog ==
    ASSUME MaxDiskFaults = 0, MaxRestarts = 0, StaleReplies = FALSE,
           Cardinality(Server) % 2 = 1
    PROVE  RaftSpec => OneLog
<1>1. Undisturbed
    BY DEF Undisturbed
<1>2. Known /\ CommitInv => LongestCovers
    BY LongestIs
<1>3. /\ Known /\ Known' /\ CommitInv /\ LongestCovers /\ LongestCovers' /\ [RaftNext]_vars
      => [Abstract!LogNext]_<<Longest, applied>>
    BY <1>1, StepsOneLog
<1>4. QED
    BY <1>1, <1>2, <1>3, StartsOneLog, CommitInvHolds, PTL
    DEF RaftSpec, OneLog, Abstract!LogSpec
=============================================================================
