----------------------------- MODULE RaftProofs -----------------------------
(***************************************************************************)
(* Proofs about module Raft, restarts included: types, that its steps are  *)
(* steps of Election, and that no entry is of a term that is not on disk.  *)
(***************************************************************************)
EXTENDS Raft, ElectionLeaderProofs, SequenceTheorems, WellFoundedInduction

-----------------------------------------------------------------------------
(* Numbers and majorities. *)

\* A set of naturals has a least element: induction, for provers without it.
LEMMA LeastExists ==
    ASSUME NEW S \in SUBSET Nat, S # {}
    PROVE  \E i \in S : \A j \in S : i <= j
<1> DEFINE R == {p \in Nat \X Nat : p[1] < p[2]}
<1>1. IsWellFoundedOn(R, Nat)
    BY NatLessThanWellFounded DEF OpToRel
<1> HIDE DEF R
<1>2. PICK i \in S : \A j \in S : ~ (<<j, i>> \in R)
    BY <1>1, WFMin
<1>3. \A j \in S : ~ (j < i)
    BY <1>2 DEF R
<1>4. QED
    BY <1>3

\* Finitely many naturals have an upper bound.
LEMMA FiniteBounded ==
    ASSUME NEW S \in SUBSET Nat, IsFiniteSet(S)
    PROVE  \E b \in Nat : \A x \in S : x <= b
<1> DEFINE Unbounded(T) == /\ IsFiniteSet(T)
                           /\ ~ \E b \in Nat : \A x \in T : x <= b
           Sizes == {k \in Nat : \E T \in SUBSET Nat : Unbounded(T) /\ Cardinality(T) = k}
<1>1. SUFFICES ASSUME Unbounded(S)
               PROVE  FALSE
    OBVIOUS
<1>2. Cardinality(S) \in Sizes
    BY <1>1, FS_CardinalityType
<1>3. PICK k \in Sizes : \A j \in Sizes : k <= j
    <2>1. Sizes \in SUBSET Nat /\ Sizes # {}
        BY <1>2
    <2> HIDE DEF Sizes
    <2>2. QED
        BY <2>1, LeastExists
<1>4. PICK T \in SUBSET Nat : Unbounded(T) /\ Cardinality(T) = k
    OBVIOUS
<1>5. T # {}
    BY <1>4
<1>6. PICK x \in T : TRUE
    BY <1>5
<1>7. /\ IsFiniteSet(T \ {x}) /\ T \ {x} \in SUBSET Nat
      /\ Cardinality(T \ {x}) = k - 1
    BY <1>4, FS_RemoveElement
<1>8. ~ Unbounded(T \ {x})
    <2>1. k - 1 \in Nat
        BY <1>7, FS_CardinalityType
    <2>2. k - 1 \notin Sizes
        BY <1>3, <2>1
    <2>3. QED
        BY <1>7, <2>1, <2>2
<1>9. PICK b \in Nat : \A y \in T \ {x} : y <= b
    BY <1>7, <1>8
<1>10. PICK c \in Nat : b <= c /\ x <= c
    <2>1. x \in Nat
        OBVIOUS
    <2>2. b <= b + x /\ x <= b + x /\ b + x \in Nat
        BY <2>1
    <2>3. QED
        BY <2>2
<1>11. \A y \in T : y <= c
    BY <1>9, <1>10
<1>12. QED
    BY <1>4, <1>11

\* MajorityIndex has the meaning it is named for: the sorted list has an entry in
\* the middle.
LEMMA MajorityIndexExists ==
    ASSUME NEW match \in [Server -> Nat]
    PROVE  LET v == MajorityIndex(match)
           IN  /\ v \in {match[s] : s \in Server}
               /\ Cardinality({s \in Server : match[s] < v}) <= Cardinality(Server) \div 2
               /\ Cardinality({s \in Server : match[s] <= v}) > Cardinality(Server) \div 2
<1> DEFINE N == Cardinality(Server)
           Upto(k) == {s \in Server : match[s] <= k}
           Below(k) == {s \in Server : match[s] < k}
           Enough == {k \in Nat : Cardinality(Upto(k)) > N \div 2}
<1>1. /\ IsFiniteSet(Server) /\ N \in Nat \ {0} /\ N \div 2 \in Nat
      /\ \A k \in Nat : IsFiniteSet(Upto(k)) /\ Cardinality(Upto(k)) \in Nat
    <2>1. IsFiniteSet(Server) /\ N \in Nat \ {0}
        BY ServerAssumption, FS_CardinalityType, FS_EmptySet
    <2>2. N \div 2 \in Nat
        BY <2>1
    <2>3. ASSUME NEW k \in Nat
          PROVE  IsFiniteSet(Upto(k)) /\ Cardinality(Upto(k)) \in Nat
        BY <2>1, FS_Subset, FS_CardinalityType
    <2>4. QED
        BY <2>1, <2>2, <2>3
<1>2. PICK b \in Nat : \A s \in Server : match[s] <= b
    <2>1. /\ {match[s] : s \in Server} \in SUBSET Nat
          /\ IsFiniteSet({match[s] : s \in Server})
        <3>1. {match[s] : s \in Server} \in SUBSET Nat
            OBVIOUS
        <3>2. match \in Surjection(Server, {match[s] : s \in Server})
            BY DEF Surjection
        <3>3. QED
            BY <1>1, <3>1, <3>2, FS_Surjection
    <2>2. PICK b \in Nat : \A x \in {match[s] : s \in Server} : x <= b
        BY <2>1, FiniteBounded
    <2>3. QED
        BY <2>2
<1>3. b \in Enough
    <2>1. Upto(b) = Server
        BY <1>2
    <2>2. N > N \div 2
        BY <1>1
    <2>3. QED
        BY <2>1, <2>2
<1>4. PICK v \in Enough : \A k \in Enough : v <= k
    <2>1. Enough \in SUBSET Nat /\ Enough # {}
        BY <1>3
    <2> HIDE DEF Enough
    <2>2. QED
        BY <2>1, LeastExists
<1>5. Cardinality(Below(v)) <= N \div 2
    <2>1. CASE v = 0
        <3>1. Below(v) = {}
            BY <2>1
        <3>2. Cardinality(Below(v)) = 0
            BY <3>1, FS_EmptySet
        <3>3. 0 <= N \div 2
            BY <1>1
        <3>4. QED
            BY <3>2, <3>3
    <2>2. CASE v # 0
        <3>1. v - 1 \in Nat /\ v - 1 \notin Enough
            BY <1>4, <2>2
        <3>2. Below(v) = Upto(v - 1)
            BY <2>2
        <3>3. Cardinality(Upto(v - 1)) \in Nat
            BY <1>1, <3>1
        <3>4. ~ (Cardinality(Upto(v - 1)) > N \div 2)
            BY <3>1
        <3>5. Cardinality(Upto(v - 1)) <= N \div 2
            BY <1>1, <3>3, <3>4
        <3> HIDE DEF Upto, Below
        <3>6. QED
            BY <3>2, <3>5
    <2>3. QED
        BY <2>1, <2>2
<1>6. v \in {match[s] : s \in Server}
    <2>1. SUFFICES ASSUME v \notin {match[s] : s \in Server}
                   PROVE  FALSE
        OBVIOUS
    <2>2. Below(v) = Upto(v)
        BY <2>1
    <2>3. Cardinality(Upto(v)) > N \div 2 /\ Cardinality(Upto(v)) \in Nat
        BY <1>1
    <2>4. QED
        BY <1>1, <1>5, <2>2, <2>3
<1>7. Cardinality({s \in Server : match[s] <= v}) > N \div 2
    OBVIOUS
<1>8. QED
    BY <1>5, <1>6, <1>7 DEF MajorityIndex
-----------------------------------------------------------------------------
(* Logs. *)

\* Everything the operators on logs return is a log.
LEMMA SliceTyped ==
    ASSUME NEW S, NEW l \in Seq(S), NEW i \in Nat \ {0}, NEW j \in Nat, j <= Len(l)
    PROVE  /\ SubSeq(l, i, j) \in Seq(S)
           /\ Len(SubSeq(l, i, j)) = IF i <= j THEN j - i + 1 ELSE 0
           /\ \A x \in 1..Len(SubSeq(l, i, j)) : SubSeq(l, i, j)[x] = l[i + x - 1]
<1>1. \A x \in i..j : l[x] \in S
    OBVIOUS
<1>2. i \in Int /\ j \in Int
    OBVIOUS
<1>3. QED
    BY <1>1, <1>2, SubSeqProperties

\* What Merge does: nothing if every new entry is there already, in its term;
\* otherwise the first that is not, d, and those after it replace the rest.
LEMMA MergeShape ==
    ASSUME NEW l \in Seq(Entry), NEW prev \in 0..Len(l), NEW entries \in Seq(Entry)
    PROVE  LET merged == Merge(l, prev, entries)
           IN  \/ /\ merged = l
                  /\ prev + Len(entries) <= Len(l)
                  /\ \A i \in 1..Len(entries) : l[prev + i].term = entries[i].term
               \/ \E d \in 1..Len(entries) :
                     /\ prev + d > Len(l) \/ l[prev + d].term # entries[d].term
                     /\ \A i \in 1..(d - 1) : /\ prev + i <= Len(l)
                                              /\ l[prev + i].term = entries[i].term
                     /\ merged \in Seq(Entry)
                     /\ Len(merged) = prev + Len(entries)
                     /\ \A x \in 1..(prev + d - 1) : x <= Len(l) /\ merged[x] = l[x]
                     /\ \A x \in (prev + d)..(prev + Len(entries)) :
                           merged[x] = entries[x - prev]
<1> DEFINE differs == {i \in 1..Len(entries) :
                          prev + i > Len(l) \/ l[prev + i].term # entries[i].term}
           first == CHOOSE i \in differs : \A j \in differs : i <= j
<1>1. CASE differs = {}
    <2>1. Merge(l, prev, entries) = l
        BY <1>1 DEF Merge
    <2>2. \A i \in 1..Len(entries) : prev + i <= Len(l) /\ l[prev + i].term = entries[i].term
        BY <1>1
    <2>3. prev + Len(entries) <= Len(l)
        <3>1. CASE Len(entries) = 0
            BY <3>1
        <3>2. CASE Len(entries) # 0
            BY <2>2, <3>2
        <3>3. QED
            BY <3>1, <3>2
    <2>4. QED
        BY <2>1, <2>2, <2>3
<1>2. CASE differs # {}
    <2>1. first \in differs /\ \A j \in differs : first <= j
        <3>1. differs \in SUBSET Nat
            OBVIOUS
        <3>2. \E i \in differs : \A j \in differs : i <= j
            <4> HIDE DEF differs
            <4>1. QED
                BY <1>2, <3>1, LeastExists
        <3> HIDE DEF differs
        <3>3. QED
            BY <3>2
    <2>2. Merge(l, prev, entries) =
              SubSeq(l, 1, prev + first - 1) \o SubSeq(entries, first, Len(entries))
        BY <1>2 DEF Merge
    <2> HIDE DEF first
    <2>3. /\ first \in 1..Len(entries)
          /\ prev + first > Len(l) \/ l[prev + first].term # entries[first].term
        BY <2>1
    <2>4. ASSUME NEW i \in 1..(first - 1)
          PROVE  prev + i <= Len(l) /\ l[prev + i].term = entries[i].term
        <3>1. i \in 1..Len(entries) /\ i \notin differs
            BY <2>1, <2>3
        <3>2. QED
            BY <3>1
    <2>5. prev + first - 1 <= Len(l)
        <3>1. CASE first = 1
            BY <3>1
        <3>2. CASE first # 1
            <4>1. first - 1 \in 1..(first - 1)
                BY <2>3, <3>2
            <4>2. QED
                BY <2>3, <2>4, <4>1
        <3>3. QED
            BY <3>1, <3>2
    <2> DEFINE head == SubSeq(l, 1, prev + first - 1)
               rest == SubSeq(entries, first, Len(entries))
    <2>6. /\ head \in Seq(Entry) /\ Len(head) = prev + first - 1
          /\ \A x \in 1..(prev + first - 1) : head[x] = l[x]
        <3>1. prev + first - 1 \in Nat
            BY <2>3
        <3>2. QED
            BY <2>3, <2>5, <3>1, SliceTyped
    <2>7. /\ rest \in Seq(Entry) /\ Len(rest) = Len(entries) - first + 1
          /\ \A x \in 1..Len(rest) : rest[x] = entries[first + x - 1]
        <3>1. first \in Nat \ {0} /\ first <= Len(entries) /\ Len(entries) \in Nat
            BY <2>3
        <3>2. QED
            BY <3>1, SliceTyped
    <2> DEFINE merged == Merge(l, prev, entries)
    <2>0. merged = head \o rest
        BY <2>2
    <2> HIDE DEF head, rest, differs, merged
    <2>8. /\ merged \in Seq(Entry)
          /\ Len(merged) = Len(head) + Len(rest)
          /\ \A x \in 1..(Len(head) + Len(rest)) :
                merged[x] = IF x <= Len(head) THEN head[x] ELSE rest[x - Len(head)]
        BY <2>0, <2>6, <2>7, ConcatProperties
    <2>9. Len(merged) = prev + Len(entries)
        BY <2>3, <2>6, <2>7, <2>8
    <2>10. ASSUME NEW x \in 1..(prev + first - 1)
           PROVE  x <= Len(l) /\ merged[x] = l[x]
        <3>1. /\ x <= Len(l) /\ x <= Len(head) /\ x \in 1..(Len(head) + Len(rest))
            BY <2>3, <2>5, <2>6, <2>7
        <3>2. QED
            BY <2>6, <2>8, <3>1
    <2>11. ASSUME NEW x \in (prev + first)..(prev + Len(entries))
           PROVE  merged[x] = entries[x - prev]
        <3>1. /\ x \in 1..(Len(head) + Len(rest)) /\ ~ (x <= Len(head))
              /\ x - Len(head) \in 1..Len(rest)
              /\ first + (x - Len(head)) - 1 = x - prev
            BY <2>3, <2>6, <2>7
        <3>2. merged[x] = rest[x - Len(head)]
            BY <2>8, <3>1
        <3>3. rest[x - Len(head)] = entries[first + (x - Len(head)) - 1]
            BY <2>7, <3>1
        <3>4. QED
            BY <3>1, <3>2, <3>3
    <2>12. QED
        BY <2>3, <2>4, <2>8, <2>9, <2>10, <2>11 DEF merged
<1>3. QED
    BY <1>1, <1>2

\* The log after the entry loop is a log; its entries are old ones or new ones.
LEMMA MergeTyped ==
    ASSUME NEW l \in Seq(Entry), NEW prev \in 0..Len(l), NEW entries \in Seq(Entry)
    PROVE  LET merged == Merge(l, prev, entries)
           IN  /\ merged \in Seq(Entry)
               /\ Len(merged) \in {Len(l), prev + Len(entries)}
               /\ prev + Len(entries) <= Len(merged)
               /\ \A x \in 1..Len(merged) :
                     \/ x <= Len(l) /\ merged[x] = l[x]
                     \/ x - prev \in 1..Len(entries) /\ merged[x] = entries[x - prev]
<1> DEFINE merged == Merge(l, prev, entries)
<1>1. CASE merged = l /\ prev + Len(entries) <= Len(l)
    BY <1>1
<1>2. ASSUME NEW d \in 1..Len(entries),
             merged \in Seq(Entry),
             Len(merged) = prev + Len(entries),
             \A x \in 1..(prev + d - 1) : x <= Len(l) /\ merged[x] = l[x],
             \A x \in (prev + d)..(prev + Len(entries)) : merged[x] = entries[x - prev]
      PROVE  /\ prev + Len(entries) <= Len(merged)
             /\ \A x \in 1..Len(merged) :
                     \/ x <= Len(l) /\ merged[x] = l[x]
                     \/ x - prev \in 1..Len(entries) /\ merged[x] = entries[x - prev]
    <2> HIDE DEF merged
    <2>1. SUFFICES ASSUME NEW x \in 1..Len(merged)
                   PROVE  \/ x <= Len(l) /\ merged[x] = l[x]
                          \/ x - prev \in 1..Len(entries) /\ merged[x] = entries[x - prev]
        BY <1>2
    <2>2. CASE x <= prev + d - 1
        BY <1>2, <2>2
    <2>3. CASE x > prev + d - 1
        BY <1>2, <2>3
    <2>4. QED
        BY <2>2, <2>3
<1>3. QED
    BY <1>1, <1>2, MergeShape, SMTT(30)

LEMMA TipTyped == \A l \in Seq(Entry) : Tip(l) \in LogTip
<1> TAKE l \in Seq(Entry)
<1>1. LogTip = [index : 0..MaxLog, term : Terms] /\ MaxLog \in Nat
    BY LogAssumption
<1>2. CASE l = << >>
    BY <1>1, <1>2, BoundsAssumption DEF Tip, Terms
<1>3. CASE l # << >>
    <2>1. l[Len(l)] \in Entry
        <3>1. Len(l) \in Nat \ {0}
            BY <1>3, EmptySeq
        <3>2. QED
            BY <3>1, ElementOfSeq
    <2>2. Tip(l) = [index |-> l[Len(l)].index, term |-> l[Len(l)].term]
        BY <1>3 DEF Tip, Last
    <2>3. QED
        BY <1>1, <2>1, <2>2 DEF Entry
<1>4. QED
    BY <1>2, <1>3

LEMMA TermAtTyped == \A l \in Seq(Entry), i \in Nat : TermAt(l, i) \in Terms
<1> TAKE l \in Seq(Entry), i \in Nat
<1>1. CASE i \in 1..Len(l)
    <2>1. l[i] \in Entry
        BY <1>1, ElementOfSeq
    <2>2. QED
        BY <1>1, <2>1 DEF TermAt, Entry
<1>2. CASE i \notin 1..Len(l)
    BY <1>2, BoundsAssumption DEF TermAt, Terms
<1>3. QED
    BY <1>1, <1>2

\* The verdict on a candidate's tip is yes or no.
LEMMA UpToDateTyped ==
    ASSUME NEW l \in Seq(Entry), NEW tip \in LogTip
    PROVE  IsLogUpToDate(l, tip) \in BOOLEAN
<1>1. CASE tip.term # Tip(l).term
    BY <1>1 DEF IsLogUpToDate
<1>2. CASE tip.term = Tip(l).term
    BY <1>2 DEF IsLogUpToDate
<1>3. QED
    BY <1>1, <1>2

\* What the bucket operations leave and return are logs.
LEMMA BucketTyped ==
    ASSUME NEW disk \in Seq(Entry)
    PROVE  /\ \A len \in Nat : TruncateFrom(disk, len) \in Seq(Entry)
           /\ \A entries \in Seq(Entry) : AppendLogEntries(disk, entries) \in Seq(Entry)
           /\ GetLogEntries(disk, 1, Len(disk)) \in Seq(Entry)
           /\ GetLogEntries(disk, 1, Len(disk)) = disk
<1>1. \A len \in Nat : TruncateFrom(disk, len) \in Seq(Entry)
    <2>1. SubSeq(disk, 1, 1 - 1) = << >>
        BY SubSeqEmpty
    <2>2. QED
        BY <2>1 DEF TruncateFrom, TruncateLog
<1>2. \A entries \in Seq(Entry) : AppendLogEntries(disk, entries) \in Seq(Entry)
    BY ConcatProperties DEF AppendLogEntries
<1>3. GetLogEntries(disk, 1, Len(disk)) = SubSeq(disk, 1, Len(disk))
    BY DEF GetLogEntries
<1>4. SubSeq(disk, 1, Len(disk)) = disk
    BY SubSeqFull
<1>5. QED
    BY <1>1, <1>2, <1>3, <1>4

\* applyLogs keeps its variables in their types.
LEMMA ApplyTyped ==
    ASSUME RaftTypeOK, NEW n \in Server, NEW l \in Seq(Entry), NEW commit \in Nat,
           ApplyUpTo(n, l, commit)
    PROVE  /\ commitIndex' \in [Server -> Nat]
           /\ lastApplied' \in [Server -> Nat]
           /\ applied' \in [Server -> Seq(Entry)]
<1>1. /\ commitIndex \in [Server -> Nat]
      /\ lastApplied \in [Server -> Nat]
      /\ applied \in [Server -> Seq(Entry)]
    BY DEF RaftTypeOK
<1>2. commitIndex' \in [Server -> Nat]
    BY <1>1 DEF ApplyUpTo
<1>3. CASE commit > lastApplied[n]
    <2>1. /\ lastApplied' = [lastApplied EXCEPT ![n] = commit]
          /\ applied' = [applied EXCEPT ![n] =
                  @ \o SubSeq(l, FirstToApply(n), Lesser(commit, Len(l)))]
        BY <1>3 DEF ApplyUpTo
    <2>2. /\ FirstToApply(n) \in Nat \ {0} /\ Lesser(commit, Len(l)) \in Nat
          /\ Lesser(commit, Len(l)) <= Len(l)
        BY <1>1 DEF FirstToApply, Lesser
    <2>3. SubSeq(l, FirstToApply(n), Lesser(commit, Len(l))) \in Seq(Entry)
        BY <2>2, SliceTyped
    <2>4. applied[n] \o SubSeq(l, FirstToApply(n), Lesser(commit, Len(l))) \in Seq(Entry)
        BY <1>1, <2>3, ConcatProperties
    <2>5. QED
        BY <1>1, <1>2, <2>1, <2>4
<1>4. CASE ~ (commit > lastApplied[n])
    BY <1>1, <1>2, <1>4 DEF ApplyUpTo
<1>5. QED
    BY <1>3, <1>4
-----------------------------------------------------------------------------
(* Type correctness: one lemma per action. *)

LEMMA RaftInitTyped == RaftInit => RaftTypeOK
<1> SUFFICES ASSUME RaftInit PROVE RaftTypeOK
    OBVIOUS
<1>1. ElectionTypeOK
    BY InitTyped DEF RaftInit
<1>2. << >> \in Seq(Entry) /\ 0 \in 0..MaxLosses
    BY LogAssumption
<1>3. QED
    BY <1>1, <1>2 DEF RaftInit, RaftTypeOK

\* The steps of an election that touch nothing of the log.
LEMMA ElectionPartTyped ==
    ASSUME RaftTypeOK,
           \/ \E n \in Server : TimeOut(n)
           \/ \E n \in Server : Campaign(n)
           \/ \E q \in voteReqs : RequestVote(q)
    PROVE  RaftTypeOK'
<1>1. ElectionTypeOK /\ log \in [Server -> Seq(Entry)]
    BY DEF RaftTypeOK
<1>2. UNCHANGED raftVars
    BY DEF TimeOut, Campaign, RequestVote
<1>3. ElectionTypeOK'
    <2>1. ASSUME NEW n \in Server, TimeOut(n) PROVE ElectionTypeOK'
        BY <1>1, <2>1, TimerExpiresTyped DEF TimeOut
    <2>2. ASSUME NEW n \in Server, Campaign(n) PROVE ElectionTypeOK'
        <3>1. Tip(log[n]) \in LogTip
            BY <1>1, TipTyped
        <3>2. QED
            BY <1>1, <2>2, <3>1, StartElectionTyped DEF Campaign
    <2>3. ASSUME NEW q \in voteReqs, RequestVote(q) PROVE ElectionTypeOK'
        <3>1. IsLogUpToDate(log[q.to], q.tip) \in BOOLEAN
            BY <1>1, UpToDateTyped DEF ElectionTypeOK, VoteRequest
        <3>2. QED
            BY <1>1, <2>3, <3>1, HandleRequestVoteTyped DEF RequestVote
    <2>4. QED
        BY <2>1, <2>2, <2>3
<1>4. QED
    BY <1>2, <1>3 DEF RaftTypeOK, raftVars, logVars, applyVars, peerVars, rpcVars, history

LEMMA ReceiveVoteTyped ==
    ASSUME RaftTypeOK, NEW r \in voteReps, ReceiveVote(r)
    PROVE  RaftTypeOK'
<1>1. /\ ElectionTypeOK /\ r \in VoteReply
      /\ log \in [Server -> Seq(Entry)]
      /\ nextIndex \in [Server -> [Server -> Nat \ {0}]]
      /\ matchIndex \in [Server -> [Server -> Nat]]
      /\ ledger \in [Terms -> Seq(Entry)]
    BY DEF RaftTypeOK, ElectionTypeOK
<1>2. r.to \in Server /\ currentTerm[r.to] \in Terms /\ Len(log[r.to]) + 1 \in Nat \ {0}
    BY <1>1, SMTT(30) DEF ElectionTypeOK, VoteReply
<1>3. ElectionTypeOK'
    BY <1>1, HandleVoteReplyTyped DEF ReceiveVote
<1>4. nextIndex' \in [Server -> [Server -> Nat \ {0}]]
    BY <1>1, <1>2 DEF ReceiveVote
<1>5. matchIndex' \in [Server -> [Server -> Nat]]
    BY <1>1, <1>2 DEF ReceiveVote
<1>6. ledger' \in [Terms -> Seq(Entry)]
    BY <1>1, <1>2 DEF ReceiveVote
<1>7. UNCHANGED <<logVars, applyVars, rpcVars, acked>>
    BY DEF ReceiveVote
<1>8. QED
    BY <1>3, <1>4, <1>5, <1>6, <1>7 DEF RaftTypeOK, logVars, applyVars, rpcVars

LEMMA StartCommandTyped ==
    ASSUME RaftTypeOK, NEW n \in Server, NEW cmd \in Command, StartCommand(n, cmd)
    PROVE  RaftTypeOK'
<1> DEFINE entry == [index |-> Len(log[n]) + 1, term |-> currentTerm[n], cmd |-> cmd]
<1>1. /\ ElectionTypeOK
      /\ log \in [Server -> Seq(Entry)]
      /\ diskLog \in [Server -> Seq(Entry)]
      /\ ledger \in [Terms -> Seq(Entry)]
      /\ acked \in [Server -> [Terms -> Nat]]
      /\ currentTerm[n] \in Terms
    BY DEF RaftTypeOK, ElectionTypeOK
<1>2. entry \in Entry
    BY <1>1, LogAssumption DEF StartCommand, Entry
<1>3. /\ log' = [log EXCEPT ![n] = Append(@, entry)]
      /\ diskLog' = [diskLog EXCEPT ![n] = Append(@, entry)]
      /\ ledger' = [ledger EXCEPT ![currentTerm[n]] = Append(@, entry)]
      /\ acked' = [acked EXCEPT ![n][currentTerm[n]] = Len(log[n]) + 1]
      /\ UNCHANGED <<electionVars, applyVars, peerVars, rpcVars>>
    BY DEF StartCommand, AppendLogEntry
<1> HIDE DEF entry
<1>4. log' \in [Server -> Seq(Entry)] /\ diskLog' \in [Server -> Seq(Entry)]
    BY <1>1, <1>2, <1>3
<1>5. ledger' \in [Terms -> Seq(Entry)]
    BY <1>1, <1>2, <1>3
<1>6. acked' \in [Server -> [Terms -> Nat]]
    BY <1>1, <1>3
<1>7. ElectionTypeOK'
    BY <1>1, <1>3, StepTyped
<1>8. QED
    BY <1>3, <1>4, <1>5, <1>6, <1>7
    DEF RaftTypeOK, applyVars, peerVars, rpcVars

LEMMA SendAppendTyped ==
    ASSUME RaftTypeOK, NEW n \in Server, NEW p \in Server, SendAppend(n, p)
    PROVE  RaftTypeOK'
<1> DEFINE prev == nextIndex[n][p] - 1
           slot == CHOOSE i \in FreeSlots : \A j \in FreeSlots : i <= j
           call == [from |-> n, to |-> p, slot |-> slot,
                    term |-> currentTerm[n], prevIndex |-> prev,
                    prevTerm |-> TermAt(log[n], prev),
                    entries |-> SubSeq(log[n], prev + 1, Len(log[n])),
                    leaderCommit |-> commitIndex[n], waiting |-> TRUE]
<1>1. /\ ElectionTypeOK
      /\ log[n] \in Seq(Entry)
      /\ nextIndex[n][p] \in Nat \ {0}
      /\ commitIndex[n] \in Nat
      /\ currentTerm[n] \in Terms
    BY DEF RaftTypeOK, ElectionTypeOK
<1>2. slot \in 1..MaxInFlight
    <2>1. FreeSlots \in SUBSET Nat /\ FreeSlots \subseteq 1..MaxInFlight
        BY LogAssumption DEF FreeSlots
    <2>2. FreeSlots # {}
        BY DEF SendAppend
    <2>3. \E i \in FreeSlots : \A j \in FreeSlots : i <= j
        BY <2>1, <2>2, LeastExists
    <2>4. slot \in FreeSlots
        BY <2>3
    <2>5. QED
        BY <2>1, <2>4
<1>3. prev \in Nat /\ prev + 1 \in Nat \ {0} /\ Len(log[n]) \in Nat
    BY <1>1
<1>4. TermAt(log[n], prev) \in Terms
    BY <1>1, <1>3, TermAtTyped
<1>5. SubSeq(log[n], prev + 1, Len(log[n])) \in Seq(Entry)
    BY <1>1, <1>3, SliceTyped
<1>6. appendReqs' = appendReqs \cup {call}
    BY DEF SendAppend
<1>7. call \in AppendRequest
    <2> HIDE DEF prev, slot
    <2>1. QED
        BY <1>1, <1>2, <1>3, <1>4, <1>5 DEF AppendRequest
<1>8. UNCHANGED <<electionVars, logVars, applyVars, peerVars, appendReps, losses, history>>
    BY DEF SendAppend
<1>9. ElectionTypeOK'
    BY <1>1, <1>8, StepTyped
<1> HIDE DEF call
<1>10. QED
    BY <1>6, <1>7, <1>8, <1>9
    DEF RaftTypeOK, logVars, applyVars, peerVars, history

\* Adopting the term of a call keeps the types of the election.
LEMMA AdoptTermTyped ==
    ASSUME ElectionTypeOK, NEW q \in AppendRequest, AdoptTerm(q)
    PROVE  ElectionTypeOK'
<1>1. q.to \in Server /\ q.term \in Terms
    BY DEF AppendRequest
<1>2. CASE q.term > currentTerm[q.to]
    <2>1. /\ StepDown(q.to, q.term)
          /\ UNCHANGED <<timer, votes, voteReqs, voteReps, ballots, elected,
                         elections, restarts>>
        BY <1>2 DEF AdoptTerm
    <2>2. QED
        BY <1>1, <2>1, StepDownTyped DEF ElectionTypeOK
<1>3. CASE ~ (q.term > currentTerm[q.to])
    <2>1. UNCHANGED electionVars
        BY <1>3 DEF AdoptTerm
    <2>2. QED
        BY <2>1, StepTyped
<1>4. QED
    BY <1>2, <1>3

\* The reply to a call is a reply.
LEMMA AnswerTyped ==
    ASSUME appendReqs \subseteq AppendRequest, appendReps \subseteq AppendReply,
           NEW q \in AppendRequest, NEW t \in Terms, NEW success \in BOOLEAN,
           Answer(q, t, success)
    PROVE  appendReqs' \subseteq AppendRequest /\ appendReps' \subseteq AppendReply
<1> DEFINE reply == [from |-> q.to, to |-> q.from, slot |-> q.slot, term |-> q.term,
                     match |-> q.prevIndex + Len(q.entries),
                     replyTerm |-> t, success |-> success]
<1>1. q.prevIndex + Len(q.entries) \in Nat
    BY DEF AppendRequest
<1>2. reply \in AppendReply
    BY <1>1 DEF AppendRequest, AppendReply
<1>3. appendReps' = appendReps \/ appendReps' = appendReps \cup {reply}
    BY DEF Answer
<1>4. appendReqs' = appendReqs \ {q}
    BY DEF Answer
<1>5. QED
    BY <1>2, <1>3, <1>4

LEMMA AppendEntriesTyped ==
    ASSUME RaftTypeOK, NEW q \in appendReqs, AppendEntries(q)
    PROVE  RaftTypeOK'
<1> DEFINE n == q.to
<1>1. /\ ElectionTypeOK
      /\ appendReqs \subseteq AppendRequest /\ appendReps \subseteq AppendReply
      /\ q \in AppendRequest
      /\ n \in Server /\ q.term \in Terms /\ q.prevIndex \in Nat
      /\ q.entries \in Seq(Entry) /\ q.leaderCommit \in Nat
      /\ currentTerm[n] \in Terms
      /\ log \in [Server -> Seq(Entry)] /\ diskLog \in [Server -> Seq(Entry)]
      /\ acked \in [Server -> [Terms -> Nat]]
    BY DEF RaftTypeOK, AppendRequest, ElectionTypeOK
<1>2. UNCHANGED <<peerVars, losses>>
    BY DEF AppendEntries
<1>3. CASE AppendOutdated(q)
    <2>1. /\ UNCHANGED electionVars
          /\ Answer(q, currentTerm[n], FALSE)
          /\ UNCHANGED <<logVars, applyVars, history>>
        BY <1>3 DEF AppendOutdated
    <2>2. ElectionTypeOK'
        BY <1>1, <2>1, StepTyped
    <2>3. appendReqs' \subseteq AppendRequest /\ appendReps' \subseteq AppendReply
        BY <1>1, <2>1, AnswerTyped
    <2>4. QED
        BY <1>2, <2>1, <2>2, <2>3 DEF RaftTypeOK, logVars, applyVars, peerVars, history
<1>4. CASE AppendGap(q)
    <2>1. /\ AdoptTerm(q)
          /\ Answer(q, q.term, FALSE)
          /\ UNCHANGED <<logVars, applyVars, history>>
        BY <1>4 DEF AppendGap
    <2>2. ElectionTypeOK'
        BY <1>1, <2>1, AdoptTermTyped
    <2>3. appendReqs' \subseteq AppendRequest /\ appendReps' \subseteq AppendReply
        BY <1>1, <2>1, AnswerTyped
    <2>4. QED
        BY <1>2, <2>1, <2>2, <2>3 DEF RaftTypeOK, logVars, applyVars, peerVars, history
<1>5. CASE AppendConflict(q)
    <2>1. /\ AdoptTerm(q)
          /\ Answer(q, q.term, FALSE)
          /\ log' = [log EXCEPT ![n] = SubSeq(@, 1, q.prevIndex - 1)]
          /\ diskLog' = [diskLog EXCEPT ![n] = TruncateFrom(@, q.prevIndex - 1)]
          /\ UNCHANGED <<applyVars, history>>
          /\ q.prevIndex \in 1..Len(log[n])
        BY <1>5 DEF AppendConflict
    <2>2. ElectionTypeOK'
        BY <1>1, <2>1, AdoptTermTyped
    <2>3. appendReqs' \subseteq AppendRequest /\ appendReps' \subseteq AppendReply
        BY <1>1, <2>1, AnswerTyped
    <2>4. q.prevIndex - 1 \in Nat /\ q.prevIndex - 1 <= Len(log[n]) /\ 1 \in Nat \ {0}
        BY <2>1
    <2>5. /\ SubSeq(log[n], 1, q.prevIndex - 1) \in Seq(Entry)
          /\ TruncateFrom(diskLog[n], q.prevIndex - 1) \in Seq(Entry)
        BY <1>1, <2>4, SliceTyped, BucketTyped
    <2>6. log' \in [Server -> Seq(Entry)] /\ diskLog' \in [Server -> Seq(Entry)]
        BY <1>1, <2>1, <2>5
    <2>7. QED
        BY <1>2, <2>1, <2>2, <2>3, <2>6 DEF RaftTypeOK, applyVars, peerVars, history
<1>6. CASE AppendAccepted(q)
    <2> DEFINE merged == Merge(log[n], q.prevIndex, q.entries)
               lastNew == q.prevIndex + Len(q.entries)
    <2>1. /\ AdoptTerm(q)
          /\ Answer(q, q.term, TRUE)
          /\ log' = [log EXCEPT ![n] = merged]
          /\ diskLog' = [diskLog EXCEPT ![n] = AppendLogEntries(@, q.entries)]
          /\ acked' = [acked EXCEPT ![n][q.term] = Greater(@, lastNew)]
          /\ UNCHANGED ledger
          /\ IF CommitFollows(q)
             THEN ApplyUpTo(n, merged, Lesser(q.leaderCommit, lastNew))
             ELSE UNCHANGED applyVars
          /\ q.prevIndex = 0 \/ q.prevIndex \in 1..Len(log[n])
        BY <1>6 DEF AppendAccepted
    <2>2. ElectionTypeOK'
        BY <1>1, <2>1, AdoptTermTyped
    <2>3. appendReqs' \subseteq AppendRequest /\ appendReps' \subseteq AppendReply
        BY <1>1, <2>1, AnswerTyped
    <2>4. q.prevIndex \in 0..Len(log[n]) /\ lastNew \in Nat
        BY <1>1, <2>1
    <2>5. merged \in Seq(Entry) /\ AppendLogEntries(diskLog[n], q.entries) \in Seq(Entry)
        BY <1>1, <2>4, MergeTyped, BucketTyped
    <2> HIDE DEF merged, lastNew
    <2>6. log' \in [Server -> Seq(Entry)] /\ diskLog' \in [Server -> Seq(Entry)]
        BY <1>1, <2>1, <2>5
    <2>7. acked' \in [Server -> [Terms -> Nat]]
        <3>1. Greater(acked[n][q.term], lastNew) \in Nat
            BY <1>1, <2>4 DEF Greater
        <3>2. QED
            BY <1>1, <2>1, <3>1
    <2>8. /\ commitIndex' \in [Server -> Nat]
          /\ lastApplied' \in [Server -> Nat]
          /\ applied' \in [Server -> Seq(Entry)]
        <3>1. CASE CommitFollows(q)
            <4>1. Lesser(q.leaderCommit, lastNew) \in Nat
                BY <1>1, <2>4 DEF Lesser
            <4>2. QED
                BY <1>1, <2>1, <2>5, <3>1, <4>1, ApplyTyped
        <3>2. CASE ~ CommitFollows(q)
            BY <2>1, <3>2 DEF RaftTypeOK, applyVars
        <3>3. QED
            BY <3>1, <3>2
    <2>9. QED
        BY <1>2, <2>1, <2>2, <2>3, <2>6, <2>7, <2>8 DEF RaftTypeOK, peerVars
<1>7. QED
    BY <1>3, <1>4, <1>5, <1>6 DEF AppendEntries

\* updateCommitIndex keeps its variables in their types: the index it finds is one
\* of those it was given.
LEMMA UpdateTyped ==
    ASSUME RaftTypeOK, NEW n \in Server, NEW match \in [Server -> Nat],
           UpdateCommitIndex(n, match)
    PROVE  /\ commitIndex' \in [Server -> Nat]
           /\ lastApplied' \in [Server -> Nat]
           /\ applied' \in [Server -> Seq(Entry)]
<1> DEFINE own == [match EXCEPT ![n] = Len(log[n])]
           majority == MajorityIndex(own)
<1>1. log[n] \in Seq(Entry)
    BY DEF RaftTypeOK
<1>2. own \in [Server -> Nat]
    BY <1>1
<1> HIDE DEF own
<1>3. majority \in Nat
    BY <1>2, MajorityIndexExists
<1>4. IF majority > commitIndex[n] /\ TermAt(log[n], majority) = currentTerm[n]
      THEN ApplyUpTo(n, log[n], majority)
      ELSE UNCHANGED applyVars
    BY DEF UpdateCommitIndex, own
<1> HIDE DEF majority
<1>5. CASE ApplyUpTo(n, log[n], majority)
    BY <1>1, <1>3, <1>5, ApplyTyped
<1>6. CASE UNCHANGED applyVars
    BY <1>6 DEF RaftTypeOK, applyVars
<1>7. QED
    BY <1>4, <1>5, <1>6

LEMMA ReceiveAckTyped ==
    ASSUME RaftTypeOK, NEW r \in appendReps, ReceiveAck(r)
    PROVE  RaftTypeOK'
<1> DEFINE n == r.to
<1>1. /\ ElectionTypeOK
      /\ r \in AppendReply
      /\ n \in Server /\ r.from \in Server /\ r.replyTerm \in Terms /\ r.match \in Nat
      /\ nextIndex \in [Server -> [Server -> Nat \ {0}]]
      /\ matchIndex \in [Server -> [Server -> Nat]]
      /\ appendReps \subseteq AppendReply
    BY DEF RaftTypeOK, AppendReply
<1>2. /\ appendReps' = appendReps \ {r}
      /\ UNCHANGED <<logVars, appendReqs, losses, history>>
    BY DEF ReceiveAck
<1>3. appendReps' \subseteq AppendReply
    BY <1>1, <1>2
<1>4. CASE AckIgnored(r)
    <2>1. UNCHANGED <<electionVars, peerVars, applyVars>>
        BY <1>4 DEF AckIgnored
    <2>2. ElectionTypeOK'
        BY <1>1, <2>1, StepTyped
    <2>3. QED
        BY <1>2, <1>3, <2>1, <2>2 DEF RaftTypeOK, logVars, applyVars, peerVars, history
<1>5. CASE AckNewerTerm(r)
    <2>1. /\ StepDown(n, r.replyTerm)
          /\ UNCHANGED <<timer, votes, voteReqs, voteReps, ballots, elected, elections,
                         restarts, peerVars, applyVars>>
        BY <1>5 DEF AckNewerTerm
    <2>2. ElectionTypeOK'
        BY <1>1, <2>1, StepDownTyped DEF ElectionTypeOK
    <2>3. QED
        BY <1>2, <1>3, <2>1, <2>2 DEF RaftTypeOK, logVars, applyVars, peerVars, history
<1>6. CASE AckSuccess(r)
    <2>1. /\ matchIndex' = [matchIndex EXCEPT ![n][r.from] = r.match]
          /\ nextIndex' = [nextIndex EXCEPT ![n][r.from] = r.match + 1]
          /\ UpdateCommitIndex(n, [matchIndex[n] EXCEPT ![r.from] = r.match])
          /\ UNCHANGED electionVars
        BY <1>6 DEF AckSuccess, AckOfCall, NextAfter
    <2>2. ElectionTypeOK'
        BY <1>1, <2>1, StepTyped
    <2>3. /\ matchIndex' \in [Server -> [Server -> Nat]]
          /\ nextIndex' \in [Server -> [Server -> Nat \ {0}]]
          /\ [matchIndex[n] EXCEPT ![r.from] = r.match] \in [Server -> Nat]
        BY <1>1, <2>1
    <2>4. /\ commitIndex' \in [Server -> Nat]
          /\ lastApplied' \in [Server -> Nat]
          /\ applied' \in [Server -> Seq(Entry)]
        BY <1>1, <2>1, <2>3, UpdateTyped
    <2>5. QED
        BY <1>2, <1>3, <2>2, <2>3, <2>4 DEF RaftTypeOK, logVars, history
<1>7. CASE AckFailure(r)
    <2>1. /\ nextIndex' = [nextIndex EXCEPT ![n][r.from] = IF @ > 1 THEN @ - 1 ELSE @]
          /\ UNCHANGED <<electionVars, matchIndex, applyVars>>
        BY <1>7 DEF AckFailure
    <2>2. ElectionTypeOK'
        BY <1>1, <2>1, StepTyped
    <2>3. nextIndex' \in [Server -> [Server -> Nat \ {0}]]
        BY <1>1, <2>1
    <2>4. QED
        BY <1>2, <1>3, <2>1, <2>2, <2>3 DEF RaftTypeOK, logVars, applyVars, history
<1>8. QED
    BY <1>4, <1>5, <1>6, <1>7 DEF ReceiveAck

\* A call that fails only goes away.
LEMMA LossTyped ==
    ASSUME RaftTypeOK,
           \/ \E q \in appendReqs : LoseRequest(q)
           \/ \E r \in appendReps : LoseReply(r)
    PROVE  RaftTypeOK'
<1>1. /\ UNCHANGED <<electionVars, logVars, applyVars, peerVars, history>>
      /\ appendReqs' \subseteq appendReqs /\ appendReps' \subseteq appendReps
      /\ losses < MaxLosses /\ losses' = losses + 1
    BY DEF LoseRequest, LoseReply
<1>2. ElectionTypeOK'
    BY <1>1, StepTyped DEF RaftTypeOK
<1>3. losses' \in 0..MaxLosses
    BY <1>1, LogAssumption DEF RaftTypeOK
<1>4. QED
    BY <1>1, <1>2, <1>3 DEF RaftTypeOK, logVars, applyVars, peerVars, history

LEMMA RaftRestartTyped ==
    ASSUME RaftTypeOK, NEW n \in Server, Restart(n)
    PROVE  RaftTypeOK'
<1> DEFINE loaded == GetLogEntries(diskLog[n], 1, Len(diskLog[n]))
<1>1. /\ ElectionTypeOK
      /\ log \in [Server -> Seq(Entry)] /\ diskLog \in [Server -> Seq(Entry)]
      /\ commitIndex \in [Server -> Nat] /\ lastApplied \in [Server -> Nat]
      /\ applied \in [Server -> Seq(Entry)]
      /\ nextIndex \in [Server -> [Server -> Nat \ {0}]]
      /\ matchIndex \in [Server -> [Server -> Nat]]
      /\ appendReqs \subseteq AppendRequest /\ appendReps \subseteq AppendReply
    BY DEF RaftTypeOK
<1>2. loaded \in Seq(Entry)
    BY <1>1, BucketTyped
<1>3. /\ RestartElection(n)
      /\ log' = [log EXCEPT ![n] = loaded]
      /\ commitIndex' = [commitIndex EXCEPT ![n] = 0]
      /\ lastApplied' = [lastApplied EXCEPT ![n] = 0]
      /\ applied' = [applied EXCEPT ![n] = << >>]
      /\ nextIndex' = [nextIndex EXCEPT ![n] = [p \in Server |-> Len(loaded) + 1]]
      /\ matchIndex' = [matchIndex EXCEPT ![n] = [p \in Server |-> 0]]
      /\ appendReqs' = {[q EXCEPT !.waiting = @ /\ q.from # n] : q \in appendReqs}
      /\ appendReps' = {r \in appendReps : r.to # n}
      /\ UNCHANGED <<diskLog, losses, history>>
    BY DEF Restart
<1> HIDE DEF loaded
<1>4. ElectionTypeOK'
    BY <1>1, <1>3, RestartTyped
<1>5. log' \in [Server -> Seq(Entry)] /\ applied' \in [Server -> Seq(Entry)]
    BY <1>1, <1>2, <1>3
<1>6. commitIndex' \in [Server -> Nat] /\ lastApplied' \in [Server -> Nat]
    BY <1>1, <1>3
<1>7. /\ nextIndex' \in [Server -> [Server -> Nat \ {0}]]
      /\ matchIndex' \in [Server -> [Server -> Nat]]
    <2>1. /\ [p \in Server |-> Len(loaded) + 1] \in [Server -> Nat \ {0}]
          /\ [p \in Server |-> 0] \in [Server -> Nat]
        BY <1>2
    <2>2. QED
        BY <1>1, <1>3, <2>1
<1>8. appendReqs' \subseteq AppendRequest /\ appendReps' \subseteq AppendReply
    <2>1. ASSUME NEW q \in appendReqs
          PROVE  [q EXCEPT !.waiting = @ /\ q.from # n] \in AppendRequest
        BY <1>1 DEF AppendRequest
    <2>2. QED
        BY <1>1, <1>3, <2>1
<1>9. QED
    BY <1>1, <1>3, <1>4, <1>5, <1>6, <1>7, <1>8 DEF RaftTypeOK, history

LEMMA RaftStepTyped == RaftTypeOK /\ [RaftNext]_vars => RaftTypeOK'
<1> SUFFICES ASSUME RaftTypeOK, [RaftNext]_vars
             PROVE  RaftTypeOK'
    OBVIOUS
<1>1. ASSUME NEW n \in Server, TimeOut(n) PROVE RaftTypeOK'
    BY <1>1, ElectionPartTyped
<1>2. ASSUME NEW n \in Server, Campaign(n) PROVE RaftTypeOK'
    BY <1>2, ElectionPartTyped
<1>3. ASSUME NEW q \in voteReqs, RequestVote(q) PROVE RaftTypeOK'
    BY <1>3, ElectionPartTyped
<1>4. ASSUME NEW r \in voteReps, ReceiveVote(r) PROVE RaftTypeOK'
    BY <1>4, ReceiveVoteTyped
<1>5. ASSUME NEW n \in Server, NEW cmd \in Command, StartCommand(n, cmd) PROVE RaftTypeOK'
    BY <1>5, StartCommandTyped
<1>6. ASSUME NEW n \in Server, NEW p \in Server, SendAppend(n, p) PROVE RaftTypeOK'
    BY <1>6, SendAppendTyped
<1>7. ASSUME NEW q \in appendReqs, AppendEntries(q) PROVE RaftTypeOK'
    BY <1>7, AppendEntriesTyped
<1>8. ASSUME NEW r \in appendReps, ReceiveAck(r) PROVE RaftTypeOK'
    BY <1>8, ReceiveAckTyped
<1>9. ASSUME NEW q \in appendReqs, LoseRequest(q) PROVE RaftTypeOK'
    BY <1>9, LossTyped
<1>10. ASSUME NEW r \in appendReps, LoseReply(r) PROVE RaftTypeOK'
    BY <1>10, LossTyped
<1>11. ASSUME NEW n \in Server, Restart(n) PROVE RaftTypeOK'
    BY <1>11, RaftRestartTyped
<1>12. CASE UNCHANGED vars
    <2>1. UNCHANGED <<electionVars, raftVars>>
        BY <1>12 DEF vars
    <2>2. ElectionTypeOK'
        BY <2>1, StepTyped DEF RaftTypeOK
    <2>3. QED
        BY <2>1, <2>2
        DEF RaftTypeOK, raftVars, logVars, applyVars, peerVars, rpcVars, history
<1>13. QED
    BY <1>1, <1>2, <1>3, <1>4, <1>5, <1>6, <1>7, <1>8, <1>9, <1>10, <1>11, <1>12
    DEF RaftNext

\* Through elections, replication, losses, restarts and failing writes every field
\* keeps a value its Go counterpart can have.
THEOREM RaftTypeCorrect == RaftSpec => []RaftTypeOK
<1>1. QED
    BY RaftInitTyped, RaftStepTyped, PTL DEF RaftSpec

-----------------------------------------------------------------------------
(* The steps of Raft are steps of Election. *)

\* A call is of a term its caller has reached, a reply of one its sender has.
CallsBehind ==
    /\ \A q \in appendReqs : q.term <= currentTerm[q.from]
    /\ \A r \in appendReps : r.replyTerm <= currentTerm[r.from]

\* What AdoptTerm does is what Election says of a server that observes a term.
LEMMA AdoptTermElects ==
    ASSUME RaftTypeOK, CallsBehind, NEW q \in appendReqs, AdoptTerm(q)
    PROVE  [ElectionNext]_electionVars
<1>1. q.from \in Server /\ q.to \in Server /\ q.term \in Terms
    BY DEF RaftTypeOK, AppendRequest
<1>2. CASE q.term > currentTerm[q.to]
    <2>1. currentTerm[q.from] >= q.term
        BY <1>1 DEF CallsBehind, RaftTypeOK, ElectionTypeOK, Terms
    <2>2. ObserveTerm(q.to, q.term)
        BY <1>1, <1>2, <2>1 DEF AdoptTerm, ObserveTerm
    <2>3. QED
        BY <1>1, <2>2 DEF ElectionNext
<1>3. CASE ~ (q.term > currentTerm[q.to])
    BY <1>3 DEF AdoptTerm
<1>4. QED
    BY <1>2, <1>3

LEMMA RaftStepsElect ==
    ASSUME RaftTypeOK, CallsBehind, [RaftNext]_vars
    PROVE  [ElectionNext]_electionVars
<1>1. ASSUME NEW n \in Server, TimeOut(n) PROVE ElectionNext
    BY <1>1 DEF TimeOut, ElectionNext
<1>2. ASSUME NEW n \in Server, Campaign(n) PROVE ElectionNext
    <2>1. Tip(log[n]) \in LogTip
        BY TipTyped DEF RaftTypeOK
    <2>2. StartElection(n, Tip(log[n]))
        BY <1>2 DEF Campaign
    <2> HIDE <1>2
    <2>3. QED
        BY <2>1, <2>2 DEF ElectionNext
<1>3. ASSUME NEW q \in voteReqs, RequestVote(q) PROVE ElectionNext
    <2>1. IsLogUpToDate(log[q.to], q.tip) \in BOOLEAN
        BY UpToDateTyped DEF RaftTypeOK, ElectionTypeOK, VoteRequest
    <2>2. HandleRequestVote(q, IsLogUpToDate(log[q.to], q.tip))
        BY <1>3 DEF RequestVote
    <2>3. QED
        BY <2>1, <2>2 DEF ElectionNext
<1>4. ASSUME NEW r \in voteReps, ReceiveVote(r) PROVE ElectionNext
    BY <1>4 DEF ReceiveVote, ElectionNext
<1>5. ASSUME NEW n \in Server, NEW cmd \in Command, StartCommand(n, cmd)
      PROVE  UNCHANGED electionVars
    BY <1>5 DEF StartCommand
<1>6. ASSUME NEW n \in Server, NEW p \in Server, SendAppend(n, p)
      PROVE  UNCHANGED electionVars
    BY <1>6 DEF SendAppend
<1>7. ASSUME NEW q \in appendReqs, AppendEntries(q)
      PROVE  [ElectionNext]_electionVars
    <2>1. CASE UNCHANGED electionVars
        BY <2>1
    <2>2. CASE AdoptTerm(q)
        BY <2>2, AdoptTermElects
    <2>3. QED
        BY <1>7, <2>1, <2>2
        DEF AppendEntries, AppendOutdated, AppendGap, AppendConflict, AppendAccepted
<1>8. ASSUME NEW r \in appendReps, ReceiveAck(r)
      PROVE  [ElectionNext]_electionVars
    <2>1. CASE UNCHANGED electionVars
        BY <2>1
    <2>2. CASE AckNewerTerm(r)
        <3>1. r.from \in Server /\ r.to \in Server /\ r.replyTerm \in Terms
            BY DEF RaftTypeOK, AppendReply
        <3>2. currentTerm[r.from] >= r.replyTerm
            BY <3>1 DEF CallsBehind, RaftTypeOK, ElectionTypeOK, Terms
        <3>3. ObserveTerm(r.to, r.replyTerm)
            BY <2>2, <3>1, <3>2 DEF AckNewerTerm, ObserveTerm
        <3>4. QED
            BY <3>1, <3>3 DEF ElectionNext
    <2>3. QED
        BY <1>8, <2>1, <2>2 DEF ReceiveAck, AckIgnored, AckSuccess, AckFailure
<1>9. ASSUME NEW q \in appendReqs, LoseRequest(q) PROVE UNCHANGED electionVars
    BY <1>9 DEF LoseRequest
<1>10. ASSUME NEW r \in appendReps, LoseReply(r) PROVE UNCHANGED electionVars
    BY <1>10 DEF LoseReply
<1>11. ASSUME NEW n \in Server, Restart(n) PROVE ElectionNext
    BY <1>11 DEF Restart, ElectionNext
<1>12. CASE UNCHANGED vars
    BY <1>12 DEF vars
<1>13. QED
    BY <1>1, <1>2, <1>3, <1>4, <1>5, <1>6, <1>7, <1>8, <1>9, <1>10, <1>11, <1>12
    DEF RaftNext

\* A call under way after a step was so before, or is of the term its caller is in.
LEMMA StepCallsBehind ==
    ASSUME RaftTypeOK, RaftTypeOK', CallsBehind, [RaftNext]_vars,
           \A n \in Server : currentTerm'[n] >= currentTerm[n]
    PROVE  CallsBehind'
<1>1. /\ \A n \in Server : currentTerm[n] \in Nat /\ currentTerm'[n] \in Nat
      /\ \A q \in appendReqs : q.from \in Server /\ q.to \in Server /\ q.term \in Nat
      /\ \A r \in appendReps : r.from \in Server /\ r.replyTerm \in Nat
    <2>1. \A n \in Server : currentTerm[n] \in Nat /\ currentTerm'[n] \in Nat
        BY DEF RaftTypeOK, ElectionTypeOK, Terms
    <2>2. \A q \in appendReqs : q.from \in Server /\ q.to \in Server /\ q.term \in Terms
        BY DEF RaftTypeOK, AppendRequest
    <2>3. \A r \in appendReps : r.from \in Server /\ r.replyTerm \in Terms
        BY DEF RaftTypeOK, AppendReply
    <2>4. Terms \subseteq Nat
        BY DEF Terms
    <2>5. QED
        BY <2>1, <2>2, <2>3, <2>4
<1>2. ASSUME NEW q \in appendReqs' PROVE
         \/ \E p \in appendReqs : p.from = q.from /\ p.term = q.term
         \/ q.from \in Server /\ q.term = currentTerm[q.from]
    <2>1. CASE q \in appendReqs
        BY <2>1
    <2>2. ASSUME NEW n \in Server, NEW p \in Server, SendAppend(n, p)
          PROVE  \/ q \in appendReqs
                 \/ q.from \in Server /\ q.term = currentTerm[q.from]
        BY <2>2 DEF SendAppend
    <2>3. ASSUME NEW n \in Server, Restart(n)
          PROVE  \E p \in appendReqs : p.from = q.from /\ p.term = q.term
        <3>1. PICK p \in appendReqs : q = [p EXCEPT !.waiting = @ /\ p.from # n]
            BY <2>3 DEF Restart
        <3>2. q.from = p.from /\ q.term = p.term
            BY <3>1 DEF RaftTypeOK, AppendRequest
        <3>3. QED
            BY <3>2
    <2>4. QED
        BY <2>1, <2>2, <2>3
        DEF RaftNext, vars, raftVars, rpcVars, TimeOut, Campaign, RequestVote, ReceiveVote,
            StartCommand, AppendEntries, AppendOutdated, AppendGap, AppendConflict,
            AppendAccepted, Answer, ReceiveAck, LoseRequest, LoseReply
<1>3. ASSUME NEW r \in appendReps' PROVE
         \/ r \in appendReps
         \/ r.from \in Server /\ r.replyTerm <= currentTerm'[r.from]
    <2>1. ASSUME NEW q \in appendReqs, AppendEntries(q)
          PROVE  \/ r \in appendReps
                 \/ r.from \in Server /\ r.replyTerm <= currentTerm'[r.from]
        <3>1. q.to \in Server /\ currentTerm[q.to] \in Nat /\ q.term \in Nat
            BY <1>1
        <3>2. CASE Answer(q, currentTerm[q.to], FALSE)
            BY <1>1, <3>1, <3>2 DEF Answer
        <3>3. ASSUME AdoptTerm(q), q.term >= currentTerm[q.to],
                     Answer(q, q.term, TRUE) \/ Answer(q, q.term, FALSE)
              PROVE  \/ r \in appendReps
                     \/ r.from \in Server /\ r.replyTerm <= currentTerm'[r.from]
            <4>1. currentTerm'[q.to] = q.term
                <5>1. CASE q.term > currentTerm[q.to]
                    BY <3>1, <3>3, <5>1
                    DEF AdoptTerm, StepDown, RaftTypeOK, ElectionTypeOK
                <5>2. CASE ~ (q.term > currentTerm[q.to])
                    BY <3>1, <3>3, <5>2 DEF AdoptTerm, electionVars
                <5>3. QED
                    BY <5>1, <5>2
            <4>2. \/ r \in appendReps
                  \/ r.from = q.to /\ r.replyTerm = q.term
                BY <3>3 DEF Answer
            <4>3. QED
                BY <3>1, <4>1, <4>2
        <3>4. QED
            BY <2>1, <3>2, <3>3
            DEF AppendEntries, AppendOutdated, AppendGap, AppendConflict, AppendAccepted
    <2>2. QED
        BY <2>1
        DEF RaftNext, vars, raftVars, rpcVars, TimeOut, Campaign, RequestVote, ReceiveVote,
            StartCommand, SendAppend, ReceiveAck, LoseRequest, LoseReply, Restart
<1>4. ASSUME NEW q \in appendReqs' PROVE q.term <= currentTerm'[q.from]
    <2>1. CASE \E p \in appendReqs : p.from = q.from /\ p.term = q.term
        BY <1>1, <2>1 DEF CallsBehind
    <2>2. QED
        BY <1>1, <1>2, <2>1
<1>5. ASSUME NEW r \in appendReps' PROVE r.replyTerm <= currentTerm'[r.from]
    BY <1>1, <1>3 DEF CallsBehind
<1>6. QED
    BY <1>4, <1>5 DEF CallsBehind

\* Types, agreement of disk and memory, and the terms of calls: what the steps of
\* Raft keep, restarts included.
RaftInv == RaftTypeOK /\ VoteInv /\ CallsBehind

LEMMA RaftInvHolds ==
    ASSUME MaxDiskFaults = 0
    PROVE  RaftSpec => []RaftInv /\ [][[ElectionNext]_electionVars]_vars
<1>1. RaftInit => RaftInv
    BY RaftInitTyped, InitVotes DEF RaftInit, RaftInv, CallsBehind
<1>2. RaftInv /\ [RaftNext]_vars => RaftInv' /\ [ElectionNext]_electionVars
    <2> SUFFICES ASSUME RaftInv, [RaftNext]_vars
                 PROVE  RaftInv' /\ [ElectionNext]_electionVars
        OBVIOUS
    <2>1. RaftTypeOK /\ VoteInv /\ CallsBehind
        BY DEF RaftInv
    <2>2. RaftTypeOK'
        BY <2>1, RaftStepTyped
    <2>3. [ElectionNext]_electionVars
        BY <2>1, RaftStepsElect
    <2>4. VoteInv' /\ VotesKept
        BY <2>1, <2>3, StepVoteInv, StepVotes DEF VoteInv
    <2>5. CallsBehind'
        BY <2>1, <2>2, <2>4, StepCallsBehind DEF VotesKept
    <2>6. QED
        BY <2>2, <2>3, <2>4, <2>5 DEF RaftInv
<1>3. QED
    BY <1>1, <1>2, PTL DEF RaftSpec

\* Log replication takes no liberties with elections: as long as writes succeed,
\* every step of Raft is one of Election, or none.
THEOREM RaftElects ==
    ASSUME MaxDiskFaults = 0
    PROVE  RaftSpec => ElectionSpec
<1>1. RaftInit => ElectionInit
    BY DEF RaftInit
<1>2. RaftInv /\ [RaftNext]_vars => [ElectionNext]_electionVars
    BY RaftStepsElect DEF RaftInv
<1>3. QED
    BY <1>1, <1>2, RaftInvHolds, PTL DEF RaftSpec, ElectionSpec

\* No term of a Raft cluster has two leaders, where no reply is stale.
THEOREM RaftElectsOne ==
    ASSUME MaxDiskFaults = 0, StaleReplies = FALSE
    PROVE  RaftSpec => []ElectionSafety
BY RaftElects, OneLeaderPerTerm

\* Terms and leaders of a Raft cluster, seen from outside, behave as Roles says.
THEOREM RaftPlaysRoles ==
    ASSUME MaxDiskFaults = 0, StaleReplies = FALSE
    PROVE  RaftSpec => RolesSpec
BY RaftElects, ElectionsAreRoles
-----------------------------------------------------------------------------
(* No entry is of a term that is not on disk. *)

UpToTerm(l, t) == \A i \in 1..Len(l) : l[i].term <= t

\* Logs hold entries of terms their server has reached, calls entries of terms up
\* to their own.
EntriesReached ==
    /\ \A n \in Server : UpToTerm(log[n], currentTerm[n]) /\ UpToTerm(diskLog[n], currentTerm[n])
    /\ \A q \in appendReqs : UpToTerm(q.entries, q.term)

LEMMA UpToTermGrows ==
    ASSUME NEW l \in Seq(Entry), NEW s \in Terms, NEW t \in Terms, s <= t, UpToTerm(l, s)
    PROVE  UpToTerm(l, t)
<1> SUFFICES ASSUME NEW i \in 1..Len(l)
             PROVE  l[i].term <= t
    BY DEF UpToTerm
<1>1. l[i] \in Entry
    BY ElementOfSeq
<1>2. l[i].term \in Nat /\ s \in Nat /\ t \in Nat
    BY <1>1 DEF Entry, Terms
<1>3. l[i].term <= s
    BY DEF UpToTerm
<1>4. QED
    BY <1>2, <1>3

\* Parts of such logs, and two of them put together, are such logs.
LEMMA UpToTermParts ==
    ASSUME NEW l \in Seq(Entry), NEW t \in Terms, UpToTerm(l, t)
    PROVE  /\ \A i \in Nat \ {0}, j \in Nat : j <= Len(l) => UpToTerm(SubSeq(l, i, j), t)
           /\ \A k \in Seq(Entry) : UpToTerm(k, t) => UpToTerm(l \o k, t)
           /\ \A len \in Nat : UpToTerm(TruncateFrom(l, len), t)
<1>1. ASSUME NEW i \in Nat \ {0}, NEW j \in Nat, j <= Len(l)
      PROVE  UpToTerm(SubSeq(l, i, j), t)
    <2> SUFFICES ASSUME NEW x \in 1..Len(SubSeq(l, i, j))
                 PROVE  SubSeq(l, i, j)[x].term <= t
        BY DEF UpToTerm
    <2>1. /\ SubSeq(l, i, j)[x] = l[i + x - 1]
          /\ Len(SubSeq(l, i, j)) = IF i <= j THEN j - i + 1 ELSE 0
        BY <1>1, SliceTyped
    <2>2. i + x - 1 \in 1..Len(l)
        BY <1>1, <2>1
    <2>3. QED
        BY <2>1, <2>2 DEF UpToTerm
<1>2. ASSUME NEW k \in Seq(Entry), UpToTerm(k, t)
      PROVE  UpToTerm(l \o k, t)
    <2> SUFFICES ASSUME NEW x \in 1..Len(l \o k)
                 PROVE  (l \o k)[x].term <= t
        BY DEF UpToTerm
    <2>1. /\ x \in 1..(Len(l) + Len(k))
          /\ (l \o k)[x] = IF x <= Len(l) THEN l[x] ELSE k[x - Len(l)]
        BY ConcatProperties
    <2>2. QED
        BY <1>2, <2>1 DEF UpToTerm
<1>3. ASSUME NEW len \in Nat
      PROVE  UpToTerm(TruncateFrom(l, len), t)
    <2>1. SubSeq(l, 1, 1 - 1) = << >>
        BY SubSeqEmpty
    <2>2. UpToTerm(<< >>, t)
        BY DEF UpToTerm
    <2>3. QED
        BY <2>1, <2>2 DEF TruncateFrom, TruncateLog
<1>4. QED
    BY <1>1, <1>2, <1>3

\* A log, a disk and the terms they are of: what a step has to show of a server.
LEMMA StepEntriesReached ==
    ASSUME RaftTypeOK, RaftTypeOK', SavedCurrent, EntriesReached, [RaftNext]_vars,
           \A n \in Server : currentTerm'[n] >= currentTerm[n]
    PROVE  EntriesReached'
<1> DEFINE Kept(n) == log'[n] = log[n] /\ diskLog'[n] = diskLog[n]
           Same == (\A n \in Server : Kept(n)) /\ appendReqs' \subseteq appendReqs
<1>1. \A n \in Server : /\ currentTerm[n] \in Terms /\ currentTerm'[n] \in Terms
                        /\ currentTerm[n] <= currentTerm'[n]
                        /\ log[n] \in Seq(Entry) /\ diskLog[n] \in Seq(Entry)
                        /\ log'[n] \in Seq(Entry) /\ diskLog'[n] \in Seq(Entry)
    <2> TAKE n \in Server
    <2>1. currentTerm[n] \in Terms /\ currentTerm'[n] \in Terms
        BY DEF RaftTypeOK, ElectionTypeOK
    <2>2. currentTerm[n] <= currentTerm'[n]
        BY <2>1 DEF Terms
    <2>3. QED
        BY <2>1, <2>2 DEF RaftTypeOK
<1>2. ASSUME NEW n \in Server, Kept(n)
      PROVE  UpToTerm(log'[n], currentTerm'[n]) /\ UpToTerm(diskLog'[n], currentTerm'[n])
    BY <1>1, <1>2, UpToTermGrows DEF EntriesReached
<1>3. CASE Same
    BY <1>2, <1>3 DEF EntriesReached
<1>4. ASSUME NEW n \in Server, NEW cmd \in Command, StartCommand(n, cmd)
      PROVE  EntriesReached'
    <2> DEFINE entry == [index |-> Len(log[n]) + 1, term |-> currentTerm[n], cmd |-> cmd]
    <2>1. /\ log' = [log EXCEPT ![n] = Append(@, entry)]
          /\ diskLog' = [diskLog EXCEPT ![n] = Append(@, entry)]
          /\ UNCHANGED <<electionVars, rpcVars>>
        BY <1>4 DEF StartCommand, AppendLogEntry
    <2>2. currentTerm' = currentTerm /\ appendReqs' = appendReqs
        BY <2>1 DEF electionVars, rpcVars
    <2>3. log'[n] = Append(log[n], entry) /\ diskLog'[n] = Append(diskLog[n], entry)
        BY <2>1 DEF RaftTypeOK
    <2>4. entry.term = currentTerm[n] /\ entry.term <= currentTerm[n]
        BY <1>1 DEF Terms
    <2> HIDE DEF entry
    <2>5. ASSUME NEW l \in Seq(Entry), UpToTerm(l, currentTerm[n])
          PROVE  UpToTerm(Append(l, entry), currentTerm[n])
        BY <2>4, <2>5 DEF UpToTerm
    <2>6. UpToTerm(log'[n], currentTerm'[n]) /\ UpToTerm(diskLog'[n], currentTerm'[n])
        BY <1>1, <2>2, <2>3, <2>5 DEF EntriesReached
    <2>7. \A m \in Server : m # n => Kept(m)
        BY <2>1 DEF RaftTypeOK
    <2>8. QED
        BY <1>2, <2>2, <2>6, <2>7 DEF EntriesReached
<1>5. ASSUME NEW n \in Server, NEW p \in Server, SendAppend(n, p)
      PROVE  EntriesReached'
    <2> DEFINE part == SubSeq(log[n], (nextIndex[n][p] - 1) + 1, Len(log[n]))
    <2>1. ASSUME NEW q \in appendReqs'
          PROVE  \/ q \in appendReqs
                 \/ q.entries = part /\ q.term = currentTerm[n]
        BY <1>5 DEF SendAppend
    <2>2. (nextIndex[n][p] - 1) + 1 \in Nat \ {0}
        <3>1. nextIndex[n][p] \in Nat \ {0}
            BY DEF RaftTypeOK
        <3>2. QED
            BY <3>1
    <2>3. UpToTerm(log[n], currentTerm[n])
        BY DEF EntriesReached
    <2>4. UpToTerm(part, currentTerm[n])
        BY <1>1, <2>2, <2>3, UpToTermParts, SMTT(30)
    <2>5. \A m \in Server : Kept(m)
        BY <1>5 DEF SendAppend, logVars
    <2> HIDE DEF part
    <2>6. QED
        BY <1>2, <2>1, <2>4, <2>5 DEF EntriesReached
<1>6. ASSUME NEW q \in appendReqs, AppendEntries(q)
      PROVE  EntriesReached'
    <2> DEFINE n == q.to
    <2>1. /\ n \in Server /\ q.term \in Terms /\ q.entries \in Seq(Entry)
          /\ q.prevIndex \in Nat /\ UpToTerm(q.entries, q.term)
        BY DEF RaftTypeOK, AppendRequest, EntriesReached
    <2>2. appendReqs' \subseteq appendReqs
        BY <1>6 DEF AppendEntries, AppendOutdated, AppendGap, AppendConflict,
                    AppendAccepted, Answer
    <2>3. CASE UNCHANGED logVars
        BY <1>3, <2>2, <2>3 DEF logVars
    <2>4. CASE AppendConflict(q)
        <3>1. /\ log' = [log EXCEPT ![n] = SubSeq(@, 1, q.prevIndex - 1)]
              /\ diskLog' = [diskLog EXCEPT ![n] = TruncateFrom(@, q.prevIndex - 1)]
              /\ q.prevIndex \in 1..Len(log[n])
            BY <2>4 DEF AppendConflict
        <3>2. /\ log'[n] = SubSeq(log[n], 1, q.prevIndex - 1)
              /\ diskLog'[n] = TruncateFrom(diskLog[n], q.prevIndex - 1)
            BY <2>1, <3>1 DEF RaftTypeOK
        <3>3. UpToTerm(log[n], currentTerm'[n]) /\ UpToTerm(diskLog[n], currentTerm'[n])
            BY <1>1, <2>1, UpToTermGrows DEF EntriesReached
        <3>4. q.prevIndex - 1 \in Nat /\ q.prevIndex - 1 <= Len(log[n]) /\ 1 \in Nat \ {0}
            BY <1>1, <2>1, <3>1
        <3>5. UpToTerm(log'[n], currentTerm'[n]) /\ UpToTerm(diskLog'[n], currentTerm'[n])
            BY <1>1, <2>1, <3>2, <3>3, <3>4, UpToTermParts
        <3>6. \A m \in Server : m # n => Kept(m)
            BY <3>1 DEF RaftTypeOK
        <3>7. QED
            BY <1>2, <2>2, <3>5, <3>6 DEF EntriesReached
    <2>5. CASE AppendAccepted(q)
        <3> DEFINE merged == Merge(log[n], q.prevIndex, q.entries)
        <3>1. /\ log' = [log EXCEPT ![n] = merged]
              /\ diskLog' = [diskLog EXCEPT ![n] = AppendLogEntries(@, q.entries)]
              /\ q.prevIndex \in 0..Len(log[n])
              /\ q.term >= currentTerm[n] /\ AdoptTerm(q)
            BY <1>1, <2>1, <2>5 DEF AppendAccepted
        <3>2. currentTerm'[n] = q.term
            <4>1. CASE q.term > currentTerm[n]
                BY <2>1, <3>1, <4>1 DEF AdoptTerm, StepDown, RaftTypeOK, ElectionTypeOK
            <4>2. CASE ~ (q.term > currentTerm[n])
                BY <1>1, <2>1, <3>1, <4>2 DEF AdoptTerm, electionVars, Terms
            <4>3. QED
                BY <4>1, <4>2
        <3>3. UpToTerm(log[n], q.term) /\ UpToTerm(diskLog[n], q.term)
            BY <1>1, <2>1, <3>2, UpToTermGrows DEF EntriesReached
        <3>4. UpToTerm(merged, q.term)
            <4> SUFFICES ASSUME NEW x \in 1..Len(merged)
                         PROVE  merged[x].term <= q.term
                BY DEF UpToTerm
            <4>1. /\ merged \in Seq(Entry)
                  /\ \/ x <= Len(log[n]) /\ merged[x] = log[n][x]
                     \/ x - q.prevIndex \in 1..Len(q.entries)
                            /\ merged[x] = q.entries[x - q.prevIndex]
                <5>1. log[n] \in Seq(Entry)
                    BY <1>1, <2>1
                <5>2. QED
                    BY <2>1, <3>1, <5>1, MergeTyped
            <4> HIDE DEF merged
            <4>2. x \in Nat \ {0}
                BY <4>1
            <4>3. QED
                BY <1>1, <2>1, <3>3, <4>1, <4>2 DEF UpToTerm
        <3>5. UpToTerm(AppendLogEntries(diskLog[n], q.entries), q.term)
            BY <1>1, <2>1, <3>3, UpToTermParts DEF AppendLogEntries
        <3> HIDE DEF merged
        <3>6. UpToTerm(log'[n], currentTerm'[n]) /\ UpToTerm(diskLog'[n], currentTerm'[n])
            BY <2>1, <3>1, <3>2, <3>4, <3>5 DEF RaftTypeOK
        <3>7. \A m \in Server : m # n => Kept(m)
            BY <3>1 DEF RaftTypeOK
        <3>8. QED
            BY <1>2, <2>2, <3>6, <3>7 DEF EntriesReached
    <2>6. QED
        BY <1>6, <2>3, <2>4, <2>5 DEF AppendEntries, AppendOutdated, AppendGap
<1>7. ASSUME NEW n \in Server, Restart(n)
      PROVE  EntriesReached'
    <2>1. /\ log' = [log EXCEPT ![n] = diskLog[n]] /\ diskLog' = diskLog
          /\ appendReqs' = {[q EXCEPT !.waiting = @ /\ q.from # n] : q \in appendReqs}
        BY <1>1, <1>7, BucketTyped DEF Restart
    <2>2. ASSUME NEW q \in appendReqs'
          PROVE  \E p \in appendReqs : q.entries = p.entries /\ q.term = p.term
        <3>1. PICK p \in appendReqs : q = [p EXCEPT !.waiting = @ /\ p.from # n]
            BY <2>1
        <3>2. q.entries = p.entries /\ q.term = p.term
            BY <3>1 DEF RaftTypeOK, AppendRequest
        <3>3. QED
            BY <3>2
    <2>3. \A m \in Server : UpToTerm(diskLog'[m], currentTerm'[m])
        BY <1>1, <2>1, UpToTermGrows DEF EntriesReached
    <2>4. \A m \in Server : m # n => Kept(m)
        BY <2>1 DEF RaftTypeOK
    <2>5. UpToTerm(log'[n], currentTerm'[n])
        BY <2>1, <2>3 DEF RaftTypeOK
    <2>6. QED
        BY <1>2, <2>2, <2>3, <2>4, <2>5 DEF EntriesReached
<1>8. CASE UNCHANGED <<logVars, appendReqs>> \/ (UNCHANGED logVars /\ appendReqs' \subseteq appendReqs)
    BY <1>3, <1>8 DEF logVars
<1>9. QED
    BY <1>4, <1>5, <1>6, <1>7, <1>8
    DEF RaftNext, vars, raftVars, rpcVars, TimeOut, Campaign, RequestVote, ReceiveVote,
        ReceiveAck, LoseRequest, LoseReply

LEMMA EntriesReachedHolds ==
    ASSUME MaxDiskFaults = 0
    PROVE  RaftSpec => []EntriesReached
<1>1. RaftInit => EntriesReached
    BY DEF RaftInit, EntriesReached, UpToTerm
<1>2. /\ RaftInv /\ RaftInv' /\ EntriesReached
      /\ [RaftNext]_vars /\ [ElectionNext]_electionVars
      => EntriesReached'
    BY StepVotes, StepEntriesReached DEF RaftInv, VoteInv, VotesKept
<1>3. RaftInv /\ [RaftNext]_vars => [ElectionNext]_electionVars
    BY RaftStepsElect DEF RaftInv
<1>4. QED
    BY <1>1, <1>2, <1>3, RaftInvHolds, PTL DEF RaftSpec

\* Every entry a server holds, in memory or on disk, is of a term its disk knows, so
\* that no restart brings it back to a term before its own log.
THEOREM EntriesAreSaved ==
    ASSUME MaxDiskFaults = 0
    PROVE  RaftSpec => []EntriesOfSavedTerms
<1>1. RaftInv /\ EntriesReached => EntriesOfSavedTerms
    <2> SUFFICES ASSUME RaftInv, EntriesReached, NEW n \in Server
                 PROVE  /\ \A i \in 1..Len(log[n]) : log[n][i].term <= saved[n].term
                        /\ \A i \in 1..Len(diskLog[n]) : diskLog[n][i].term <= saved[n].term
        BY DEF EntriesOfSavedTerms
    <2>1. saved[n] = Pair(currentTerm[n], votedFor[n])
        BY DEF RaftInv, VoteInv, SavedCurrent
    <2>2. QED
        BY <2>1 DEF EntriesReached, UpToTerm, Pair
<1>2. QED
    BY <1>1, RaftInvHolds, EntriesReachedHolds, PTL
=============================================================================
