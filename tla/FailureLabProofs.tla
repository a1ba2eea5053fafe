--------------------------- MODULE FailureLabProofs ---------------------------
(***************************************************************************)
(* Theorems about FailureLab, for any number of nodes, any sides and any   *)
(* number of clicks.  Everything rests on one fact: busy is true exactly   *)
(* while a drill runs, so there is never a second one (LabInv).  The rows  *)
(* of the timeline are ordered by their keys (RowsInv), and by what they   *)
(* say of the terms (TimelineInv).                                         *)
(***************************************************************************)
EXTENDS FailureLab, SequenceTheorems, TLAPS

\* The drills that may be under way, by what they closed over.
LabDrill(d) ==
    /\ d = [click |-> d.click, name |-> d.name, step |-> d.step,
            leader |-> d.leader, term |-> d.term]
    /\ d.name \in {"reset", "crash", "partition", "heal"}
    /\ d.step \in Nat
    /\ d.name = "crash" => d.leader \in Node

\* The status of the drill that runs.
StatusOf(name) == CASE name = "crash"     -> "electing"
                    [] name = "heal"      -> "recovering"
                    [] name = "partition" -> "partitioned"
                    [] OTHER              -> "healthy"

\* busy keeps the handlers apart.
OneDrill ==
    \/ drills = {} /\ busy = FALSE
    \/ \E d : drills = {d} /\ LabDrill(d) /\ busy = TRUE

\* While none runs, the status is that of a cluster at rest.
StatusInv ==
    /\ \A d \in drills : status = StatusOf(d.name)
    /\ drills = {} => status \in {"healthy", "partitioned"}
    /\ status = "partitioned" => partition

\* Those who stand are the candidates the handler chose: it will dismiss them.
CandidatesChosen ==
    \A d \in drills, n \in Node : role[n] = "candidate" => n \in Candidates(d.leader)

LabInv ==
    /\ role \in [Node -> Role]
    /\ OneDrill
    /\ StatusInv
    /\ OneLeaderShown
    /\ CandidatesChosen
-----------------------------------------------------------------------------
\* Among any nodes but one there is a first, since there are at least two.
LEMMA WinnerIsNode ==
    ASSUME NEW old \in Node
    PROVE  Winner(old) \in Node /\ Winner(old) # old
<1>1. N \in Nat /\ N >= 2
  BY SizeAssumption
<1>2. CASE old = 0
  <2>1. 1 \in Alive(old) /\ \A j \in Alive(old) : 1 <= j
    BY <1>1, <1>2 DEF Alive, Node
  <2>2. Winner(old) \in Alive(old)
    BY <2>1 DEF Winner, Least
  <2> QED BY <2>2 DEF Alive
<1>3. CASE old # 0
  <2>1. 0 \in Alive(old) /\ \A j \in Alive(old) : 0 <= j
    BY <1>1, <1>3 DEF Alive, Node
  <2>2. Winner(old) \in Alive(old)
    BY <2>1 DEF Winner, Least
  <2> QED BY <2>2 DEF Alive
<1> QED BY <1>2, <1>3

\* find() returns the only leader there is, or nothing.
LeaderIsFound ==
    /\ LeadersShown = {} => Leader = NoNode
    /\ \A n \in Node : LeadersShown = {n} => Leader = n /\ Leader # NoNode

LEMMA LeaderFound == LeaderIsFound
<1>1. {n \in Node : Data[n].role = "leader"} = LeadersShown
  BY DEF Data, LeadersShown
<1>2. Leader = IF LeadersShown = {} THEN NoNode ELSE Least(LeadersShown)
  BY <1>1 DEF Leader, ShownLeader
<1>3. ASSUME NEW n \in Node, LeadersShown = {n}
      PROVE  Leader = n
  <2>1. n <= n
    BY SizeAssumption DEF Node
  <2>2. Least({n}) = n
    BY <2>1 DEF Least
  <2> QED BY <1>2, <1>3, <2>2
<1> QED BY <1>2, <1>3, NoNodeAssumption DEF Node, LeaderIsFound

LEMMA LeaderFoundNext == LeaderIsFound'
BY LeaderFound, PTL
-----------------------------------------------------------------------------
LEMMA InitInv == LabInit => LabInv
<1> SUFFICES ASSUME LabInit PROVE LabInv
  OBVIOUS
<1>1. role = InitialRoles /\ drills = {} /\ busy = FALSE /\ status = "healthy"
  BY DEF LabInit
<1>2. 0 \in Node
  BY SizeAssumption DEF Node
<1>3. role \in [Node -> Role]
  BY <1>1 DEF InitialRoles, Role
<1>4. LeadersShown = {0} /\ \A n \in Node : role[n] # "candidate"
  BY <1>1, <1>2 DEF InitialRoles, LeadersShown
<1>5. ~Electing
  BY <1>1 DEF Electing
<1> QED BY <1>1, <1>2, <1>3, <1>4, <1>5 DEF LabInv, OneDrill, StatusInv, OneLeaderShown, CandidatesChosen

\* A click starts a drill only while none runs.
LEMMA ClickStarts ==
    ASSUME LabInv, NEW name \in {"reset", "crash", "partition", "heal"}, Click(name),
           busy' = SetBusy
    PROVE  /\ drills = {} /\ ~Electing
           /\ \E n \in Node : LeadersShown = {n} /\ Leader = n
           /\ \E d : /\ drills' = {d} /\ LabDrill(d) /\ busy' = TRUE
                     /\ d.name = name /\ d.step = 1
<1>1. drills = {} /\ ~Electing
  BY DEF LabInv, OneDrill, Click, Electing
<1>2. PICK n \in Node : LeadersShown = {n} /\ Leader = n
  BY <1>1, LeaderFound DEF LeaderIsFound, LabInv, OneLeaderShown
<1> DEFINE d == [click |-> clicks, name |-> name, step |-> 1, leader |-> Leader, term |-> term]
<1>3. drills' = {d}
  BY <1>1 DEF Click
<1>4. LabDrill(d) /\ d.name = name /\ d.step = 1
  BY <1>2 DEF LabDrill
<1>5. busy' = TRUE
  BY DEF SetBusy
<1> QED BY <1>1, <1>2, <1>3, <1>4, <1>5

\* A timer that fires belongs to the one drill; that goes on or is over.
LEMMA TimerOfDrill ==
    ASSUME LabInv, NEW d \in drills
    PROVE  /\ drills = {d} /\ LabDrill(d) /\ busy = TRUE /\ status = StatusOf(d.name)
           /\ GoesOn(d) => \E e : /\ drills' = {e} /\ LabDrill(e)
                                  /\ e.name = d.name /\ e.step = d.step + 1
                                  /\ e.leader = d.leader
           /\ Returns(d) => drills' = {} /\ busy' = FALSE
<1>1. drills = {d} /\ LabDrill(d) /\ busy = TRUE /\ status = StatusOf(d.name)
  BY DEF LabInv, OneDrill, StatusInv
<1>2. ASSUME GoesOn(d)
      PROVE  \E e : /\ drills' = {e} /\ LabDrill(e)
                    /\ e.name = d.name /\ e.step = d.step + 1
                    /\ e.leader = d.leader
  <2> DEFINE e == [d EXCEPT !.step = @ + 1]
  <2>1. drills' = {e}
    BY <1>1, <1>2 DEF GoesOn
  <2>2. e = [click |-> d.click, name |-> d.name, step |-> d.step + 1,
             leader |-> d.leader, term |-> d.term]
    BY <1>1 DEF LabDrill
  <2>3. LabDrill(e) /\ e.name = d.name /\ e.step = d.step + 1 /\ e.leader = d.leader
    BY <1>1, <2>2 DEF LabDrill
  <2> QED BY <2>1, <2>3
<1>3. Returns(d) => drills' = {} /\ busy' = FALSE
  BY <1>1 DEF Returns
<1> QED BY <1>1, <1>2, <1>3
-----------------------------------------------------------------------------
\* No drill but a crash takes the leader away or makes one.
LEMMA RolesKept ==
    ASSUME LabInv, role' = role, Electing' = Electing,
           Electing => \A e \in drills' : \E d \in drills : e.leader = d.leader
    PROVE  role' \in [Node -> Role] /\ OneLeaderShown' /\ CandidatesChosen'
<1>1. LeadersShown' = LeadersShown
  BY DEF LeadersShown
<1>2. \A m : Candidates(m)' = Candidates(m)
  BY DEF Candidates, Alive, Winner
<1>3. CandidatesChosen'
  BY <1>2 DEF LabInv, OneLeaderShown, CandidatesChosen
<1> QED BY <1>1, <1>3 DEF LabInv, OneLeaderShown

LEMMA ClickKeeps ==
    ASSUME LabInv, ClickReset \/ ClickCrash \/ ClickPartition \/ ClickHeal
    PROVE  LabInv'
<1>1. CASE ClickReset
  <2>1. PICK d : /\ drills' = {d} /\ LabDrill(d) /\ busy' = TRUE
                 /\ d.name = "reset" /\ d.step = 1
    BY <1>1, ClickStarts DEF ClickReset
  <2>2. ~Electing' /\ StatusInv' /\ OneDrill'
    BY <1>1, <2>1 DEF ClickReset, Electing, StatusInv, OneDrill, StatusOf
  <2>3. role' = InitialRoles /\ 0 \in Node
    BY <1>1, SizeAssumption DEF ClickReset, Node
  <2>4. role' \in [Node -> Role]
    BY <2>3 DEF InitialRoles, Role
  <2>5. LeadersShown' = {0} /\ \A n \in Node : role'[n] # "candidate"
    BY <2>3 DEF InitialRoles, LeadersShown
  <2> QED BY <2>2, <2>3, <2>4, <2>5 DEF LabInv, OneLeaderShown, CandidatesChosen
<1>2. CASE ClickCrash
  <2>1. PICK d : /\ drills' = {d} /\ LabDrill(d) /\ busy' = TRUE
                 /\ d.name = "crash" /\ d.step = 1
    BY <1>2, ClickStarts DEF ClickCrash
  <2>2. PICK n \in Node : LeadersShown = {n} /\ Leader = n
    BY <1>2, ClickStarts DEF ClickCrash
  <2>3. Electing' /\ StatusInv' /\ OneDrill'
    BY <1>2, <2>1 DEF ClickCrash, Electing, StatusInv, OneDrill, StatusOf
  <2>4. role' = [role EXCEPT ![n] = "down"]
    BY <1>2, <2>2 DEF ClickCrash
  <2>5. role' \in [Node -> Role]
    BY <2>4 DEF LabInv, Role
  <2>6. LeadersShown' = {}
    BY <2>2, <2>4 DEF LabInv, LeadersShown
  <2>7. \A m \in Node : role'[m] # "candidate"
    BY <1>2, <2>4, ClickStarts DEF ClickCrash, LabInv, OneLeaderShown
  <2> QED BY <2>3, <2>5, <2>6, <2>7 DEF LabInv, OneLeaderShown, CandidatesChosen
<1>3. CASE ClickPartition
  <2>1. PICK d : /\ drills' = {d} /\ LabDrill(d) /\ busy' = TRUE
                 /\ d.name = "partition" /\ d.step = 1
    BY <1>3, ClickStarts DEF ClickPartition
  <2>2. Electing' = Electing /\ StatusInv' /\ OneDrill'
    BY <1>3, <2>1, ClickStarts DEF ClickPartition, Electing, StatusInv, OneDrill, StatusOf
  <2> QED BY <1>3, <2>2, ClickStarts, RolesKept DEF LabInv, ClickPartition
<1>4. CASE ClickHeal
  <2>1. PICK d : /\ drills' = {d} /\ LabDrill(d) /\ busy' = TRUE
                 /\ d.name = "heal" /\ d.step = 1
    BY <1>4, ClickStarts DEF ClickHeal
  <2>2. Electing' = Electing /\ StatusInv' /\ OneDrill'
    BY <1>4, <2>1, ClickStarts DEF ClickHeal, Electing, StatusInv, OneDrill, StatusOf
  <2> QED BY <1>4, <2>2, ClickStarts, RolesKept DEF LabInv, ClickHeal
<1> QED BY <1>1, <1>2, <1>3, <1>4

\* Steps of a drill that leave the roles alone.
LEMMA QuietStepKeeps ==
    ASSUME LabInv, NEW d \in drills,
           \/ ResetDone(d) \/ VotesRequested(d) \/ CrashDone(d)
           \/ MinorityNamed(d) \/ PartitionDone(d) \/ PeersReconnected(d) \/ HealDone(d)
    PROVE  LabInv'
<1>1. role' = role
  BY DEF ResetDone, VotesRequested, CrashDone, MinorityNamed, PartitionDone,
         PeersReconnected, HealDone
<1>2. CASE ResetDone(d) \/ CrashDone(d) \/ PartitionDone(d) \/ HealDone(d)
  <2>1. drills = {d} /\ LabDrill(d) /\ status = StatusOf(d.name)
        /\ drills' = {} /\ busy' = FALSE
    BY <1>2, TimerOfDrill DEF ResetDone, CrashDone, PartitionDone, HealDone
  <2>2. OneDrill'
    BY <2>1 DEF OneDrill
  <2>3. Electing' = Electing
    BY <1>2, <2>1 DEF ResetDone, CrashDone, PartitionDone, HealDone, At, Electing
  <2>4. StatusInv'
    <3>1. CASE ResetDone(d)
      BY <2>1, <3>1 DEF ResetDone, At, StatusInv, StatusOf
    <3>2. CASE CrashDone(d)
      BY <2>1, <3>2 DEF CrashDone, At, StatusInv, StatusOf
    <3>3. CASE PartitionDone(d)
      BY <2>1, <3>3 DEF PartitionDone, At, StatusInv, StatusOf, LabInv
    <3>4. CASE HealDone(d)
      BY <2>1, <3>4 DEF HealDone, At, StatusInv, StatusAfterHeal
    <3> QED BY <1>2, <3>1, <3>2, <3>3, <3>4
  <2> QED BY <1>1, <2>1, <2>2, <2>3, <2>4, RolesKept DEF LabInv
<1>3. CASE VotesRequested(d) \/ MinorityNamed(d) \/ PeersReconnected(d)
  <2>1. PICK e : /\ drills' = {e} /\ LabDrill(e) /\ e.name = d.name
                 /\ e.step = d.step + 1 /\ e.leader = d.leader
    BY <1>3, TimerOfDrill DEF VotesRequested, MinorityNamed, PeersReconnected
  <2>2. drills = {d} /\ LabDrill(d) /\ busy = TRUE /\ status = StatusOf(d.name)
    BY TimerOfDrill
  <2>3. OneDrill'
    BY <1>3, <2>1, <2>2 DEF OneDrill, VotesRequested, MinorityNamed, PeersReconnected
  <2>4. Electing' = Electing
    <3>1. CASE VotesRequested(d)
      <4>1. d.name = "crash" /\ d.step = 2 /\ e.step = 3
        BY <2>1, <3>1 DEF VotesRequested, At
      <4> QED BY <2>1, <2>2, <4>1 DEF Electing
    <3>2. CASE MinorityNamed(d) \/ PeersReconnected(d)
      <4>1. d.name # "crash"
        BY <3>2 DEF MinorityNamed, PeersReconnected, At
      <4> QED BY <2>1, <2>2, <4>1 DEF Electing
    <3> QED BY <1>3, <3>1, <3>2
  <2>5. StatusInv'
    <3>1. status' = status /\ \A x \in drills' : x.name = d.name
      BY <1>3, <2>1 DEF VotesRequested, MinorityNamed, PeersReconnected
    <3>2. status = "partitioned" => partition'
      BY <1>3, <2>2 DEF VotesRequested, MinorityNamed, PeersReconnected, At,
                        LabInv, StatusInv, StatusOf
    <3> QED BY <2>1, <2>2, <3>1, <3>2 DEF StatusInv
  <2> QED BY <1>1, <2>1, <2>2, <2>3, <2>4, <2>5, RolesKept DEF LabInv
<1> QED BY <1>2, <1>3

\* The election: candidates stand, and the first node the handler knows wins.
LEMMA ElectionKeeps ==
    ASSUME LabInv, NEW d \in drills, CandidatesStand(d) \/ WinnerPromoted(d)
    PROVE  LabInv'
<1>1. drills = {d} /\ LabDrill(d) /\ busy = TRUE /\ status = StatusOf(d.name)
  BY TimerOfDrill
<1>2. PICK e : /\ drills' = {e} /\ LabDrill(e) /\ e.name = d.name
               /\ e.step = d.step + 1 /\ e.leader = d.leader
  BY TimerOfDrill DEF CandidatesStand, WinnerPromoted
<1>3. OneDrill'
  BY <1>1, <1>2 DEF OneDrill, CandidatesStand, WinnerPromoted
<1>4. StatusInv'
  BY <1>1, <1>2 DEF CandidatesStand, WinnerPromoted, LabInv, StatusInv
<1>5. d.name = "crash" /\ d.leader \in Node /\ Electing
  <2>1. d.name = "crash" /\ (d.step = 1 \/ d.step = 3)
    BY DEF CandidatesStand, WinnerPromoted, At
  <2>2. Electing
    BY <1>1, <2>1 DEF Electing
  <2> QED BY <1>1, <2>1, <2>2 DEF LabDrill
<1>6. \A m : Candidates(m)' = Candidates(m)
  BY DEF Candidates, Alive, Winner
<1>7. \A n \in Node : role[n] = "candidate" => n \in Candidates(d.leader)
  BY DEF LabInv, CandidatesChosen
<1>8. LeadersShown = {}
  BY <1>5 DEF LabInv, OneLeaderShown
<1>9. CASE CandidatesStand(d)
  <2>1. role' = [n \in Node |-> IF n \in Candidates(d.leader) THEN "candidate" ELSE role[n]]
    BY <1>9 DEF CandidatesStand
  <2>2. role' \in [Node -> Role]
    BY <2>1 DEF LabInv, Role
  <2>3. LeadersShown' = {}
    BY <1>8, <2>1 DEF LeadersShown
  <2>4. Electing'
    BY <1>2, <1>9 DEF CandidatesStand, At, Electing
  <2>5. CandidatesChosen'
    BY <1>2, <1>6, <1>7, <2>1 DEF CandidatesChosen
  <2> QED BY <1>3, <1>4, <2>2, <2>3, <2>4, <2>5 DEF LabInv, OneLeaderShown
<1>10. CASE WinnerPromoted(d)
  <2> DEFINE w == Winner(d.leader)
  <2>1. w \in Node /\ w # d.leader
    BY <1>5, WinnerIsNode
  <2>2. role' = [n \in Node |-> IF n = w THEN "leader"
                                ELSE IF n \in Candidates(d.leader) THEN "follower" ELSE role[n]]
    BY <1>10 DEF WinnerPromoted, AfterElection
  <2>3. role' \in [Node -> Role]
    BY <2>2 DEF LabInv, Role
  <2>4. LeadersShown' = {w}
    BY <1>8, <2>1, <2>2 DEF LeadersShown
  <2>5. ~Electing'
    BY <1>2, <1>10 DEF WinnerPromoted, At, Electing
  <2>6. \A n \in Node : role'[n] # "candidate"
    BY <1>7, <2>2
  <2>7. OneLeaderShown' /\ CandidatesChosen'
    BY <2>1, <2>4, <2>5, <2>6 DEF OneLeaderShown, CandidatesChosen
  <2> QED BY <1>3, <1>4, <2>3, <2>7 DEF LabInv
<1> QED BY <1>9, <1>10
-----------------------------------------------------------------------------
LEMMA StepKeeps == LabInv /\ [LabNext]_labVars => LabInv'
<1> SUFFICES ASSUME LabInv, [LabNext]_labVars PROVE LabInv'
  OBVIOUS
<1>1. CASE ClickReset \/ ClickCrash \/ ClickPartition \/ ClickHeal
  BY <1>1, ClickKeeps
<1>2. CASE TimerFires
  BY <1>2, QuietStepKeeps, ElectionKeeps DEF TimerFires
<1>3. CASE Remount
  <2>1. role' = InitialRoles /\ drills' = {} /\ busy' = FALSE /\ status' = "healthy"
    BY <1>3 DEF Remount
  <2>2. 0 \in Node
    BY SizeAssumption DEF Node
  <2>3. role' \in [Node -> Role]
    BY <2>1 DEF InitialRoles, Role
  <2>4. LeadersShown' = {0} /\ \A n \in Node : role'[n] # "candidate"
    BY <2>1, <2>2 DEF InitialRoles, LeadersShown
  <2>5. ~Electing'
    BY <2>1 DEF Electing
  <2> QED BY <2>1, <2>2, <2>3, <2>4, <2>5
          DEF LabInv, OneDrill, StatusInv, OneLeaderShown, CandidatesChosen
<1>4. CASE UNCHANGED labVars
  BY <1>4 DEF LabInv, OneDrill, StatusInv, OneLeaderShown, CandidatesChosen, LeadersShown,
              Electing, labVars, Candidates, Alive, Winner
<1> QED BY <1>1, <1>2, <1>3, <1>4 DEF LabNext

\* The simulation never shows two leaders, nor none except during an election,
\* whatever is clicked while a drill waits.
THEOREM OneLeaderAlways == LabSpec => []OneLeaderShown
<1>1. LabInv => OneLeaderShown
  BY DEF LabInv
<1> QED BY InitInv, StepKeeps, <1>1, PTL DEF LabSpec

\* The status pill and the banner are true at every moment of every drill.
THEOREM StatusAlwaysTold == LabSpec => []StatusTold
<1>1. LabInv => StatusTold
  <2> SUFFICES ASSUME LabInv PROVE StatusTold
    OBVIOUS
  <2>1. CASE drills = {}
    BY <2>1 DEF LabInv, StatusInv, StatusTold, StatusLabel, Banner
  <2>2. CASE \E d : drills = {d} /\ LabDrill(d)
    <3>1. PICK d : drills = {d} /\ LabDrill(d)
      BY <2>2
    <3>2. status = StatusOf(d.name) /\ (status = "partitioned" => partition)
      BY <3>1 DEF LabInv, StatusInv
    <3> QED BY <3>1, <3>2 DEF StatusTold, StatusLabel, Banner, StatusOf, LabDrill
  <2> QED BY <2>1, <2>2 DEF LabInv, OneDrill
<1> QED BY InitInv, StepKeeps, <1>1, PTL DEF LabSpec

\* With one leader or none, lines and packets show who can reach whom.
THEOREM PictureAlwaysTrue == LabSpec => []PictureTrue
<1>1. LabInv => PictureTrue
  <2> SUFFICES ASSUME LabInv PROVE PictureTrue
    OBVIOUS
  <2>1. CASE LeadersShown = {}
    <3>1. Leader = NoNode
      BY <2>1, LeaderFound DEF LeaderIsFound
    <3>2. Packets(Data, partition) = {} /\ Severed(Data, partition) = {}
      BY <3>1 DEF Packets, Severed, Leader
    <3> QED BY <3>1, <3>2 DEF PictureTrue
  <2>2. CASE \E n \in Node : LeadersShown = {n}
    <3>1. PICK n \in Node : LeadersShown = {n}
      BY <2>2
    <3>2. Leader = n /\ Leader # NoNode /\ ShownLeader(Data) = n
      BY <3>1, LeaderFound DEF LeaderIsFound, Leader
    <3>3. \A m \in Node : Data[m].role = role[m] /\ Data[m].side = Side[m] /\ Side[m] # NoSide
      BY SideAssumption, NoSideAssumption DEF Data
    <3>4. \A m \in Node : Apart(Data, partition, m, n) <=> (partition /\ Side[m] # Side[n])
      BY <3>3 DEF Apart
    <3>5. role[n] # "down"
      BY <3>1 DEF LeadersShown
    <3>6. Packets(Data, partition) =
              {m \in Node : m # n /\ role[m] # "down" /\ ~(partition /\ Side[m] # Side[n])}
      BY <3>2, <3>3, <3>4 DEF Packets, LinkTargets
    <3>7. Severed(Data, partition) =
              {m \in Node : m # n /\ role[m] # "down" /\ partition /\ Side[m] # Side[n]}
      BY <3>2, <3>3, <3>4 DEF Severed, Isolated
    <3>8. Dimmed(Data) = {m \in Node : role[m] = "down"}
      BY <3>3 DEF Dimmed
    <3>9. \A m \in Packets(Data, partition) : RoleLabel(Data[m].role) # "Offline"
      <4>1. \A r \in Role : RoleLabel(r) = "Offline" => r = "down"
        BY DEF Role, RoleLabel
      <4> QED BY <3>3, <3>6, <4>1 DEF LabInv
    <3>10. Pulsing(Data) = {n}
      <4>1. \A m \in Node : role[m] # "candidate"
        BY <3>1 DEF LabInv, OneLeaderShown
      <4> QED BY <3>1, <3>3, <4>1 DEF Pulsing, LeadersShown
    <3> QED BY <3>2, <3>6, <3>7, <3>8, <3>9, <3>10 DEF PictureTrue
  <2> QED BY <2>1, <2>2 DEF LabInv, OneLeaderShown
<1> QED BY InitInv, StepKeeps, <1>1, PTL DEF LabSpec
-----------------------------------------------------------------------------
\* Every step of the simulation is a step of an orderly succession of leaders.
LEMMA StepSucceeds == LabInv /\ LabInv' /\ [LabNext]_labVars => [Shows!Next]_<<Leader, term>>
<1> SUFFICES ASSUME LabInv, LabInv', [LabNext]_labVars
             PROVE  [Shows!Next]_<<Leader, term>>
  OBVIOUS
<1>1. /\ LeadersShown' = {} => Leader' = NoNode
      /\ \A n \in Node : LeadersShown' = {n} => Leader' = n /\ Leader' # NoNode
  BY LeaderFoundNext DEF LeaderIsFound
<1>2. role' = role => Leader' = Leader
  BY DEF Leader, ShownLeader, Data, Least
<1>3. role' = InitialRoles => Leader' = 0
  <2>1. 0 \in Node
    BY SizeAssumption DEF Node
  <2>2. role' = InitialRoles => LeadersShown' = {0}
    BY <2>1 DEF InitialRoles, LeadersShown
  <2> QED BY <1>1, <2>1, <2>2
<1>4. CASE ClickReset
  <2>1. \E n \in Node : Leader = n
    BY <1>4, ClickStarts DEF ClickReset
  <2>2. Leader # NoNode
    BY <2>1, NoNodeAssumption DEF Node
  <2> QED BY <1>3, <1>4, <2>2 DEF ClickReset, Shows!Next, Shows!Restart
<1>5. CASE ClickCrash
  <2>1. \E n \in Node : Leader = n
    BY <1>5, ClickStarts DEF ClickCrash
  <2>2. Leader # NoNode
    BY <2>1, NoNodeAssumption DEF Node
  <2>3. \E d : drills' = {d} /\ d.name = "crash" /\ d.step = 1
    BY <1>5, ClickStarts DEF ClickCrash
  <2>4. Electing'
    BY <2>3 DEF Electing
  <2>5. Leader' = NoNode
    BY <1>1, <2>4 DEF LabInv, OneLeaderShown
  <2> QED BY <1>5, <2>2, <2>5 DEF ClickCrash, Shows!Next, Shows!Lose
<1>6. CASE ClickPartition \/ ClickHeal
  BY <1>2, <1>6 DEF ClickPartition, ClickHeal
<1>7. ASSUME NEW d \in drills,
             \/ ResetDone(d) \/ VotesRequested(d) \/ CrashDone(d)
             \/ MinorityNamed(d) \/ PartitionDone(d) \/ PeersReconnected(d) \/ HealDone(d)
      PROVE  UNCHANGED <<Leader, term>>
  BY <1>2, <1>7 DEF ResetDone, VotesRequested, CrashDone, MinorityNamed, PartitionDone,
                    PeersReconnected, HealDone
<1>8. ASSUME NEW d \in drills, CandidatesStand(d) \/ WinnerPromoted(d)
      PROVE  [Shows!Next]_<<Leader, term>>
  <2>1. drills = {d} /\ d.name = "crash" /\ (d.step = 1 \/ d.step = 3)
    BY <1>8, TimerOfDrill DEF CandidatesStand, WinnerPromoted, At
  <2>2. LeadersShown = {}
    BY <2>1 DEF Electing, LabInv, OneLeaderShown
  <2>3. Leader = NoNode
    BY <2>2, LeaderFound DEF LeaderIsFound
  <2>4. PICK e : drills' = {e} /\ e.name = d.name /\ e.step = d.step + 1
    BY <1>8, TimerOfDrill DEF CandidatesStand, WinnerPromoted
  <2>5. CASE CandidatesStand(d)
    <3>1. Electing'
      BY <2>4, <2>5 DEF CandidatesStand, At, Electing
    <3>2. Leader' = NoNode
      BY <1>1, <3>1 DEF LabInv, OneLeaderShown
    <3> QED BY <2>3, <2>5, <3>2 DEF CandidatesStand
  <2>6. CASE WinnerPromoted(d)
    <3>1. ~Electing'
      BY <2>4, <2>6 DEF WinnerPromoted, At, Electing
    <3>2. Leader' \in Node
      BY <1>1, <3>1 DEF LabInv, OneLeaderShown
    <3> QED BY <2>3, <2>6, <3>2 DEF WinnerPromoted, NextTerm, Shows!Next, Shows!Elect
  <2> QED BY <1>8, <2>5, <2>6
<1>9. CASE TimerFires
  BY <1>7, <1>8, <1>9 DEF TimerFires
<1>10. CASE Remount
  BY <1>3, <1>10 DEF Remount, Shows!Next, Shows!Restart
<1>11. CASE UNCHANGED labVars
  BY <1>2, <1>11 DEF labVars
<1> QED BY <1>4, <1>5, <1>6, <1>9, <1>10, <1>11 DEF LabNext

\* The leaders and terms shown form an orderly succession: a term passes only by
\* the loss of a leader and the election of another.
THEOREM LeadersSucceed == LabSpec => Shows!Succeeds
<1>1. LabInit => Shows!Init
  <2> SUFFICES ASSUME LabInit PROVE Shows!Init
    OBVIOUS
  <2>1. role = InitialRoles /\ term = InitialTerm /\ 0 \in Node
    BY SizeAssumption DEF LabInit, Node
  <2>2. LeadersShown = {0}
    BY <2>1 DEF InitialRoles, LeadersShown
  <2> QED BY <2>1, <2>2, LeaderFound DEF LeaderIsFound, Shows!Init
<1> QED BY InitInv, StepKeeps, StepSucceeds, <1>1, PTL DEF LabSpec, Shows!Succeeds, Shows!vars
-----------------------------------------------------------------------------
(* The timeline: what emit does to it. *)

\* new is old with e on top, as far down as rows are kept.
Pushed(new, old, e) ==
    /\ new \in Seq(Event) /\ Len(new) \in 1..TimelineLength
    /\ Len(new) <= Len(old) + 1
    /\ new[1] = e
    /\ \A i \in 2..Len(new) : new[i] = old[i - 1]

Row(id, call) == [id |-> id, label |-> call.label, term |-> call.term]

LEMMA FunctionIsSeq ==
    ASSUME NEW n \in Nat, NEW f \in [1..n -> Event]
    PROVE  f \in Seq(Event) /\ Len(f) = n
<1>1. Seq(Event) = UNION {[1..k -> Event] : k \in Nat}
  BY SeqDef
<1>2. f \in Seq(Event)
  BY <1>1
<1>3. Len(f) \in Nat /\ DOMAIN f = 1..Len(f)
  BY <1>2, LenProperties
<1>4. \A k \in Nat : k \in 1..Len(f) <=> k \in 1..n
  BY <1>3
<1>5. CASE Len(f) < n
  BY <1>3, <1>4, <1>5
<1>6. CASE Len(f) > n
  BY <1>3, <1>4, <1>6
<1> QED BY <1>2, <1>3, <1>5, <1>6

LEMMA ReverseOne ==
    ASSUME NEW x \in Event
    PROVE  Reverse(<<x>>) \in Seq(Event) /\ Len(Reverse(<<x>>)) = 1 /\ Reverse(<<x>>)[1] = x
<1> DEFINE f == [i \in 1..1 |-> x]
<1>1. Reverse(<<x>>) = f
  <2>1. Len(<<x>>) = 1 /\ \A i \in 1..1 : <<x>>[(1 - i) + 1] = x
    OBVIOUS
  <2> QED BY <2>1 DEF Reverse
<1>2. f \in [1..1 -> Event] /\ f[1] = x
  OBVIOUS
<1> HIDE DEF f
<1>3. f \in Seq(Event) /\ Len(f) = 1
  BY <1>2, FunctionIsSeq
<1> QED BY <1>1, <1>2, <1>3

LEMMA ReverseTwo ==
    ASSUME NEW x \in Event, NEW y \in Event
    PROVE  /\ Reverse(<<x, y>>) \in Seq(Event) /\ Len(Reverse(<<x, y>>)) = 2
           /\ Reverse(<<x, y>>)[1] = y /\ Reverse(<<x, y>>)[2] = x
<1> DEFINE f == [i \in 1..2 |-> <<x, y>>[(2 - i) + 1]]
<1>1. Reverse(<<x, y>>) = f
  <2>1. Len(<<x, y>>) = 2
    OBVIOUS
  <2> QED BY <2>1 DEF Reverse
<1>2. f[1] = y /\ f[2] = x
  OBVIOUS
<1>3. f \in [1..2 -> Event]
  <2>1. ASSUME NEW i \in 1..2 PROVE <<x, y>>[(2 - i) + 1] \in Event
    <3>1. i = 1 \/ i = 2
      OBVIOUS
    <3> QED BY <3>1
  <2> QED BY <2>1
<1> HIDE DEF f
<1>4. f \in Seq(Event) /\ Len(f) = 2
  BY <1>3, FunctionIsSeq
<1> QED BY <1>1, <1>2, <1>4

LEMMA Joined ==
    ASSUME NEW s \in Seq(Event), NEW old \in Seq(Event)
    PROVE  /\ s \o old \in Seq(Event) /\ Len(s \o old) = Len(s) + Len(old)
           /\ \A i \in 1..(Len(s) + Len(old)) :
                 (s \o old)[i] = IF i <= Len(s) THEN s[i] ELSE old[i - Len(s)]
BY ConcatProperties

LEMMA ShownPushed ==
    ASSUME NEW old \in Seq(Event), NEW s \in Seq(Event), Len(s) = 1
    PROVE  Pushed(Shown(s \o old), old, s[1])
<1> DEFINE all == s \o old
           k   == IF Len(all) < TimelineLength THEN Len(all) ELSE TimelineLength
<1>1. /\ all \in Seq(Event) /\ Len(all) = 1 + Len(old) /\ Len(old) \in Nat
      /\ all[1] = s[1]
      /\ \A i \in 2..Len(all) : all[i] = old[i - 1]
  <2>1. Len(old) \in Nat
    BY LenProperties
  <2>2. /\ all \in Seq(Event) /\ Len(all) = Len(s) + Len(old)
        /\ \A i \in 1..(Len(s) + Len(old)) :
              all[i] = IF i <= Len(s) THEN s[i] ELSE old[i - Len(s)]
    BY Joined
  <2> HIDE DEF all
  <2> QED BY <2>1, <2>2
<1>2. k \in 1..Len(all) /\ k <= TimelineLength
  BY <1>1 DEF TimelineLength
<1> HIDE DEF all, k
<1>3. \A i \in 1..k : all[i] \in Event
  BY <1>1, <1>2, ElementOfSeq
<1>4. /\ SubSeq(all, 1, k) \in Seq(Event) /\ Len(SubSeq(all, 1, k)) = k
      /\ \A i \in 1..k : SubSeq(all, 1, k)[i] = all[i]
  BY <1>1, <1>2, <1>3, SubSeqProperties
<1>5. Shown(all) = SubSeq(all, 1, k)
  BY DEF Shown, k
<1>6. Pushed(Shown(all), old, s[1])
  BY <1>1, <1>2, <1>4, <1>5 DEF Pushed, TimelineLength
<1> QED BY <1>6 DEF all

\* One call of emit.
LEMMA EmitOne ==
    ASSUME events \in Seq(Event), nextId \in Nat, NEW label \in Label, NEW t \in Nat,
           Emit(<<Say(label, t)>>)
    PROVE  /\ Pushed(events', events, Row(nextId, Say(label, t)))
           /\ nextId' = nextId + 1
           /\ Row(nextId, Say(label, t)) \in Event
<1> DEFINE e == Row(nextId, Say(label, t))
           s == Reverse(Fresh(<<Say(label, t)>>))
<1>1. e \in Event
  BY DEF Row, Say, Event
<1>2. Fresh(<<Say(label, t)>>) = <<e>>
  BY DEF Fresh, Row
<1>3. s = Reverse(<<e>>)
  BY <1>2
<1> HIDE DEF e
<1>4. s \in Seq(Event) /\ Len(s) = 1 /\ s[1] = e
  BY <1>1, <1>3, ReverseOne
<1>5. events' = Shown(s \o events) /\ nextId' = nextId + 1
  BY DEF Emit
<1> HIDE DEF s, e
<1>6. Pushed(events', events, e)
  BY <1>4, <1>5, ShownPushed
<1> QED BY <1>1, <1>5, <1>6 DEF e

\* Two calls are one after the other.
LEMMA EmitTwo ==
    ASSUME events \in Seq(Event), nextId \in Nat, NEW a \in Label, NEW t \in Nat,
           NEW b \in Label, NEW u \in Nat, Emit(<<Say(a, t), Say(b, u)>>)
    PROVE  \E mid : /\ Pushed(mid, events, Row(nextId, Say(a, t)))
                    /\ Pushed(events', mid, Row(nextId + 1, Say(b, u)))
                    /\ nextId' = nextId + 2
                    /\ Row(nextId, Say(a, t)) \in Event
                    /\ Row(nextId + 1, Say(b, u)) \in Event
<1> DEFINE first  == Row(nextId, Say(a, t))
           second == Row(nextId + 1, Say(b, u))
           s      == Reverse(Fresh(<<Say(a, t), Say(b, u)>>))
           mid    == Shown(<<first>> \o events)
           all    == s \o events
           k      == IF Len(all) < TimelineLength THEN Len(all) ELSE TimelineLength
<1>1. first \in Event /\ second \in Event
  BY DEF Row, Say, Event
<1>2. Fresh(<<Say(a, t), Say(b, u)>>) = <<first, second>>
  BY DEF Fresh, Row
<1>3. s = Reverse(<<first, second>>)
  BY <1>2
<1> HIDE DEF first, second
<1>4. s \in Seq(Event) /\ Len(s) = 2 /\ s[1] = second /\ s[2] = first
  BY <1>1, <1>3, ReverseTwo
<1>5. events' = Shown(all) /\ nextId' = nextId + 2
  BY DEF Emit
<1> HIDE DEF s, first, second
<1>6. /\ all \in Seq(Event) /\ Len(all) = 2 + Len(events) /\ Len(events) \in Nat
      /\ all[1] = second /\ all[2] = first
      /\ \A i \in 3..Len(all) : all[i] = events[i - 2]
  <2>1. Len(events) \in Nat
    BY LenProperties
  <2>2. /\ all \in Seq(Event) /\ Len(all) = Len(s) + Len(events)
        /\ \A i \in 1..(Len(s) + Len(events)) :
              all[i] = IF i <= Len(s) THEN s[i] ELSE events[i - Len(s)]
    BY <1>4, Joined
  <2> HIDE DEF all
  <2> QED BY <1>4, <2>1, <2>2
<1> HIDE DEF all
<1>7. k \in 1..Len(all) /\ k <= TimelineLength
  BY <1>6 DEF TimelineLength
<1>8. \A i \in 1..k : all[i] \in Event
  BY <1>6, <1>7, ElementOfSeq
<1> HIDE DEF k
<1>9. /\ SubSeq(all, 1, k) \in Seq(Event) /\ Len(SubSeq(all, 1, k)) = k
      /\ \A i \in 1..k : SubSeq(all, 1, k)[i] = all[i]
  BY <1>6, <1>7, <1>8, SubSeqProperties
<1>10. events' = SubSeq(all, 1, k)
  BY <1>5 DEF Shown, k
<1>11. Pushed(mid, events, first)
  <2>1. <<first>> \in Seq(Event) /\ Len(<<first>>) = 1 /\ <<first>>[1] = first
    BY <1>1
  <2> QED BY <2>1, ShownPushed
<1>12. Len(mid) = IF 1 + Len(events) < TimelineLength THEN 1 + Len(events) ELSE TimelineLength
  <2>1. <<first>> \in Seq(Event) /\ Len(<<first>>) = 1
    BY <1>1
  <2>2. <<first>> \o events \in Seq(Event) /\ Len(<<first>> \o events) = 1 + Len(events)
    BY <2>1, ConcatProperties
  <2> DEFINE whole == <<first>> \o events
             j     == IF Len(whole) < TimelineLength THEN Len(whole) ELSE TimelineLength
  <2>3. j \in 1..Len(whole) /\ mid = SubSeq(whole, 1, j)
    BY <1>6, <2>2 DEF Shown, TimelineLength
  <2> HIDE DEF whole, j, mid
  <2>4. Len(mid) = j
    <3>1. \A i \in 1..j : whole[i] \in Event
      BY <2>2, <2>3, ElementOfSeq DEF whole
    <3>2. j \in Nat /\ j >= 1
      BY <2>2, <2>3 DEF whole
    <3> QED BY <2>3, <3>1, <3>2, SubSeqProperties
  <2> QED BY <2>2, <2>4 DEF j, whole
<1> HIDE DEF mid
<1>13. Len(events') = k /\ Len(mid) \in Nat /\ k <= Len(mid) + 1
  BY <1>6, <1>7, <1>9, <1>10, <1>12 DEF k, TimelineLength
<1>14. ASSUME NEW i \in 2..Len(events') PROVE events'[i] = mid[i - 1]
  <2>1. i \in 1..k /\ i <= Len(all) /\ i - 1 \in 1..Len(mid)
    <3>1. i \in 2..k /\ k \in Nat /\ Len(all) \in Nat /\ Len(mid) \in Nat
      BY <1>6, <1>7, <1>13
    <3>2. i - 1 \in 1..Len(mid)
      BY <1>13, <3>1
    <3>3. i <= Len(all)
      BY <1>7, <3>1
    <3>4. i \in 1..k
      BY <3>1
    <3> QED BY <3>2, <3>3, <3>4
  <2>2. events'[i] = all[i]
    BY <1>9, <1>10, <2>1
  <2>3. CASE i = 2
    BY <1>6, <1>11, <2>2, <2>3 DEF Pushed
  <2>4. CASE i # 2
    <3>1. i \in 3..Len(all) /\ i - 1 \in 2..Len(mid) /\ (i - 1) - 1 = i - 2
      BY <1>6, <1>13, <2>1, <2>4
    <3>2. all[i] = events[i - 2] /\ mid[i - 1] = events[(i - 1) - 1]
      BY <1>6, <1>11, <3>1 DEF Pushed
    <3> QED BY <2>2, <3>1, <3>2
  <2> QED BY <2>3, <2>4
<1>15. Pushed(events', mid, second)
  <2>1. events' \in Seq(Event) /\ events'[1] = second
    BY <1>6, <1>7, <1>9, <1>10
  <2> QED BY <1>7, <1>13, <1>14, <2>1 DEF Pushed
<1> QED BY <1>1, <1>5, <1>11, <1>15 DEF first, second
-----------------------------------------------------------------------------
\* What a timeline of terms says when t is the term and nobody was promised one
\* above top: the terms named fall downwards, those of elections strictly, and the
\* election named first gave the term t.
TermsTold(ev, t, top) ==
    /\ \A i \in 1..Len(ev) : ev[i].term <= top
    /\ \A i, j \in 1..Len(ev) :
          i < j /\ ev[i].term # NoTerm /\ ev[j].term # NoTerm => ev[j].term <= ev[i].term
    /\ \A i, j \in 1..Len(ev) :
          i < j /\ ev[i].label = "promoted" /\ ev[j].label = "promoted"
              => ev[j].term < ev[i].term
    /\ \A i \in 1..Len(ev) :
          ev[i].label = "promoted" =>
              /\ ev[i].term <= t
              /\ (\A j \in 1..(i - 1) : ev[j].label # "promoted") => ev[i].term = t

\* The highest term named: the next one, from the start of an election to its end.
Announced == \E d \in drills : d.name = "crash" /\ d.step \in {2, 3}
TopTerm == IF Announced THEN term + 1 ELSE term

\* A drill knows the term until it has itself given a new one.
TermsKnown == \A d \in drills : d.term = term \/ (d.name = "crash" /\ d.step = 4)

\* The newest row is that of the drill under way, or of the one that ended last.
NewestRow ==
    /\ drills = {} => (Kind(events[1].label) = "ok" <=> status = "healthy")
    /\ \A d \in drills :
          /\ d.name = "reset" => events[1].label = "restored"
          /\ d.name = "crash" /\ d.step = 4 => events[1].label = "promoted"
          /\ d.name = "partition" => events[1].label \in {"partition", "minority"}

TimelineInv == TermsTold(events, term, TopTerm) /\ TermsKnown /\ NewestRow

LEMMA EventTyped ==
    ASSUME NEW l \in Seq(Event), NEW i \in 1..Len(l)
    PROVE  l[i].term \in Nat /\ l[i].id \in Nat /\ l[i].label \in Label
<1>1. l[i] \in Event
  BY ElementOfSeq
<1> QED BY <1>1 DEF Event

LEMMA AtMost == \A a, b, c \in Nat : a <= b /\ b <= c => a <= c
OBVIOUS

\* A row that names no term, or one not below any named, leaves the timeline in order.
LEMMA PushTold ==
    ASSUME NEW old \in Seq(Event), NEW new, NEW e \in Event, NEW t \in Nat, NEW top \in Nat,
           NEW high \in Nat, Pushed(new, old, e), TermsTold(old, t, top),
           e.label # "promoted", e.term = NoTerm \/ e.term >= top,
           e.term <= high, top <= high
    PROVE  TermsTold(new, t, high)
<1>1. /\ new \in Seq(Event) /\ Len(new) \in Nat /\ Len(old) \in Nat
      /\ Len(new) <= Len(old) + 1 /\ new[1] = e
      /\ \A i \in 2..Len(new) : i - 1 \in 1..Len(old) /\ new[i] = old[i - 1]
  BY LenProperties DEF Pushed
<1>2. e.term \in Nat /\ \A i \in 1..Len(old) : old[i].term \in Nat
  BY EventTyped DEF Event
<1>3. ASSUME NEW i \in 1..Len(new)
      PROVE  new[i].term <= high
  <2>1. CASE i = 1
    BY <1>1, <2>1
  <2>2. CASE i # 1
    <3>1. i - 1 \in 1..Len(old) /\ new[i] = old[i - 1]
      BY <1>1, <2>2
    <3>2. old[i - 1].term <= top
      BY <3>1 DEF TermsTold
    <3>3. old[i - 1].term \in Nat
      BY <1>2, <3>1
    <3>4. old[i - 1].term <= high
      BY <3>2, <3>3, AtMost
    <3> QED BY <3>1, <3>4
  <2> QED BY <2>1, <2>2
<1>4. ASSUME NEW i \in 1..Len(new), NEW j \in 1..Len(new), i < j
      PROVE  /\ new[i].term # NoTerm /\ new[j].term # NoTerm => new[j].term <= new[i].term
             /\ new[i].label = "promoted" /\ new[j].label = "promoted"
                    => new[j].term < new[i].term
  <2>1. j - 1 \in 1..Len(old) /\ new[j] = old[j - 1]
    BY <1>1, <1>4
  <2>2. CASE i = 1
    BY <1>1, <1>2, <2>1, <2>2 DEF TermsTold
  <2>3. CASE i # 1
    <3>1. i - 1 \in 1..Len(old) /\ new[i] = old[i - 1] /\ i - 1 < j - 1
      <4>1. i \in 2..Len(new) /\ i - 1 < j - 1
        BY <1>1, <1>4, <2>3
      <4> QED BY <1>1, <4>1
    <3> QED BY <2>1, <3>1 DEF TermsTold
  <2> QED BY <2>2, <2>3
<1>5. ASSUME NEW i \in 1..Len(new), new[i].label = "promoted"
      PROVE  /\ new[i].term <= t
             /\ (\A j \in 1..(i - 1) : new[j].label # "promoted") => new[i].term = t
  <2>1. i - 1 \in 1..Len(old) /\ new[i] = old[i - 1]
    BY <1>1, <1>5
  <2>2. ASSUME \A j \in 1..(i - 1) : new[j].label # "promoted",
               NEW j \in 1..((i - 1) - 1)
        PROVE  old[j].label # "promoted"
    <3>1. j + 1 \in 1..(i - 1) /\ j + 1 \in 2..Len(new) /\ (j + 1) - 1 = j
      BY <1>1
    <3> QED BY <1>1, <2>2, <3>1
  <2> QED BY <1>5, <2>1, <2>2 DEF TermsTold
<1> QED BY <1>3, <1>4, <1>5 DEF TermsTold

\* The leader of the next term is promoted.
LEMMA PushPromoted ==
    ASSUME NEW old \in Seq(Event), NEW new, NEW e \in Event, NEW t \in Nat,
           Pushed(new, old, e), TermsTold(old, t, t + 1),
           e.label = "promoted", e.term = t + 1
    PROVE  TermsTold(new, t + 1, t + 1)
<1>1. /\ new \in Seq(Event) /\ Len(new) \in Nat /\ Len(old) \in Nat
      /\ Len(new) <= Len(old) + 1 /\ new[1] = e
      /\ \A i \in 2..Len(new) : i - 1 \in 1..Len(old) /\ new[i] = old[i - 1]
  BY LenProperties DEF Pushed
<1>2. \A i \in 1..Len(old) : old[i].term \in Nat
  BY EventTyped
<1>3. ASSUME NEW i \in 1..Len(new)
      PROVE  new[i].term <= t + 1
  <2>1. CASE i = 1
    BY <1>1, <2>1
  <2>2. CASE i # 1
    <3>1. i - 1 \in 1..Len(old) /\ new[i] = old[i - 1]
      BY <1>1, <2>2
    <3> QED BY <3>1 DEF TermsTold
  <2> QED BY <2>1, <2>2
<1>4. ASSUME NEW i \in 1..Len(new), NEW j \in 1..Len(new), i < j
      PROVE  /\ new[i].term # NoTerm /\ new[j].term # NoTerm => new[j].term <= new[i].term
             /\ new[i].label = "promoted" /\ new[j].label = "promoted"
                    => new[j].term < new[i].term
  <2>1. j - 1 \in 1..Len(old) /\ new[j] = old[j - 1]
    BY <1>1, <1>4
  <2>2. CASE i = 1
    <3>1. old[j - 1].term <= t + 1 /\ old[j - 1].term \in Nat
      BY <1>2, <2>1 DEF TermsTold
    <3>2. old[j - 1].label = "promoted" => old[j - 1].term <= t
      BY <2>1 DEF TermsTold
    <3>3. new[i] = e
      BY <1>1, <2>2
    <3> QED BY <2>1, <3>1, <3>2, <3>3
  <2>3. CASE i # 1
    <3>1. i - 1 \in 1..Len(old) /\ new[i] = old[i - 1] /\ i - 1 < j - 1
      <4>1. i \in 2..Len(new) /\ i - 1 < j - 1
        BY <1>1, <1>4, <2>3
      <4> QED BY <1>1, <4>1
    <3> QED BY <2>1, <3>1 DEF TermsTold
  <2> QED BY <2>2, <2>3
<1>5. ASSUME NEW i \in 1..Len(new), new[i].label = "promoted"
      PROVE  /\ new[i].term <= t + 1
             /\ (\A j \in 1..(i - 1) : new[j].label # "promoted") => new[i].term = t + 1
  <2>1. CASE i = 1
    BY <1>1, <2>1
  <2>2. CASE i # 1
    <3>1. 1 \in 1..(i - 1) /\ new[1].label = "promoted"
      BY <1>1, <2>2
    <3> QED BY <1>3, <3>1
  <2> QED BY <2>1, <2>2
<1> QED BY <1>3, <1>4, <1>5 DEF TermsTold

\* The ids stay in order, each below the next to be given.
RowsOrdered(ev, id) ==
    /\ ev \in Seq(Event) /\ Len(ev) \in 1..TimelineLength
    /\ \A i, j \in 1..Len(ev) : i < j => ev[j].id < ev[i].id
    /\ \A i \in 1..Len(ev) : ev[i].id < id

LEMMA PushOrdered ==
    ASSUME NEW old, NEW new, NEW id \in Nat, NEW e \in Event, e.id = id,
           Pushed(new, old, e), RowsOrdered(old, id)
    PROVE  RowsOrdered(new, id + 1)
<1>1. /\ new \in Seq(Event) /\ Len(new) \in Nat /\ Len(old) \in Nat
      /\ Len(new) <= Len(old) + 1 /\ new[1] = e
      /\ \A i \in 2..Len(new) : i - 1 \in 1..Len(old) /\ new[i] = old[i - 1]
  BY LenProperties DEF Pushed, RowsOrdered
<1>2. \A i \in 1..Len(old) : old[i].id \in Nat /\ old[i].id < id
  BY EventTyped DEF RowsOrdered
<1>3. ASSUME NEW i \in 1..Len(new)
      PROVE  new[i].id < id + 1
  BY <1>1, <1>2
<1>4. ASSUME NEW i \in 1..Len(new), NEW j \in 1..Len(new), i < j
      PROVE  new[j].id < new[i].id
  <2>1. j - 1 \in 1..Len(old) /\ new[j] = old[j - 1]
    BY <1>1, <1>4
  <2>2. CASE i = 1
    BY <1>1, <1>2, <2>1, <2>2
  <2>3. CASE i # 1
    <3>1. i - 1 \in 1..Len(old) /\ new[i] = old[i - 1] /\ i - 1 < j - 1
      <4>1. i \in 2..Len(new) /\ i - 1 < j - 1
        BY <1>1, <1>4, <2>3
      <4> QED BY <1>1, <4>1
    <3> QED BY <2>1, <3>1 DEF RowsOrdered
  <2> QED BY <2>2, <2>3
<1> QED BY <1>3, <1>4 DEF RowsOrdered, Pushed
-----------------------------------------------------------------------------
(* Types, and the order of ids. *)

\* What LabTypeOK says of everything but the timeline.
StateTyped ==
    /\ role \in [Node -> Role]
    /\ partition \in BOOLEAN /\ busy \in BOOLEAN
    /\ term \in Nat /\ clicks \in 0..MaxClicks
    /\ status \in Status
    /\ drills \subseteq Drill

RowsInv == StateTyped /\ nextId \in Nat /\ RowsOrdered(events, nextId)

LEMMA RowsTyped == RowsInv => LabTypeOK
<1> SUFFICES ASSUME RowsInv PROVE LabTypeOK
  OBVIOUS
<1>1. StateTyped /\ nextId \in Nat
  BY DEF RowsInv
<1>2. /\ events \in Seq(Event) /\ Len(events) \in 1..TimelineLength
      /\ \A i, j \in 1..Len(events) : i < j => events[j].id < events[i].id
  BY DEF RowsInv, RowsOrdered
<1>3. Len(events) <= TimelineLength
  BY <1>2 DEF TimelineLength
<1> QED BY <1>1, <1>2, <1>3 DEF StateTyped, LabTypeOK

LEMMA RowsInit == LabInit => RowsInv
<1> SUFFICES ASSUME LabInit PROVE RowsInv
  OBVIOUS
<1>1. InitialRoles \in [Node -> Role] /\ InitialTerm \in Nat /\ 0 \in 0..MaxClicks
  BY ClicksAssumption DEF InitialRoles, Role, InitialTerm
<1>2. StateTyped /\ nextId = 1
  BY <1>1 DEF LabInit, StateTyped, Status
<1> DEFINE e == [id |-> 0, label |-> "steady", term |-> InitialTerm]
<1>3. e \in Event /\ e.id = 0
  BY <1>1 DEF Event, Label
<1>4. events = <<e>>
  BY DEF LabInit
<1> HIDE DEF e
<1>5. RowsOrdered(events, 1)
  BY <1>3, <1>4 DEF RowsOrdered, TimelineLength
<1> QED BY <1>2, <1>5 DEF RowsInv

\* A drill that goes on is the same drill, one step further.
LEMMA StepFurther ==
    ASSUME StateTyped, NEW d \in drills, GoesOn(d), d.step <= 3
    PROVE  \E e \in Drill : /\ drills' = (drills \ {d}) \cup {e}
                            /\ e.name = d.name /\ e.step = d.step + 1
                            /\ e.leader = d.leader /\ e.term = d.term
<1> DEFINE e == [d EXCEPT !.step = @ + 1]
<1>1. d \in Drill
  BY DEF StateTyped
<1>2. /\ d.click \in Nat /\ d.name \in {"reset", "crash", "partition", "heal"}
      /\ d.step \in 1..4 /\ d.leader \in Node \cup {NoNode} /\ d.term \in Nat
  BY <1>1 DEF Drill
<1>3. e = [click |-> d.click, name |-> d.name, step |-> d.step + 1,
           leader |-> d.leader, term |-> d.term]
  BY <1>1 DEF Drill
<1>4. d.step + 1 \in 1..4
  BY <1>2
<1>5. e \in Drill
  BY <1>2, <1>3, <1>4 DEF Drill
<1>6. drills' = (drills \ {d}) \cup {e}
  BY DEF GoesOn
<1>7. e.name = d.name /\ e.step = d.step + 1 /\ e.leader = d.leader /\ e.term = d.term
  BY <1>3
<1> HIDE DEF e
<1> QED BY <1>5, <1>6, <1>7

LEMMA TimerTyped ==
    ASSUME LabInv', StateTyped, NEW d \in drills, UNCHANGED clicks,
           \/ ResetDone(d)
           \/ CandidatesStand(d) \/ VotesRequested(d) \/ WinnerPromoted(d) \/ CrashDone(d)
           \/ MinorityNamed(d) \/ PartitionDone(d)
           \/ PeersReconnected(d) \/ HealDone(d)
    PROVE  StateTyped'
<1>1. role' \in [Node -> Role]
  BY DEF LabInv
<1>2. /\ partition' \in BOOLEAN /\ term' \in Nat /\ clicks' \in 0..MaxClicks
      /\ status' \in Status
  <2>1. /\ partition' = partition \/ partition' = FALSE
        /\ term' = term \/ term' = term + 1
        /\ status' = status \/ status' = "healthy"
    BY DEF ResetDone, CandidatesStand, VotesRequested, WinnerPromoted, CrashDone,
           MinorityNamed, PartitionDone, PeersReconnected, HealDone, StatusAfterHeal, NextTerm
  <2>2. partition \in BOOLEAN /\ term \in Nat /\ clicks \in 0..MaxClicks /\ status \in Status
    BY DEF StateTyped
  <2>3. "healthy" \in Status /\ term + 1 \in Nat
    BY <2>2 DEF Status
  <2> QED BY <2>1, <2>2, <2>3
<1>3. CASE ResetDone(d) \/ CrashDone(d) \/ PartitionDone(d) \/ HealDone(d)
  <2>1. drills' \subseteq Drill /\ busy' \in BOOLEAN
    BY <1>3 DEF ResetDone, CrashDone, PartitionDone, HealDone, Returns, StateTyped
  <2> QED BY <1>1, <1>2, <2>1 DEF StateTyped
<1>4. CASE \/ CandidatesStand(d) \/ VotesRequested(d) \/ WinnerPromoted(d)
           \/ MinorityNamed(d) \/ PeersReconnected(d)
  <2>1. GoesOn(d) /\ d.step <= 3 /\ busy' = busy
    BY <1>4 DEF CandidatesStand, VotesRequested, WinnerPromoted, MinorityNamed,
                PeersReconnected, At
  <2>2. drills' \subseteq Drill
    BY <2>1, StepFurther DEF StateTyped
  <2> QED BY <1>1, <1>2, <2>1, <2>2 DEF StateTyped
<1> QED BY <1>3, <1>4

LEMMA ClickTyped ==
    ASSUME LabInv, LabInv', StateTyped, ClickReset \/ ClickCrash \/ ClickPartition \/ ClickHeal
    PROVE  StateTyped'
<1>1. role' \in [Node -> Role]
  BY DEF LabInv
<1>2. /\ partition' \in BOOLEAN /\ term' \in Nat /\ status' \in Status /\ busy' \in BOOLEAN
  BY DEF ClickReset, ClickCrash, ClickPartition, ClickHeal, StateTyped, Status, SetBusy
<1>3. ASSUME NEW name \in {"reset", "crash", "partition", "heal"}, Click(name),
             busy' = SetBusy
      PROVE  clicks' \in 0..MaxClicks /\ drills' \subseteq Drill
  <2>1. clicks < MaxClicks /\ clicks' = clicks + 1 /\ clicks \in Nat
    BY <1>3 DEF Click, Pressed, StateTyped
  <2>2. Leader \in Node
    BY <1>3, ClickStarts
  <2>3. [click |-> clicks, name |-> name, step |-> 1, leader |-> Leader, term |-> term] \in Drill
    BY <2>1, <2>2 DEF Drill, StateTyped
  <2>4. drills' \subseteq Drill
    BY <1>3, <2>3 DEF Click, StateTyped
  <2> QED BY <2>1, <2>4, ClicksAssumption
<1>4. clicks' \in 0..MaxClicks /\ drills' \subseteq Drill
  BY <1>3 DEF ClickReset, ClickCrash, ClickPartition, ClickHeal
<1> QED BY <1>1, <1>2, <1>4 DEF StateTyped

\* One row more, or two, in order.
LEMMA EmitOrdered ==
    ASSUME nextId \in Nat, RowsOrdered(events, nextId),
           \/ \E label \in Label, t \in Nat : Emit(<<Say(label, t)>>)
           \/ \E a \in Label, t \in Nat, b \in Label, u \in Nat :
                 Emit(<<Say(a, t), Say(b, u)>>)
    PROVE  nextId' \in Nat /\ RowsOrdered(events', nextId')
<1>1. events \in Seq(Event)
  BY DEF RowsOrdered
<1>2. ASSUME NEW label \in Label, NEW t \in Nat, Emit(<<Say(label, t)>>)
      PROVE  nextId' \in Nat /\ RowsOrdered(events', nextId')
  <2> DEFINE e == Row(nextId, Say(label, t))
  <2>1. Pushed(events', events, e) /\ nextId' = nextId + 1 /\ e \in Event
    BY <1>1, <1>2, EmitOne
  <2>2. e.id = nextId
    BY DEF Row
  <2> HIDE DEF e
  <2>3. RowsOrdered(events', nextId + 1)
    BY <2>1, <2>2, PushOrdered
  <2> QED BY <2>1, <2>3
<1>3. ASSUME NEW a \in Label, NEW t \in Nat, NEW b \in Label, NEW u \in Nat,
             Emit(<<Say(a, t), Say(b, u)>>)
      PROVE  nextId' \in Nat /\ RowsOrdered(events', nextId')
  <2> DEFINE e == Row(nextId, Say(a, t))
             f == Row(nextId + 1, Say(b, u))
  <2>1. PICK mid : /\ Pushed(mid, events, e) /\ Pushed(events', mid, f)
                   /\ nextId' = nextId + 2 /\ e \in Event /\ f \in Event
    BY <1>1, <1>3, EmitTwo
  <2>2. e.id = nextId /\ f.id = nextId + 1
    BY DEF Row
  <2> HIDE DEF e, f
  <2>3. RowsOrdered(mid, nextId + 1)
    BY <2>1, <2>2, PushOrdered
  <2>4. RowsOrdered(events', (nextId + 1) + 1)
    <3>1. nextId + 1 \in Nat
      OBVIOUS
    <3> QED BY <2>1, <2>2, <2>3, <3>1, PushOrdered
  <2>5. nextId' = (nextId + 1) + 1
    BY <2>1
  <2> QED BY <2>4, <2>5
<1> QED BY <1>2, <1>3

LEMMA RowsStep == LabInv /\ LabInv' /\ RowsInv /\ [LabNext]_labVars => RowsInv'
<1> SUFFICES ASSUME LabInv, LabInv', RowsInv, [LabNext]_labVars PROVE RowsInv'
  OBVIOUS
<1>1. StateTyped /\ nextId \in Nat /\ RowsOrdered(events, nextId)
  BY DEF RowsInv
<1>2. CASE ClickReset \/ ClickCrash \/ ClickPartition \/ ClickHeal
  <2>1. StateTyped'
    BY <1>1, <1>2, ClickTyped
  <2>2. {"restored", "lost", "partition", "reconnecting"} \subseteq Label /\ NoTerm \in Nat
    BY DEF Label, NoTerm
  <2>3. \E label \in Label, t \in Nat : Emit(<<Say(label, t)>>)
    BY <1>2, <2>2 DEF ClickReset, ClickCrash, ClickPartition, ClickHeal
  <2> QED BY <1>1, <2>1, <2>3, EmitOrdered DEF RowsInv
<1>3. ASSUME NEW d \in drills, UNCHANGED clicks,
             \/ ResetDone(d)
             \/ CandidatesStand(d) \/ VotesRequested(d) \/ WinnerPromoted(d) \/ CrashDone(d)
             \/ MinorityNamed(d) \/ PartitionDone(d)
             \/ PeersReconnected(d) \/ HealDone(d)
      PROVE  RowsInv'
  <2>1. StateTyped'
    BY <1>1, <1>3, TimerTyped
  <2>2. d.term \in Nat /\ d.term + 1 \in Nat
    BY <1>1 DEF StateTyped, Drill
  <2>3. /\ {"started", "broadcast", "quorum", "promoted", "minority", "reconciliation",
            "reconverged"} \subseteq Label
        /\ NoTerm \in Nat
    BY DEF Label, NoTerm
  <2>4. \/ Silent
        \/ \E label \in Label, t \in Nat : Emit(<<Say(label, t)>>)
        \/ \E a \in Label, t \in Nat, b \in Label, u \in Nat : Emit(<<Say(a, t), Say(b, u)>>)
    <3>1. CASE ResetDone(d) \/ CrashDone(d) \/ PartitionDone(d) \/ MinorityNamed(d)
      BY <2>3, <3>1 DEF ResetDone, CrashDone, PartitionDone, MinorityNamed
    <3>2. CASE CandidatesStand(d) \/ VotesRequested(d) \/ PeersReconnected(d) \/ HealDone(d)
      BY <2>2, <2>3, <3>2 DEF CandidatesStand, VotesRequested, PeersReconnected, HealDone
    <3>3. CASE WinnerPromoted(d)
      BY <2>2, <2>3, <3>3 DEF WinnerPromoted
    <3> QED BY <1>3, <3>1, <3>2, <3>3
  <2>5. CASE Silent
    BY <1>1, <2>1, <2>5 DEF Silent, RowsInv
  <2> QED BY <1>1, <2>1, <2>4, <2>5, EmitOrdered DEF RowsInv
<1>4. CASE TimerFires
  BY <1>3, <1>4 DEF TimerFires
<1>5. CASE Remount
  <2>1. InitialTerm \in Nat /\ InitialRoles \in [Node -> Role]
    BY DEF InitialTerm, InitialRoles, Role
  <2>2. clicks' \in 0..MaxClicks
    BY <1>1, <1>5, ClicksAssumption DEF Remount, StateTyped
  <2>3. StateTyped' /\ nextId' = 1
    BY <1>5, <2>1, <2>2 DEF Remount, StateTyped, Status
  <2> DEFINE e == [id |-> 0, label |-> "steady", term |-> InitialTerm]
  <2>4. e \in Event /\ e.id = 0
    BY <2>1 DEF Event, Label
  <2>5. events' = <<e>>
    BY <1>5 DEF Remount
  <2> HIDE DEF e
  <2>6. RowsOrdered(events', 1)
    BY <2>4, <2>5 DEF RowsOrdered, TimelineLength
  <2> QED BY <2>3, <2>6 DEF RowsInv
<1>6. CASE UNCHANGED labVars
  BY <1>6 DEF labVars, RowsInv, StateTyped
<1> QED BY <1>2, <1>4, <1>5, <1>6 DEF LabNext

\* Every state variable of the simulation keeps its type, and no two rows of the
\* timeline have one key.
THEOREM LabTypeCorrect == LabSpec => []LabTypeOK
<1> QED BY InitInv, StepKeeps, RowsInit, RowsStep, RowsTyped, PTL DEF LabSpec
-----------------------------------------------------------------------------
(* The timeline tells the truth. *)

LEMMA TimelineInit == LabInit => TimelineInv
<1> SUFFICES ASSUME LabInit PROVE TimelineInv
  OBVIOUS
<1> DEFINE e == [id |-> 0, label |-> "steady", term |-> InitialTerm]
<1>1. events = <<e>> /\ drills = {} /\ term = InitialTerm /\ status = "healthy"
  BY DEF LabInit
<1>2. e.term = InitialTerm /\ e.label = "steady" /\ InitialTerm \in Nat
  BY DEF InitialTerm
<1> HIDE DEF e
<1>3. TopTerm = term
  BY <1>1 DEF TopTerm, Announced
<1>4. Len(events) = 1 /\ events[1] = e
  BY <1>1
<1>5. TermsTold(events, term, TopTerm)
  BY <1>1, <1>2, <1>3, <1>4 DEF TermsTold
<1>6. TermsKnown /\ NewestRow
  BY <1>1, <1>2, <1>4 DEF TermsKnown, NewestRow, Kind
<1> QED BY <1>5, <1>6 DEF TimelineInv

\* One call of emit that promotes nobody.
LEMMA EmitTells ==
    ASSUME nextId \in Nat, RowsOrdered(events, nextId), NEW t \in Nat, NEW top \in Nat,
           NEW high \in Nat, TermsTold(events, t, top),
           NEW label \in Label \ {"promoted"}, NEW u \in Nat,
           u = NoTerm \/ u >= top, u <= high, top <= high, Emit(<<Say(label, u)>>)
    PROVE  TermsTold(events', t, high) /\ events'[1].label = label
<1> DEFINE e == Row(nextId, Say(label, u))
<1>1. events \in Seq(Event)
  BY DEF RowsOrdered
<1>2. Pushed(events', events, e) /\ e \in Event
  BY <1>1, EmitOne
<1>3. e.label = label /\ e.term = u
  BY DEF Row, Say
<1> HIDE DEF e
<1>4. TermsTold(events', t, high)
  BY <1>1, <1>2, <1>3, PushTold
<1> QED BY <1>2, <1>3, <1>4 DEF Pushed

LEMMA ClickTells ==
    ASSUME LabInv, RowsInv, TimelineInv, NEW name, NEW label \in Label \ {"promoted"},
           <<name, label>> \in {<<"reset", "restored">>, <<"crash", "lost">>,
                                <<"partition", "partition">>, <<"heal", "reconnecting">>},
           Click(name), busy' = SetBusy, term' = term, Emit(<<Say(label, NoTerm)>>)
    PROVE  TimelineInv'
<1>1. /\ nextId \in Nat /\ RowsOrdered(events, nextId) /\ term \in Nat
      /\ TermsTold(events, term, TopTerm)
  BY DEF RowsInv, StateTyped, TimelineInv
<1>2. name \in {"reset", "crash", "partition", "heal"}
  OBVIOUS
<1>3. drills = {}
  BY <1>2, ClickStarts
<1> DEFINE d == [click |-> clicks, name |-> name, step |-> 1, leader |-> Leader, term |-> term]
<1>4. drills' = {d} /\ d.name = name /\ d.step = 1 /\ d.term = term
  BY <1>3 DEF Click
<1> HIDE DEF d
<1>5. TopTerm = term /\ TopTerm' = term
  BY <1>3, <1>4 DEF TopTerm, Announced
<1>6. TermsTold(events', term, term) /\ events'[1].label = label
  <2>1. NoTerm \in Nat /\ NoTerm <= term /\ term <= term
    BY <1>1 DEF NoTerm
  <2> QED BY <1>1, <1>5, <2>1, EmitTells
<1>7. TermsKnown'
  BY <1>4 DEF TermsKnown
<1>8. NewestRow'
  BY <1>4, <1>6 DEF NewestRow
<1> QED BY <1>5, <1>6, <1>7, <1>8 DEF TimelineInv

\* A drill ends, and the newest row agrees with the status it leaves.
LEMMA EndTells ==
    ASSUME LabInv, RowsInv, TimelineInv, NEW d \in drills,
           ResetDone(d) \/ CrashDone(d) \/ PartitionDone(d) \/ HealDone(d)
    PROVE  TimelineInv'
<1>1. /\ nextId \in Nat /\ RowsOrdered(events, nextId) /\ term \in Nat
      /\ TermsTold(events, term, TopTerm) /\ TermsKnown /\ NewestRow
      /\ d.step \in 1..4
  BY DEF RowsInv, StateTyped, TimelineInv, Drill
<1>2. drills = {d} /\ drills' = {} /\ status = StatusOf(d.name) /\ term' = term
  BY TimerOfDrill DEF ResetDone, CrashDone, PartitionDone, HealDone
<1>3. TopTerm = term /\ TopTerm' = term
  BY <1>2 DEF TopTerm, Announced, ResetDone, CrashDone, PartitionDone, HealDone, At
<1>4. TermsKnown'
  BY <1>2 DEF TermsKnown
<1>5. ASSUME Silent
      PROVE  TermsTold(events', term, term)
  BY <1>1, <1>3, <1>5 DEF Silent
<1>6. CASE ResetDone(d)
  <2>1. events' = events /\ events[1].label = "restored" /\ status' = "healthy"
    BY <1>1, <1>2, <1>6 DEF ResetDone, At, Silent, NewestRow, StatusOf
  <2>2. NewestRow'
    BY <1>2, <2>1 DEF NewestRow, Kind
  <2>3. TermsTold(events', term, term)
    BY <1>5, <1>6 DEF ResetDone
  <2> QED BY <1>2, <1>3, <1>4, <2>2, <2>3 DEF TimelineInv
<1>7. CASE CrashDone(d)
  <2>1. events' = events /\ events[1].label = "promoted" /\ status' = "healthy"
    BY <1>1, <1>7 DEF CrashDone, At, Silent, NewestRow
  <2>2. NewestRow'
    BY <1>2, <2>1 DEF NewestRow, Kind
  <2>3. TermsTold(events', term, term)
    BY <1>5, <1>7 DEF CrashDone
  <2> QED BY <1>2, <1>3, <1>4, <2>2, <2>3 DEF TimelineInv
<1>8. CASE PartitionDone(d)
  <2>1. /\ events' = events /\ events[1].label \in {"partition", "minority"}
        /\ status' = "partitioned"
    BY <1>1, <1>2, <1>8 DEF PartitionDone, At, Silent, NewestRow, StatusOf
  <2>2. NewestRow'
    BY <1>2, <2>1 DEF NewestRow, Kind
  <2>3. TermsTold(events', term, term)
    BY <1>5, <1>8 DEF PartitionDone
  <2> QED BY <1>2, <1>3, <1>4, <2>2, <2>3 DEF TimelineInv
<1>9. CASE HealDone(d)
  <2>1. d.term = term /\ Emit(<<Say("reconverged", term)>>) /\ status' = "healthy"
    BY <1>1, <1>9 DEF HealDone, At, TermsKnown, StatusAfterHeal
  <2>2. "reconverged" \in Label \ {"promoted"}
    BY DEF Label
  <2>3. TermsTold(events', term, term) /\ events'[1].label = "reconverged"
    <3>1. term >= term /\ term <= term
      BY <1>1
    <3> QED BY <1>1, <1>3, <2>1, <2>2, <3>1, EmitTells
  <2>4. NewestRow'
    BY <1>2, <2>1, <2>3 DEF NewestRow, Kind
  <2> QED BY <1>2, <1>3, <1>4, <2>3, <2>4 DEF TimelineInv
<1> QED BY <1>6, <1>7, <1>8, <1>9

\* A drill goes on; of a crash, the next term is named before it is there.
LEMMA GoingOnTells ==
    ASSUME LabInv, RowsInv, TimelineInv, NEW d \in drills,
           \/ CandidatesStand(d) \/ VotesRequested(d) \/ WinnerPromoted(d)
           \/ MinorityNamed(d) \/ PeersReconnected(d)
    PROVE  TimelineInv'
<1>1. /\ nextId \in Nat /\ RowsOrdered(events, nextId) /\ term \in Nat /\ StateTyped
      /\ TermsTold(events, term, TopTerm) /\ TermsKnown /\ NewestRow
  BY DEF RowsInv, StateTyped, TimelineInv
<1>2. drills = {d} /\ GoesOn(d) /\ d.step <= 3 /\ d.step \in 1..4
  <2>1. drills = {d}
    BY TimerOfDrill
  <2>2. d.step \in 1..4
    BY <1>1 DEF StateTyped, Drill
  <2>3. GoesOn(d) /\ d.step <= 3
    BY DEF CandidatesStand, VotesRequested, WinnerPromoted, MinorityNamed, PeersReconnected, At
  <2> QED BY <2>1, <2>2, <2>3
<1>3. PICK e : /\ drills' = {e} /\ e.name = d.name /\ e.step = d.step + 1
               /\ e.leader = d.leader /\ e.term = d.term
  BY <1>1, <1>2, StepFurther
<1>4. d.term = term
  BY <1>1, <1>2 DEF TermsKnown
<1>5. term + 1 \in Nat /\ NoTerm \in Nat /\ NoTerm <= term /\ NoTerm <= term + 1
      /\ term <= term + 1 /\ term <= term /\ term + 1 <= term + 1
  BY <1>1 DEF NoTerm
<1>6. CASE CandidatesStand(d)
  <2>1. d.name = "crash" /\ d.step = 1 /\ e.step = 2 /\ term' = term
        /\ Emit(<<Say("started", term + 1)>>)
    BY <1>3, <1>4, <1>6 DEF CandidatesStand, At
  <2>2. TopTerm = term /\ TopTerm' = term + 1
    BY <1>2, <1>3, <2>1 DEF TopTerm, Announced
  <2>3. "started" \in Label \ {"promoted"} /\ term + 1 >= term
    BY <1>1 DEF Label
  <2>4. TermsTold(events', term, term + 1)
    BY <1>1, <1>5, <2>1, <2>2, <2>3, EmitTells
  <2>5. TermsKnown' /\ NewestRow'
    BY <1>3, <1>4, <2>1 DEF TermsKnown, NewestRow
  <2> QED BY <2>1, <2>2, <2>4, <2>5 DEF TimelineInv
<1>7. CASE VotesRequested(d)
  <2>1. d.name = "crash" /\ d.step = 2 /\ e.step = 3 /\ term' = term
        /\ Emit(<<Say("broadcast", NoTerm)>>)
    BY <1>3, <1>7 DEF VotesRequested, At
  <2>2. TopTerm = term + 1 /\ TopTerm' = term + 1
    BY <1>2, <1>3, <2>1 DEF TopTerm, Announced
  <2>3. "broadcast" \in Label \ {"promoted"}
    BY DEF Label
  <2>4. TermsTold(events', term, term + 1)
    BY <1>1, <1>5, <2>1, <2>2, <2>3, EmitTells
  <2>5. TermsKnown' /\ NewestRow'
    BY <1>3, <1>4, <2>1 DEF TermsKnown, NewestRow
  <2> QED BY <2>1, <2>2, <2>4, <2>5 DEF TimelineInv
<1>8. CASE WinnerPromoted(d)
  <2>1. d.name = "crash" /\ d.step = 3 /\ e.step = 4 /\ term' = term + 1
        /\ Emit(<<Say("quorum", NoTerm), Say("promoted", term + 1)>>)
    BY <1>3, <1>4, <1>8 DEF WinnerPromoted, At, NextTerm
  <2>2. TopTerm = term + 1 /\ TopTerm' = term + 1
    BY <1>2, <1>3, <2>1 DEF TopTerm, Announced
  <2> DEFINE f == Row(nextId, Say("quorum", NoTerm))
             g == Row(nextId + 1, Say("promoted", term + 1))
  <2>3. PICK mid : /\ Pushed(mid, events, f) /\ Pushed(events', mid, g)
                   /\ f \in Event /\ g \in Event
    <3>1. "quorum" \in Label /\ "promoted" \in Label /\ events \in Seq(Event)
      BY <1>1 DEF Label, RowsOrdered
    <3> QED BY <1>1, <1>5, <2>1, <3>1, EmitTwo
  <2>4. /\ f.label = "quorum" /\ f.term = NoTerm
        /\ g.label = "promoted" /\ g.term = term + 1
    BY DEF Row, Say
  <2> HIDE DEF f, g
  <2>5. events \in Seq(Event) /\ mid \in Seq(Event)
    BY <1>1, <2>3 DEF RowsOrdered, Pushed
  <2>6. TermsTold(mid, term, term + 1)
    <3>1. f.label # "promoted" /\ TermsTold(events, term, term + 1)
      BY <1>1, <2>2, <2>4
    <3> QED BY <1>1, <1>5, <2>3, <2>4, <2>5, <3>1, PushTold
  <2>7. TermsTold(events', term + 1, term + 1)
    BY <1>1, <2>3, <2>4, <2>5, <2>6, PushPromoted
  <2>8. TermsKnown'
    BY <1>3, <2>1 DEF TermsKnown
  <2>9. NewestRow'
    <3>1. events'[1] = g
      BY <2>3 DEF Pushed
    <3> QED BY <1>3, <2>1, <2>4, <3>1 DEF NewestRow
  <2> QED BY <2>1, <2>2, <2>7, <2>8, <2>9 DEF TimelineInv
<1>9. CASE MinorityNamed(d)
  <2>1. /\ d.name = "partition" /\ term' = term
        /\ Silent \/ Emit(<<Say("minority", NoTerm)>>)
    BY <1>9 DEF MinorityNamed, At
  <2>2. TopTerm = term /\ TopTerm' = term
    BY <1>2, <1>3, <2>1 DEF TopTerm, Announced
  <2>3. "minority" \in Label \ {"promoted"}
    BY DEF Label
  <2>4. TermsTold(events', term, term) /\ events'[1].label \in {"partition", "minority"}
    <3>1. CASE Silent
      BY <1>1, <1>2, <2>1, <2>2, <3>1 DEF Silent, NewestRow
    <3>2. CASE Emit(<<Say("minority", NoTerm)>>)
      BY <1>1, <1>5, <2>2, <2>3, <3>2, EmitTells
    <3> QED BY <2>1, <3>1, <3>2
  <2>5. TermsKnown' /\ NewestRow'
    BY <1>3, <1>4, <2>1, <2>4 DEF TermsKnown, NewestRow
  <2> QED BY <2>1, <2>2, <2>4, <2>5 DEF TimelineInv
<1>10. CASE PeersReconnected(d)
  <2>1. /\ d.name = "heal" /\ term' = term /\ Emit(<<Say("reconciliation", NoTerm)>>)
    BY <1>10 DEF PeersReconnected, At
  <2>2. TopTerm = term /\ TopTerm' = term
    BY <1>2, <1>3, <2>1 DEF TopTerm, Announced
  <2>3. "reconciliation" \in Label \ {"promoted"}
    BY DEF Label
  <2>4. TermsTold(events', term, term)
    BY <1>1, <1>5, <2>1, <2>2, <2>3, EmitTells
  <2>5. TermsKnown' /\ NewestRow'
    BY <1>3, <1>4, <2>1 DEF TermsKnown, NewestRow
  <2> QED BY <2>1, <2>2, <2>4, <2>5 DEF TimelineInv
<1> QED BY <1>6, <1>7, <1>8, <1>9, <1>10

LEMMA TimelineStep ==
    LabInv /\ RowsInv /\ TimelineInv /\ [LabNext]_labVars => TimelineInv'
<1> SUFFICES ASSUME LabInv, RowsInv, TimelineInv, [LabNext]_labVars PROVE TimelineInv'
  OBVIOUS
<1>1. CASE ClickReset \/ ClickCrash \/ ClickPartition \/ ClickHeal
  <2>1. {"restored", "lost", "partition", "reconnecting"} \subseteq Label \ {"promoted"}
    BY DEF Label
  <2>2. CASE ClickReset
    BY <2>1, <2>2, ClickTells DEF ClickReset
  <2>3. CASE ClickCrash
    BY <2>1, <2>3, ClickTells DEF ClickCrash
  <2>4. CASE ClickPartition
    BY <2>1, <2>4, ClickTells DEF ClickPartition
  <2>5. CASE ClickHeal
    BY <2>1, <2>5, ClickTells DEF ClickHeal
  <2> QED BY <1>1, <2>2, <2>3, <2>4, <2>5
<1>2. CASE TimerFires
  BY <1>2, EndTells, GoingOnTells DEF TimerFires
<1>3. CASE Remount
  <2> DEFINE e == [id |-> 0, label |-> "steady", term |-> InitialTerm]
  <2>1. events' = <<e>> /\ drills' = {} /\ term' = InitialTerm /\ status' = "healthy"
    BY <1>3 DEF Remount
  <2>2. e.term = InitialTerm /\ e.label = "steady" /\ InitialTerm \in Nat
    BY DEF InitialTerm
  <2> HIDE DEF e
  <2>3. TopTerm' = term'
    BY <2>1 DEF TopTerm, Announced
  <2>4. Len(events') = 1 /\ events'[1] = e
    BY <2>1
  <2>5. TermsTold(events', term', term')
    BY <2>1, <2>2, <2>4 DEF TermsTold
  <2>6. TermsKnown' /\ NewestRow'
    BY <2>1, <2>2, <2>4 DEF TermsKnown, NewestRow, Kind
  <2> QED BY <2>3, <2>5, <2>6 DEF TimelineInv
<1>4. CASE UNCHANGED labVars
  BY <1>4 DEF labVars, TimelineInv, TopTerm, Announced, TermsKnown, NewestRow
<1> QED BY <1>1, <1>2, <1>3, <1>4 DEF LabNext

LEMMA TimelineTold == LabInv /\ RowsInv /\ TimelineInv => TimelineTrue
<1> SUFFICES ASSUME LabInv, RowsInv, TimelineInv PROVE TimelineTrue
  OBVIOUS
<1>1. TermsTold(events, term, TopTerm) /\ NewestRow /\ term \in Nat
  BY DEF TimelineInv, RowsInv, StateTyped
<1>2. \A i, j \in 1..Len(events) :
          /\ i < j /\ events[i].term # NoTerm /\ events[j].term # NoTerm
                => events[j].term <= events[i].term
          /\ i < j /\ events[i].label = "promoted" /\ events[j].label = "promoted"
                => events[j].term < events[i].term
  BY <1>1 DEF TermsTold
<1>3. ~Electing => \A i \in 1..Len(events) : events[i].term <= term
  <2>1. ~Electing => TopTerm = term
    BY DEF Electing, TopTerm, Announced
  <2> QED BY <1>1, <2>1 DEF TermsTold
<1>4. \A i \in 1..Len(events) :
          events[i].label = "promoted" /\ (\A j \in 1..(i - 1) : ~ (events[j].label = "promoted"))
              => events[i].term = term
  BY <1>1 DEF TermsTold
<1>5. drills = {} => (Timeline[1].color = "success" <=> StatusLabel = "Healthy")
  <2> SUFFICES ASSUME drills = {}
               PROVE  Timeline[1].color = "success" <=> StatusLabel = "Healthy"
    OBVIOUS
  <2>1. Kind(events[1].label) = "ok" <=> status = "healthy"
    BY <1>1 DEF NewestRow
  <2>2. status \in {"healthy", "partitioned"}
    BY DEF LabInv, StatusInv
  <2>3. StatusLabel = "Healthy" <=> status = "healthy"
    BY <2>2 DEF StatusLabel
  <2>4. Timeline[1].color = EventColor(Kind(events[1].label))
    <3>1. 1 \in 1..Len(events)
      BY DEF RowsInv, RowsOrdered
    <3> QED BY <3>1 DEF Timeline
  <2>5. EventColor(Kind(events[1].label)) = "success" <=> Kind(events[1].label) = "ok"
    BY DEF EventColor, Kind
  <2> QED BY <2>1, <2>3, <2>4, <2>5
<1> QED BY <1>2, <1>3, <1>4, <1>5 DEF TimelineTrue

\* The timeline never contradicts the term or, between drills, the status above it,
\* whatever sequence of drills is clicked and however often the page is left.
THEOREM TimelineAlwaysTrue == LabSpec => []TimelineTrue
<1> QED BY InitInv, StepKeeps, RowsInit, RowsStep, TimelineInit, TimelineStep, TimelineTold,
          PTL DEF LabSpec
=============================================================================
