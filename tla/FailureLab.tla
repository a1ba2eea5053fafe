------------------------------ MODULE FailureLab ------------------------------
(***************************************************************************)
(* The failure simulation of src/src/components/failure-lab.tsx.  A drill  *)
(* is an asynchronous click handler: it runs from await to await, with the *)
(* nodes and the term of the render in which it was clicked, while the     *)
(* component goes on rendering.  An action is a click, or one timer and    *)
(* the code up to the next await; React renders in between.                *)
(***************************************************************************)
EXTENDS ClusterViz, Sequences, SequencesExt

CONSTANTS Side,        \* the side of each node, from where it is drawn
          MaxClicks    \* bound: drills started, the page left and entered again

ASSUME SideAssumption == Side \in [Node -> {"a", "b"}]
ASSUME ClicksAssumption == MaxClicks \in Nat

VARIABLES
    role,        \* nodes[n].role
    partition, term, status, busy, events,   \* the other useState variables
    nextId,      \* idRef.current
    drills,      \* handlers that await a timer: nothing but busy keeps them apart
    clicks       \* counter of what is bounded

labVars == <<role, partition, term, status, busy, events, nextId, drills, clicks>>
-----------------------------------------------------------------------------
Status == {"healthy", "electing", "partitioned", "recovering"}
InitialTerm == 42
TimelineLength == 8

Label == {"steady", "restored", "lost", "started", "broadcast", "quorum", "promoted",
          "partition", "minority", "reconnecting", "reconciliation", "reconverged"}

\* An event names a term in its detail, or none.
NoTerm == 0
Event == [id : Nat, label : Label, term : Nat]

\* A drill awaits its step-th timer; leader and term are those it closed over.
Drill == [click : Nat, name : {"reset", "crash", "partition", "heal"}, step : 1..4,
          leader : Node \cup {NoNode}, term : Nat]

\* buildInitial
InitialRoles == [n \in Node |-> IF n = 0 THEN "leader" ELSE "follower"]
Data == [n \in Node |-> [role |-> role[n], side |-> Side[n]]]
Leader == ShownLeader(Data)

\* The array without the old leader; the first two stand, the first wins.
Alive(old) == Node \ {old}
Winner(old) == Least(Alive(old))
Candidates(old) ==
    {n \in Alive(old) : \A m \in Alive(old) \ {Winner(old)} : n <= m}

Say(label, t) == [label |-> label, term |-> t]

\* emit, once for each of the calls: the newest first, eight are kept.
Fresh(calls) ==
    [i \in 1..Len(calls) |->
        [id |-> nextId + i - 1, label |-> calls[i].label, term |-> calls[i].term]]
Shown(all) == SubSeq(all, 1, IF Len(all) < TimelineLength THEN Len(all) ELSE TimelineLength)
EmitLast(calls) ==     \* mutant: [...prev, e]
    /\ events' = Shown(events \o Fresh(calls))
    /\ nextId' = nextId + Len(calls)
Emit(calls) ==
    /\ events' = Shown(Reverse(Fresh(calls)) \o events)
    /\ nextId' = nextId + Len(calls)
Silent == UNCHANGED <<events, nextId>>
-----------------------------------------------------------------------------
\* statusMeta.label, and the banner over the picture.
StatusLabel == CASE status = "electing"    -> "Election in progress"
                 [] status = "partitioned" -> "Partitioned"
                 [] status = "recovering"  -> "Recovering"
                 [] OTHER                  -> "Healthy"
Banner == CASE status = "electing"    -> "Electing new leader"
            [] status = "partitioned" -> "Split-brain contained"
            [] OTHER                  -> "none"

\* The kind each call of emit gives its label, and eventColor.
Kind(label) == CASE label \in {"steady", "restored", "quorum", "promoted", "reconverged"} -> "ok"
                 [] label \in {"started", "partition", "minority"} -> "warn"
                 [] label = "lost" -> "err"
                 [] OTHER          -> "info"
EventColor(kind) == IF kind = "ok" THEN "success" ELSE "another"

\* The rows of the event timeline.
Timeline == [i \in 1..Len(events) |->
                [key |-> events[i].id, color |-> EventColor(Kind(events[i].label)),
                 label |-> events[i].label, term |-> events[i].term]]

\* The buttons that are not disabled; one of them is Partition or Heal.
Offered ==
    IF busy THEN {}
    ELSE {"reset", IF partition THEN "heal" ELSE "partition"}
         \cup (IF Leader # NoNode THEN {"crash"} ELSE {})

\* SimButton calls its handler unless it is disabled.
Pressed(name) == clicks < MaxClicks /\ name \in Offered

\* A handler starts: it tests busy, sets it, and waits after its first lines.
Click(name) ==
    /\ Pressed(name)
    /\ ~busy
    /\ clicks' = clicks + 1
    /\ drills' = drills \cup {[click |-> clicks, name |-> name, step |-> 1,
                               leader |-> Leader, term |-> term]}

BusyForgotten == busy    \* mutant: setBusy(true) is missing
SetBusy == TRUE

LabInit ==
    /\ role = InitialRoles
    /\ partition = FALSE
    /\ term = InitialTerm
    /\ status = "healthy"
    /\ busy = FALSE
    /\ events = <<[id |-> 0, label |-> "steady", term |-> InitialTerm]>>
    /\ nextId = 1
    /\ drills = {}
    /\ clicks = 0

\* reset: the term is left as it is.
ClickReset ==
    /\ Click("reset")
    /\ busy' = SetBusy
    /\ partition' = FALSE
    /\ role' = InitialRoles
    /\ status' = "healthy"
    /\ Emit(<<Say("restored", NoTerm)>>)
    /\ UNCHANGED term

\* crashLeader.  The button is disabled while there is no leader; the handler
\* tests that again after it has changed the status.
ClickCrash ==
    /\ Click("crash")
    /\ busy' = SetBusy
    /\ status' = "electing"
    /\ role' = [role EXCEPT ![Leader] = "down"]
    /\ Emit(<<Say("lost", NoTerm)>>)
    /\ UNCHANGED <<partition, term>>

\* partitionNetwork
ClickPartition ==
    /\ Click("partition")
    /\ busy' = SetBusy
    /\ status' = "partitioned"
    /\ partition' = TRUE
    /\ Emit(<<Say("partition", NoTerm)>>)
    /\ UNCHANGED <<role, term>>

\* healPartition
ClickHeal ==
    /\ Click("heal")
    /\ busy' = SetBusy
    /\ status' = "recovering"
    /\ Emit(<<Say("reconnecting", NoTerm)>>)
    /\ UNCHANGED <<role, partition, term>>
-----------------------------------------------------------------------------
\* The timer of d fires; the handler goes on to its next timer, or returns.
At(d, name, step) == d.name = name /\ d.step = step
GoesOn(d) == drills' = (drills \ {d}) \cup {[d EXCEPT !.step = @ + 1]}
StaysBusy(d) == drills' = drills \ {d} /\ UNCHANGED busy    \* mutant: setBusy(false) is missing
Returns(d) == drills' = drills \ {d} /\ busy' = FALSE

ResetDone(d) ==
    /\ At(d, "reset", 1)
    /\ Returns(d)
    /\ Silent
    /\ UNCHANGED <<role, partition, term, status>>

\* Candidates are those of the array the handler closed over, whatever their role.
CandidatesStand(d) ==
    /\ At(d, "crash", 1)
    /\ role' = [n \in Node |-> IF n \in Candidates(d.leader) THEN "candidate" ELSE role[n]]
    /\ Emit(<<Say("started", d.term + 1)>>)
    /\ GoesOn(d)
    /\ UNCHANGED <<partition, term, status, busy>>

VotesRequested(d) ==
    /\ At(d, "crash", 2)
    /\ Emit(<<Say("broadcast", NoTerm)>>)
    /\ GoesOn(d)
    /\ UNCHANGED <<role, partition, term, status, busy>>

\* The losers of the election are followers again.
AfterElection(d) ==
    [n \in Node |-> IF n = Winner(d.leader) THEN "leader"
                    ELSE IF n \in Candidates(d.leader) THEN "follower" ELSE role[n]]

TermKept == term     \* mutant: setTerm is missing
NextTerm == term + 1

\* setTerm(t => t + 1), while the event names the term closed over, plus one.
WinnerPromoted(d) ==
    /\ At(d, "crash", 3)
    /\ term' = NextTerm
    /\ role' = AfterElection(d)
    /\ Emit(<<Say("quorum", NoTerm), Say("promoted", d.term + 1)>>)
    /\ GoesOn(d)
    /\ UNCHANGED <<partition, status, busy>>

CrashDone(d) ==
    /\ At(d, "crash", 4)
    /\ status' = "healthy"
    /\ Returns(d)
    /\ Silent
    /\ UNCHANGED <<role, partition, term>>

\* The event counts the nodes of the side the leader is not on.
MinorityNamed(d) ==
    /\ At(d, "partition", 1)
    /\ IF d.leader = NoNode THEN Silent ELSE Emit(<<Say("minority", NoTerm)>>)
    /\ GoesOn(d)
    /\ UNCHANGED <<role, partition, term, status, busy>>

PartitionDone(d) ==
    /\ At(d, "partition", 2)
    /\ Returns(d)
    /\ Silent
    /\ UNCHANGED <<role, partition, term, status>>

PeersReconnected(d) ==
    /\ At(d, "heal", 1)
    /\ partition' = FALSE
    /\ Emit(<<Say("reconciliation", NoTerm)>>)
    /\ GoesOn(d)
    /\ UNCHANGED <<role, term, status, busy>>

StatusKept == status    \* mutant: setStatus is missing
StatusAfterHeal == "healthy"
HealDone(d) ==
    /\ At(d, "heal", 2)
    /\ Emit(<<Say("reconverged", d.term)>>)
    /\ status' = StatusAfterHeal
    /\ Returns(d)
    /\ UNCHANGED <<role, partition, term>>

TimerFires ==
    /\ \E d \in drills :
          \/ ResetDone(d)
          \/ CandidatesStand(d) \/ VotesRequested(d) \/ WinnerPromoted(d) \/ CrashDone(d)
          \/ MinorityNamed(d) \/ PartitionDone(d)
          \/ PeersReconnected(d) \/ HealDone(d)
    /\ UNCHANGED clicks

\* The page is left, which clears the timers of all handlers, and entered again.
Remount ==
    /\ clicks < MaxClicks
    /\ clicks' = clicks + 1
    /\ role' = InitialRoles
    /\ partition' = FALSE
    /\ term' = InitialTerm
    /\ status' = "healthy"
    /\ busy' = FALSE
    /\ events' = <<[id |-> 0, label |-> "steady", term |-> InitialTerm]>>
    /\ nextId' = 1
    /\ drills' = {}

LabNext == ClickReset \/ ClickCrash \/ ClickPartition \/ ClickHeal \/ TimerFires \/ Remount

\* A browser runs the timers of a page that is open.
LabSpec == LabInit /\ [][LabNext]_labVars /\ WF_labVars(TimerFires)
-----------------------------------------------------------------------------
\* State variables of the component keep their types, and the timeline is
\* newest first without two entries of one id, its key in the list (failure-lab.tsx:265).
LabTypeOK ==
    /\ role \in [Node -> Role]
    /\ partition \in BOOLEAN /\ busy \in BOOLEAN
    /\ term \in Nat /\ nextId \in Nat /\ clicks \in 0..MaxClicks
    /\ status \in Status
    /\ events \in Seq(Event) /\ Len(events) <= TimelineLength
    /\ drills \subseteq Drill
    /\ \A i, j \in 1..Len(events) : i < j => events[j].id < events[i].id

LeadersShown == {n \in Node : role[n] = "leader"}
Electing == \E d \in drills : d.name = "crash" /\ d.step <= 3

\* The picture has no leader from the moment of a crash until its election is
\* over, and exactly one at any other time: the handler that removes the leader
\* and the one that promotes the next (lines 94, 117) are not separated by
\* another drill.  Nobody is left standing as a candidate.
OneLeaderShown ==
    /\ IF Electing THEN LeadersShown = {}
                   ELSE \E n \in Node : LeadersShown = {n}
    /\ \A n \in Node : role[n] = "candidate" => Electing

\* The status pill and the banner say what is going on: an election is announced
\* while one is being held, recovery while peers reconnect, and a quiet partition
\* only with the barrier on the picture (lines 167-178, 208-226).
StatusTold ==
    /\ StatusLabel = "Election in progress" <=> \E d \in drills : d.name = "crash"
    /\ StatusLabel = "Recovering" <=> \E d \in drills : d.name = "heal"
    /\ Banner = "Split-brain contained" => partition
    /\ drills = {} => Banner # "Electing new leader"

\* The timeline contradicts neither the term nor the status above it: read
\* downwards, the terms it names only decrease, each election has a term of its
\* own, the election named last is the one that gave the term, and between drills
\* its newest row is green if and only if the cluster is called healthy
\* (lines 101, 116, 124, 162, 174, 296-307).
TimelineTrue ==
    LET Named(i)    == events[i].term # NoTerm
        Promoted(i) == events[i].label = "promoted"
    IN  /\ \A i, j \in 1..Len(events) :
              i < j /\ Named(i) /\ Named(j) => events[j].term <= events[i].term
        /\ \A i, j \in 1..Len(events) :
              i < j /\ Promoted(i) /\ Promoted(j) => events[j].term < events[i].term
        /\ ~Electing => \A i \in 1..Len(events) : events[i].term <= term
        /\ \A i \in 1..Len(events) :
              Promoted(i) /\ (\A j \in 1..(i - 1) : ~Promoted(j)) => events[i].term = term
        /\ drills = {} => (Timeline[1].color = "success" <=> StatusLabel = "Healthy")

\* Whatever drill is shown, every node that is up hangs on exactly one line from
\* the leader, a live one within its side, a severed one across the barrier; no
\* packet runs to a node that is dimmed and labelled as offline, and a pulse ring is
\* round the leader alone (cluster-viz.tsx:44-57, 93-135, 154-181, 203).
PictureTrue ==
    LET live == Packets(Data, partition)
        cut  == Severed(Data, partition)
        up   == Node \ (Dimmed(Data) \cup {Leader})
    IN  /\ live \cap cut = {}
        /\ live \cup cut = IF Leader = NoNode THEN {} ELSE up
        /\ \A n \in live : partition => Side[n] = Side[Leader]
        /\ \A n \in cut : partition /\ Side[n] # Side[Leader]
        /\ \A n \in live : RoleLabel(Data[n].role) # "Offline"
        /\ Leader # NoNode => Pulsing(Data) = {Leader}

\* The terms shown are those of an orderly succession of leaders.
Shows == INSTANCE Succession WITH leader <- Leader, first <- InitialTerm
SuccessionSpec == Shows!SuccessionSpec

\* Every drill comes to its end and the buttons return (lines 80, 128, 150, 164).
DrillEnds == busy ~> ~busy
=============================================================================
