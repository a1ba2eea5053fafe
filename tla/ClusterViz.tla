------------------------------ MODULE ClusterViz ------------------------------
(***************************************************************************)
(* What src/src/components/cluster-viz.tsx draws for an array of nodes: a  *)
(* pure function of its props.  The array is a function from positions to  *)
(* [role, side]; coordinates, colours and animation are left out, except   *)
(* that a node is drawn dimmed or not.                                     *)
(***************************************************************************)
EXTENDS Naturals

CONSTANTS N,        \* the number of nodes
          NoNode,   \* find() has found nothing
          NoSide    \* the side of a node that is given none

ASSUME SizeAssumption == N \in Nat /\ N >= 2
ASSUME NoNodeAssumption == NoNode \notin 0..(N - 1)
ASSUME NoSideAssumption == NoSide \notin {"a", "b"}
-----------------------------------------------------------------------------
Node == 0..(N - 1)
Role == {"leader", "follower", "candidate", "down"}

Least(S) == CHOOSE i \in S : \A j \in S : i <= j

\* data.find(role is leader)
ShownLeader(data) ==
    LET leaders == {n \in Node : data[n].role = "leader"}
    IN  IF leaders = {} THEN NoNode ELSE Least(leaders)

\* The barrier is between n and the leader l.
Apart(data, partition, n, l) ==
    /\ partition
    /\ data[n].side # NoSide /\ data[l].side # NoSide
    /\ data[n].side # data[l].side

\* Nodes that the leader can reach.
LinksToDown(data, partition) ==     \* mutant: a node that is down is linked
    LET l == ShownLeader(data)
    IN  IF l = NoNode THEN {}
        ELSE {n \in Node : n # l /\ ~Apart(data, partition, n, l)}
LinkTargets(data, partition) ==
    LET l == ShownLeader(data)
    IN  IF l = NoNode THEN {}
        ELSE {n \in Node : /\ n # l
                           /\ data[n].role # "down"
                           /\ ~Apart(data, partition, n, l)}

Isolated(data, partition) ==
    LET l == ShownLeader(data)
    IN  {n \in Node : /\ data[n].role # "down"
                      /\ l # NoNode => n # l /\ Apart(data, partition, n, l)}

\* Nodes with a live curve to the leader, and a packet that runs along it.
Packets(data, partition) ==
    IF ShownLeader(data) = NoNode THEN {} ELSE LinkTargets(data, partition)

\* Nodes with a dimmed line to the leader: none when there is no leader.
Severed(data, partition) ==
    IF ShownLeader(data) = NoNode THEN {} ELSE Isolated(data, partition)

\* Nodes with a pulse ring, and nodes that are drawn dimmed.
Pulsing(data) == {n \in Node : data[n].role \in {"leader", "candidate"}}
Dimmed(data) == {n \in Node : data[n].role = "down"}

\* NodeBadge
RoleLabel(role) == CASE role = "leader"    -> "Leader"
                     [] role = "candidate" -> "Candidate"
                     [] role = "down"      -> "Offline"
                     [] OTHER              -> "Follower"
=============================================================================
