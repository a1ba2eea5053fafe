------------------------------ MODULE ApiClient ------------------------------
(***************************************************************************)
(* src/src/lib/api.ts without its requests: which nodes it knows, which    *)
(* address a request goes to, and what it makes of a response.  A node's   *)
(* id is its position in the list.  A failed fetch, and any exception      *)
(* inside a method's try, is the response Failed.                          *)
(***************************************************************************)
EXTENDS Naturals, Sequences, SequencesExt

CONSTANTS NoEnv, NoAddress, NoLeader, Failed,
          NoInfo        \* a response of /health whose body is no JSON

-----------------------------------------------------------------------------
ClusterNode == [id : Nat, address : STRING, httpPort : Nat, term : Nat,
                state : {"Leader", "Follower", "Candidate"}, isLeader : BOOLEAN]

\* A part of VITE_RAFT_NODES, split at ":"; what is missing is "" or 0.
NodeOf(i, address, port, state, isLeader) ==
    [id |-> i, address |-> address, httpPort |-> port,
     state |-> state, term |-> 0, isLeader |-> isLeader]

DefaultNodes ==
    [i \in 1..3 |-> NodeOf(i, "localhost", 8000 + i,
                           IF i = 1 THEN "Leader" ELSE "Follower", i = 1)]

\* The empty parts of the list are dropped before positions are counted.
ParseEnvNodes(raw) ==
    IF raw = NoEnv THEN DefaultNodes
    ELSE LET parts == SelectSeq(raw, LAMBDA p : p # [host |-> "", port |-> 0])
         IN  [i \in 1..Len(parts) |->
                 NodeOf(i, IF parts[i].host = "" THEN "localhost" ELSE parts[i].host,
                           IF parts[i].port = 0 THEN 8000 + i ELSE parts[i].port,
                           "Follower", i = 1)]

AddressOf(node) == [address |-> node.address, httpPort |-> node.httpPort]

\* find(): the first of the nodes at the given positions, or a default.
First(nodes, found, default) == IF found = {} THEN default ELSE nodes[Min(found)]

\* getBaseURL without a nodeId.  It goes by the isLeader of the configuration,
\* which no reading ever changes; without nodes it throws.
LeaderURL(nodes) ==
    IF nodes = <<>> THEN NoAddress
    ELSE AddressOf(First(nodes, {i \in DOMAIN nodes : nodes[i].isLeader}, nodes[1]))

\* getBaseURL with a nodeId
NodeURL(nodes, id) ==
    IF \E i \in DOMAIN nodes : nodes[i].id = id
    THEN AddressOf(First(nodes, {i \in DOMAIN nodes : nodes[i].id = id}, nodes[1]))
    ELSE LeaderURL(nodes)
-----------------------------------------------------------------------------
\* What set and get return; the fields of a SET's index and term are never there.
SetResponse == [success : BOOLEAN, message : {"Submitted", "Not Leader", "Error"}]
GetResponse == [success : {TRUE}, value : Seq(STRING)]
               \cup [success : {FALSE}, error : {"Error", "Key not found"}]

\* A response is Failed or [ok, text].

\* set: an answer without an error status is a success, whatever it says.
SetResult(response) ==
    IF response = Failed THEN [success |-> FALSE, message |-> "Error"]
                         ELSE [success |-> response.ok, message |-> response.text]

\* get
GetResult(response) ==
    IF response = Failed THEN [success |-> FALSE, error |-> "Error"]
    ELSE IF ~response.ok THEN [success |-> FALSE, error |-> "Key not found"]
    ELSE [success |-> TRUE, value |-> response.text]

\* checkNodeStatus: a response of /health is Failed, NoInfo or its isLeader and
\* currentTerm.
CheckNodeStatus(response) ==
    IF response = Failed THEN [isUp |-> FALSE] ELSE [isUp |-> TRUE, info |-> response]

\* What getClusterStatus makes of one node.  A node that is down, or up without
\* info, keeps the isLeader and the term of the configuration.
WithRoleOfConfig(node, response) ==     \* mutant: isLeader is not taken over
    [id |-> node.id, address |-> node.address, httpPort |-> node.httpPort, state |-> node.state,
     term |-> IF response \in {Failed, NoInfo} THEN node.term ELSE response.term,
     isLeader |-> node.isLeader, isUp |-> response # Failed]
WithStatus(node, response) ==
    LET res  == CheckNodeStatus(response)
        told == res.isUp /\ res.info # NoInfo
    IN  [id |-> node.id, address |-> node.address, httpPort |-> node.httpPort,
         state |-> node.state,
         term |-> IF told THEN res.info.term ELSE node.term,
         isLeader |-> IF told THEN res.info.isLeader ELSE node.isLeader,
         isUp |-> res.isUp]

Leading(results) == {i \in DOMAIN results : results[i].isLeader /\ results[i].isUp}

\* getClusterStatus, when every node has been answered.
FirstOfConfig(nodes, responses) ==      \* mutant: the leader falls back to nodes[0]
    LET results == [i \in DOMAIN nodes |-> WithStatus(nodes[i], responses[i])]
    IN  [nodes |-> results,
         leader |-> IF results = <<>> THEN NoLeader
                    ELSE First(results, Leading(results), nodes[1])]
ClusterStatus(nodes, responses) ==
    LET results == [i \in DOMAIN nodes |-> WithStatus(nodes[i], responses[i])]
    IN  [nodes |-> results,
         leader |-> IF results = <<>> THEN NoLeader
                    ELSE First(results, Leading(results), results[1])]
=============================================================================
