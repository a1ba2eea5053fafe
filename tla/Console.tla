------------------------------- MODULE Console -------------------------------
(***************************************************************************)
(* The panels of the browser console that talk to the cluster:             *)
(* kv-operations.tsx ("kv"), cluster-status.tsx ("status"), and            *)
(* ClusterOverview ("overview") and NodeCards ("cards") of dashboard.tsx.  *)
(* They share nothing but api.ts, whose list of nodes never changes, so a  *)
(* behaviour follows one of them.  Against them runs a cluster of servers  *)
(* with the HTTP handlers of cmd/node/main.go; of elections it knows what  *)
(* module Roles says, of the log that it is one and delivered in order.    *)
(***************************************************************************)
EXTENDS ApiClient, Roles, Integers, FiniteSets

CONSTANTS
    Opened,         \* the panels considered, each with a setting of VITE_RAFT_NODES
                    \* and bounds: calls of getClusterStatus under way at once; changes
                    \* of role, ends and restarts of processes in the cluster, and
                    \* readings of a running server that are lost
    Key, Value,     \* what may be typed: sequences of words, <<>> is blank
    MaxOps,         \* bound: submissions
    NoPoll, NoStatus, NoResult, NoReply    \* null

ASSUME ServersAssumption == Server \subseteq Nat /\ IsFiniteSet(Server)
ASSUME OpenedAssumption ==
    \A o \in Opened : /\ o.panel \in {"kv", "status", "overview", "cards"}
                      /\ o.slots \in {1, 2} /\ o.changes \in Nat
ASSUME NodesAssumption == \A o \in Opened : ParseEnvNodes(o.env) \in Seq(ClusterNode)
ASSUME WordsAssumption == /\ <<>> \in Key /\ Key \subseteq Seq(STRING)
                          /\ <<>> \in Value /\ Value \subseteq Seq(STRING)
ASSUME BoundsAssumption == MaxOps \in Nat

VARIABLES
    panel, nodes,                       \* what is open, and raftAPI.nodes
    key, value, getKey,                 \* KVOperations: the fields
    setResult, getResult, copied,       \*   ... results, and the tick of the copy button
    timers,                             \*   ... timers that will remove the tick
    calls,                              \*   ... the requests that are awaited
    loading,                            \* KVOperations and ClusterStatusView
    shown, polls,                       \* status, and the calls of getClusterStatus under way
    elapsed,                            \* ClusterOverview: time of the last frame of its counters
    up, proposed, committed, applied,   \* the cluster beside term and leads
    ops, changes,                       \* what is left of the bounds
    history     \* what was sent, what a leader took, the last set and get that returned

kvVars == <<key, value, getKey, setResult, getResult, copied, timers, calls, ops, history>>
pollVars == <<shown, polls, elapsed>>
clusterVars == <<term, leads, up, proposed, committed, applied, changes>>
consoleVars == <<panel, nodes, loading, kvVars, pollVars, clusterVars>>
-----------------------------------------------------------------------------
Panel == {"kv", "status", "overview", "cards"}
Slot == DOMAIN polls

\* The server that listens at an address, if one does.
Listening(a) == {s \in Server : up[s] /\ a = [address |-> "localhost", httpPort |-> 8000 + s]}

Blank(text) == text = <<>>
Pair(k, v) == [key |-> k, value |-> v]

\* The applicator splits "SET key value" at spaces, into at most three.
SplitAll(cmd) ==        \* mutant: Split instead of SplitN
    LET words == cmd.key \o cmd.value IN Pair(<<words[1]>>, <<words[2]>>)
SplitN(cmd) ==
    LET words == cmd.key \o cmd.value IN Pair(<<words[1]>>, Tail(words))

\* What s has under k, <<>> for nothing.
Stored(s, k) ==
    LET hits == {i \in 1..applied[s] : SplitN(committed[i]).key = k}
    IN  IF hits = {} THEN <<>>
        ELSE SplitN(committed[CHOOSE i \in hits : \A j \in hits : j <= i]).value
-----------------------------------------------------------------------------
\* The cluster.  A new term comes from an election or from a message.

Change == changes > 0 /\ changes' = changes - 1

NewTerm == \E s \in Server, t \in Term :
    /\ up[s]
    /\ Advance(s, t)
    /\ Change
    /\ UNCHANGED <<up, proposed, committed, applied>>

Elected == \E s \in Server :
    /\ up[s] /\ term[s] > 0
    /\ Win(s)
    /\ Change
    /\ UNCHANGED <<up, proposed, committed, applied>>

\* The process ends; its map is rebuilt from the log when it is back.
Crash == \E s \in Server :
    /\ up[s]
    /\ up' = [up EXCEPT ![s] = FALSE]
    /\ leads' = [leads EXCEPT ![s] = FALSE]
    /\ applied' = [applied EXCEPT ![s] = 0]
    /\ Change
    /\ UNCHANGED <<term, proposed, committed>>

Restart == \E s \in Server :
    /\ ~up[s]
    /\ up' = [up EXCEPT ![s] = TRUE]
    /\ Change
    /\ UNCHANGED <<term, leads, proposed, committed, applied>>

\* An entry is committed while somebody leads; it may be lost once the one who
\* took it does not lead any more.
Commit == \E c \in proposed :
    /\ \E s \in Server : leads[s]
    /\ proposed' = proposed \ {c}
    /\ committed' = Append(committed, Pair(c.key, c.value))
    /\ UNCHANGED <<term, leads, up, applied, changes>>

LoseEntry == \E c \in proposed :
    /\ ~leads[c.by]
    /\ proposed' = proposed \ {c}
    /\ UNCHANGED <<term, leads, up, committed, applied, changes>>

ApplyEntry == \E s \in Server :
    /\ up[s] /\ applied[s] < Len(committed)
    /\ applied' = [applied EXCEPT ![s] = @ + 1]
    /\ UNCHANGED <<term, leads, up, proposed, committed, changes>>

ClusterStep ==
    /\ \/ NewTerm \/ Elected \/ Crash \/ Restart
       \/ Commit \/ LoseEntry \/ ApplyEntry
    /\ UNCHANGED <<panel, nodes, loading, kvVars, pollVars>>
-----------------------------------------------------------------------------
\* KVOperations.  Fields and buttons are disabled while a request is awaited.

AlwaysEnabled == TRUE       \* mutant: disabled={loading} is missing
Enabled == ~loading

Others == <<panel, nodes, pollVars>>

Type ==
    /\ panel = "kv" /\ Enabled /\ ops > 0
    /\ \/ \E k \in Key \ {key} : key' = k /\ UNCHANGED <<value, getKey>>
       \/ \E v \in Value \ {value} : value' = v /\ UNCHANGED <<key, getKey>>
       \/ \E k \in Key \ {getKey} : getKey' = k /\ UNCHANGED <<key, value>>
    /\ UNCHANGED <<setResult, getResult, copied, timers, calls, loading, ops, history,
                   clusterVars, Others>>

Submit(kind, k, v) ==
    /\ panel = "kv" /\ Enabled /\ ops > 0
    /\ ops' = ops - 1
    /\ loading' = TRUE
    /\ calls' = calls \cup {[id |-> ops, kind |-> kind, key |-> k, value |-> v,
                             to |-> LeaderURL(nodes), reply |-> NoReply]}
    /\ UNCHANGED <<key, value, getKey, setResult, getResult, copied, timers,
                   clusterVars, Others>>

\* handleSet up to its await, which is that of fetch
HandleSet ==
    /\ ~Blank(key) /\ ~Blank(value)
    /\ Submit("set", key, value)
    /\ history' = [history EXCEPT !.sent = @ \cup {Pair(key, value)}]

\* handleGet up to its await
HandleGet ==
    /\ ~Blank(getKey)
    /\ Submit("get", getKey, <<>>)
    /\ UNCHANGED history

Answer(c, reply) == calls' = (calls \ {c}) \cup {[c EXCEPT !.reply = reply]}

\* The handler of /set: a server that does not lead says so, with status 200.
ServeSet(c, s) ==
    /\ c.kind = "set" /\ c.reply = NoReply
    /\ \/ /\ leads[s]
          /\ proposed' = proposed \cup {[key |-> c.key, value |-> c.value, by |-> s, id |-> c.id]}
          /\ history' = [history EXCEPT !.taken = @ \cup {Pair(c.key, c.value)}]
          /\ Answer(c, [ok |-> TRUE, text |-> "Submitted"])
       \/ /\ ~leads[s]
          /\ Answer(c, [ok |-> TRUE, text |-> "Not Leader"])
          /\ UNCHANGED <<proposed, history>>
    /\ UNCHANGED <<term, leads, up, committed, applied, changes>>

\* The handler of /get: the map of the server that was asked.
ServeGet(c, s) ==
    /\ c.kind = "get" /\ c.reply = NoReply
    /\ Answer(c, [ok |-> ~Blank(Stored(s, c.key)), text |-> Stored(s, c.key)])
    /\ UNCHANGED <<history, clusterVars>>

\* fetch fails: nobody listens, or request or reply are lost.
RequestFails(c) ==
    /\ c.reply # Failed
    /\ Answer(c, Failed)
    /\ UNCHANGED <<history, clusterVars>>

Answered ==
    /\ \E c \in calls : \/ \E s \in Listening(c.to) : ServeSet(c, s) \/ ServeGet(c, s)
                        \/ RequestFails(c)
    /\ UNCHANGED <<key, value, getKey, setResult, getResult, copied, timers, ops, loading, Others>>

FinishUnlessFailed(c) ==      \* mutant: an exception ends the handler
    c.reply # Failed /\ loading' = FALSE /\ calls' = calls \ {c}
Finish(c) == loading' = FALSE /\ calls' = calls \ {c}

\* handleSet after its await: the fields are cleared after a success.
SetReturns(c) ==
    /\ c.kind = "set"
    /\ setResult' = SetResult(c.reply)
    /\ IF setResult'.success THEN key' = <<>> /\ value' = <<>> ELSE UNCHANGED <<key, value>>
    /\ history' = [history EXCEPT !.set = Pair(c.key, c.value)]
    /\ UNCHANGED getResult

\* handleGet after its await
GetReturns(c) ==
    /\ c.kind = "get"
    /\ getResult' = GetResult(c.reply)
    /\ history' = [history EXCEPT !.get = c.key]
    /\ UNCHANGED <<key, value, setResult>>

Returned ==
    /\ \E c \in calls : c.reply # NoReply /\ Finish(c) /\ (SetReturns(c) \/ GetReturns(c))
    /\ UNCHANGED <<getKey, copied, timers, ops, clusterVars, Others>>

\* The boxes under the forms: what the last set and get are said to have been.
SetBox == IF setResult = NoResult THEN "none"
          ELSE IF setResult.success THEN "Success" ELSE "Error"
GetBox == IF getResult = NoResult THEN [title |-> "none", value |-> <<>>]
          ELSE IF getResult.success THEN [title |-> "Found", value |-> getResult.value]
          ELSE [title |-> "Not Found", value |-> <<>>]

\* copyToClipboard; the button is there while a value is.
Copy ==
    /\ timers < 2
    /\ ~Blank(GetBox.value)
    /\ copied' = TRUE /\ timers' = timers + 1

CopyTimer == timers > 0 /\ copied' = FALSE /\ timers' = timers - 1

Copying ==
    /\ Copy \/ CopyTimer
    /\ UNCHANGED <<key, value, getKey, setResult, getResult, calls, loading, ops, history,
                   clusterVars, Others>>

KVStep == Type \/ HandleSet \/ HandleGet \/ Answered \/ Returned \/ Copying
-----------------------------------------------------------------------------
\* getClusterStatus, called in the effects of three panels.  got[i] is how far the
\* i-th node's /health is; its handler reads role and term one after the other.

Asked == [stage |-> "asked"]
NewPoll == [i \in DOMAIN nodes |-> Asked]

Health == {Failed, NoInfo} \cup [isLeader : BOOLEAN, term : Term \cup {0, 1}]
Reading == [stage : {"asked"}] \cup [stage : {"role read"}, isLeader : BOOLEAN]
           \cup [stage : {"answered"}, response : Health]

\* No call is not a call.
ASSUME NoPollAssumption ==
    \A o \in Opened : NoPoll \notin [DOMAIN ParseEnvNodes(o.env) -> Reading]

\* ClusterStatusView shows a spinner while any of its calls is under way.
Spin(b) == loading' = IF panel = "status" THEN b ELSE loading

Polling == panel \in {"status", "overview", "cards"}

\* Bars stand for the rows, and there is no button, until a first call has returned.
Skeleton == shown = NoStatus

\* The interval fires; the calls before it need not have returned.  The refresh
\* button does the same, unless it is disabled.
StartPoll(s) ==
    /\ polls[s] = NoPoll
    /\ polls' = [polls EXCEPT ![s] = NewPoll]
    /\ Spin(TRUE)
    /\ UNCHANGED <<panel, nodes, shown, elapsed, kvVars, clusterVars>>

Tick == Polling /\ \E s \in Slot : StartPoll(s)
Refresh == panel = "status" /\ ~Skeleton /\ ~loading /\ \E s \in Slot : StartPoll(s)

PollStep(s, i, g) ==
    /\ polls' = [polls EXCEPT ![s][i] = g]
    /\ UNCHANGED <<panel, nodes, loading, shown, elapsed, kvVars, term, leads, up,
                   proposed, committed, applied>>

ReadRole(s) == \E i \in DOMAIN nodes : \E n \in Listening(NodeURL(nodes, nodes[i].id)) :
    /\ polls[s] # NoPoll /\ polls[s][i] = Asked
    /\ PollStep(s, i, [stage |-> "role read", isLeader |-> leads[n]])
    /\ UNCHANGED changes

ReadTerm(s) == \E i \in DOMAIN nodes : \E n \in Listening(NodeURL(nodes, nodes[i].id)) :
    /\ polls[s] # NoPoll /\ polls[s][i].stage = "role read"
    /\ PollStep(s, i, [stage |-> "answered", response |->
                          [isLeader |-> polls[s][i].isLeader, term |-> term[n]]])
    /\ UNCHANGED changes

\* Nobody listens, or the server ended meanwhile; or the fetch fails, or says that it
\* is not ok, although the server runs; or the answer breaks off in its body.
HealthFails(s) == \E i \in DOMAIN nodes :
    /\ polls[s] # NoPoll /\ polls[s][i].stage # "answered"
    /\ \/ /\ Listening(NodeURL(nodes, nodes[i].id)) = {}
          /\ PollStep(s, i, [stage |-> "answered", response |-> Failed])
          /\ UNCHANGED changes
       \/ /\ PollStep(s, i, [stage |-> "answered", response |-> Failed])
          /\ Change
       \/ /\ polls[s][i].stage = "role read"
          /\ PollStep(s, i, [stage |-> "answered", response |-> NoInfo])
          /\ Change

\* Promise.all
AllAnswered(got) == \A i \in DOMAIN got : got[i].stage = "answered"

\* The call returns, and the panel shows what it says.
PollReturns(s) ==
    /\ polls[s] # NoPoll /\ AllAnswered(polls[s])
    /\ shown' = ClusterStatus(nodes, [i \in DOMAIN nodes |-> polls[s][i].response])
    /\ polls' = [polls EXCEPT ![s] = NoPoll]
    /\ Spin(FALSE)
    /\ UNCHANGED <<panel, nodes, elapsed, kvVars, clusterVars>>

\* useCounter of the figures in the overview: each frame draws one for the time since
\* the effect, in parts of Duration, and asks for another until Duration is over.  The
\* time of the first frame may lie before that of the effect.
Duration == 2
NoFrame == -2
Eased(t) == Duration^3 - (Duration - t)^3      \* of Duration^3
Counter == IF elapsed = NoFrame THEN 0 ELSE Eased(elapsed)
Stat(target) == (target * Counter) \div Duration^3

Frame ==
    /\ panel = "overview" /\ elapsed < Duration
    /\ elapsed' \in (elapsed + 1)..Duration
    /\ UNCHANGED <<panel, nodes, loading, shown, polls, kvVars, clusterVars>>

\* What the panels draw of a status.
StatusRow(node) == [up |-> node.isUp, term |-> node.term, star |-> node.isLeader]
Summary(status) == [nodes |-> Len(status.nodes), leader |-> status.leader]
NodeCard(node) == [up |-> node.isUp]
Figures == {18420, 4200, 99999}      \* the last two in thousandths
OverviewLine(status) ==
    [count |-> Len(status.nodes),
     term |-> IF status.leader = NoLeader THEN 0 ELSE status.leader.term]

PollGoesOn(s) == ReadRole(s) \/ ReadTerm(s) \/ HealthFails(s)
GoesOn(s) == s \in Slot /\ PollGoesOn(s)
Returns(s) == s \in Slot /\ PollReturns(s)
PanelStep == Tick \/ Refresh \/ Frame \/ \E s \in Slot : GoesOn(s) \/ Returns(s)
-----------------------------------------------------------------------------
\* The page may be opened when the cluster has a leader already.
FirstLeads(s) == term = [n \in Server |-> 1] /\ leads = [n \in Server |-> n = s]

ConsoleInit ==
    /\ \E o \in Opened :
          /\ panel = o.panel /\ nodes = ParseEnvNodes(o.env)
          /\ changes = o.changes
          /\ polls = [s \in 1..o.slots |-> IF Polling /\ s = 1 THEN NewPoll ELSE NoPoll]
    /\ RolesInit \/ \E s \in Server : FirstLeads(s)
    /\ key = <<>> /\ value = <<>> /\ getKey = <<>>
    /\ setResult = NoResult /\ getResult = NoResult /\ copied = FALSE /\ timers = 0
    /\ calls = {}
    /\ loading = (panel = "status")
    /\ shown = NoStatus /\ elapsed = NoFrame
    /\ up = [s \in Server |-> TRUE]
    /\ proposed = {} /\ committed = <<>> /\ applied = [s \in Server |-> 0]
    /\ ops = MaxOps
    /\ history = [sent |-> {}, taken |-> {}, set |-> Pair(<<>>, <<>>), get |-> <<>>]

ConsoleNext == ClusterStep \/ KVStep \/ PanelStep

\* The browser fires timers and settles every fetch; servers answer in the end.
ConsoleFairness ==
    /\ WF_consoleVars(Answered) /\ WF_consoleVars(Returned)
    /\ WF_consoleVars(Copying /\ CopyTimer)
    /\ WF_consoleVars(Tick) /\ WF_consoleVars(Frame)
    /\ \A s \in {1, 2} : WF_consoleVars(GoesOn(s)) /\ WF_consoleVars(Returns(s))

ConsoleSpec == ConsoleInit /\ [][ConsoleNext]_consoleVars /\ ConsoleFairness
-----------------------------------------------------------------------------
\* State variables keep their types, calls and results those of api.ts.
ConsoleTypeOK ==
    /\ panel \in Panel
    /\ key \in Key /\ value \in Value /\ getKey \in Key
    /\ setResult \in SetResponse \cup {NoResult}
    /\ getResult \in GetResponse \cup {NoResult}
    /\ copied \in BOOLEAN /\ timers \in 0..2 /\ loading \in BOOLEAN
    /\ \A c \in calls : c.kind \in {"set", "get"} /\ c.id \in 1..MaxOps
    /\ polls \in [Slot -> {NoPoll} \cup [DOMAIN nodes -> Reading]]
    /\ shown # NoStatus => /\ DOMAIN shown.nodes = DOMAIN nodes
                           /\ shown.leader = NoLeader \/ shown.leader \in Range(shown.nodes)
    /\ \A s \in Server : applied[s] <= Len(committed)

\* A spinner turns only while something is awaited, and the tick of the copy
\* button shows only while a timer will remove it: results that arrive late or in
\* another order leave neither behind (kv-operations.tsx:19-22, 34-37, 40-43,
\* cluster-status.tsx:12-16).
SpinnerTrue ==
    /\ panel = "kv" => (loading <=> calls # {})
    /\ loading => calls # {} \/ \E s \in Slot : polls[s] # NoPoll
    /\ copied => timers > 0

\* What is cleared after a set is what was set, and only if api.ts calls that a
\* success: nothing typed while the request was under way is lost
\* (kv-operations.tsx:20-27, 69, 81).
ClearsWhatWasSet ==
    loading /\ (key' # key \/ value' # value) =>
        \E c \in calls \ calls' : /\ c.kind = "set" /\ c.key = key /\ c.value = value
                                 /\ setResult'.success
TypedIsKept == [][ClearsWhatWasSet]_consoleVars

\* What a get shows was sent by a set of that key, whichever servers lead, end or
\* lag in between, as long as no key has a space (main.go:54, kv-operations.tsx:180).
ReadTrue ==
    /\ GetBox.title = "Found"
    /\ \A c \in history.sent : Len(c.key) = 1
    => Pair(history.get, GetBox.value) \in history.sent

\* A set that is reported as a success was taken by a leader (api.ts:116-126).
SetAcknowledged ==
    SetBox = "Success" => history.set \in history.taken

\* Every request and every reading of the status comes to an end, whether or not
\* the servers that are asked are there (api.ts:127, 155, 167).
OperationsEnd == loading ~> ~loading

\* Once no server changes any more and no reading of one that runs is lost, every
\* panel comes to show the servers as they are and keeps to it, however its readings
\* overtook each other and whatever they missed before: who is up, the role and term
\* of each, and of those that lead the first as the leader (api.ts:172-199); the
\* counters of the overview have come to their figures (dashboard.tsx:152-166).
ShownTrue ==
    /\ ~Skeleton
    /\ panel = "overview" => \A target \in Figures : Stat(target) = target
    /\ \A i \in DOMAIN nodes :
          LET there == Listening(AddressOf(nodes[i]))
              row   == StatusRow(shown.nodes[i])
          IN  /\ panel = "status" => /\ row.up <=> there # {}
                                    /\ \A n \in there : row.star = leads[n] /\ row.term = term[n]
              /\ panel = "cards" => (NodeCard(shown.nodes[i]).up <=> there # {})
    /\ panel # "cards" /\ (\E i \in DOMAIN nodes : \E n \in Listening(AddressOf(nodes[i])) : leads[n])
       => \E n \in Listening(AddressOf(Summary(shown).leader)) :
             leads[n] /\ (panel = "overview" => OverviewLine(shown).term = term[n])
StatusConverges == <>[](Polling => ShownTrue)
=============================================================================
