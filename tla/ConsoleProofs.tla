---------------------------- MODULE ConsoleProofs ----------------------------
(***************************************************************************)
(* Theorems about the panels of the console, for any servers and terms,    *)
(* any configurations, any words that are typed and any number of          *)
(* submissions, and whatever the cluster does meanwhile.                   *)
(***************************************************************************)
EXTENDS Console, FiniteSetTheorems, SequenceTheorems, TLAPS

-----------------------------------------------------------------------------
(* The form: one request at a time, and the fields as they were sent. *)

\* A call by its fields.
Form(c) == [id |-> c.id, kind |-> c.kind, key |-> c.key, value |-> c.value, to |-> c.to,
            reply |-> c.reply]

Awaited ==
    \/ ~loading /\ calls = {}
    \/ /\ loading
       /\ \E c : /\ calls = {c} /\ c = Form(c)
                 /\ c.kind = "set" => c.key = key /\ c.value = value

FormInv ==
    /\ panel = "kv" => Awaited
    /\ panel # "kv" => calls = {}
    /\ timers \in 0..2 /\ copied \in BOOLEAN /\ (copied => timers > 0)

\* What the panels of the status do to the form: nothing.
LEMMA PanelsApart ==
    ASSUME PanelStep
    PROVE  UNCHANGED <<panel, kvVars>> /\ (panel # "status" => loading' = loading)
<1>1. ASSUME NEW s, StartPoll(s)
      PROVE  UNCHANGED <<panel, kvVars>> /\ (panel # "status" => loading' = loading)
    BY <1>1 DEF StartPoll, Spin
<1>2. CASE Tick \/ Refresh
    BY <1>1, <1>2 DEF Tick, Refresh
<1>3. CASE Frame
    BY <1>3 DEF Frame
<1>4. ASSUME NEW s, PollGoesOn(s)
      PROVE  UNCHANGED <<panel, kvVars>> /\ (panel # "status" => loading' = loading)
    BY <1>4 DEF PollGoesOn, ReadRole, ReadTerm, HealthFails, PollStep
<1>5. ASSUME NEW s, PollReturns(s)
      PROVE  UNCHANGED <<panel, kvVars>> /\ (panel # "status" => loading' = loading)
    BY <1>5 DEF PollReturns, Spin
<1>6. QED
    BY <1>2, <1>3, <1>4, <1>5 DEF PanelStep, GoesOn, Returns

LEMMA PanelsLeaveCluster ==
    PanelStep => UNCHANGED <<term, leads, up, proposed, committed, applied>>
BY DEF clusterVars, PanelStep, Tick, Refresh, StartPoll, Frame, GoesOn, Returns,
       PollGoesOn, ReadRole, ReadTerm, HealthFails, PollStep, PollReturns

LEMMA SubmitForm ==
    ASSUME FormInv, NEW kind, NEW k, NEW v, Submit(kind, k, v),
           kind = "set" => k = key /\ v = value
    PROVE  FormInv'
<1>1. panel = "kv" /\ panel' = panel /\ ~loading /\ calls = {}
    BY DEF Submit, Enabled, FormInv, Awaited, Others
<1>2. PICK c : /\ calls' = calls \cup {c}
               /\ c = [id |-> ops, kind |-> kind, key |-> k, value |-> v,
                       to |-> LeaderURL(nodes), reply |-> NoReply]
    BY DEF Submit
<1>3. c = Form(c) /\ (c.kind = "set" => c.key = key /\ c.value = value)
    BY <1>2 DEF Form
<1>4. loading' /\ UNCHANGED <<key, value, timers, copied>>
    BY DEF Submit
<1>5. calls' = {c}
    BY <1>1, <1>2
<1>6. Awaited'
    BY <1>3, <1>4, <1>5 DEF Awaited
<1>7. QED
    BY <1>1, <1>4, <1>6 DEF FormInv

LEMMA AnswerForm ==
    ASSUME FormInv, NEW c \in calls, NEW reply, Answer(c, reply),
           UNCHANGED <<panel, loading, key, value, timers, copied>>
    PROVE  FormInv'
<1>1. panel = "kv" /\ loading /\ calls = {c} /\ c = Form(c)
      /\ (c.kind = "set" => c.key = key /\ c.value = value)
    BY DEF FormInv, Awaited
<1>2. PICK d : d = [c EXCEPT !.reply = reply]
    OBVIOUS
<1>3. calls' = {d}
    BY <1>1, <1>2 DEF Answer
<1>4. d = Form(d) /\ (d.kind = "set" => d.key = key /\ d.value = value)
    BY <1>1, <1>2 DEF Form
<1>5. Awaited'
    BY <1>1, <1>3, <1>4 DEF Awaited
<1>6. QED
    BY <1>1, <1>5 DEF FormInv

LEMMA FormKept == FormInv /\ [ConsoleNext]_consoleVars => FormInv'
<1> SUFFICES ASSUME FormInv, [ConsoleNext]_consoleVars
             PROVE  FormInv'
    OBVIOUS
<1>1. ASSUME UNCHANGED <<panel, kvVars>>, panel # "status" => loading' = loading
      PROVE  FormInv'
    BY <1>1 DEF kvVars, FormInv, Awaited
<1>2. CASE UNCHANGED consoleVars
    BY <1>1, <1>2 DEF consoleVars
<1>3. CASE ClusterStep
    BY <1>1, <1>3 DEF ClusterStep
<1>4. CASE PanelStep
    BY <1>1, <1>4, PanelsApart
<1>5. CASE Type
    <2>1. panel = "kv" /\ calls = {} /\ ~loading
        BY <1>5 DEF Type, Enabled, FormInv, Awaited
    <2>2. UNCHANGED <<panel, calls, loading, timers, copied>>
        BY <1>5 DEF Type, Others
    <2>3. QED
        BY <2>1, <2>2 DEF FormInv, Awaited
<1>6. CASE HandleSet
    BY <1>6, SubmitForm DEF HandleSet
<1>7. CASE HandleGet
    BY <1>7, SubmitForm DEF HandleGet
<1>8. CASE Answered
    <2>1. PICK c \in calls : \E reply : Answer(c, reply)
        BY <1>8 DEF Answered, ServeSet, ServeGet, RequestFails
    <2>2. UNCHANGED <<panel, loading, key, value, timers, copied>>
        BY <1>8 DEF Answered, Others
    <2>3. QED
        BY <2>1, <2>2, AnswerForm
<1>9. CASE Returned
    <2>1. PICK c \in calls : Finish(c)
        BY <1>9 DEF Returned
    <2>2. UNCHANGED <<panel, timers, copied>>
        BY <1>9 DEF Returned, Others
    <2>3. panel = "kv" /\ calls = {c}
        BY DEF FormInv, Awaited
    <2>4. ~loading' /\ calls' = {}
        BY <2>1, <2>3 DEF Finish
    <2>5. QED
        BY <2>2, <2>3, <2>4 DEF FormInv, Awaited
<1>10. CASE Copying
    <2>1. UNCHANGED <<panel, calls, loading, key, value>>
        BY <1>10 DEF Copying, Others
    <2>2. timers' \in 0..2 /\ copied' \in BOOLEAN /\ (copied' => timers' > 0)
        <3>1. timers \in 0..2
            BY DEF FormInv
        <3>2. CASE Copy
            <4>1. timers' \in 0..2 /\ timers' > 0
                BY <3>1, <3>2 DEF Copy
            <4>2. copied' \in BOOLEAN
                BY <3>2, Zenon DEF Copy
            <4>3. QED
                BY <4>1, <4>2
        <3>3. CASE CopyTimer
            <4>1. timers' \in 0..2
                BY <3>1, <3>3 DEF CopyTimer
            <4>2. copied' \in BOOLEAN /\ ~copied'
                BY <3>3, Zenon DEF CopyTimer
            <4>3. QED
                BY <4>1, <4>2
        <3>4. QED
            BY <1>10, <3>2, <3>3 DEF Copying
    <2>3. QED
        BY <2>1, <2>2 DEF FormInv, Awaited
<1>11. QED
    BY <1>2, <1>3, <1>4, <1>5, <1>6, <1>7, <1>8, <1>9, <1>10 DEF ConsoleNext, KVStep

LEMMA FormStarts == ConsoleInit => FormInv
<1> SUFFICES ASSUME ConsoleInit
             PROVE  FormInv
    OBVIOUS
<1>1. calls = {} /\ timers = 0 /\ copied = FALSE /\ (panel = "kv" => ~loading)
    BY DEF ConsoleInit
<1>2. copied \in BOOLEAN /\ ~copied
    BY <1>1, Zenon
<1>3. timers \in 0..2
    BY <1>1
<1>4. QED
    BY <1>1, <1>2, <1>3 DEF FormInv, Awaited

\* What is cleared after a set is what was set, and only if api.ts calls that a
\* success: nothing typed while the request was under way is lost
\* (kv-operations.tsx:20-27, 69, 81).
THEOREM TypedAlwaysKept == ConsoleSpec => TypedIsKept
<1>1. ASSUME FormInv, ConsoleNext, loading, key' # key \/ value' # value
      PROVE  ClearsWhatWasSet
    <2>1. Returned
        <3>1. ~ ClusterStep
            BY <1>1 DEF ClusterStep, kvVars
        <3>2. ~ PanelStep
            BY <1>1, PanelsApart DEF kvVars
        <3>3. ~ (Type \/ HandleSet \/ HandleGet \/ Answered \/ Copying)
            BY <1>1 DEF Type, HandleSet, HandleGet, Submit, Enabled, Answered, Copying
        <3>4. QED
            BY <1>1, <3>1, <3>2, <3>3 DEF ConsoleNext, KVStep
    <2>2. PICK c \in calls : Finish(c) /\ (SetReturns(c) \/ GetReturns(c))
        BY <2>1 DEF Returned
    <2>3. SetReturns(c) /\ setResult'.success
        BY <1>1, <2>2 DEF SetReturns, GetReturns
    <2>4. calls = {c} /\ (c.kind = "set" => c.key = key /\ c.value = value)
        BY <1>1 DEF FormInv, Awaited
    <2>5. c \notin calls' /\ c.kind = "set"
        BY <2>2, <2>3 DEF Finish, SetReturns
    <2>6. QED
        BY <2>3, <2>4, <2>5 DEF ClearsWhatWasSet
<1>2. FormInv /\ [ConsoleNext]_consoleVars => [ClearsWhatWasSet]_consoleVars
    BY <1>1 DEF ClearsWhatWasSet
<1>3. QED
    BY <1>2, FormStarts, FormKept, PTL DEF ConsoleSpec, TypedIsKept
-----------------------------------------------------------------------------
(* The panels of the status: a spinner turns for a call that is under way. *)

PollsTyped ==
    /\ \E o \in Opened : nodes = ParseEnvNodes(o.env)
    /\ leads \in [Server -> BOOLEAN] /\ term \in [Server -> Term \cup {0, 1}]
    /\ polls \in [Slot -> {NoPoll} \cup [DOMAIN nodes -> Reading]]

SpinnerInv ==
    /\ panel \in Panel /\ 1 \in Slot /\ loading \in BOOLEAN
    /\ panel = "status" /\ loading => \E s \in Slot : polls[s] # NoPoll
    /\ panel \in {"overview", "cards"} => ~loading

LEMMA NewPollTyped == NewPoll \in [DOMAIN nodes -> Reading]
<1>1. Asked \in Reading
    BY DEF Asked, Reading
<1>2. QED
    BY <1>1 DEF NewPoll

\* The calls of getClusterStatus that are under way, after one of them went on.
LEMMA SlotTyped ==
    ASSUME PollsTyped, NEW s \in Slot, NEW got \in {NoPoll} \cup [DOMAIN nodes -> Reading],
           polls' = [polls EXCEPT ![s] = got], UNCHANGED <<nodes, leads, term>>
    PROVE  PollsTyped' /\ Slot' = Slot /\ polls'[s] = got
           /\ \A r \in Slot \ {s} : polls'[r] = polls[r]
<1>1. polls' \in [Slot -> {NoPoll} \cup [DOMAIN nodes -> Reading]] /\ Slot' = Slot
    BY DEF PollsTyped, Slot
<1>2. polls'[s] = got /\ \A r \in Slot \ {s} : polls'[r] = polls[r]
    BY DEF PollsTyped, Slot
<1>3. QED
    BY <1>1, <1>2 DEF PollsTyped

\* A call under way is not none.
LEMMA UnderWay ==
    ASSUME PollsTyped, NEW got \in [DOMAIN nodes -> Reading]
    PROVE  got # NoPoll
BY NoPollAssumption DEF PollsTyped

LEMMA StartTyped ==
    ASSUME PollsTyped, SpinnerInv, NEW s \in Slot, StartPoll(s)
    PROVE  PollsTyped' /\ SpinnerInv'
<1>1. NewPoll \in [DOMAIN nodes -> Reading] /\ NewPoll # NoPoll
    BY NewPollTyped, UnderWay
<1>2. polls' = [polls EXCEPT ![s] = NewPoll] /\ UNCHANGED <<panel, nodes, leads, term>>
    BY DEF StartPoll, clusterVars
<1>3. PollsTyped' /\ Slot' = Slot /\ polls'[s] = NewPoll
    BY <1>1, <1>2, SlotTyped
<1>4. loading' \in BOOLEAN
    BY DEF StartPoll, Spin, SpinnerInv
<1>5. panel # "status" => loading' = loading
    BY DEF StartPoll, Spin
<1>6. QED
    BY <1>1, <1>2, <1>3, <1>4, <1>5 DEF SpinnerInv

LEMMA StepTyped ==
    ASSUME PollsTyped, SpinnerInv, NEW s \in Slot, polls[s] # NoPoll,
           NEW i \in DOMAIN nodes, NEW g \in Reading, PollStep(s, i, g)
    PROVE  PollsTyped' /\ SpinnerInv'
<1>1. polls[s] \in [DOMAIN nodes -> Reading]
    BY DEF PollsTyped
<1> DEFINE got == [polls[s] EXCEPT ![i] = g]
<1>2. got \in [DOMAIN nodes -> Reading]
    BY <1>1
<1>3. polls' = [polls EXCEPT ![s] = got] /\ UNCHANGED <<panel, nodes, leads, term, loading>>
    BY DEF PollStep, clusterVars
<1> HIDE DEF got
<1>4. got # NoPoll
    BY <1>2, UnderWay
<1>5. PollsTyped' /\ Slot' = Slot /\ polls'[s] = got
    BY <1>2, <1>3, SlotTyped
<1>6. QED
    BY <1>3, <1>4, <1>5 DEF SpinnerInv

LEMMA OfServers == \A a : Listening(a) \subseteq Server
BY DEF Listening

\* What the server says of itself is a reading.
LEMMA GoesOnTyped ==
    ASSUME PollsTyped, SpinnerInv, NEW s \in Slot, PollGoesOn(s)
    PROVE  PollsTyped' /\ SpinnerInv'
<1>1. CASE ReadRole(s)
    <2>1. PICK i \in DOMAIN nodes : \E n \in Server :
              polls[s] # NoPoll /\ PollStep(s, i, [stage |-> "role read", isLeader |-> leads[n]])
        BY <1>1, OfServers DEF ReadRole
    <2>2. PICK n \in Server :
              polls[s] # NoPoll /\ PollStep(s, i, [stage |-> "role read", isLeader |-> leads[n]])
        BY <2>1
    <2>3. [stage |-> "role read", isLeader |-> leads[n]] \in Reading
        BY DEF PollsTyped, Reading
    <2>4. QED
        BY <2>2, <2>3, StepTyped
<1>2. CASE ReadTerm(s)
    <2>1. PICK i \in DOMAIN nodes : \E n \in Server :
              /\ polls[s] # NoPoll /\ polls[s][i].stage = "role read"
              /\ PollStep(s, i, [stage |-> "answered", response |->
                                    [isLeader |-> polls[s][i].isLeader, term |-> term[n]]])
        BY <1>2, OfServers DEF ReadTerm
    <2>2. PICK n \in Server :
              /\ polls[s] # NoPoll /\ polls[s][i].stage = "role read"
              /\ PollStep(s, i, [stage |-> "answered", response |->
                                    [isLeader |-> polls[s][i].isLeader, term |-> term[n]]])
        BY <2>1
    <2>3. polls[s][i] \in Reading
        BY <2>2 DEF PollsTyped
    <2>4. polls[s][i].isLeader \in BOOLEAN
        BY <2>2, <2>3 DEF Reading
    <2>5. [isLeader |-> polls[s][i].isLeader, term |-> term[n]] \in Health
        BY <2>4 DEF PollsTyped, Health
    <2>6. [stage |-> "answered", response |->
              [isLeader |-> polls[s][i].isLeader, term |-> term[n]]] \in Reading
        BY <2>5 DEF Reading
    <2>7. QED
        BY <2>2, <2>6, StepTyped
<1>3. CASE HealthFails(s)
    <2>1. PICK i \in DOMAIN nodes, response \in {Failed, NoInfo} :
              polls[s] # NoPoll /\ PollStep(s, i, [stage |-> "answered", response |-> response])
        BY <1>3 DEF HealthFails
    <2>2. [stage |-> "answered", response |-> response] \in Reading
        BY DEF Reading, Health
    <2>3. QED
        BY <2>1, <2>2, StepTyped
<1>4. QED
    BY <1>1, <1>2, <1>3 DEF PollGoesOn

LEMMA ReturnTyped ==
    ASSUME PollsTyped, SpinnerInv, NEW s \in Slot, PollReturns(s)
    PROVE  PollsTyped' /\ SpinnerInv'
<1>1. polls' = [polls EXCEPT ![s] = NoPoll] /\ UNCHANGED <<panel, nodes, leads, term>>
    BY DEF PollReturns, clusterVars
<1>2. PollsTyped' /\ Slot' = Slot /\ \A r \in Slot \ {s} : polls'[r] = polls[r]
    BY <1>1, SlotTyped
<1>3. CASE panel = "status"
    BY <1>1, <1>2, <1>3 DEF PollReturns, Spin, SpinnerInv
<1>4. CASE panel # "status"
    BY <1>1, <1>2, <1>4 DEF PollReturns, Spin, SpinnerInv
<1>5. QED
    BY <1>3, <1>4

\* A step of the cluster keeps the types of what its servers say.
LEMMA ClusterTyped ==
    ASSUME PollsTyped, ClusterStep
    PROVE  leads' \in [Server -> BOOLEAN] /\ term' \in [Server -> Term \cup {0, 1}]
<1>1. leads \in [Server -> BOOLEAN] /\ term \in [Server -> Term \cup {0, 1}]
    BY DEF PollsTyped
<1>2. CASE NewTerm
    BY <1>1, <1>2 DEF NewTerm, Advance
<1>3. CASE Elected
    BY <1>1, <1>3 DEF Elected, Win
<1>4. CASE Crash
    BY <1>1, <1>4 DEF Crash
<1>5. CASE Restart \/ Commit \/ LoseEntry \/ ApplyEntry
    BY <1>1, <1>5 DEF Restart, Commit, LoseEntry, ApplyEntry
<1>6. QED
    BY <1>2, <1>3, <1>4, <1>5 DEF ClusterStep

\* A step of the form leaves readings and roles alone.
LEMMA FormApart ==
    ASSUME KVStep
    PROVE  /\ UNCHANGED <<panel, nodes, pollVars, leads, term>>
           /\ panel # "kv" => loading' = loading \/ calls # {}
           /\ loading' \in BOOLEAN \/ loading' = loading
<1>1. CASE Type
    BY <1>1 DEF Type, Others, clusterVars
<1>2. CASE HandleSet \/ HandleGet
    BY <1>2 DEF HandleSet, HandleGet, Submit, Others, clusterVars
<1>3. CASE Answered
    <2>1. UNCHANGED <<leads, term>>
        BY <1>3 DEF Answered, ServeSet, ServeGet, RequestFails, clusterVars
    <2>2. QED
        BY <1>3, <2>1 DEF Answered, Others
<1>4. CASE Returned
    BY <1>4 DEF Returned, Finish, Others, clusterVars
<1>5. CASE Copying
    BY <1>5 DEF Copying, Others, clusterVars
<1>6. QED
    BY <1>1, <1>2, <1>3, <1>4, <1>5 DEF KVStep

LEMMA SpinnerKept == FormInv /\ PollsTyped /\ SpinnerInv /\ [ConsoleNext]_consoleVars
                     => PollsTyped' /\ SpinnerInv'
<1> SUFFICES ASSUME FormInv, PollsTyped, SpinnerInv, [ConsoleNext]_consoleVars
             PROVE  PollsTyped' /\ SpinnerInv'
    OBVIOUS
<1>1. ASSUME UNCHANGED <<panel, nodes, polls>>, loading' \in BOOLEAN,
             panel # "kv" => loading' = loading,
             leads' \in [Server -> BOOLEAN], term' \in [Server -> Term \cup {0, 1}]
      PROVE  PollsTyped' /\ SpinnerInv'
    BY <1>1 DEF PollsTyped, SpinnerInv, Slot
<1>2. leads \in [Server -> BOOLEAN] /\ term \in [Server -> Term \cup {0, 1}] /\ loading \in BOOLEAN
    BY DEF PollsTyped, SpinnerInv
<1>3. CASE UNCHANGED consoleVars
    <2>1. UNCHANGED <<panel, nodes, polls, loading, leads, term>>
        BY <1>3 DEF consoleVars, pollVars, clusterVars
    <2>2. QED
        BY <1>1, <1>2, <2>1
<1>4. CASE ClusterStep
    <2>1. UNCHANGED <<panel, nodes, polls, loading>>
        BY <1>4 DEF ClusterStep, pollVars
    <2>2. QED
        BY <1>1, <1>2, <1>4, <2>1, ClusterTyped
<1>5. CASE KVStep
    <2>1. UNCHANGED <<panel, nodes, polls, leads, term>> /\ loading' \in BOOLEAN
        BY <1>2, <1>5, FormApart DEF pollVars
    <2>2. panel # "kv" => loading' = loading
        BY <1>5, FormApart DEF FormInv
    <2>3. QED
        BY <1>1, <1>2, <2>1, <2>2
<1>6. CASE Frame
    <2>1. UNCHANGED <<panel, nodes, polls, loading, leads, term>>
        BY <1>6 DEF Frame, clusterVars
    <2>2. QED
        BY <1>1, <1>2, <2>1
<1>7. CASE Tick \/ Refresh
    BY <1>7, StartTyped DEF Tick, Refresh
<1>8. CASE \E s \in Slot : GoesOn(s) \/ Returns(s)
    BY <1>8, GoesOnTyped, ReturnTyped DEF GoesOn, Returns
<1>9. QED
    BY <1>3, <1>4, <1>5, <1>6, <1>7, <1>8 DEF ConsoleNext, PanelStep

LEMMA SpinnerStarts == ConsoleInit => PollsTyped /\ SpinnerInv
<1> SUFFICES ASSUME ConsoleInit
             PROVE  PollsTyped /\ SpinnerInv
    OBVIOUS
<1>1. PICK o \in Opened :
          /\ panel = o.panel /\ nodes = ParseEnvNodes(o.env)
          /\ polls = [s \in 1..o.slots |-> IF Polling /\ s = 1 THEN NewPoll ELSE NoPoll]
    BY DEF ConsoleInit
<1>2. leads \in [Server -> BOOLEAN] /\ term \in [Server -> Term \cup {0, 1}]
    <2>1. CASE RolesInit
        BY <2>1 DEF RolesInit
    <2>2. CASE \E s \in Server : FirstLeads(s)
        BY <2>2 DEF FirstLeads
    <2>3. QED
        BY <2>1, <2>2 DEF ConsoleInit
<1>3. Slot = 1..o.slots /\ 1 \in Slot
    BY <1>1, OpenedAssumption DEF Slot
<1>4. PollsTyped
    BY <1>1, <1>2, <1>3, NewPollTyped DEF PollsTyped
<1>5. panel \in Panel
    BY <1>1, OpenedAssumption DEF Panel
<1>6. panel = "status" => polls[1] = NewPoll
    BY <1>1, <1>3 DEF Polling
<1>7. NewPoll # NoPoll
    BY <1>4, NewPollTyped, UnderWay
<1>8. loading = (panel = "status")
    BY DEF ConsoleInit
<1>9. QED
    BY <1>3, <1>4, <1>5, <1>6, <1>7, <1>8 DEF SpinnerInv

\* A spinner turns only while something is awaited, and the tick of the copy
\* button shows only while a timer will remove it: results that arrive late or in
\* another order leave neither behind (kv-operations.tsx:19-22, 34-37, 40-43,
\* cluster-status.tsx:12-16).
THEOREM SpinnerAlwaysTrue == ConsoleSpec => []SpinnerTrue
<1>1. FormInv /\ SpinnerInv => SpinnerTrue
    <2> SUFFICES ASSUME FormInv, SpinnerInv
                 PROVE  SpinnerTrue
        OBVIOUS
    <2>1. panel = "kv" => (loading <=> calls # {})
        BY DEF FormInv, Awaited
    <2>2. loading => calls # {} \/ \E s \in Slot : polls[s] # NoPoll
        BY <2>1 DEF SpinnerInv, Panel
    <2>3. QED
        BY <2>1, <2>2 DEF SpinnerTrue, FormInv
<1>2. QED
    BY <1>1, FormStarts, FormKept, SpinnerStarts, SpinnerKept, PTL DEF ConsoleSpec
-----------------------------------------------------------------------------
(* What is set and got: everything a get shows comes from a set that was sent. *)

Command == [key : Key, value : Value]

\* No key has a space.
OneWord == \A p \in history.sent : Len(p.key) = 1

FieldsInv ==
    /\ key \in Key /\ value \in Value /\ getKey \in Key
    /\ ops \in 0..MaxOps
    /\ history \in [sent : SUBSET Command, taken : SUBSET Command, set : Command, get : Key]
    /\ \A p \in history.sent : p.key # <<>>
    /\ \A c \in calls : /\ c.kind \in {"set", "get"} /\ c.id \in 1..MaxOps
                        /\ c.key \in Key /\ c.value \in Value
                        /\ c.kind = "set" => Pair(c.key, c.value) \in history.sent

LogInv ==
    /\ \A p \in proposed : Pair(p.key, p.value) \in history.sent
    /\ committed \in Seq(history.sent)
    /\ applied \in [Server -> Nat]
    /\ \A s \in Server : applied[s] <= Len(committed)

\* What the one request that is awaited has been answered.
ReplyFits(c) ==
    /\ c.kind = "set" => c.reply \in [ok : {TRUE}, text : {"Submitted", "Not Leader"}]
    /\ c.kind = "get" => /\ c.reply \in [ok : BOOLEAN, text : Seq(STRING)]
                         /\ OneWord /\ c.reply.ok => Pair(c.key, c.reply.text) \in history.sent

RepliesInv ==
    /\ \A c \in calls : c.reply = NoReply \/ c.reply = Failed \/ ReplyFits(c)
    /\ setResult \in SetResponse \cup {NoResult}
    /\ getResult \in GetResponse \cup {NoResult}
    /\ OneWord /\ getResult # NoResult /\ getResult.success
       => Pair(history.get, getResult.value) \in history.sent

\* Splitting a command at its spaces finds the key again, if that is one word.
LEMMA SplitFits ==
    ASSUME NEW c \in Command, c.key # <<>>
    PROVE  /\ SplitN(c).value \in Seq(STRING)
           /\ Len(c.key) = 1 => SplitN(c) = c
<1>1. c.key \in Seq(STRING) /\ c.value \in Seq(STRING) /\ c = Pair(c.key, c.value)
    BY WordsAssumption DEF Command, Pair
<1> DEFINE k == c.key
           v == c.value
           words == k \o v
<1>2. k \in Seq(STRING) /\ v \in Seq(STRING) /\ k # <<>>
    BY <1>1
<1> HIDE DEF k, v
<1>3. Len(k) \in Nat \ {0} /\ Len(v) \in Nat
    BY <1>2, EmptySeq, LenProperties
<1>4. /\ words \in Seq(STRING) /\ Len(words) = Len(k) + Len(v)
      /\ \A i \in 1..Len(k) + Len(v) : words[i] = IF i <= Len(k) THEN k[i] ELSE v[i - Len(k)]
    BY <1>2, ConcatProperties
<1> HIDE DEF words
<1>5. words # <<>>
    BY <1>3, <1>4, EmptySeq
<1>6. /\ Tail(words) \in Seq(STRING) /\ Len(Tail(words)) = Len(words) - 1
      /\ \A i \in 1..Len(Tail(words)) : Tail(words)[i] = words[i + 1]
    BY <1>4, <1>5, HeadTailProperties
<1>7. SplitN(c) = Pair(<<words[1]>>, Tail(words))
    BY DEF SplitN, k, v, words
<1>8. ASSUME Len(k) = 1
      PROVE  <<words[1]>> = k /\ Tail(words) = v
    <2>1. words[1] = k[1]
        BY <1>3, <1>4, <1>8
    <2>2. k = <<k[1]>>
        BY <1>2, <1>8
    <2>3. Len(Tail(words)) = Len(v)
        BY <1>3, <1>4, <1>6, <1>8
    <2>4. \A i \in 1..Len(v) : Tail(words)[i] = v[i]
        BY <1>3, <1>4, <1>6, <1>8, <2>3
    <2>5. Tail(words) = v
        BY <1>2, <1>6, <2>3, <2>4, SeqEqual
    <2>6. QED
        BY <2>1, <2>2, <2>5
<1>9. SplitN(c).value \in Seq(STRING)
    BY <1>6, <1>7 DEF Pair
<1>10. QED
    BY <1>1, <1>7, <1>8, <1>9 DEF k, v

LEMMA LeastExists ==
    ASSUME NEW S \in SUBSET Nat, S # {}
    PROVE  \E i \in S : \A j \in S : i <= j
<1> DEFINE R == {p \in Nat \X Nat : p[1] < p[2]}
<1>1. IsWellFoundedOn(R, Nat)
    BY NatLessThanWellFounded DEF OpToRel
<1> HIDE DEF R
<1>2. PICK i \in S : \A j \in S : ~ (<<j, i>> \in R)
    BY <1>1, WFMin
<1>3. \A j \in S : ~ (j < i)
    BY <1>2 DEF R
<1>4. QED
    BY <1>3

\* The last of some of the first positions of a log.
LEMMA LastExists ==
    ASSUME NEW n \in Nat, NEW S \in SUBSET (1..n), S # {}
    PROVE  \E i \in S : \A j \in S : j <= i
<1> DEFINE Bounds == {b \in Nat : \A j \in S : j <= b}
<1>1. n \in Bounds /\ Bounds \in SUBSET Nat
    OBVIOUS
<1>2. PICK b \in Bounds : \A a \in Bounds : b <= a
    <2> HIDE DEF Bounds
    <2>1. QED
        BY <1>1, LeastExists
<1>3. b \in S
    <2>1. SUFFICES ASSUME b \notin S
                   PROVE  FALSE
        OBVIOUS
    <2>2. b # 0
        <3>1. PICK j \in S : j \in 1..n
            OBVIOUS
        <3>2. QED
            BY <3>1
    <2>3. b - 1 \in Bounds
        BY <2>1, <2>2
    <2>4. QED
        BY <1>2, <2>2, <2>3
<1>4. QED
    BY <1>3

LEMMA StoredFits ==
    ASSUME FieldsInv, LogInv, NEW s \in Server, NEW k
    PROVE  /\ Stored(s, k) \in Seq(STRING)
           /\ OneWord /\ Stored(s, k) # <<>> => Pair(k, Stored(s, k)) \in history.sent
<1> DEFINE hits == {i \in 1..applied[s] : SplitN(committed[i]).key = k}
<1>1. CASE hits = {}
    BY <1>1, EmptySeq DEF Stored
<1>2. CASE hits # {}
    <2>1. applied[s] \in Nat /\ applied[s] <= Len(committed) /\ Len(committed) \in Nat
        BY LenProperties DEF LogInv
    <2>2. \E i \in hits : \A j \in hits : j <= i
        <3>1. hits \in SUBSET (1..applied[s])
            OBVIOUS
        <3> HIDE DEF hits
        <3>2. QED
            BY <1>2, <2>1, <3>1, LastExists
    <2> DEFINE i == CHOOSE i \in hits : \A j \in hits : j <= i
    <2>3. i \in hits
        <3> HIDE DEF hits
        <3>1. QED
            BY <2>2
    <2>4. Stored(s, k) = SplitN(committed[i]).value
        BY <1>2 DEF Stored
    <2> HIDE DEF i
    <2>5. i \in 1..Len(committed) /\ SplitN(committed[i]).key = k
        BY <2>1, <2>3
    <2>6. committed[i] \in history.sent
        BY <2>5, ElementOfSeq DEF LogInv
    <2>7. committed[i] \in Command /\ committed[i].key # <<>>
        BY <2>6 DEF FieldsInv
    <2>8. Stored(s, k) \in Seq(STRING)
        BY <2>4, <2>7, SplitFits
    <2>9. ASSUME OneWord
          PROVE  Pair(k, Stored(s, k)) \in history.sent
        <3>1. SplitN(committed[i]) = committed[i]
            BY <2>6, <2>7, <2>9, SplitFits DEF OneWord
        <3>2. committed[i] = Pair(committed[i].key, committed[i].value)
            BY <2>7 DEF Command, Pair
        <3>3. QED
            BY <2>4, <2>5, <2>6, <3>1, <3>2
    <2>10. QED
        BY <2>8, <2>9
<1>3. QED
    BY <1>1, <1>2

\* A step that leaves the form alone.
LEMMA FieldsFrame ==
    ASSUME FieldsInv, UNCHANGED kvVars
    PROVE  FieldsInv'
BY DEF FieldsInv, kvVars

LEMMA RepliesFrame ==
    ASSUME RepliesInv, UNCHANGED kvVars
    PROVE  RepliesInv'
BY DEF RepliesInv, ReplyFits, OneWord, kvVars

\* What was sent stays sent.
LEMMA LogFrame ==
    ASSUME LogInv, history.sent \subseteq history'.sent, UNCHANGED <<proposed, committed, applied>>
    PROVE  LogInv'
<1>1. committed \in Seq(history'.sent)
    BY SeqMonotonic DEF LogInv
<1>2. QED
    BY <1>1 DEF LogInv

\* The applicators take what is committed, and nothing else is committed than
\* what a leader was asked to set.
LEMMA ClusterKeepsLog ==
    ASSUME LogInv, ClusterStep
    PROVE  LogInv'
<1>1. UNCHANGED history
    BY DEF ClusterStep, kvVars
<1>2. CASE NewTerm \/ Elected \/ Restart
    BY <1>1, <1>2, LogFrame DEF NewTerm, Elected, Restart
<1>3. CASE Crash
    <2>1. PICK s \in Server : applied' = [applied EXCEPT ![s] = 0]
        BY <1>3 DEF Crash
    <2>2. UNCHANGED <<proposed, committed>>
        BY <1>3 DEF Crash
    <2>3. Len(committed) \in Nat
        BY LenProperties DEF LogInv
    <2>4. QED
        BY <1>1, <2>1, <2>2, <2>3 DEF LogInv
<1>4. CASE Commit
    <2>1. PICK c \in proposed : /\ proposed' = proposed \ {c}
                                /\ committed' = Append(committed, Pair(c.key, c.value))
        BY <1>4 DEF Commit
    <2>2. Pair(c.key, c.value) \in history.sent /\ committed \in Seq(history.sent)
        BY DEF LogInv
    <2>3. committed' \in Seq(history.sent) /\ Len(committed') = Len(committed) + 1
        BY <2>1, <2>2, AppendProperties
    <2>4. Len(committed) \in Nat /\ UNCHANGED applied
        BY <1>4, LenProperties DEF LogInv, Commit
    <2>5. QED
        BY <1>1, <2>1, <2>3, <2>4 DEF LogInv
<1>5. CASE LoseEntry
    BY <1>1, <1>5 DEF LoseEntry, LogInv
<1>6. CASE ApplyEntry
    <2>1. PICK s \in Server : /\ applied[s] < Len(committed)
                              /\ applied' = [applied EXCEPT ![s] = @ + 1]
        BY <1>6 DEF ApplyEntry
    <2>2. UNCHANGED <<proposed, committed>>
        BY <1>6 DEF ApplyEntry
    <2>3. Len(committed) \in Nat
        BY LenProperties DEF LogInv
    <2>4. QED
        BY <1>1, <2>1, <2>2, <2>3 DEF LogInv
<1>7. QED
    BY <1>2, <1>3, <1>4, <1>5, <1>6 DEF ClusterStep

\* A submission, and its one request.
LEMMA SubmitFields ==
    ASSUME FormInv, FieldsInv, NEW kind \in {"set", "get"}, NEW k \in Key, NEW v \in Value,
           Submit(kind, k, v), history' = [history EXCEPT !.sent = history'.sent],
           history.sent \subseteq history'.sent, history'.sent \subseteq Command,
           \A p \in history'.sent : p.key # <<>>,
           kind = "set" => Pair(k, v) \in history'.sent
    PROVE  FieldsInv' /\ \A c \in calls' : c.reply = NoReply
<1>1. calls = {}
    BY DEF Submit, Enabled, FormInv, Awaited
<1>2. PICK c : c = [id |-> ops, kind |-> kind, key |-> k, value |-> v,
                    to |-> LeaderURL(nodes), reply |-> NoReply]
    OBVIOUS
<1>3. calls' = {c}
    BY <1>1, <1>2 DEF Submit
<1>4. ops \in 0..MaxOps /\ ops > 0 /\ ops' = ops - 1 /\ UNCHANGED <<key, value, getKey>>
    BY DEF Submit, FieldsInv
<1>5. ops \in 1..MaxOps /\ ops' \in 0..MaxOps
    BY <1>4, BoundsAssumption
<1>6. history' \in [sent : SUBSET Command, taken : SUBSET Command, set : Command, get : Key]
    BY DEF FieldsInv
<1>7. \A d \in calls' : /\ d.kind \in {"set", "get"} /\ d.id \in 1..MaxOps
                        /\ d.key \in Key /\ d.value \in Value
                        /\ d.kind = "set" => Pair(d.key, d.value) \in history'.sent
    BY <1>2, <1>3, <1>5
<1>8. QED
    BY <1>2, <1>3, <1>4, <1>5, <1>6, <1>7 DEF FieldsInv

\* Its results are still those of before.
LEMMA SubmitReplies ==
    ASSUME FieldsInv, RepliesInv, \A c \in calls' : c.reply = NoReply,
           UNCHANGED <<setResult, getResult>>, history.sent \subseteq history'.sent,
           history'.get = history.get
    PROVE  RepliesInv'
BY DEF RepliesInv, OneWord

LEMMA SetIsSent ==
    ASSUME FormInv, FieldsInv, RepliesInv, LogInv, HandleSet
    PROVE  FieldsInv' /\ RepliesInv' /\ LogInv'
<1>1. /\ key # <<>> /\ Pair(key, value) \in Command
      /\ history \in [sent : SUBSET Command, taken : SUBSET Command, set : Command, get : Key]
    BY DEF HandleSet, Blank, FieldsInv, Pair, Command
<1>2. history' = [history EXCEPT !.sent = history.sent \cup {Pair(key, value)}]
    BY DEF HandleSet
<1>3. /\ history'.sent = history.sent \cup {Pair(key, value)} /\ history'.get = history.get
      /\ history' = [history EXCEPT !.sent = history'.sent]
    BY <1>1, <1>2
<1>4. /\ history.sent \subseteq history'.sent /\ history'.sent \subseteq Command
      /\ Pair(key, value) \in history'.sent
    BY <1>1, <1>3
<1>5. \A p \in history'.sent : p.key # <<>>
    BY <1>1, <1>3 DEF FieldsInv, Pair
<1>6. /\ Submit("set", key, value) /\ key \in Key /\ value \in Value
    BY DEF HandleSet, FieldsInv
<1>7. FieldsInv' /\ \A c \in calls' : c.reply = NoReply
    BY <1>3, <1>4, <1>5, <1>6, SubmitFields
<1>8. UNCHANGED <<setResult, getResult, proposed, committed, applied>>
    BY <1>6 DEF Submit, clusterVars
<1>9. QED
    BY <1>3, <1>4, <1>7, <1>8, SubmitReplies, LogFrame

LEMMA GetIsSent ==
    ASSUME FormInv, FieldsInv, RepliesInv, LogInv, HandleGet
    PROVE  FieldsInv' /\ RepliesInv' /\ LogInv'
<1>1. /\ Submit("get", getKey, <<>>) /\ getKey \in Key /\ <<>> \in Value
    BY WordsAssumption DEF HandleGet, FieldsInv
<1>2. history' = history
    BY DEF HandleGet
<1>3. history' = [history EXCEPT !.sent = history'.sent]
    BY <1>2 DEF FieldsInv
<1>4. /\ history.sent \subseteq history'.sent /\ history'.sent \subseteq Command
      /\ \A p \in history'.sent : p.key # <<>>
    BY <1>2 DEF FieldsInv
<1>5. FieldsInv' /\ \A c \in calls' : c.reply = NoReply
    BY <1>1, <1>3, <1>4, SubmitFields
<1>6. UNCHANGED <<setResult, getResult, proposed, committed, applied>>
    BY <1>1 DEF Submit, clusterVars
<1>7. QED
    BY <1>2, <1>4, <1>5, <1>6, SubmitReplies, LogFrame

\* The request that is awaited, with its answer.
LEMMA AnswerCall ==
    ASSUME FormInv, NEW c \in calls, NEW reply, Answer(c, reply)
    PROVE  \E d : /\ calls' = {d} /\ d.reply = reply
                  /\ d.id = c.id /\ d.kind = c.kind /\ d.key = c.key /\ d.value = c.value
<1>1. calls = {c} /\ c = Form(c)
    BY DEF FormInv, Awaited
<1>2. PICK d : d = [c EXCEPT !.reply = reply]
    OBVIOUS
<1>3. calls' = {d}
    BY <1>1, <1>2 DEF Answer
<1>4. /\ calls' = {d} /\ d.reply = reply
      /\ d.id = c.id /\ d.kind = c.kind /\ d.key = c.key /\ d.value = c.value
    BY <1>1, <1>2, <1>3 DEF Form
<1>5. QED
    BY <1>4

\* An answer that says what it should keeps the form.
LEMMA AnswerFits ==
    ASSUME FormInv, FieldsInv, RepliesInv, NEW c \in calls, NEW reply, Answer(c, reply),
           UNCHANGED <<key, value, getKey, setResult, getResult, ops>>,
           history'.sent = history.sent, history'.get = history.get,
           history' \in [sent : SUBSET Command, taken : SUBSET Command, set : Command, get : Key],
           \/ reply = Failed
           \/ /\ c.kind = "set" /\ reply \in [ok : {TRUE}, text : {"Submitted", "Not Leader"}]
           \/ /\ c.kind = "get" /\ reply \in [ok : BOOLEAN, text : Seq(STRING)]
              /\ OneWord /\ reply.ok => Pair(c.key, reply.text) \in history.sent
    PROVE  FieldsInv' /\ RepliesInv'
<1>1. PICK d : /\ calls' = {d} /\ d.reply = reply
               /\ d.id = c.id /\ d.kind = c.kind /\ d.key = c.key /\ d.value = c.value
    BY ONLY FormInv, c \in calls, Answer(c, reply), AnswerCall
<1>2. FieldsInv'
    BY <1>1 DEF FieldsInv
<1>3. OneWord' <=> OneWord
    BY DEF OneWord
<1>4. d.reply = Failed \/ ReplyFits(d)'
    BY <1>1, <1>3 DEF ReplyFits
<1>5. RepliesInv'
    BY <1>1, <1>3, <1>4 DEF RepliesInv
<1>6. QED
    BY <1>2, <1>5

LEMMA RequestIsAnswered ==
    ASSUME FormInv, FieldsInv, RepliesInv, LogInv, Answered
    PROVE  FieldsInv' /\ RepliesInv' /\ LogInv'
<1>1. PICK c \in calls : \/ \E s \in Server : ServeSet(c, s) \/ ServeGet(c, s)
                         \/ RequestFails(c)
    BY OfServers DEF Answered
<1>2. UNCHANGED <<key, value, getKey, setResult, getResult, ops>>
    BY DEF Answered
<1>3. history \in [sent : SUBSET Command, taken : SUBSET Command, set : Command, get : Key]
    BY DEF FieldsInv
<1>4. CASE RequestFails(c)
    <2>1. Answer(c, Failed) /\ UNCHANGED <<history, proposed, committed, applied>>
        BY <1>4 DEF RequestFails, clusterVars
    <2>2. FieldsInv' /\ RepliesInv'
        BY <1>2, <1>3, <2>1, AnswerFits
    <2>3. QED
        BY <2>1, <2>2, LogFrame
<1>5. ASSUME NEW s \in Server, ServeGet(c, s)
      PROVE  FieldsInv' /\ RepliesInv' /\ LogInv'
    <2> DEFINE text == Stored(s, c.key)
    <2>1. text \in Seq(STRING) /\ (OneWord /\ text # <<>> => Pair(c.key, text) \in history.sent)
        BY StoredFits
    <2>2. /\ c.kind = "get" /\ Answer(c, [ok |-> ~Blank(text), text |-> text])
          /\ UNCHANGED <<history, proposed, committed, applied>>
        BY <1>5 DEF ServeGet, clusterVars
    <2> HIDE DEF text
    <2> DEFINE reply == [ok |-> ~Blank(text), text |-> text]
    <2>3. reply \in [ok : BOOLEAN, text : Seq(STRING)]
        BY <2>1
    <2>4. OneWord /\ reply.ok => Pair(c.key, reply.text) \in history.sent
        BY <2>1 DEF Blank
    <2> HIDE DEF reply
    <2>5. Answer(c, reply)
        BY <2>2 DEF reply
    <2>6. FieldsInv' /\ RepliesInv'
        BY <1>2, <1>3, <2>2, <2>3, <2>4, <2>5, AnswerFits
    <2>7. QED
        BY <2>2, <2>6, LogFrame
<1>6. ASSUME NEW s \in Server, ServeSet(c, s), ~leads[s]
      PROVE  FieldsInv' /\ RepliesInv' /\ LogInv'
    <2>1. /\ c.kind = "set" /\ Answer(c, [ok |-> TRUE, text |-> "Not Leader"])
          /\ UNCHANGED <<history, proposed, committed, applied>>
        BY <1>6 DEF ServeSet
    <2>2. FieldsInv' /\ RepliesInv'
        BY <1>2, <1>3, <2>1, AnswerFits
    <2>3. QED
        BY <2>1, <2>2, LogFrame
<1>7. ASSUME NEW s \in Server, ServeSet(c, s), leads[s]
      PROVE  FieldsInv' /\ RepliesInv' /\ LogInv'
    <2>1. /\ c.kind = "set" /\ Answer(c, [ok |-> TRUE, text |-> "Submitted"])
          /\ history' = [history EXCEPT !.taken = @ \cup {Pair(c.key, c.value)}]
          /\ proposed' = proposed \cup {[key |-> c.key, value |-> c.value, by |-> s, id |-> c.id]}
          /\ UNCHANGED <<committed, applied>>
        BY <1>7 DEF ServeSet
    <2>2. Pair(c.key, c.value) \in history.sent /\ Pair(c.key, c.value) \in Command
        BY <2>1 DEF FieldsInv
    <2>3. /\ history' \in [sent : SUBSET Command, taken : SUBSET Command, set : Command, get : Key]
          /\ history'.sent = history.sent /\ history'.get = history.get
        BY <1>3, <2>1, <2>2
    <2>4. FieldsInv' /\ RepliesInv'
        BY <1>2, <2>1, <2>3, AnswerFits
    <2>5. \A p \in proposed' : Pair(p.key, p.value) \in history'.sent
        BY <2>1, <2>2, <2>3 DEF LogInv
    <2>6. QED
        BY <2>1, <2>3, <2>4, <2>5 DEF LogInv
<1>8. QED
    BY <1>1, <1>4, <1>5, <1>6, <1>7

LEMMA RequestReturns ==
    ASSUME FormInv, FieldsInv, RepliesInv, LogInv, Returned
    PROVE  FieldsInv' /\ RepliesInv' /\ LogInv'
<1>1. PICK c \in calls : c.reply # NoReply /\ Finish(c) /\ (SetReturns(c) \/ GetReturns(c))
    BY DEF Returned
<1>2. calls' = {}
    BY <1>1 DEF Finish, FormInv, Awaited
<1>3. UNCHANGED <<getKey, ops, proposed, committed, applied>>
    BY DEF Returned, clusterVars
<1>4. history \in [sent : SUBSET Command, taken : SUBSET Command, set : Command, get : Key]
    BY DEF FieldsInv
<1>5. c.key \in Key /\ c.value \in Value /\ Pair(c.key, c.value) \in Command
    BY DEF FieldsInv, Pair, Command
<1>6. c.reply = Failed \/ ReplyFits(c)
    BY <1>1 DEF RepliesInv
<1>7. CASE SetReturns(c)
    <2>1. /\ history' \in [sent : SUBSET Command, taken : SUBSET Command, set : Command, get : Key]
          /\ history'.sent = history.sent /\ history'.get = history.get
        BY <1>4, <1>5, <1>7 DEF SetReturns
    <2>2. key' \in Key /\ value' \in Value
        BY <1>7, WordsAssumption DEF SetReturns, FieldsInv
    <2>3. setResult' \in SetResponse
        BY <1>6, <1>7 DEF SetReturns, SetResult, SetResponse, ReplyFits
    <2>4. UNCHANGED getResult
        BY <1>7 DEF SetReturns
    <2>5. FieldsInv'
        BY <1>2, <1>3, <2>1, <2>2 DEF FieldsInv
    <2>6. RepliesInv'
        BY <1>2, <2>1, <2>3, <2>4 DEF RepliesInv, OneWord
    <2>7. QED
        BY <1>3, <2>1, <2>5, <2>6, LogFrame
<1>8. CASE GetReturns(c)
    <2>1. /\ history' \in [sent : SUBSET Command, taken : SUBSET Command, set : Command, get : Key]
          /\ history'.sent = history.sent /\ history'.get = c.key
        BY <1>4, <1>5, <1>8 DEF GetReturns
    <2>2. UNCHANGED <<key, value, setResult>> /\ c.kind = "get"
        BY <1>8 DEF GetReturns
    <2>3. getResult' = GetResult(c.reply)
        BY <1>8 DEF GetReturns
    <2>4. /\ getResult' \in GetResponse
          /\ OneWord /\ getResult'.success => Pair(c.key, getResult'.value) \in history.sent
        <3>1. CASE c.reply = Failed
            BY <2>3, <3>1 DEF GetResult, GetResponse
        <3>2. CASE c.reply # Failed /\ ~c.reply.ok
            BY <2>3, <3>2 DEF GetResult, GetResponse
        <3>3. CASE c.reply # Failed /\ c.reply.ok
            <4>1. getResult' = [success |-> TRUE, value |-> c.reply.text]
                BY <2>3, <3>3 DEF GetResult
            <4>2. c.reply.text \in Seq(STRING)
                  /\ (OneWord => Pair(c.key, c.reply.text) \in history.sent)
                BY <1>6, <2>2, <3>3 DEF ReplyFits
            <4>3. QED
                BY <4>1, <4>2 DEF GetResponse
        <3>4. QED
            BY <3>1, <3>2, <3>3
    <2>5. FieldsInv'
        BY <1>2, <1>3, <2>1, <2>2 DEF FieldsInv
    <2>6. RepliesInv'
        BY <1>2, <2>1, <2>2, <2>4 DEF RepliesInv, OneWord
    <2>7. QED
        BY <1>3, <2>1, <2>5, <2>6, LogFrame
<1>9. QED
    BY <1>1, <1>7, <1>8

LEMMA WordsKept == FormInv /\ FieldsInv /\ RepliesInv /\ LogInv /\ [ConsoleNext]_consoleVars
                   => FieldsInv' /\ RepliesInv' /\ LogInv'
<1> SUFFICES ASSUME FormInv, FieldsInv, RepliesInv, LogInv, [ConsoleNext]_consoleVars
             PROVE  FieldsInv' /\ RepliesInv' /\ LogInv'
    OBVIOUS
<1>1. CASE UNCHANGED consoleVars \/ PanelStep
    <2>1. UNCHANGED <<kvVars, proposed, committed, applied>>
        <3>1. CASE UNCHANGED consoleVars
            BY <3>1 DEF consoleVars, clusterVars
        <3>2. CASE PanelStep
            BY <3>2, PanelsApart, PanelsLeaveCluster
        <3>3. QED
            BY <1>1, <3>1, <3>2
    <2>2. UNCHANGED <<history, proposed, committed, applied>>
        BY <2>1 DEF kvVars
    <2>3. QED
        BY <2>1, <2>2, FieldsFrame, RepliesFrame, LogFrame
<1>2. CASE ClusterStep
    <2>1. UNCHANGED kvVars
        BY <1>2 DEF ClusterStep
    <2>2. QED
        BY <1>2, <2>1, FieldsFrame, RepliesFrame, ClusterKeepsLog
<1>3. CASE Type \/ Copying
    <2>1. UNCHANGED <<setResult, getResult, calls, ops, history, proposed, committed, applied>>
        BY <1>3 DEF Type, Copying, clusterVars
    <2>2. key' \in Key /\ value' \in Value /\ getKey' \in Key
        BY <1>3 DEF Type, Copying, FieldsInv
    <2>3. FieldsInv'
        BY <2>1, <2>2 DEF FieldsInv
    <2>4. RepliesInv'
        BY <2>1 DEF RepliesInv, ReplyFits, OneWord
    <2>5. QED
        BY <2>1, <2>3, <2>4, LogFrame
<1>4. CASE HandleSet \/ HandleGet
    BY <1>4, SetIsSent, GetIsSent
<1>5. CASE Answered \/ Returned
    BY <1>5, RequestIsAnswered, RequestReturns
<1>6. QED
    BY <1>1, <1>2, <1>3, <1>4, <1>5 DEF ConsoleNext, KVStep

LEMMA WordsStart == ConsoleInit => FieldsInv /\ RepliesInv /\ LogInv
<1> SUFFICES ASSUME ConsoleInit
             PROVE  FieldsInv /\ RepliesInv /\ LogInv
    OBVIOUS
<1>1. /\ key = <<>> /\ value = <<>> /\ getKey = <<>>
      /\ setResult = NoResult /\ getResult = NoResult /\ calls = {} /\ ops = MaxOps
      /\ history = [sent |-> {}, taken |-> {}, set |-> Pair(<<>>, <<>>), get |-> <<>>]
      /\ proposed = {} /\ committed = <<>> /\ applied = [s \in Server |-> 0]
    BY DEF ConsoleInit
<1>2. Pair(<<>>, <<>>) \in Command
    BY WordsAssumption DEF Pair, Command
<1>3. FieldsInv
    BY <1>1, <1>2, WordsAssumption, BoundsAssumption DEF FieldsInv
<1>4. RepliesInv
    BY <1>1 DEF RepliesInv
<1>5. committed \in Seq(history.sent) /\ Len(committed) = 0
    BY <1>1, EmptySeq
<1>6. LogInv
    BY <1>1, <1>5 DEF LogInv
<1>7. QED
    BY <1>3, <1>4, <1>6

\* What a get shows was sent by a set of that key, whichever servers lead, end or
\* lag in between, as long as no key has a space (main.go:54, kv-operations.tsx:180).
THEOREM ReadAlwaysTrue == ConsoleSpec => []ReadTrue
<1>1. RepliesInv => ReadTrue
    BY DEF RepliesInv, ReadTrue, OneWord, GetBox
<1>2. QED
    BY <1>1, FormStarts, FormKept, WordsStart, WordsKept, PTL DEF ConsoleSpec
-----------------------------------------------------------------------------
(* Types, of what the panels show too. *)

StatusInv ==
    shown # NoStatus => /\ DOMAIN shown.nodes = DOMAIN nodes
                        /\ shown.leader = NoLeader \/ shown.leader \in Range(shown.nodes)

\* Of a list, getClusterStatus makes a list as long, and its leader is of that list.
LEMMA StatusFits ==
    ASSUME NEW ns \in Seq(ClusterNode), NEW rs
    PROVE  LET status == ClusterStatus(ns, rs)
           IN  /\ DOMAIN status.nodes = DOMAIN ns
               /\ status.leader = NoLeader \/ status.leader \in Range(status.nodes)
<1> DEFINE results == [i \in DOMAIN ns |-> WithStatus(ns[i], rs[i])]
           status == ClusterStatus(ns, rs)
<1>1. DOMAIN ns = 1..Len(ns) /\ Len(ns) \in Nat
    BY LenProperties
<1>2. /\ status.nodes = results
      /\ status.leader = IF results = <<>> THEN NoLeader
                         ELSE First(results, Leading(results), results[1])
    BY DEF ClusterStatus
<1>3. DOMAIN results = 1..Len(ns)
    BY <1>1
<1>4. ASSUME results # <<>>
      PROVE  First(results, Leading(results), results[1]) \in Range(results)
    <2>1. 1 \in DOMAIN results
        <3>1. CASE Len(ns) = 0
            <4>1. ns = <<>> /\ DOMAIN ns = {}
                BY <1>1, <3>1
            <4>2. results = <<>>
                BY <4>1
            <4>3. QED
                BY <1>4, <4>2
        <3>2. CASE Len(ns) # 0
            BY <1>1, <1>3, <3>2
        <3>3. QED
            BY <3>1, <3>2
    <2> DEFINE found == Leading(results)
    <2>2. found \subseteq DOMAIN results
        BY DEF Leading
    <2> HIDE DEF results, found
    <2>3. \A i \in DOMAIN results : results[i] \in Range(results)
        BY DEF Range
    <2>4. CASE found = {}
        BY <2>1, <2>3, <2>4 DEF First, found
    <2>5. CASE found # {}
        <3>1. \E i \in found : \A j \in found : i <= j
            <4>1. found \in SUBSET Nat
                BY <1>1, <1>3, <2>2
            <4>2. QED
                BY <2>5, <4>1, LeastExists
        <3>2. Min(found) \in found
            BY <3>1 DEF Min
        <3>3. QED
            BY <2>2, <2>3, <2>5, <3>2 DEF First, found
    <2>6. QED
        BY <2>4, <2>5 DEF found
<1>5. QED
    <2> HIDE DEF results
    <2>1. CASE results = <<>>
        BY <1>1, <1>2, <1>3, <2>1
    <2>2. CASE results # <<>>
        BY <1>1, <1>2, <1>3, <1>4, <2>2
    <2>3. QED
        BY <2>1, <2>2

LEMMA StatusKept == PollsTyped /\ StatusInv /\ [ConsoleNext]_consoleVars => StatusInv'
<1> SUFFICES ASSUME PollsTyped, StatusInv, [ConsoleNext]_consoleVars
             PROVE  StatusInv'
    OBVIOUS
<1>1. ASSUME UNCHANGED <<nodes, shown>>
      PROVE  StatusInv'
    BY <1>1 DEF StatusInv
<1>2. CASE UNCHANGED consoleVars
    BY <1>1, <1>2 DEF consoleVars, pollVars
<1>3. CASE ClusterStep
    BY <1>1, <1>3 DEF ClusterStep, pollVars
<1>4. CASE KVStep
    BY <1>1, <1>4, FormApart DEF pollVars
<1>5. CASE Frame
    BY <1>1, <1>5 DEF Frame
<1>6. CASE Tick \/ Refresh
    BY <1>1, <1>6 DEF Tick, Refresh, StartPoll
<1>7. ASSUME NEW s \in Slot, GoesOn(s)
      PROVE  StatusInv'
    BY <1>1, <1>7 DEF GoesOn, PollGoesOn, ReadRole, ReadTerm, HealthFails, PollStep
<1>8. ASSUME NEW s \in Slot, Returns(s)
      PROVE  StatusInv'
    <2> DEFINE rs == [i \in DOMAIN nodes |-> polls[s][i].response]
    <2>1. shown' = ClusterStatus(nodes, rs) /\ UNCHANGED nodes
        BY <1>8 DEF Returns, PollReturns
    <2>2. nodes \in Seq(ClusterNode)
        BY NodesAssumption DEF PollsTyped
    <2> HIDE DEF rs
    <2>3. QED
        BY <2>1, <2>2, StatusFits DEF StatusInv
<1>9. QED
    BY <1>2, <1>3, <1>4, <1>5, <1>6, <1>7, <1>8 DEF ConsoleNext, PanelStep

LEMMA StatusStarts == ConsoleInit => StatusInv
BY DEF ConsoleInit, StatusInv

\* State variables keep their types, calls and results those of api.ts.
THEOREM ConsoleTypeCorrect == ConsoleSpec => []ConsoleTypeOK
<1>1. FormInv /\ PollsTyped /\ SpinnerInv /\ FieldsInv /\ RepliesInv /\ LogInv /\ StatusInv
      => ConsoleTypeOK
    <2> SUFFICES ASSUME FormInv, PollsTyped, SpinnerInv, FieldsInv, RepliesInv, LogInv, StatusInv
                 PROVE  ConsoleTypeOK
        OBVIOUS
    <2>1. panel \in Panel /\ loading \in BOOLEAN
        BY DEF SpinnerInv
    <2>2. timers \in 0..2 /\ copied \in BOOLEAN
        BY DEF FormInv
    <2>3. setResult \in SetResponse \cup {NoResult} /\ getResult \in GetResponse \cup {NoResult}
        BY DEF RepliesInv
    <2>4. /\ key \in Key /\ value \in Value /\ getKey \in Key
          /\ \A c \in calls : c.kind \in {"set", "get"} /\ c.id \in 1..MaxOps
        BY DEF FieldsInv
    <2>5. polls \in [Slot -> {NoPoll} \cup [DOMAIN nodes -> Reading]]
        BY DEF PollsTyped
    <2>6. \A s \in Server : applied[s] <= Len(committed)
        BY DEF LogInv
    <2>7. QED
        BY <2>1, <2>2, <2>3, <2>4, <2>5, <2>6 DEF ConsoleTypeOK, StatusInv
<1>2. QED
    BY <1>1, FormStarts, FormKept, SpinnerStarts, SpinnerKept, WordsStart, WordsKept,
       StatusStarts, StatusKept, PTL DEF ConsoleSpec
=============================================================================
