# Verification of the replicated key-value store

TLA+ models of the Raft implementation in `src/raft` and of the web console in
`src/src` that shows it, the TLC runs that check them on small instances, and
theorems about elections, replication, the failure simulation and the web site
that TLAPS checks for instances of any size. Line numbers refer to the files under `src/`.

## 1. The system

A node is one process (`src/cmd/node/main.go`): a Raft instance (`src/raft`), a
map (`src/kv`) that an applicator goroutine feeds from a channel, an HTTP API,
and a gRPC server for the other nodes. A browser client talks to the HTTP API.

| component | state | operations | talks to |
|---|---|---|---|
| leader election, `raft/election.go` | `currentTerm`, `votedFor`, `state`, `lastHeartbeat`, one `votes` map per election | `runElectionTimer`, `StartElection`, a goroutine per vote asked for, `RequestVote`, `becomeLeader` | peers by gRPC; storage |
| log replication, `raft/log.go` | `log`, `commitIndex`, `lastApplied`, `nextIndex`, `matchIndex` | `runHeartbeatLoop` and a goroutine per call, `AppendEntries`, `updateCommitIndex`, `applyLogs`, `StartCommand` | peers by gRPC; storage; the applicator by `applyCh` |
| persistence, `raft/persistence.go` | a BoltDB file: term and vote, log entries under `entry_<i>` with `next_index`, snapshot | `SaveRaftState`, `LoadRaftState`, `AppendLogEntry`, `TruncateLog`, `GetLogEntries`, snapshot operations | the file |
| snapshots, `raft/raft.go` | `lastIncludedIndex`, `lastIncludedTerm` | `GenerateSnapshot`, `InstallSnapshot` | storage; nothing calls them |
| membership, `raft/membership.go` | a map of `PeerInfo` | `AddPeer`, `ConfirmPeer`, `RemovePeer`, `AppendMembershipChange`, `ApplyMembershipChange` | log and HTTP handlers; elections do not read it |
| connection pool, `raft/raft.go` | `conns` | `getConn` | gRPC |
| key-value store, `kv/store.go` | a map | `Set`, `Delete`, batches, `Serialize`, `Restore`, reads | applicator, HTTP handlers |
| HTTP API, `cmd/node/main.go` | none | `/set`, `/delete`, `/batch/*`, `/add-peer`, `/remove-peer`, reads | Raft, store, membership |
| browser client, `src/src/lib/api.ts` | the list of nodes | `set`, `get`, `getClusterStatus` | HTTP API |
| console panels, `kv-operations.tsx`, `cluster-status.tsx`, `dashboard.tsx` | fields, results, spinners, the last status, timers | submit, type, copy, poll, refresh, count up | browser client |
| failure simulation, `failure-lab.tsx` | roles, term, partition, status, timeline | four drills that run from timer to timer | the picture |
| cluster picture, `cluster-viz.tsx` | none | lines, packets, pulses, labels computed from nodes and partition | |
| site server, `server.ts`, `start.ts`, `lib/error-*.ts` | the promise of the server entry, the last captured error | `fetch`, `errorMiddleware`, `consumeLastCapturedError` | the framework, browsers |
| pages, `routes/*` | what each browser shows, the intervals of its panels | follow a link, load, fail, try again | site server, panels |
| sidebar, `ui/sidebar.tsx` with `use-mobile.tsx`; carousel, `ui/carousel.tsx` | open, sheet, cookie, listener; flags, handlers | toggle, resize, reload; scroll | window; Embla |
| metrics, RPC code, other widgets of `ui/` | counters; none; none | | |

One mutex, `rf.mu`, guards a node's Raft state. A goroutine gives it up around
every remote call, so the interleavings that matter are those of whole critical
sections; in the models a step is one critical section. gRPC delivers a call at
most once and in no particular order relative to other calls; a call may fail
before or after the handler ran.

What is hard here, and what must hold all the same:

* **Elections.** Votes return when the candidate may be in another term; the
  election timer acts on a test it made before giving up the lock; a server may
  restart between voting and answering; a write of the vote may fail. At most
  one vote per server and term, at most one leader per term, no leader without
  an election won, terms never go back.
* **Replication.** Several calls to one peer may be under way, answered in any
  order; leaders of different terms write to one follower. Logs that agree on an
  entry agree on what precedes it; what is committed stays; state machines get
  one sequence; what a leader believes of a peer is true.
* **Restart.** Term, vote and log are read back from the file. The node must
  come back with what it had promised.
* **Progress.** What the leader of the latest term took in reaches every state
  machine as long as heartbeats go on.
* **Console.** The panels await requests that fail, end late and overtake each
  other, to servers that lead, follow, end and restart meanwhile. A spinner must
  end, nothing typed may be lost, a read shows what was set, and when the cluster
  rests the panels come to show it as it is.
* **Failure simulation.** Drills are handlers that hold the term and the nodes
  of an old render over several timers. One leader or an announced election,
  terms in order, a picture that is one of its roles, elections and recoveries
  that are announced while they run, a timeline that contradicts neither.
* **Site.** First requests race to import the server entry, errors are captured
  globally and consumed after an await, timers belong to panels that come and go.
* **Widgets.** Listeners close over an earlier render until effects have run.
* **Around the core.** A snapshot must not change what an index means; a
  membership change has two steps; a batch is not atomic; HTTP answers before a
  command is committed.

`PROJECT.json` lists these hazards by line, with the properties that cover them
or the reason why none does.

## 2. Modules

| module | models | extends |
|---|---|---|
| `Election` | `election.go`, the term and vote on disk | |
| `Storage` | the log bucket of `persistence.go`, as operators on a sequence | |
| `Raft` | `log.go`, restart in `raft.go` | `Election`, `Storage` |
| `ReplicatedLog` | abstract: one log that grows, delivered to every server in order | |
| `Roles` | abstract: who leads which term, the promise of elections to the layers above | |
| `ApiClient` | `api.ts` without its requests, as operators | |
| `Console` | the panels of the console, and the HTTP handlers they talk to | `ApiClient`, `Roles` |
| `ClusterViz` | `cluster-viz.tsx`, as operators on nodes and partition | |
| `FailureLab` | `failure-lab.tsx` | `ClusterViz` |
| `Succession` | abstract: leaders are lost and elected, term by term | |
| `Site` | server entry, error handling, pages | |
| `Sidebar`, `Carousel` | the two widgets with state | |
| `MCElection`, `MCRaft`, `MCLeaders`, `MCStaleAck`, `MCConsole`, `MCSite` | instances for TLC | |
| `ElectionProofs` | `Election`: types, votes, terms | `Election` |
| `ElectionLeaderProofs` | `Election`: leaders; it implements `Roles` | `ElectionProofs` |
| `RaftProofs` | `Raft`: types, that its elections are those of `Election`, terms on disk | `Raft`, `ElectionLeaderProofs` |
| `RaftLogProofs` | `Raft`: logs match, leaders know their peers | `RaftProofs` |
| `RaftCommitProofs` | `Raft`: what is committed stays; `Raft` implements `ReplicatedLog` | `RaftLogProofs` |
| `ConsoleProofs` | theorems about the panels of the console | `Console` |
| `FailureLabProofs` | theorems about `FailureLab` | `FailureLab` |
| `SiteProofs` | theorems about server and pages, sidebar, carousel | `Site`, `Sidebar`, `Carousel` |

### Election

`currentTerm`, `votedFor`, `state` are the fields; `saved[n]` is what
`SaveRaftState` left on disk; `votes[n][t]` is the map the goroutines of n's
election for t share. `timer[n] = "expired"` is the gap in `runElectionTimer`
between the test (election.go:180-199) and `StartElection`, which takes the lock
again and tests nothing. `voteReqs` and `voteReps` are calls and replies under
way. `ballots` and `elected` are history.

`TimerExpires`, `StartElection`, `HandleRequestVote`, `HandleVoteReply` and
`RestartElection` are the critical sections of the code. A vote reply is handled
under one of three outcomes: ignored, of a newer term, counted. `ObserveTerm`
stands for the effect of AppendEntries requests and replies that carry a newer
term; in `Raft` they are actions, and a run checks that what they do to the
election is that.

`Persist(n, writes)` is the sequence of `SaveRaftState` calls of a handler. The
code logs a failed call and goes on, so up to `MaxDiskFaults` of the last ones
may be missing.

`StaleReplies` is an environment switch. `TRUE` is the code: a reply may be
handled however late. `FALSE` restricts the network to replies that arrive while
the caller is in the term of its call. The code relies on that restriction
without enforcing it (section 5), and properties that need it are checked under
it. It holds for replies to votes and to AppendEntries alike.

### Raft

`Raft` conjoins the election actions with their effect on the log: the tip a
candidate sends, the verdict of `isLogUpToDate`, the reset of `nextIndex` and
`matchIndex` by `becomeLeader`. `AppendEntries` has the four outcomes of the
handler: outdated term, previous entry missing, previous entry conflicting
(truncation), accepted (merge, persist, commit, apply). `ReceiveAck` has the four
outcomes of the reply. `applied[n]` is what went to `applyCh`.

An AppendEntries call occupies a slot from sending to the handling of its reply:
two identical calls are two calls, and `MaxInFlight` bounds them. A lost call is
either a lost request or a lost reply.

On disk the handler appends every entry of a request, and the truncation loop
calls `TruncateLog` for the indexes below the conflict; `Storage` models what
that leaves. The keys of the bucket have no gap, so it is a sequence.

`ledger` and `acked` are history, which no guard and no other variable reads:
`ledger[t]` is the log of the leader of term t, as long as it has been, and
`acked[n][t]` how much of it n has acknowledged in that term. The proofs speak of
the past with them.

### Roles, ApiClient and Console

`Roles` says of elections what everything built on them may use: terms go up, a
new term finds a server a follower, and a server comes to lead only in a term
nobody else leads. `Election!RolesSpec` states that the election implements it
(`leads` is `state = "Leader"`), and `Console` is built on it: its `NewTerm` and
`Elected` are the steps of `Roles`, beside ends and restarts of processes, and
one log whose entries are committed, lost or applied.

`ApiClient` has the list of nodes (`parseEnvNodes` or the defaults), the address
a request goes to, and what each method makes of an answer. A fetch that fails is
the answer `Failed`.

In `Console` a call is under way from the handler's `fetch` (`HandleSet`,
`HandleGet`) through the server's handler (`ServeSet`, `ServeGet`, or
`RequestFails` before or after it) to the rest of the handler (`Returned`), in
which results, fields and spinner change in one render. A reading of the status
is one entry of `polls`: each node's `/health` reads role and term in two steps
(main.go:498-504, raft.go:357, 385), `Promise.all` waits for all of them, and the
interval starts the next reading whether or not the last has returned.
`HealthFails` has what api.ts:160-170 makes of trouble: nobody listens; a server
that runs is asked in vain or answers with an error (`Failed`, the node is shown
as down); its answer breaks off in the body (`NoInfo`, the node is shown as up, with
role and term of the configuration). `elapsed` is the time the overview's counters
have drawn.

A text is a sequence of words, because the applicator splits commands at spaces;
one word or two, and blank, are what its split and the checks for blank tell
apart.

### ClusterViz, FailureLab and Succession

A drill is a record in `drills`: its handler, the timer it awaits, and the leader
and term of the render in which it was clicked. `ClickCrash` and the other clicks
are the handlers up to their first await, `TimerFires` the code from one timer to
the next await. `busy` is the only thing that keeps drills apart, as in the code.
`Remount` is leaving the page and coming back: state starts again, timers are
cleared. `Label` stands for the wording of an event, `Emit` keeps the newest
eight.

`ClusterViz` computes lines, packets, severed lines, pulses and labels from roles
and partition. `Succession` is what the simulation promises to show, with the
liveness that a lost leader is replaced; `FailureLab!SuccessionSpec` is the
refinement, with the leader that the picture finds and the term shown.

### Site, Sidebar, Carousel

`Site` has requests as records that go from await to await: import of the server
entry (`entry` is the promise, of which there is one), `handler.fetch`, reading
of a swallowed body, `consumeLastCapturedError`. What is thrown has a kind that
tells where and with what fields; `ErrorMiddleware` and `ByFramework` say what
comes of it. Framework and router are external: they render the route or throw, and
put one page in the place of another. A browser
shows a screen; loading, following links, a component that throws, "try again"
and "go home" change it, and with it mount and unmount panels, each with one
interval. `GlobalEvents` says whether the runtime has
`globalThis.addEventListener`: Node, for which `vite.config.ts` builds, has none
and captures nothing there; the run takes the runtimes that have it.

`Sidebar` and `Carousel` make a render and the run of its effects steps of their
own where an event can come in between. A listener is what it closed over.
`Layout` is what is displayed of the sidebar, and has both of its causes: what
`useIsMobile` has rendered, and the styles `hidden md:block` and `md:flex`
(sidebar.tsx:216, 235), which hide the panel in a narrow window before anything is
rendered. Until the width is rendered a narrow window shows nothing, and Ctrl-B
turns a panel that is not displayed and writes its cookie; `ShortcutToggles` speaks of
the time after that.
`collapsible`, a controlling parent that accepts or refuses, and a window that
crosses the breakpoint are all there. Embla, the carousel's library, is external:
it knows the slides, and calls the handlers that were registered. No page mounts
either widget at this commit; they are the two of the kit that keep state.

### What the models leave out

* Time. A time-out may pass at any moment; `lastHeartbeat` only delays it.
* `leaderId`, which no decision reads.
* Snapshots: nothing calls the operations, so `lastIncludedIndex` is 0.
* Failure of `AppendLogEntry` and `TruncateLog`.
* A crash inside a handler. Before its last write it is a crash with the
  message lost, after it a crash with the reply lost, except between two writes
  of one handler: between the two writes of `RequestVote` the disk holds the new
  term without a vote, as if the message had carried only the term.
* A refused vote without a newer term: its receiver does nothing
  (`VoteReplyIgnored`), so the reply is not kept.
* In `Console`, which server takes an entry over: one log is assumed, which
  `OneLog` is about, and terms and leaders of `Roles`.
* In the pages, layout, wording, animation and the panels with fixed figures.
  Clipboard, cookies and the media query are assumed to work. `narrow` is the
  window's width for `window.innerWidth`, the media query and the style sheet
  alike; the hook listens to `max-width: 767px` and reads `innerWidth < 768`, and
  a fractional width between the two, which zooming can produce, is left out.
* Reports of errors to the hosting service (`lovable-error-reporting.ts`), which
  nothing reads.
* `int32` overflow of terms and indexes: the bounds are far below.
* The sharing of `rf.log`'s array between the log and a request that gRPC is
  still encoding (log.go:64). A request carries a copy here.

## 3. Runs

Every run finishes within a few minutes with two workers.

| run | what it explores | what it shows |
|---|---|---|
| `raft_leaders` | 3 servers in three directions. Elections alone from the start: 2 terms, 3 elections, 1 restart, late replies. From two leaders with conflicting entries, logs of 2: a third election with 2 failed calls; or 2 calls at once | elections: types; one vote per term; granted votes are on disk; leaders won an election; no won election goes unnoticed; terms never go back. Logs: log matching; leaders have what is committed; state machines agree; what is committed is on a majority; `matchIndex` is true; commit indexes never go back; refinement of `ReplicatedLog` |
| `raft_restart` | 3 servers from the start, 2 elections, 1 restart anywhere, timely replies | types; one leader per term; entries never outlive the saved term; refinement of `ElectionSpec` and of `Roles` |
| `raft_progress` | the two leaders, late replies, 1 failed call, fairness | a leader's own entries reach every state machine |
| `console` | each panel, 2 servers, 4 lists of nodes, 2 submissions, up to 3 changes of the cluster or readings lost, readings that overlap | types; spinners and ticks are true; reads show what was set; nothing typed is lost; calls end; panels converge |
| `site` | simulation: 5 nodes, 5 clicks. Site: 3 visits, 2 faults. Sidebar, carousel: 5 inputs | simulation: one leader, status, timeline and picture true, refinement of `Succession`, drills end. Site: answers fit, one import, errors logged once, requests answered, timers of the page. Widgets: layout, shortcut, buttons |
| `election_split`, `election_single`, `election_disk_fault`, `raft_even`, `raft_stale_ack`, `raft_crash`, `console_set` | see section 5 | one disagreement of code and documentation each |

**Bounds.** Three servers is the smallest cluster in which a majority is not
everybody. Two terms let an old leader meet a new one; three elections let one
candidate stand twice against another, which is what a late vote needs. Logs of
two entries let a log be longer yet older than another, and give two calls under
way different entries to carry. `MCLeaders` explores the third election and the
second call in two directions of one run, because their product is too large
(`FewCalls`), and the elections by themselves in a third: there, and only there,
`Election` is instantiated with `StaleReplies = TRUE` (`Late`), a restart, two
terms (`LastTerm`) and logs that are alike, what `isLogUpToDate` says being a choice
of `Election`. With one call at a time a reply that nobody may handle any more
would block everything, so such replies may be lost, one for each leader that can
be deposed (`TooLate`). `MaxLog = 1` and `MaxLosses = 0` in `raft_restart` pay for
the restart; with a failed call the log that finding 5 duplicates would outgrow
the bound. One restart suffices for "vote, restart, vote again". The Raft runs
that are not about stale replies have `StaleReplies = FALSE`: otherwise the
split of section 5 breaks everything built on a single leader.

Two servers are enough for the console, which only ever asks one server per
address; each list of nodes in `AllPanels` is there for a case of `api.ts`: the
defaults with a node that is not running, hosts and ports to be filled in, one
node, and no nodes. Each of the three panels that show a status is opened with a
node and two readings under way at once, so that they overtake each other while it
changes; the product with two nodes is too large, and those are read one reading
at a time. Two changes let a server lead and end, end and come back, or come back
to a reading that is lost. Five clicks let every drill follow every
other and the page be left in between; five nodes are those of the code, on the
sides where it draws them. Two faults let one request fail while another does.
Five inputs let the sidebar be resized, toggled, reloaded and toggled again.

`MCSite` puts the four parts side by side: they share no state, so a behaviour
runs one of them and the others rest.

**`TwoLeaders`.** Conflicting logs need two elections and several messages
before anything interesting happens. `MCRaft!TwoLeaders` is a state that
`RaftSpec` reaches: n1 won term 1 with n2's vote and took a command, n3's vote
coming too late to be counted, then n2 won term 2 with n3's vote and took one, and
n2's call to n1 for its vote is still under way: 12 steps. Runs that start there go
one election deeper. `MCStaleAck!Deposed` is a state of the same kind, 38 steps from
the start: three elections among five servers, n1 leading again and a reply to its
first leadership under way.

**Reductions.** `NoHistory` is a VIEW without `ledger` and `acked`, which nothing
reads. `NoDisk`, and `NoDiskEither` with the direction, leave out the log bucket
as well and are used only where nothing reads it either: in behaviours without
restarts, or, in the elections of `raft_leaders`, without entries. `Prompt` leaves
out of the Raft runs the gap between an expired timer and its election, which the
elections of `raft_leaders` and the Election runs explore. Servers are symmetric where the initial state is. Deadlock checking is
off because the bounds on elections, clicks, visits and inputs stop the models;
the program itself never stops.

**Fairness** (`Raft!Fairness`, `raft_progress`). The ticker of `runHeartbeatLoop`
starts a goroutine for every peer every interval for as long as the node leads,
so for each peer the call to it is strongly fair (a slot may be taken by another
call, a limit of the model and not of the code, and the code gives every peer its
goroutine). gRPC answers a call or fails it within 10 s, so requests and replies
under way are weakly fair. Elections, timers, commands, losses and restarts have
no fairness.

In the browser only what the runtime does by itself is fair. `Console`: a fetch
settles and its handler goes on (`Answered`, `Returned`), intervals, timers and
animation frames fire (`Tick`, `CopyTimer`, `Frame`), each reading of the status
goes on and returns. `FailureLab`: timers fire (`TimerFires`). `Site`: the server
runs the requests it has (`ServerWorks`). Clicks, faults and what happens in the
cluster have no fairness. `StatusConverges` says nothing of a cluster that never
rests; the bound on its changes, which lost readings of a running server use up as
well, makes it rest.

**Mutants.** Beside operators of the models stand the forms a
plausible mistake would give them (a dropped test, an off-by-one, a missing save),
marked as mutants. Each property is violated when one of them is put in place of
its original; `PROJECT.json` says which. They are used nowhere else.

## 4. Theorems

TLAPS checks these for any finite, non-empty set of servers and any bounds, those
about the console for any servers that bear numbers, any configurations of any
length and any words, those about the simulation for any number of nodes from two, any sides and any clicks,
those about the site for any browsers, addresses, slides and bounds, with or without
global error events. The constants that stand for `null` and `undefined` are assumed to be no
value of the type they are missing from. That `parseEnvNodes` returns a list of
nodes is assumed too (`NodesAssumption`): it comes from `SelectSeq`, which is
recursive. TLC evaluates these assumptions for the instances.

| theorem | states | assumes |
|---|---|---|
| `TypeCorrect` | `ElectionTypeOK` | |
| `VotesUnique` | `VoteOnce` | writes succeed |
| `TermsMonotone` | `TermMonotone` | writes succeed |
| `GrantsDurable` | `GrantDurable` | writes succeed |
| `LeadersBacked` | `LeaderBacked` | writes succeed |
| `OneLeaderPerTerm` | `ElectionSafety` | writes succeed, no stale replies |
| `MajoritiesLead` | `MajorityLeads` | at least two servers |
| `ElectionsAreRoles` | `RolesSpec` | writes succeed, no stale replies |
| `RaftTypeCorrect` | `RaftTypeOK` | |
| `RaftElects` | the safety part of `ElectionSpec` | writes succeed |
| `RaftElectsOne` | `ElectionSafety`, of `Raft` | writes succeed, no stale replies |
| `RaftPlaysRoles` | `RolesSpec`, of `Raft` | writes succeed, no stale replies |
| `EntriesAreSaved` | `EntriesOfSavedTerms` | writes succeed |
| `LogsMatch` | `LogMatching` | undisturbed |
| `MatchesSound` | `MatchSound` | undisturbed |
| `CommitsAdvance` | `CommitMonotone` | undisturbed, odd |
| `CommitsHeld` | `CommitOnMajority` | undisturbed, odd |
| `LeadersAreComplete` | `LeaderCompleteness` | undisturbed, odd |
| `MachinesAgree` | `StateMachineSafety` | undisturbed, odd |
| `ClusterIsOneLog` | `OneLog` | undisturbed, odd |
| `ConsoleTypeCorrect` | `ConsoleTypeOK` | |
| `SpinnerAlwaysTrue` | `SpinnerTrue` | |
| `ReadAlwaysTrue` | `ReadTrue` | |
| `TypedAlwaysKept` | `TypedIsKept` | |
| `OneLeaderAlways` | `OneLeaderShown` | |
| `StatusAlwaysTold` | `StatusTold` | |
| `PictureAlwaysTrue` | `PictureTrue` | |
| `LeadersSucceed` | the safety part of `SuccessionSpec` | |
| `LabTypeCorrect` | `LabTypeOK` | |
| `TimelineAlwaysTrue` | `TimelineTrue` | |
| `EntryAlwaysLoadedOnce` | `EntryLoadedOnce` | |
| `ErrorsAlwaysLoggedOnce` | `ErrorsLoggedOnce` | |
| `AnswersAlwaysFit` | `AnswerFits` | |
| `PollsAlwaysOfPage` | `PollsOfPage` | |
| `LayoutAlwaysFits` | `LayoutFits` | |
| `ShortcutAlwaysToggles` | `ShortcutToggles` | |
| `ButtonsAlwaysTrue` | `ButtonsTrue` | |

"Writes succeed" is `MaxDiskFaults = 0`, "no stale replies" is
`StaleReplies = FALSE`; "undisturbed" is both, and `MaxRestarts = 0`; "odd" is
`Cardinality(Server) % 2 = 1`. Each of these is there because the code needs it:

* failed writes, finding 2: `election_disk_fault` violates `VoteOnce`;
* stale replies, findings 1 and 4: `election_split` violates `ElectionSafety`,
  `raft_stale_ack` commits what a majority does not have;
* restarts, finding 5: the log a restart loads may have entries twice
  (`raft_crash`), and then neither what a leader believes of its peers nor the
  index of an entry means what it did;
* even clusters, finding 3: `raft_even` commits what half of the servers have;
* single servers, finding 7: `election_single` violates `MajorityLeads`.

Calls that are lost, repeated, delayed or overtake each other are in all of them:
the theorems hold for every `MaxLosses` and `MaxInFlight`.

### Elections

*Types.* `ElectionTypeOK` is inductive as it stands: it says of calls that they
go between different servers, and `PersistTyped` covers every pattern of failed
writes.

*Votes.* `VoteOnce` is not inductive: nothing in it keeps a server from voting in
a term it has left, or a restart from bringing back an older vote. `VoteInv` adds
two facts. `SavedCurrent`: between two critical sections disk and memory agree on
term and vote, so a restart changes neither; `PersistLast` is where the absence
of write failures is used. `BallotsPast`: a server's ballots are of terms it has
reached, and the one of its present term is its `votedFor`. Both are kept by any
step that satisfies `VotesKept` (terms do not go back, a vote is kept within a
term, a new ballot is the voter's present vote), and each action is shown to
satisfy it. `TermsMonotone` is one of its conjuncts.

*Leaders.* `LeaderInv` adds that replies that grant a vote, and votes that are
counted, are ballots that were cast (`GrantsCast`, `CountsCast`), that calls are
of terms their callers have reached (`CallsPast`), and that each leader won an
election of its own or an earlier term, of its own if replies are not stale
(`LeaderWon`). Two majorities share a server (`MajoritiesMeet`), which voted once:
`OneLeaderPerTerm`.

*Roles.* Every step of `Election` moves one server at most (`Moves`): it rises to
a later term as no leader, falls, or wins. `LeadersElected`, who leads is in
`elected` with its present term, is kept by such moves, and a winner that met a
leader of its term would contradict `OneLeaderPerTerm`. `SavedCurrent` makes a
restart a fall and not a change of term.

### Replication

*Types.* `RaftTypeOK` is inductive. Its hard part is the index that a leader
commits: that sorting has something in the middle (`MajorityIndexExists`) rests on
the least element of a set of numbers, which `LeastExists` gets from
`NatLessThanWellFounded` and `WFMin` of the library.

*Elections of Raft.* `RaftElects` shows each action of `Raft` to be one of
`Election` or to leave the election alone; AppendEntries and its replies are
`ObserveTerm`, because a call is of a term its sender has reached (`CallsBehind`).
All theorems about `Election` hold of `Raft` by that, and `RaftElectsOne` and
`RaftPlaysRoles` say so of two of them. Writes have to succeed: a server that forgets a term at a restart has
calls under way that are of a later term than its own, and `ObserveTerm` knows of
none.

*Terms on disk.* `EntriesReached`: entries in memory, on disk and in calls are of
terms the server, or the caller, has reached; with `SavedCurrent` this is
`EntriesAreSaved`.

*Logs.* `LogMatching` speaks of two logs at one moment, but entries travel in
calls that may be old, written by leaders that are gone. `LogInv` therefore says
of everything that it is put together from what leaders held: `From(l, ledger)`,
each entry of l, with all that precedes it, is in the ledger of its term. This holds
of logs (`LogsFrom`), of the ledgers themselves (`LedgerSound`) and of what calls
carry (`CallsFrom`). A leader's log is the ledger of its term (`LeaderLog`), so
that ledgers only grow: here one leader per term is used. Logs put together that way match.
What is acknowledged in a term is held until a later term takes it away
(`AckedHeld`), replies tell no more than that (`RepliesTrue`), and a leader's
indexes rest on replies (`LeaderKnows`): `MatchSound`.

*Commitment.* The argument is about entries of a leader's own term, since an
older entry that is on a majority may still be replaced. Such an entry is `Chosen`
when a majority has acknowledged it in its term, and `Doomed` when a majority has
gone to later terms without. Both are for good, and no entry is both.
`CommitInv` says that what a server has acknowledged it has, or the entry is
doomed (`AckedKept`); that a leader has every own entry of earlier leaders that is
not doomed (`LeadersComplete`); that the log of a candidate has what its voters
acknowledged (`VotersKnown`, with `TipsTrue` for requests under way, whose
`isLogUpToDate` test compares tips); and that commit indexes, those in calls and
what was applied end in chosen entries (`CommitsSound`, `CallsSound`,
`AppliedSound`). A vote is granted to a log at least as recent as the voter's, which has
what the voter has (`UpToDateHas`, `GrantKnows`); when an election is won either
a voter knew the entry or the voters are the majority that dooms it
(`WinnerComplete`). `updateCommitIndex` commits only up to an entry of the leader's
own term (`MajorityChosen`), at an index that half of the servers or more have
reached, which is a majority if their number is odd (`MiddleReached`). The theorems
follow, since chosen entries are in every later leader's log.

*One log.* `ReplicatedLog`'s log is the longest of the applied sequences; all the
others are prefixes of it (`LongestCovers`), so a step that applies entries either
delivers part of the log or extends it first.

TLC checked `Base /\ OwnVotes /\ LogInv /\ CommitInv` as an invariant of the
instance of `raft_leaders` before it was proved (1.3 million states), with
`Nat` replaced by the indexes of that instance.

### Console

*Form.* `Awaited`: while the form is `loading` exactly one request is awaited, and
the fields are as it was sent with; otherwise none is. That is what disabled fields
and buttons are for, and `TypedIsKept` follows. A tick has a timer (`FormInv`).

*Spinner.* `SpinnerInv`: if the status panel is loading, some reading is under way.
A reading that returns stops the spinner of all, so the converse does not hold.

*Reads.* What is in a request, with a leader, in the log and in an answer was sent by
the form (`FieldsInv`, `LogInv`, `RepliesInv`). A map holds the last entry applied
under a key (`StoredFits`, by `LastExists`), and the applicator's split gives a
command back if its key is one word (`SplitFits`). Without that hypothesis `RepliesInv`
fails: the rest of a key of two words would be read as part of a value.

*Status.* `ClusterStatus` returns a list as long as the configuration and a leader
of that list (`StatusFits`), which `StatusInv` keeps.

### Simulation

`LabInv`: `busy` is true exactly while one drill runs (`OneDrill`), so no two
handlers are apart by an await; the status is that of the drill under way and of a
cluster at rest without one (`StatusInv`); those who stand as candidates are the
ones the running drill chose (`CandidatesChosen`), so that its end leaves none.
With these each timer finds the roles its drill left, and `OneLeaderShown` is
kept; `PictureTrue` follows from it by what `find` returns (`LeaderFound`).

`RowsInv`: rows go on top with keys that go up, which the eight that are kept
preserve. `TimelineInv`: read downwards the terms named never rise, none is later than
the term shown, or than the next one while an election for it is announced
(`TopTerm`); the drill under way knows the term shown (`TermsKnown`), so
the handler's old render names no old term; and the newest row is of the drill
that runs, or of the one that ended (`NewestRow`), which gives it its colour.

### Site and widgets

*Server entry.* `EntryInv`: `import()` was called once if the promise is there, and
not if it is not, so whoever finds it pending awaits the same one.

*Captured errors.* An error is named by the faults that are left when it happens,
so no later one has its name. `CapturedInv`: what was logged is no error that may be
logged yet, because consuming takes it out, and an error that has grown old or was
lost with the process does not come back.

*Answers.* `RequestsInv`: a handled request has one of the answers for what was
thrown; `OutcomeFits` shows that the only ones `server.ts` must replace have a body
it reads. `PageSteps` sums up what any step does to pages (answers, asks, turns,
restart), on which `FitsKept` and `TimersKept` rest. `PollsOfPage` is inductive
with it, since a page that is left and a page that is shown clear and set the same
timers (`TimersTurn`), and a document starts with none (`TimersStart`).

*Sidebar.* `WidthInv`: once the listener is there, a width that is not rendered is
on its way, as an event or as a state to be set. `ListenerInv`: unless effects are
due the key listener has closed over what was rendered last, so that one call of
`toggleSidebar` (`ToggleOnce`) turns, once the width is rendered, what is displayed.

*Carousel.* `CarouselInv`: from the effects of the render with an API on, Embla's
events reach `onSelect`, and the flags it gave last are shown or will be (`InStep`).

### Only model-checked

Every invariant and every action property of the passing runs is stated by a theorem,
those of the elections and the log under the assumptions of the table. Out of the
prover's reach are the liveness properties (`OwnEntriesApplied`, `OperationsEnd`,
`StatusConverges`, `DrillEnds`, `RequestsAnswered`, the fairness part of
`SuccessionSpec`).

## 5. Findings

1. *Stale votes* (`election_split`). The goroutine that receives a vote tests
   only `rf.state` (election.go:66). A candidate that lost term 1 and stands
   again in term 2 counts a late vote of term 1 in the map of that election, and
   if that makes a majority becomes leader of term 2, beside the one elected
   there.
2. *Failed writes* (`election_disk_fault`). A vote whose `SaveRaftState` failed
   is granted; after a restart the server votes again in that term.
3. *Even clusters* (`raft_even`). `matchIndexes[n/2]` of the ascending order is
   reached by only half of the servers when their number is even (log.go:280).
4. *Stale acknowledgements* (`raft_stale_ack`). The goroutine that receives an
   AppendEntries reply tests only `rf.state` as well (log.go:91). n1 sends two
   entries to n2, is deposed by n3, whose entry replaces them at n1 and n2, and
   leads again: the reply from n2, up to ten seconds late, sets `matchIndex` to 2,
   where n2 has one entry, and with one more server n1 commits its second entry on
   two of five. Of three servers one reply is a majority by
   itself, and it takes more elections to go wrong.
5. *Logs on disk* (`raft_crash`). The handler persists every entry of a request,
   also those it already had (log.go:233): after a repeated request the bucket
   has an entry twice, and a restart loads it twice. The truncation loop
   (log.go:196) leaves other differences. `LogSurvivesCrash` fails, and no
   property of replication after a restart is claimed beyond those of
   `raft_restart`.
6. *Refused writes* (`console_set`). A server that does not lead answers `/set`
   with "Not Leader" and status 200 (main.go:127); `api.ts` takes any such answer
   for a success, so the console shows a set that nobody took as done. The API
   guide promises status 500. Since requests always go to the node that the
   configuration calls leader (api.ts:98), this is what happens after every
   change of leader.
7. *Clusters of one* (`election_single`). The votes are compared with
   `votesNeeded` only in the goroutine that receives a reply (election.go:82). A
   server without peers asks nobody, so its own vote, which is a majority, is never
   counted: it stays a candidate and starts one election after another. TESTING.md:90
   expects of a "single-node cluster" that the "Node becomes leader".

## 6. Not modelled

* *Snapshots.* No code of the program calls `GenerateSnapshot` or
  `InstallSnapshot`, so there is no behaviour to compose them with.
* *Membership.* Its map is read by no election and by no replication; the
  interest is in the handlers' three critical sections (main.go:193).
* *Rest of the HTTP API and of the store.* Deletion, batches, prefix and range
  reads, `Restore`.
* *Aliasing.* A request that is being encoded shares the array of `rf.log`
  (log.go:64); it takes the encoder's reads as steps.
* *Connection pool, metrics, RPC code.* Their effect on the rest is that calls
  fail, which is modelled; counters are read by nobody.
* *Other widgets of `ui/`.* Class names and properties passed on to libraries.
  The panels of the dashboard that draw fixed figures have no state.

## 7. What is left

To model: `LogAliasing`; `Membership`; the store with batches and `Restore`; the exchange
sort of `updateCommitIndex` against `MajorityIndex`.

To prove: of `Raft`, what a restart leaves true: a form of `LogMatching` that
survives finding 5 would have to be found first.
