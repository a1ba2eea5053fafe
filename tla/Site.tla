-------------------------------- MODULE Site --------------------------------
(***************************************************************************)
(* The web site around the panels: the server entry of src/src/server.ts   *)
(* with its error handling (start.ts, lib/error-capture.ts,                *)
(* lib/error-page.ts), and browsers that load documents from it, follow    *)
(* links and meet the error views of routes/__root.tsx.  The framework     *)
(* behind handler.fetch is external: it renders a route, or it throws.     *)
(* An action of the server is the code of a request from await to await.   *)
(***************************************************************************)
EXTENDS Naturals, FiniteSets

CONSTANTS Browser,
          Address,         \* what is typed into the address bar
          GlobalEvents,    \* does globalThis have addEventListener (Node has none)
          MaxVisits,       \* bound: what the users do
          MaxFaults,       \* bound: what fails
          NoError          \* undefined

\* What is undefined is not a captured error.
ASSUME SiteAssumption ==
    /\ IsFiniteSet(Browser) /\ MaxVisits \in Nat /\ MaxFaults \in Nat /\ GlobalEvents \in BOOLEAN
    /\ NoError \notin [error : Nat, fresh : BOOLEAN]

VARIABLES
    entry, imports,    \* serverEntryPromise, and how often import() was called
    captured,          \* lastCapturedError
    requests,          \* calls of fetch that have not returned
    view,              \* what each browser shows
    intervals,         \* how many timers poll the cluster for each panel
    logged,            \* history: what server.ts logged of swallowed errors
    visits, faults     \* what is left of the bounds

serverVars == <<entry, imports, captured, requests, logged>>
siteVars == <<serverVars, view, intervals, visits, faults>>
-----------------------------------------------------------------------------
\* routeTree.gen.ts, and the links of each page.  One of them leads nowhere.
Routes == {"/", "/dashboard", "/operations"}
SiteNav == {"/", "/dashboard", "/operations", "/logs"}
LandingLinks == SiteNav \cup {"/dashboard"}
ConsoleBar == {"/"}      \* the sidebar of the dashboard: its buttons lead nowhere
QuickOperations == {"/operations"}
Links(path) == CASE path = "/" -> LandingLinks
                 [] path = "/dashboard" -> ConsoleBar \cup QuickOperations
                 [] path = "/operations" -> {"/dashboard"}
                 [] OTHER -> {"/"}      \* NotFoundComponent

\* The panels of a page that keep a timer of their own while they are mounted.
Polling == {"ClusterOverview", "NodeCards", "ClusterStatusView"}
Dashboard == Polling \cup {"KVOperations", "FailureLab"}
Operations == {"ClusterStatusView", "KVOperations"}
Mounted(screen) ==
    IF screen.kind # "page" THEN {}
    ELSE CASE screen.path = "/dashboard"  -> Dashboard
           [] screen.path = "/operations" -> Operations
           [] OTHER -> {}

Screen(kind, path, cause) == [kind |-> kind, path |-> path, cause |-> cause]
Loading(path, id) == [kind |-> "loading", path |-> path, cause |-> "none", id |-> id]

\* The router shows the component of the route, or the one for no route.
PageOf(path) == Screen(IF path \in Routes THEN "page" ELSE "notFound", path, "none")

Response(status, json, body) == [status |-> status, json |-> json, body |-> body]
ErrorPage == Response(500, FALSE, "errorPage")
Rendered(path) == IF path \in Routes THEN Response(200, FALSE, "page")
                                     ELSE Response(404, FALSE, "notFound")

\* What h3 makes of an error: one of its own class says how it is answered, any
\* other becomes the JSON body that server.ts looks for.
Swallowed == Response(500, TRUE, "swallowed")
ByFramework(thrown) ==
    IF thrown = "http" THEN {Response(s, TRUE, "appError") : s \in {400, 500}}
                       ELSE {Swallowed}

\* errorMiddleware: what has a statusCode is thrown on to the framework.
CatchAll(thrown) == {ErrorPage}     \* mutant: the test for statusCode is missing
ErrorMiddleware(thrown) ==
    IF thrown \in {"http", "coded"} THEN ByFramework(thrown) ELSE {ErrorPage}

\* A plain or coded error is thrown inside the middleware, one that is "outer"
\* around it.
Outcomes(path, cause) ==
    CASE cause = "none"  -> {Rendered(path)}
      [] cause = "outer" -> ByFramework(cause)
      [] OTHER           -> ErrorMiddleware(cause)

\* normalizeCatastrophicSsrResponse reads the body of some responses only.
MustRead(resp) == resp.status >= 500 /\ resp.json
IsH3SwallowedErrorBody(resp) == resp.body = "swallowed"
-----------------------------------------------------------------------------
Fault == faults > 0 /\ faults' = faults - 1

\* record, if there are global events.
Recorded(error) == [error |-> error, fresh |-> TRUE]
MayRecord(error) ==
    \/ UNCHANGED captured
    \/ GlobalEvents /\ captured' = Recorded(error)

\* consumeLastCapturedError: what the caller gets, and what is left.
LastCaptured == IF captured # NoError /\ captured.fresh THEN captured ELSE NoError
Untaken == captured      \* mutant: the error is not taken out
AfterConsume == NoError

Goes(r, stage) == requests' = (requests \ {r}) \cup {[r EXCEPT !.stage = stage]}

\* setInterval and clearInterval in the effects of panels.
NotCleared(n) == n     \* mutant: an effect that returns nothing
Cleared(n) == n - 1
NoIntervals == [p \in Polling |-> 0]
Running(count, gone, new) ==
    [p \in Polling |-> LET left == IF p \in gone THEN Cleared(count[p]) ELSE count[p]
                       IN  IF p \in new THEN left + 1 ELSE left]

\* A page replaces another in the same document; the router keeps what is there
\* when the route is the same.
Replaces(b, screen) ==
    /\ view' = [view EXCEPT ![b] = screen]
    /\ intervals' = [intervals EXCEPT ![b] =
           IF screen = view[b] THEN @ ELSE Running(@, Mounted(view[b]), Mounted(screen))]

\* The call of fetch returns, and its document takes the place of the one there,
\* of which nothing is left; the browser may have gone elsewhere.
Reply(r, resp, cause) ==
    /\ requests' = requests \ {r}
    /\ IF view[r.by] = Loading(r.path, r.id)
       THEN LET screen == Screen(resp.body, r.path, cause)
            IN  /\ view' = [view EXCEPT ![r.by] = screen]
                /\ intervals' = [intervals EXCEPT ![r.by] =
                                    Running(NoIntervals, {}, Mounted(screen))]
       ELSE UNCHANGED <<view, intervals>>

\* A document is asked for; a load under way is given up.
Request(b, path) ==
    /\ requests' = requests \cup {[id |-> visits, by |-> b, path |-> path, stage |-> "arrived",
                                   cause |-> "none", resp |-> ErrorPage]}
    /\ view' = [view EXCEPT ![b] = Loading(path, visits)]
    /\ UNCHANGED <<entry, imports, captured, intervals, logged>>

SiteInit ==
    /\ entry = "none" /\ imports = 0
    /\ captured = NoError
    /\ requests = {}
    /\ view = [b \in Browser |-> Screen("blank", "/", "none")]
    /\ intervals = [b \in Browser |-> NoIntervals]
    /\ logged = {}
    /\ visits = MaxVisits /\ faults = MaxFaults
-----------------------------------------------------------------------------
\* getServerEntry up to its await: the promise is kept before it is settled.
KeptWhenLoaded == entry      \* mutant: await import() first, keep the entry then
KeptPromise == "pending"

GetServerEntry(r) ==
    /\ r.stage = "arrived"
    /\ Goes(r, "awaits entry")
    /\ IF entry = "none" THEN entry' = KeptPromise /\ imports' = imports + 1
                         ELSE UNCHANGED <<entry, imports>>
    /\ UNCHANGED <<captured, view, intervals, logged, faults>>

\* import() settles.  A promise that was rejected is kept as well.
EntrySettles ==
    /\ imports > 0 /\ entry \in {"none", "pending"}
    /\ \/ entry' = "loaded" /\ UNCHANGED faults
       \/ entry' = "rejected" /\ Fault
    /\ UNCHANGED <<imports, captured, requests, view, intervals, logged>>

\* The catch of fetch.
Uncaught(r, cause) == FALSE      \* mutant: no catch around getServerEntry
Caught(r, cause) == Reply(r, ErrorPage, cause)

EntryFailed(r) ==
    /\ r.stage = "awaits entry" /\ entry = "rejected"
    /\ Caught(r, "entry")
    /\ UNCHANGED <<entry, imports, captured, logged, faults>>

\* handler.fetch: a page, or an error from somewhere.
Handle(r) ==
    /\ r.stage = "awaits entry" /\ entry = "loaded"
    /\ \E cause \in {"none", "plain", "coded", "http", "outer"} :
       \E resp \in Outcomes(r.path, cause) :
          /\ requests' = (requests \ {r}) \cup
                 {[r EXCEPT !.stage = "handled", !.cause = cause, !.resp = resp]}
          /\ IF cause = "none" THEN UNCHANGED <<captured, faults>>
                               ELSE Fault /\ MayRecord(faults)
    /\ UNCHANGED <<entry, imports, view, intervals, logged>>

HandlerRejects(r) ==
    /\ r.stage = "awaits entry" /\ entry = "loaded"
    /\ Fault
    /\ Caught(r, "rejected")
    /\ UNCHANGED <<entry, imports, captured, logged>>

Passes(r) ==
    /\ r.stage = "handled" /\ ~MustRead(r.resp)
    /\ Reply(r, r.resp, r.cause)
    /\ UNCHANGED <<entry, imports, captured, logged, faults>>

ReadBody(r) ==
    /\ r.stage = "handled" /\ MustRead(r.resp)
    /\ Goes(r, "read")
    /\ UNCHANGED <<entry, imports, captured, view, intervals, logged, faults>>

ReadFails(r) ==
    /\ r.stage = "handled" /\ MustRead(r.resp)
    /\ Fault
    /\ Caught(r, "body")
    /\ UNCHANGED <<entry, imports, captured, logged>>

\* The body is there: an error of the application's own goes through.
Normalize(r) ==
    /\ r.stage = "read"
    /\ IF IsH3SwallowedErrorBody(r.resp)
       THEN /\ logged' = logged \cup {[request |-> r.id, error |-> LastCaptured]}
            /\ captured' = AfterConsume
            /\ Reply(r, ErrorPage, r.cause)
       ELSE Reply(r, r.resp, r.cause) /\ UNCHANGED <<captured, logged>>
    /\ UNCHANGED <<entry, imports, faults>>

Serves(r) == \/ GetServerEntry(r) \/ EntryFailed(r) \/ Handle(r) \/ HandlerRejects(r)
             \/ Passes(r) \/ ReadBody(r) \/ ReadFails(r) \/ Normalize(r)

ServerWorks == ((\E r \in requests : Serves(r)) \/ EntrySettles) /\ UNCHANGED visits

\* An error event of no request; five seconds pass.
StrayError ==
    /\ GlobalEvents /\ Fault
    /\ captured' = Recorded(faults)
    /\ UNCHANGED <<entry, imports, requests, view, intervals, logged, visits>>

CapturedAges ==
    /\ captured # NoError /\ captured.fresh
    /\ captured' = [captured EXCEPT !.fresh = FALSE]
    /\ UNCHANGED <<entry, imports, requests, view, intervals, logged, visits, faults>>

\* The process is started again; who waits for it is told by the browser.
ServerRestarts ==
    /\ Fault
    /\ entry' = "none" /\ imports' = 0
    /\ captured' = NoError
    /\ requests' = {}
    /\ view' = [b \in Browser |-> IF view[b].kind = "loading"
                                  THEN Screen("lost", view[b].path, "none") ELSE view[b]]
    /\ intervals' = [b \in Browser |-> IF view[b].kind = "loading" THEN NoIntervals
                                                                  ELSE intervals[b]]
    /\ UNCHANGED <<logged, visits>>
-----------------------------------------------------------------------------
Visit == visits > 0 /\ visits' = visits - 1 /\ UNCHANGED faults

\* The address bar, reload, and Go home, which in both error views is a plain <a>.
OpenDocument == \E b \in Browser :
    Visit /\ \E path \in Address \cup {view[b].path, "/"} : Request(b, path)

\* A Link changes the page without a document.
FollowLink == \E b \in Browser :
    /\ Visit
    /\ view[b].kind \in {"page", "notFound"}
    /\ \E path \in Links(view[b].path) : Replaces(b, PageOf(path))
    /\ UNCHANGED serverVars

\* A component throws; ErrorComponent is shown.
RenderFails == \E b \in Browser :
    /\ Fault
    /\ view[b].kind = "page"
    /\ Replaces(b, Screen("failed", view[b].path, "client"))
    /\ UNCHANGED <<serverVars, visits>>

\* Try again of ErrorComponent: router.invalidate and reset.
TryAgain == \E b \in Browser :
    /\ Visit
    /\ view[b].kind = "failed"
    /\ Replaces(b, PageOf(view[b].path))
    /\ UNCHANGED serverVars

SiteNext ==
    \/ ServerWorks \/ StrayError \/ CapturedAges \/ ServerRestarts
    \/ OpenDocument \/ FollowLink \/ RenderFails \/ TryAgain

\* The server runs the requests it has; promises settle.
SiteSpec == SiteInit /\ [][SiteNext]_siteVars /\ WF_siteVars(ServerWorks)
-----------------------------------------------------------------------------
\* Whatever throws, wherever: a browser is never shown the body of a swallowed
\* error, it gets the error page for what is not the application's own answer,
\* and what the framework answers itself is not replaced (server.ts:23-36, 48-60,
\* start.ts:5-18).
AnswerFits ==
    \A b \in Browser :
        LET v == view[b]
        IN  /\ v.kind # "swallowed"
            /\ v.kind = "appError" <=> v.cause = "http"
            /\ v.kind = "errorPage"
               <=> v.cause \in {"plain", "coded", "outer", "entry", "rejected", "body"}
            /\ v.kind = "page" => v.path \in Routes

\* Requests that arrive while the entry is being loaded share one import, and once
\* it is settled nobody loads it again in this process (server.ts:12-19).
EntryLoadedOnce == imports <= 1 /\ (entry # "none" => imports = 1)

\* An error that was captured is logged for one request at most, whichever of the
\* swallowed responses is read first, and never when it is old
\* (server.ts:28-31, error-capture.ts:18-27).
ErrorsLoggedOnce ==
    \A x, y \in logged :
        x.error # NoError => /\ x.error.fresh
                             /\ x.error = y.error => x.request = y.request

\* Every document asked for is answered, also when the entry cannot be loaded, the
\* framework rejects or a body cannot be read (server.ts:48-60).
RequestsAnswered == \A b \in Browser : view[b].kind = "loading" ~> view[b].kind # "loading"

\* Each panel on the page asks the cluster by one timer, and no other timer does:
\* none is left behind, missing or doubled when pages are loaded, followed, broken
\* and tried again (cluster-status.tsx:19-24, dashboard.tsx:170-181, 374-387).
PollsOfPage ==
    \A b \in Browser : view[b].kind # "loading" =>
        intervals[b] = [p \in Polling |-> IF p \in Mounted(view[b]) THEN 1 ELSE 0]
=============================================================================
