------------------------------- MODULE Sidebar -------------------------------
(***************************************************************************)
(* SidebarProvider and Sidebar of src/src/components/ui/sidebar.tsx with   *)
(* useIsMobile of hooks/use-mobile.tsx, in a window that changes its       *)
(* width.  A key or a click is rendered, and its effects run, before the   *)
(* next event; what another event sets is rendered later, and the effects  *)
(* of that render run later still.  In between the key listener is one of  *)
(* an older render, with the variables that render closed over.            *)
(***************************************************************************)
EXTENDS Naturals, Sequences, FiniteSets

CONSTANTS MaxEvents,       \* bound: what user and page do
          Unknown, None    \* undefined; nothing is waiting, no cookie

\* What is waiting to be rendered, if there is anything, is a truth value.
ASSUME EventsAssumption == MaxEvents \in Nat /\ None \notin BOOLEAN

VARIABLES
    mode,            \* the props: "own" none, "accepting" and "refusing" a parent
                     \* that controls open and does, or does not, what it is asked
    collapsible,     \* the prop of Sidebar
    narrow,          \* window.innerWidth < MOBILE_BREAKPOINT
    mobile,          \* the state of useIsMobile
    watching,        \* is its listener on the media query
    changed, toSet,  \* a change event to be handled; the setIsMobile to be rendered
    open, openMobile, cookie,
    listeners,       \* the keydown listeners on window: what they closed over
    effectsDue,      \* the last render's effects have not run
    turns           \* what is left of the bound

widthVars == <<narrow, mobile, watching, changed, toSet>>
panelVars == <<open, openMobile, cookie>>
sidebarVars == <<mode, collapsible, widthVars, panelVars, listeners, effectsDue, turns>>
-----------------------------------------------------------------------------
DefaultOpen == TRUE

\* return !!isMobile
IsMobile == mobile = TRUE

\* What toggleSidebar of the last render has closed over.
Closure == [isMobile |-> IsMobile, open |-> open]

State == IF open THEN "expanded" ELSE "collapsed"

\* What is in view of Sidebar: all of it, in the page or in a sheet over it; what is
\* left when it is collapsed to icons; or nothing.  Styles hide the panel in a narrow
\* window, also before the width is rendered.
Layout == IF collapsible = "none" THEN "whole"
          ELSE IF IsMobile THEN (IF openMobile THEN "sheet" ELSE "nothing")
          ELSE IF narrow THEN "nothing"
          ELSE IF State = "expanded" THEN "whole"
          ELSE IF collapsible = "icon" THEN "icons" ELSE "nothing"

\* Menu buttons, which are cut to their icons then, have tooltips.
TooltipsShown == State = "collapsed" /\ ~IsMobile

\* setOpen: one who controls open is asked, the cookie is written either way.
Asked(v) == IF mode = "refusing" THEN open ELSE v
SetOpen(v) == open' = Asked(v) /\ cookie' = v

\* All of calls are toggleSidebar in one event: the sheet's state is a function
\* of its last, the panel's of the value that was closed over.
Toggle(calls) ==
    LET onSheet == {i \in DOMAIN calls : calls[i].isMobile}
        onPanel == DOMAIN calls \ onSheet
    IN  /\ openMobile' = IF Cardinality(onSheet) % 2 = 1 THEN ~openMobile ELSE openMobile
        /\ IF onPanel = {} THEN UNCHANGED <<open, cookie>>
           ELSE SetOpen(~calls[CHOOSE i \in onPanel : \A j \in onPanel : j <= i].open)

\* The effect of the key listener: the one of an older render is removed.
NeverRenewed(old, closure) ==     \* mutant: no toggleSidebar in the dependencies
    IF old = <<>> THEN <<closure>> ELSE old
Renewed(old, closure) == <<closure>>

OnlyOnChange == toSet         \* mutant: the effect does not call setIsMobile itself
FirstWidth == narrow

\* The effects of the render after this event, and those still due before it.
Effects ==
    /\ effectsDue' = FALSE
    /\ listeners' = Renewed(listeners, Closure')
    /\ IF watching THEN UNCHANGED <<watching, toSet>>
                   ELSE watching' = TRUE /\ toSet' = FirstWidth

Turn == turns > 0 /\ turns' = turns - 1 /\ UNCHANGED <<mode, collapsible>>
-----------------------------------------------------------------------------
\* First render, on the server too: nothing is known of the window.
SidebarInit ==
    /\ mobile = Unknown /\ watching = FALSE /\ toSet = None /\ changed = FALSE
    /\ open = DefaultOpen /\ openMobile = FALSE
    /\ listeners = <<>> /\ effectsDue = TRUE
    /\ mode \in {"own", "accepting", "refusing"}
    /\ collapsible \in {"offcanvas", "icon", "none"}
    /\ narrow \in BOOLEAN
    /\ cookie = None
    /\ turns = MaxEvents

\* Ctrl-B, also when nobody listens yet.
KeyPress ==
    /\ Turn
    /\ UNCHANGED <<narrow, mobile, changed>>
    /\ IF listeners = <<>> THEN UNCHANGED <<panelVars, listeners, effectsDue, watching, toSet>>
                           ELSE Toggle(listeners) /\ Effects

\* SidebarTrigger and SidebarRail: the toggleSidebar of the last render.
Press ==
    /\ Turn
    /\ UNCHANGED <<narrow, mobile, changed>>
    /\ Toggle(<<Closure>>) /\ Effects

\* The sheet is dismissed.
Dismiss ==
    /\ Turn
    /\ Layout = "sheet"
    /\ openMobile' = FALSE
    /\ UNCHANGED <<narrow, mobile, changed, open, cookie>>
    /\ Effects

\* A child calls setOpen or setOpenMobile of the context, or the parent changes the
\* prop: the render is not that of a key or a click.
OpenSet ==
    /\ Turn
    /\ \E v \in BOOLEAN :
          \/ SetOpen(v) /\ UNCHANGED openMobile
          \/ mode # "own" /\ open' = v /\ UNCHANGED <<openMobile, cookie>>
          \/ openMobile' = v /\ UNCHANGED <<open, cookie>>
    /\ effectsDue' = (effectsDue \/ open' # open)
    /\ UNCHANGED <<widthVars, listeners>>

\* The window crosses the breakpoint.
Resize ==
    /\ Turn
    /\ narrow' = ~narrow
    /\ changed' = watching
    /\ UNCHANGED <<mobile, watching, toSet, panelVars, listeners, effectsDue>>

\* The page is loaded again; nothing here reads the cookie.
Reload ==
    /\ Turn
    /\ mobile' = Unknown /\ watching' = FALSE /\ toSet' = None /\ changed' = FALSE
    /\ open' = DefaultOpen /\ openMobile' = FALSE
    /\ listeners' = <<>> /\ effectsDue' = TRUE
    /\ UNCHANGED <<narrow, cookie>>
-----------------------------------------------------------------------------
\* onChange, and the first call in the effect of useIsMobile.
ChangeEvent ==
    /\ changed
    /\ changed' = FALSE /\ toSet' = narrow
    /\ UNCHANGED <<narrow, mobile, watching, panelVars, listeners, effectsDue>>

RenderWidth ==
    /\ toSet # None
    /\ mobile' = toSet /\ toSet' = None
    /\ effectsDue' = (effectsDue \/ IsMobile' # IsMobile)
    /\ UNCHANGED <<narrow, watching, changed, panelVars, listeners>>

FlushEffects ==
    /\ effectsDue
    /\ UNCHANGED <<narrow, mobile, changed, panelVars>>
    /\ Effects

ReactWorks == (ChangeEvent \/ RenderWidth \/ FlushEffects) /\ UNCHANGED <<mode, collapsible, turns>>

SidebarNext ==
    \/ KeyPress \/ Press \/ Dismiss \/ OpenSet \/ Resize \/ Reload
    \/ ReactWorks

SidebarSpec == SidebarInit /\ [][SidebarNext]_sidebarVars
-----------------------------------------------------------------------------
\* Once the width of the window is rendered and the effects of that render have run,
\* Ctrl-B brings the whole sidebar into view or takes it away, whatever was rendered,
\* resized or set before: in a narrow window the sheet and nothing else, otherwise the
\* panel.  What can be collapsed to icons is named by tooltips exactly then, and one
\* that cannot be collapsed stays (sidebar.tsx:92-107, 174, 216-218, 235, 575).
Whole == Layout \in {"whole", "sheet"}
ShortcutToggles ==
    [][KeyPress /\ listeners # <<>> /\ ~effectsDue /\ IsMobile = narrow /\ mode # "refusing" =>
          /\ IF narrow THEN UNCHANGED <<open, cookie>> ELSE UNCHANGED openMobile
          /\ IF collapsible = "none" THEN UNCHANGED Layout ELSE Whole' <=> ~Whole
          /\ collapsible = "icon" => (TooltipsShown' <=> Layout' = "icons")]_sidebarVars

\* When the events are handled and rendered, the layout is that of the window
\* (use-mobile.tsx:8-18, sidebar.tsx:189).
LayoutFits == watching /\ ~changed /\ toSet = None => IsMobile = narrow
=============================================================================
