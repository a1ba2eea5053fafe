------------------------------ MODULE SiteProofs ------------------------------
(***************************************************************************)
(* Theorems about the web site, for any browsers, slides and bounds:       *)
(* server and pages, the sidebar, the carousel.                            *)
(***************************************************************************)
EXTENDS Site, Sidebar, Carousel, FiniteSetTheorems, TLAPS

-----------------------------------------------------------------------------
(* Carousel. *)

\* Embla calls onSelect, and what it last said is shown or will be.
InStep ==
    /\ {<<api, "reInit">>, <<api, "select">>} \subseteq subscribed
    /\ given => parentApi = api
    /\ flagsToSet = Present \/ (flagsToSet = NoFlags /\ flags = Present)

\* From the effects of the render with an API on, the carousel is in step with it.
CarouselInv == api = NoApi \/ apiEffectsDue \/ InStep

LEMMA PresentFlags == Present # NoFlags
<1>1. \A p, q \in BOOLEAN : Flags(p, q) # NoFlags
    BY SlidesAssumption DEF Flags
<1>2. PICK p, q \in BOOLEAN : Present = Flags(p, q)
    <2>1. (slides > 1) \in BOOLEAN
        OBVIOUS
    <2>2. (selected > 1) \in BOOLEAN /\ (selected < slides) \in BOOLEAN
        OBVIOUS
    <2>3. CASE loop
        <3>1. Present = Flags(slides > 1, slides > 1)
            BY <2>3, Zenon DEF Present, CanScroll
        <3>2. QED
            BY <2>1, <3>1, Zenon
    <2>4. CASE ~loop
        <3>1. Present = Flags(selected > 1, selected < slides)
            BY <2>4, Zenon DEF Present, CanScroll
        <3>2. QED
            BY <2>2, <3>1, Zenon
    <2>5. QED
        BY <2>3, <2>4
<1>3. QED
    BY <1>1, <1>2

LEMMA CarouselKeeps ==
    ASSUME CarouselInv, [CarouselNext]_carouselVars
    PROVE  CarouselInv'
<1>1. CASE UNCHANGED carouselVars
    BY <1>1 DEF carouselVars, CarouselInv, InStep, Present, CanScroll
<1>2. CASE ApiChanges
    BY <1>2 DEF ApiChanges, CarouselInv
<1>3. CASE SlidesChange
    BY <1>3 DEF SlidesChange, Input, Emits, CarouselInv, InStep, Present, CanScroll
<1>4. ASSUME NEW s, Select(s), Input
      PROVE  CarouselInv'
    BY <1>4 DEF Select, Input, Emits, CarouselInv, InStep, Present, CanScroll
<1>5. CASE ButtonPressed \/ ArrowKey \/ Drag
    BY <1>4, <1>5 DEF ButtonPressed, ArrowKey, Drag
<1>6. CASE RunEffects
    BY <1>6 DEF RunEffects, Subscriptions, CarouselInv, InStep, Present, CanScroll
<1>7. CASE RenderFlags
    BY <1>7 DEF RenderFlags, CarouselInv, InStep, Present, CanScroll
<1>8. QED
    BY <1>1, <1>2, <1>3, <1>5, <1>6, <1>7 DEF CarouselNext

\* The buttons of a carousel are disabled exactly where it cannot be scrolled, and
\* the parent has the API in use, whatever is replaced, scrolled or rendered late.
THEOREM ButtonsAlwaysTrue == CarouselSpec => []ButtonsTrue
<1>1. CarouselInit => CarouselInv
    BY DEF CarouselInit, CarouselInv
<1>2. CarouselInv => ButtonsTrue
    BY PresentFlags DEF CarouselInv, InStep, ButtonsTrue
<1>3. QED
    BY <1>1, <1>2, CarouselKeeps, PTL DEF CarouselSpec
-----------------------------------------------------------------------------
(* Sidebar: the width of the window. *)

\* The listener on the media query is there, and what it last heard is rendered or
\* will be.
WidthKnown ==
    changed \/ toSet = narrow \/ (toSet = None /\ mobile = narrow)

WidthInv == narrow \in BOOLEAN /\ (watching => WidthKnown)

LEMMA WidthKept ==
    ASSUME WidthInv, [SidebarNext]_sidebarVars
    PROVE  WidthInv'
<1>1. CASE UNCHANGED sidebarVars
    BY <1>1 DEF sidebarVars, widthVars, WidthInv, WidthKnown
<1>2. ASSUME Effects, UNCHANGED <<narrow, mobile, changed>>
      PROVE  WidthInv'
    BY <1>2 DEF Effects, FirstWidth, WidthInv, WidthKnown
<1>3. CASE KeyPress
    BY <1>2, <1>3 DEF KeyPress, WidthInv, WidthKnown
<1>4. CASE Press \/ Dismiss \/ FlushEffects
    BY <1>2, <1>4 DEF Press, Dismiss, FlushEffects
<1>5. CASE OpenSet
    BY <1>5 DEF OpenSet, widthVars, WidthInv, WidthKnown
<1>6. CASE Resize
    BY <1>6 DEF Resize, WidthInv, WidthKnown
<1>7. CASE Reload
    BY <1>7 DEF Reload, WidthInv
<1>8. CASE ChangeEvent
    BY <1>8 DEF ChangeEvent, WidthInv, WidthKnown
<1>9. CASE RenderWidth
    BY <1>9 DEF RenderWidth, WidthInv, WidthKnown
<1>10. QED
    BY <1>1, <1>3, <1>4, <1>5, <1>6, <1>7, <1>8, <1>9 DEF SidebarNext, ReactWorks

\* However the window is resized while the page is loaded and rendered, in the end
\* the layout is the one for its width.
THEOREM LayoutAlwaysFits == SidebarSpec => []LayoutFits
<1>1. SidebarInit => WidthInv
    BY DEF SidebarInit, WidthInv
<1>2. WidthInv => LayoutFits
    BY EventsAssumption DEF WidthInv, WidthKnown, LayoutFits, IsMobile
<1>3. QED
    BY <1>1, <1>2, WidthKept, PTL DEF SidebarSpec
-----------------------------------------------------------------------------
(* Sidebar: the key. *)

\* The key listener is that of the last render once its effects have run.
ListenerInv ==
    /\ open \in BOOLEAN /\ openMobile \in BOOLEAN
    /\ mode \in {"own", "accepting", "refusing"}
    /\ collapsible \in {"offcanvas", "icon", "none"}
    /\ effectsDue \/ listeners = <<Closure>>
    /\ listeners = <<>> \/ \E c : listeners = <<c>> /\ c.open \in BOOLEAN /\ c.isMobile \in BOOLEAN

\* One call of toggleSidebar.
LEMMA ToggleOnce ==
    ASSUME NEW c, Toggle(<<c>>)
    PROVE  /\ c.isMobile => openMobile' = ~openMobile /\ UNCHANGED <<open, cookie>>
           /\ ~c.isMobile => openMobile' = openMobile /\ SetOpen(~c.open)
<1> DEFINE onSheet == {i \in DOMAIN <<c>> : <<c>>[i].isMobile}
           onPanel == DOMAIN <<c>> \ onSheet
<1>1. DOMAIN <<c>> = {1} /\ <<c>>[1] = c
    OBVIOUS
<1>2. CASE c.isMobile
    <2>1. onSheet = {1} /\ onPanel = {}
        BY <1>1, <1>2
    <2>2. Cardinality({1}) = 1 /\ 1 % 2 = 1
        BY FS_Singleton
    <2>3. QED
        BY <1>2, <2>1, <2>2 DEF Toggle
<1>3. CASE ~c.isMobile
    <2>1. onSheet = {} /\ onPanel = {1}
        BY <1>1, <1>3
    <2>2. Cardinality(onSheet) % 2 # 1
        BY <2>1, FS_EmptySet
    <2>3. (CHOOSE i \in onPanel : \A j \in onPanel : j <= i) = 1
        BY <2>1
    <2>4. QED
        BY <1>1, <1>3, <2>1, <2>2, <2>3 DEF Toggle
<1>4. QED
    BY <1>2, <1>3

LEMMA ListenerKept ==
    ASSUME ListenerInv, [SidebarNext]_sidebarVars
    PROVE  ListenerInv'
<1>1. CASE UNCHANGED sidebarVars
    BY <1>1 DEF sidebarVars, widthVars, panelVars, ListenerInv, Closure, IsMobile
<1>2. ASSUME Effects, open' \in BOOLEAN, openMobile' \in BOOLEAN,
             UNCHANGED <<mode, collapsible>>
      PROVE  ListenerInv'
    <2>1. Closure'.open \in BOOLEAN /\ Closure'.isMobile \in BOOLEAN
        BY <1>2 DEF Closure, IsMobile
    <2>2. listeners' = <<Closure'>>
        BY <1>2 DEF Effects, Renewed
    <2>3. QED
        BY <1>2, <2>1, <2>2 DEF ListenerInv
<1>3. ASSUME NEW v \in BOOLEAN, SetOpen(v)
      PROVE  open' \in BOOLEAN
    BY <1>3 DEF SetOpen, Asked, ListenerInv
<1>4. ASSUME NEW c, c.open \in BOOLEAN, c.isMobile \in BOOLEAN, Toggle(<<c>>)
      PROVE  open' \in BOOLEAN /\ openMobile' \in BOOLEAN
    <2>1. CASE c.isMobile
        BY <1>4, <2>1, ToggleOnce DEF ListenerInv
    <2>2. CASE ~c.isMobile
        BY <1>3, <1>4, <2>2, ToggleOnce DEF ListenerInv
    <2>3. QED
        BY <1>4, <2>1, <2>2
<1>5. Closure.open \in BOOLEAN /\ Closure.isMobile \in BOOLEAN
    BY DEF Closure, IsMobile, ListenerInv
<1>6. CASE KeyPress
    <2>1. CASE listeners = <<>>
        BY <1>6, <2>1 DEF KeyPress, Turn, panelVars, ListenerInv, Closure, IsMobile
    <2>2. CASE listeners # <<>>
        <3>1. PICK c : listeners = <<c>> /\ c.open \in BOOLEAN /\ c.isMobile \in BOOLEAN
            BY <2>2 DEF ListenerInv
        <3>2. Toggle(<<c>>) /\ Effects /\ UNCHANGED <<mode, collapsible>>
            BY <1>6, <2>2, <3>1 DEF KeyPress, Turn
        <3>3. QED
            BY <1>2, <1>4, <3>1, <3>2
    <2>3. QED
        BY <2>1, <2>2
<1>7. CASE Press
    <2>1. Toggle(<<Closure>>) /\ Effects /\ UNCHANGED <<mode, collapsible>>
        BY <1>7 DEF Press, Turn
    <2>2. QED
        BY <1>2, <1>4, <1>5, <2>1
<1>8. CASE Dismiss
    <2>1. Effects /\ UNCHANGED <<mode, collapsible, open>> /\ openMobile' = FALSE
        BY <1>8 DEF Dismiss, Turn
    <2>2. QED
        BY <1>2, <2>1 DEF ListenerInv
<1>9. CASE OpenSet
    <2>1. open' \in BOOLEAN /\ openMobile' \in BOOLEAN
        <3>1. PICK v \in BOOLEAN :
                  \/ SetOpen(v) /\ UNCHANGED openMobile
                  \/ open' = v /\ UNCHANGED openMobile
                  \/ openMobile' = v /\ UNCHANGED open
            BY <1>9 DEF OpenSet
        <3>2. QED
            BY <1>3, <3>1 DEF ListenerInv
    <2>2. /\ UNCHANGED <<mode, collapsible, mobile, listeners>>
          /\ effectsDue' = (effectsDue \/ open' # open)
        BY <1>9 DEF OpenSet, Turn, widthVars
    <2>3. effectsDue' \/ (~effectsDue /\ Closure' = Closure)
        BY <2>2 DEF Closure, IsMobile, ListenerInv
    <2>4. QED
        BY <2>1, <2>2, <2>3 DEF ListenerInv
<1>10. CASE Resize \/ (ChangeEvent /\ UNCHANGED <<mode, collapsible>>)
    BY <1>10 DEF Resize, Turn, ChangeEvent, panelVars, ListenerInv, Closure, IsMobile
<1>11. CASE Reload
    BY <1>11 DEF Reload, Turn, DefaultOpen, ListenerInv
<1>12. CASE RenderWidth /\ UNCHANGED <<mode, collapsible>>
    <2>1. /\ UNCHANGED <<open, openMobile, listeners>>
          /\ effectsDue' = (effectsDue \/ IsMobile' # IsMobile)
        BY <1>12 DEF RenderWidth, panelVars
    <2>2. effectsDue' \/ (~effectsDue /\ Closure' = Closure)
        BY <2>1 DEF Closure, ListenerInv
    <2>3. QED
        BY <1>12, <2>1, <2>2 DEF ListenerInv
<1>13. CASE FlushEffects /\ UNCHANGED <<mode, collapsible>>
    <2>1. Effects /\ UNCHANGED <<mode, collapsible>> /\ UNCHANGED <<open, openMobile>>
        BY <1>13 DEF FlushEffects, panelVars
    <2>2. open' \in BOOLEAN /\ openMobile' \in BOOLEAN
        BY <2>1 DEF ListenerInv
    <2>3. QED
        BY <1>2, <2>1, <2>2
<1>14. ReactWorks => /\ ChangeEvent \/ RenderWidth \/ FlushEffects
                     /\ UNCHANGED <<mode, collapsible>>
    BY DEF ReactWorks
<1>15. QED
    BY <1>1, <1>6, <1>7, <1>8, <1>9, <1>10, <1>11, <1>12, <1>13, <1>14 DEF SidebarNext

\* Ctrl-B after the width is rendered and the effects of that render have run.
Shortcut == KeyPress /\ listeners # <<>> /\ ~effectsDue /\ IsMobile = narrow /\ mode # "refusing"

LEMMA ShortcutWorks ==
    ASSUME ListenerInv, Shortcut
    PROVE  /\ UNCHANGED <<mobile, collapsible, narrow>>
           /\ IF IsMobile THEN openMobile' = ~openMobile /\ UNCHANGED <<open, cookie>>
                          ELSE open' = ~open /\ openMobile' = openMobile
<1>1. listeners = <<Closure>> /\ Toggle(listeners) /\ UNCHANGED <<mobile, collapsible, narrow>>
    BY DEF Shortcut, KeyPress, Turn, ListenerInv
<1>2. Closure.isMobile = IsMobile /\ Closure.open = open
    BY DEF Closure
<1>3. Toggle(<<Closure>>)
    BY <1>1
<1>4. /\ IsMobile => openMobile' = ~openMobile /\ UNCHANGED <<open, cookie>>
      /\ ~IsMobile => openMobile' = openMobile /\ SetOpen(~open)
    BY <1>2, <1>3, ToggleOnce
<1>5. SetOpen(~open) => open' = ~open
    BY DEF SetOpen, Asked, Shortcut
<1>6. QED
    BY <1>1, <1>4, <1>5

\* A sidebar that can be collapsed shows all or less by what the key changes.
LEMMA LayoutTurns ==
    ASSUME ListenerInv, Shortcut, collapsible # "none"
    PROVE  Whole' <=> ~Whole
<1>1. /\ mobile' = mobile /\ collapsible' = collapsible /\ narrow' = narrow
      /\ open \in BOOLEAN /\ openMobile \in BOOLEAN
      /\ IsMobile => openMobile' = ~openMobile
      /\ ~IsMobile => open' = ~open
    BY ShortcutWorks DEF ListenerInv
<1>2. IsMobile' = IsMobile
    BY <1>1 DEF IsMobile
<1>3. CASE IsMobile
    BY <1>1, <1>2, <1>3 DEF Layout, Whole
<1>4. CASE ~IsMobile
    <2>1. /\ State = "expanded" <=> open
          /\ State' = "expanded" <=> ~open
        BY <1>1, <1>4 DEF State
    <2>2. ~narrow
        BY <1>4 DEF Shortcut, IsMobile
    <2>3. QED
        BY <1>1, <1>2, <1>4, <2>1, <2>2 DEF Layout, Whole
<1>5. QED
    BY <1>3, <1>4

\* Once the width of the window is rendered and the effects of that render have run,
\* the key turns the sidebar that is displayed, whatever was clicked, set or resized
\* before.
THEOREM ShortcutAlwaysToggles == SidebarSpec => ShortcutToggles
<1>1. SidebarInit => ListenerInv
    BY DEF SidebarInit, DefaultOpen, ListenerInv
<1>2. ASSUME ListenerInv, Shortcut
      PROVE  /\ IF narrow THEN UNCHANGED <<open, cookie>> ELSE UNCHANGED openMobile
             /\ IF collapsible = "none" THEN UNCHANGED Layout ELSE Whole' <=> ~Whole
             /\ collapsible = "icon" => (TooltipsShown' <=> Layout' = "icons")
    <2>1. /\ UNCHANGED <<mobile, collapsible, narrow>>
          /\ IF IsMobile THEN UNCHANGED <<open, cookie>> ELSE UNCHANGED openMobile
        BY <1>2, ShortcutWorks
    <2>2. IsMobile <=> narrow
        BY <1>2 DEF Shortcut
    <2>3. collapsible = "none" => UNCHANGED Layout
        BY <2>1 DEF Layout
    <2>4. collapsible # "none" => (Whole' <=> ~Whole)
        BY <1>2, LayoutTurns
    <2>5. IsMobile' <=> narrow'
        BY <2>1, <2>2 DEF IsMobile
    <2>6. collapsible' = "icon" => (TooltipsShown' <=> Layout' = "icons")
        BY <2>5 DEF TooltipsShown, Layout, State
    <2>7. QED
        BY <2>1, <2>2, <2>3, <2>4, <2>6
<1>3. ListenerInv /\ [SidebarNext]_sidebarVars =>
          [KeyPress /\ listeners # <<>> /\ ~effectsDue /\ IsMobile = narrow /\ mode # "refusing" =>
              /\ IF narrow THEN UNCHANGED <<open, cookie>> ELSE UNCHANGED openMobile
              /\ IF collapsible = "none" THEN UNCHANGED Layout ELSE Whole' <=> ~Whole
              /\ collapsible = "icon" => (TooltipsShown' <=> Layout' = "icons")]_sidebarVars
    BY <1>2 DEF Shortcut
<1>4. QED
    BY <1>1, <1>3, ListenerKept, PTL DEF SidebarSpec, ShortcutToggles
-----------------------------------------------------------------------------
(* Site: the server entry. *)

\* The promise is there once import() was called, and not before.
EntryInv ==
    \/ entry = "none" /\ imports = 0
    \/ entry \in {"pending", "loaded", "rejected"} /\ imports = 1

LEMMA EntryKept ==
    ASSUME EntryInv, [SiteNext]_siteVars
    PROVE  EntryInv'
<1>1. ASSUME UNCHANGED <<entry, imports>>
      PROVE  EntryInv'
    BY <1>1 DEF EntryInv
<1>2. CASE UNCHANGED siteVars
    BY <1>1, <1>2 DEF siteVars, serverVars
<1>3. ASSUME NEW r \in requests, Serves(r)
      PROVE  EntryInv'
    <2>1. CASE GetServerEntry(r)
        <3>1. CASE entry = "none"
            <4>1. imports = 0 /\ imports' = imports + 1 /\ entry' = "pending"
                BY <2>1, <3>1 DEF GetServerEntry, KeptPromise, EntryInv
            <4>2. QED
                BY <4>1 DEF EntryInv
        <3>2. CASE entry # "none"
            BY <1>1, <2>1, <3>2 DEF GetServerEntry
        <3>3. QED
            BY <3>1, <3>2
    <2>2. CASE EntryFailed(r) \/ Handle(r) \/ HandlerRejects(r) \/ Passes(r) \/ ReadBody(r)
               \/ ReadFails(r) \/ Normalize(r)
        <3>1. UNCHANGED <<entry, imports>>
            BY <2>2 DEF EntryFailed, Handle, HandlerRejects, Passes, ReadBody, ReadFails, Normalize
        <3>2. QED
            BY <1>1, <3>1
    <2>3. QED
        BY <1>3, <2>1, <2>2 DEF Serves
<1>4. CASE EntrySettles
    BY <1>4 DEF EntrySettles, EntryInv
<1>5. CASE StrayError \/ CapturedAges
    BY <1>1, <1>5 DEF StrayError, CapturedAges
<1>6. CASE ServerRestarts
    BY <1>6 DEF ServerRestarts, EntryInv
<1>7. CASE OpenDocument \/ FollowLink \/ RenderFails \/ TryAgain
    BY <1>1, <1>7 DEF OpenDocument, Request, FollowLink, RenderFails, TryAgain, serverVars
<1>8. QED
    BY <1>2, <1>3, <1>4, <1>5, <1>6, <1>7 DEF SiteNext, ServerWorks

\* Any number of requests, whenever they arrive, share one import.
THEOREM EntryAlwaysLoadedOnce == SiteSpec => []EntryLoadedOnce
<1>1. SiteInit => EntryInv
    BY DEF SiteInit, EntryInv
<1>2. EntryInv => EntryLoadedOnce
    BY DEF EntryInv, EntryLoadedOnce
<1>3. QED
    BY <1>1, <1>2, EntryKept, PTL DEF SiteSpec
-----------------------------------------------------------------------------
(* Site: errors that are captured and logged.  An error is named by the number of
   faults that are left when it happens. *)

Captured == [error : Nat, fresh : BOOLEAN]

\* What is captured, and what was logged, happened before; what may be logged yet was
\* not logged.
CapturedInv ==
    /\ faults \in Nat
    /\ captured = NoError \/ (captured \in Captured /\ captured.error > faults)
    /\ \A x \in logged : x.error # NoError =>
          /\ x.error \in Captured /\ x.error.error > faults
          /\ LastCaptured # NoError => captured.error # x.error.error
    /\ ErrorsLoggedOnce

LEMMA CapturedKept ==
    ASSUME CapturedInv, [SiteNext]_siteVars
    PROVE  CapturedInv'
<1>1. ASSUME UNCHANGED <<captured, logged>>, UNCHANGED faults \/ Fault
      PROVE  CapturedInv'
    <2>1. faults' \in Nat /\ faults' <= faults
        BY <1>1 DEF Fault, CapturedInv
    <2>2. LastCaptured' = LastCaptured /\ (ErrorsLoggedOnce' <=> ErrorsLoggedOnce)
        BY <1>1 DEF LastCaptured, ErrorsLoggedOnce
    <2>3. QED
        BY <1>1, <2>1, <2>2 DEF CapturedInv, Captured
<1>2. ASSUME Fault, captured' = Recorded(faults), UNCHANGED logged
      PROVE  CapturedInv'
    <2>1. faults \in Nat /\ faults' \in Nat /\ faults' < faults
        BY <1>2 DEF Fault, CapturedInv
    <2>2. captured' \in Captured /\ captured'.error = faults
        BY <1>2, <2>1 DEF Recorded, Captured
    <2>3. ErrorsLoggedOnce'
        BY <1>2 DEF CapturedInv, ErrorsLoggedOnce
    <2>4. QED
        BY <1>2, <2>1, <2>2, <2>3 DEF CapturedInv, Captured
<1>3. ASSUME captured' = NoError, UNCHANGED <<logged, faults>> \/ (UNCHANGED logged /\ Fault)
      PROVE  CapturedInv'
    <2>1. faults' \in Nat /\ faults' <= faults /\ LastCaptured' = NoError
        BY <1>3 DEF Fault, CapturedInv, LastCaptured
    <2>2. ErrorsLoggedOnce'
        BY <1>3 DEF CapturedInv, ErrorsLoggedOnce
    <2>3. QED
        BY <1>3, <2>1, <2>2 DEF CapturedInv, Captured
<1>4. CASE UNCHANGED siteVars
    BY <1>1, <1>4 DEF siteVars, serverVars
<1>5. ASSUME NEW r \in requests, Serves(r)
      PROVE  CapturedInv'
    <2>1. CASE GetServerEntry(r) \/ EntryFailed(r) \/ HandlerRejects(r) \/ Passes(r)
               \/ ReadBody(r) \/ ReadFails(r)
        BY <1>1, <2>1 DEF GetServerEntry, EntryFailed, HandlerRejects, Passes, ReadBody, ReadFails
    <2>2. CASE Handle(r)
        BY <1>1, <1>2, <2>2 DEF Handle, MayRecord
    <2>3. CASE Normalize(r)
        <3>1. CASE ~IsH3SwallowedErrorBody(r.resp)
            BY <1>1, <2>3, <3>1 DEF Normalize
        <3>2. CASE IsH3SwallowedErrorBody(r.resp)
            <4> DEFINE new == [request |-> r.id, error |-> LastCaptured]
            <4>1. logged' = logged \cup {new} /\ captured' = NoError /\ faults' = faults
                BY <2>3, <3>2 DEF Normalize, AfterConsume
            <4>2. new.error = NoError \/ (/\ new.error = captured /\ captured \in Captured
                                          /\ captured.fresh /\ captured.error > faults)
                BY DEF LastCaptured, CapturedInv
            <4>3. \A y \in logged : y.error # NoError => y.error # new.error
                BY <4>2 DEF CapturedInv, LastCaptured, Captured
            <4>4. LastCaptured' = NoError
                BY <4>1 DEF LastCaptured
            <4> HIDE DEF new
            <4>5. ErrorsLoggedOnce'
                BY <4>1, <4>2, <4>3 DEF CapturedInv, ErrorsLoggedOnce
            <4>6. QED
                BY <4>1, <4>2, <4>4, <4>5 DEF CapturedInv
        <3>3. QED
            BY <3>1, <3>2
    <2>4. QED
        BY <1>5, <2>1, <2>2, <2>3 DEF Serves
<1>6. CASE EntrySettles
    BY <1>1, <1>6 DEF EntrySettles
<1>7. CASE StrayError
    BY <1>2, <1>7 DEF StrayError
<1>8. CASE CapturedAges
    <2>1. /\ captured \in Captured /\ captured' = [captured EXCEPT !.fresh = FALSE]
          /\ UNCHANGED <<logged, faults>>
        BY <1>8 DEF CapturedAges, CapturedInv
    <2>2. /\ captured' \in Captured /\ captured'.error = captured.error
          /\ captured'.fresh = FALSE
        BY <2>1 DEF Captured
    <2>3. LastCaptured' = NoError
        BY <2>2 DEF LastCaptured
    <2>4. ErrorsLoggedOnce'
        BY <2>1 DEF CapturedInv, ErrorsLoggedOnce
    <2>5. captured # NoError
        BY <1>8 DEF CapturedAges
    <2>6. QED
        BY <2>1, <2>2, <2>3, <2>4, <2>5 DEF CapturedInv
<1>9. CASE ServerRestarts
    BY <1>3, <1>9 DEF ServerRestarts
<1>10. CASE OpenDocument \/ FollowLink \/ RenderFails \/ TryAgain
    BY <1>1, <1>10 DEF OpenDocument, Visit, Request, FollowLink, RenderFails, TryAgain, serverVars
<1>11. QED
    BY <1>4, <1>5, <1>6, <1>7, <1>8, <1>9, <1>10 DEF SiteNext, ServerWorks

\* A captured error is logged for one request, and while it is fresh, however
\* requests, global errors and the time since overlap.
THEOREM ErrorsAlwaysLoggedOnce == SiteSpec => []ErrorsLoggedOnce
<1>1. SiteInit => CapturedInv
    BY SiteAssumption DEF SiteInit, CapturedInv, ErrorsLoggedOnce
<1>2. CapturedInv => ErrorsLoggedOnce
    BY DEF CapturedInv
<1>3. QED
    BY <1>1, <1>2, CapturedKept, PTL DEF SiteSpec
-----------------------------------------------------------------------------
(* Site: answers and pages. *)

Thrown == {"plain", "coded", "http", "outer"}
Replaced == {"plain", "coded", "outer", "entry", "rejected", "body"}

\* AnswerFits for what one browser shows.
Fits(v) ==
    /\ v.kind # "swallowed"
    /\ v.kind = "appError" <=> v.cause = "http"
    /\ v.kind = "errorPage" <=> v.cause \in Replaced
    /\ v.kind = "page" => v.path \in Routes

\* A request by its fields.
Form(r) == [id |-> r.id, by |-> r.by, path |-> r.path, stage |-> r.stage,
            cause |-> r.cause, resp |-> r.resp]

\* A request that was handled has one of the answers for what was thrown.
RequestsInv ==
    \A r \in requests :
        /\ r = Form(r)
        /\ r.stage \in {"handled", "read"} =>
              r.cause \in Thrown \cup {"none"} /\ r.resp \in Outcomes(r.path, r.cause)

\* What the framework and the middleware make of an error.
LEMMA OutcomeFits ==
    ASSUME NEW path, NEW cause \in Thrown \cup {"none"}, NEW resp \in Outcomes(path, cause)
    PROVE  /\ resp.body # "swallowed" => Fits(Screen(resp.body, path, cause))
           /\ resp.body = "swallowed" => MustRead(resp) /\ cause \in {"coded", "outer"}
<1>1. CASE cause = "none"
    <2>1. resp = Rendered(path)
        BY <1>1 DEF Outcomes
    <2>2. CASE path \in Routes
        BY <1>1, <2>1, <2>2 DEF Rendered, Response, Fits, Screen, Replaced
    <2>3. CASE path \notin Routes
        BY <1>1, <2>1, <2>3 DEF Rendered, Response, Fits, Screen, Replaced
    <2>4. QED
        BY <2>2, <2>3
<1>2. CASE cause = "plain"
    <2>1. resp = ErrorPage
        BY <1>2 DEF Outcomes, ErrorMiddleware
    <2>2. QED
        BY <1>2, <2>1 DEF ErrorPage, Response, Fits, Screen, Replaced
<1>3. CASE cause \in {"coded", "outer"}
    <2>1. resp = Swallowed
        BY <1>3 DEF Outcomes, ErrorMiddleware, ByFramework
    <2>2. QED
        BY <1>3, <2>1 DEF Swallowed, Response, MustRead
<1>4. CASE cause = "http"
    <2>1. \E s \in {400, 500} : resp = Response(s, TRUE, "appError")
        BY <1>4 DEF Outcomes, ErrorMiddleware, ByFramework
    <2>2. resp.body = "appError"
        BY <2>1 DEF Response
    <2>3. QED
        BY <1>4, <2>2 DEF Fits, Screen, Replaced
<1>5. QED
    BY <1>1, <1>2, <1>3, <1>4 DEF Thrown

LEMMA ErrorPageFits ==
    ASSUME NEW path, NEW cause \in Replaced
    PROVE  Fits(Screen(ErrorPage.body, path, cause))
BY DEF Fits, Screen, ErrorPage, Response, Replaced

\* Functions on browsers.
Shaped ==
    /\ view = [b \in Browser |-> view[b]]
    /\ intervals = [b \in Browser |-> intervals[b]]

\* What a step may do to the pages.
Answers ==
    \E r \in requests : \E resp, cause :
        Reply(r, resp, cause) /\ Fits(Screen(resp.body, r.path, cause))
Asks == \E b \in Browser : \E path : Request(b, path)
Turns == \E b \in Browser : \E screen :
    view[b].kind # "loading" /\ Fits(screen) /\ screen.kind # "loading" /\ Replaces(b, screen)

LEMMA PageSteps ==
    ASSUME RequestsInv, [SiteNext]_siteVars
    PROVE  UNCHANGED <<view, intervals>> \/ Answers \/ Asks \/ Turns \/ ServerRestarts
<1>1. CASE UNCHANGED siteVars
    BY <1>1 DEF siteVars
<1>2. ASSUME NEW r \in requests, Serves(r)
      PROVE  UNCHANGED <<view, intervals>> \/ Answers
    <2>1. CASE GetServerEntry(r) \/ Handle(r) \/ ReadBody(r)
        BY <2>1 DEF GetServerEntry, Handle, ReadBody
    <2>2. ASSUME NEW cause \in Replaced, Reply(r, ErrorPage, cause)
          PROVE  Answers
        BY <2>2, ErrorPageFits DEF Answers
    <2>3. CASE EntryFailed(r) \/ HandlerRejects(r) \/ ReadFails(r)
        <3>1. \E cause \in Replaced : Reply(r, ErrorPage, cause)
            BY <2>3 DEF EntryFailed, HandlerRejects, ReadFails, Caught, Replaced
        <3>2. QED
            BY <2>2, <3>1
    <2>4. CASE Passes(r)
        <3>1. r.cause \in Thrown \cup {"none"} /\ r.resp \in Outcomes(r.path, r.cause)
            BY <2>4 DEF Passes, RequestsInv
        <3>2. Fits(Screen(r.resp.body, r.path, r.cause)) /\ Reply(r, r.resp, r.cause)
            BY <2>4, <3>1, OutcomeFits DEF Passes
        <3>3. QED
            BY <3>2 DEF Answers
    <2>5. CASE Normalize(r)
        <3>1. r.cause \in Thrown \cup {"none"} /\ r.resp \in Outcomes(r.path, r.cause)
            BY <2>5 DEF Normalize, RequestsInv
        <3>2. CASE r.resp.body = "swallowed"
            <4>1. r.cause \in Replaced /\ Reply(r, ErrorPage, r.cause)
                BY <2>5, <3>1, <3>2, OutcomeFits
                   DEF Normalize, IsH3SwallowedErrorBody, Replaced
            <4>2. QED
                BY <2>2, <4>1
        <3>3. CASE r.resp.body # "swallowed"
            <4>1. Fits(Screen(r.resp.body, r.path, r.cause)) /\ Reply(r, r.resp, r.cause)
                BY <2>5, <3>1, <3>3, OutcomeFits DEF Normalize, IsH3SwallowedErrorBody
            <4>2. QED
                BY <4>1 DEF Answers
        <3>4. QED
            BY <3>2, <3>3
    <2>6. QED
        BY <1>2, <2>1, <2>3, <2>4, <2>5 DEF Serves
<1>3. CASE EntrySettles \/ StrayError \/ CapturedAges
    BY <1>3 DEF EntrySettles, StrayError, CapturedAges
<1>4. CASE OpenDocument
    BY <1>4 DEF OpenDocument, Asks
<1>5. ASSUME NEW path
      PROVE  Fits(PageOf(path)) /\ PageOf(path).kind # "loading"
    BY DEF Fits, PageOf, Screen, Replaced
<1>6. CASE FollowLink \/ TryAgain
    <2>1. PICK b \in Browser : /\ view[b].kind \in {"page", "notFound", "failed"}
                               /\ \E path : Replaces(b, PageOf(path))
        BY <1>6 DEF FollowLink, TryAgain
    <2>2. QED
        BY <1>5, <2>1 DEF Turns
<1>7. CASE RenderFails
    <2>1. PICK b \in Browser : /\ view[b].kind = "page"
                               /\ Replaces(b, Screen("failed", view[b].path, "client"))
        BY <1>7 DEF RenderFails
    <2>2. /\ Fits(Screen("failed", view[b].path, "client"))
          /\ Screen("failed", view[b].path, "client").kind # "loading"
        BY DEF Fits, Screen, Replaced
    <2>3. QED
        BY <2>1, <2>2 DEF Turns
<1>8. QED
    BY <1>1, <1>2, <1>3, <1>4, <1>6, <1>7 DEF SiteNext, ServerWorks

LEMMA RequestsKept ==
    ASSUME RequestsInv, [SiteNext]_siteVars
    PROVE  RequestsInv'
<1>1. ASSUME requests' \subseteq requests
      PROVE  RequestsInv'
    BY <1>1 DEF RequestsInv
<1>2. ASSUME NEW r \in requests, NEW q, requests' = (requests \ {r}) \cup {q}, q = Form(q),
             q.stage \in {"handled", "read"} =>
                 q.cause \in Thrown \cup {"none"} /\ q.resp \in Outcomes(q.path, q.cause)
      PROVE  RequestsInv'
    BY <1>2 DEF RequestsInv
<1>3. CASE UNCHANGED siteVars
    BY <1>1, <1>3 DEF siteVars, serverVars
<1>4. ASSUME NEW r \in requests, Serves(r)
      PROVE  RequestsInv'
    <2>1. r = Form(r)
        BY DEF RequestsInv
    <2>2. ASSUME NEW stage, Goes(r, stage), NEW q, q = [r EXCEPT !.stage = stage]
          PROVE  /\ requests' = (requests \ {r}) \cup {q}
                 /\ q = Form(q) /\ q.stage = stage
                 /\ q.path = r.path /\ q.cause = r.cause /\ q.resp = r.resp
        BY <2>1, <2>2 DEF Goes, Form
    <2>3. CASE GetServerEntry(r)
        <3>1. Goes(r, "awaits entry")
            BY <2>3 DEF GetServerEntry
        <3>2. PICK q : q = [r EXCEPT !.stage = "awaits entry"]
            OBVIOUS
        <3>3. requests' = (requests \ {r}) \cup {q} /\ q = Form(q) /\ q.stage = "awaits entry"
            BY <2>2, <3>1, <3>2
        <3>4. QED
            BY <1>2, <3>3
    <2>4. CASE ReadBody(r)
        <3>1. Goes(r, "read") /\ r.stage = "handled"
            BY <2>4 DEF ReadBody
        <3>2. r.cause \in Thrown \cup {"none"} /\ r.resp \in Outcomes(r.path, r.cause)
            BY <3>1 DEF RequestsInv
        <3>3. PICK q : q = [r EXCEPT !.stage = "read"]
            OBVIOUS
        <3>4. /\ requests' = (requests \ {r}) \cup {q} /\ q = Form(q)
              /\ q.path = r.path /\ q.cause = r.cause /\ q.resp = r.resp
            BY <2>2, <3>1, <3>3
        <3>5. QED
            BY <1>2, <3>2, <3>4
    <2>5. CASE Handle(r)
        <3>1. PICK c \in {"none", "plain", "coded", "http", "outer"} :
              \E x \in Outcomes(r.path, c) :
                 requests' = (requests \ {r}) \cup
                     {[r EXCEPT !.stage = "handled", !.cause = c, !.resp = x]}
            BY <2>5, Zenon DEF Handle
        <3>2. PICK x \in Outcomes(r.path, c) :
                 requests' = (requests \ {r}) \cup
                     {[r EXCEPT !.stage = "handled", !.cause = c, !.resp = x]}
            BY <3>1, Zenon
        <3> DEFINE s == [r EXCEPT !.stage = "handled"]
                   t == [s EXCEPT !.cause = c]
                   q == [t EXCEPT !.resp = x]
        <3>3. requests' = (requests \ {r}) \cup {q}
            BY <3>2, Zenon
        <3>4. s = Form(s) /\ s.path = r.path
            BY <2>1 DEF Form
        <3> HIDE DEF s
        <3>5. t = Form(t) /\ t.path = r.path /\ t.cause = c
            BY <3>4 DEF Form
        <3> HIDE DEF t
        <3>6. q = Form(q) /\ q.path = r.path /\ q.cause = c /\ q.resp = x
            BY <3>5 DEF Form
        <3> HIDE DEF q
        <3>7. c \in Thrown \cup {"none"}
            BY <3>1 DEF Thrown
        <3>8. QED
            BY <1>2, <3>3, <3>6, <3>7
    <2>6. CASE \/ EntryFailed(r) \/ HandlerRejects(r) \/ Passes(r) \/ ReadFails(r)
               \/ Normalize(r)
        <3>1. requests' = requests \ {r}
            BY <2>6 DEF EntryFailed, HandlerRejects, Passes, ReadFails, Normalize, Caught, Reply
        <3>2. QED
            BY <1>1, <3>1
    <2>7. QED
        BY <1>4, <2>3, <2>4, <2>5, <2>6 DEF Serves
<1>5. CASE EntrySettles \/ StrayError \/ CapturedAges \/ ServerRestarts
    BY <1>1, <1>5 DEF EntrySettles, StrayError, CapturedAges, ServerRestarts
<1>6. CASE FollowLink \/ RenderFails \/ TryAgain
    BY <1>1, <1>6 DEF FollowLink, RenderFails, TryAgain, serverVars
<1>7. CASE OpenDocument
    <2>1. PICK b \in Browser : \E path : Request(b, path)
        BY <1>7 DEF OpenDocument
    <2>2. \E path : requests' = requests \cup
              {[id |-> visits, by |-> b, path |-> path, stage |-> "arrived",
                cause |-> "none", resp |-> ErrorPage]}
        BY <2>1 DEF Request
    <2>3. PICK path, q : /\ requests' = requests \cup {q}
                         /\ q = [id |-> visits, by |-> b, path |-> path, stage |-> "arrived",
                                 cause |-> "none", resp |-> ErrorPage]
        BY <2>2
    <2>4. q = Form(q) /\ q.stage = "arrived"
        BY <2>3 DEF Form
    <2>5. QED
        BY <2>3, <2>4 DEF RequestsInv
<1>8. QED
    BY <1>3, <1>4, <1>5, <1>6, <1>7 DEF SiteNext, ServerWorks

\* What is shown fits, and stays a function of the browsers.
LEMMA FitsKept ==
    ASSUME RequestsInv, Shaped, AnswerFits, [SiteNext]_siteVars
    PROVE  Shaped' /\ AnswerFits'
<1>1. \A b \in Browser : Fits(view[b])
    BY DEF AnswerFits, Fits, Replaced
<1>2. SUFFICES Shaped' /\ \A b \in Browser : Fits(view'[b])
    BY DEF AnswerFits, Fits, Replaced
<1>3. CASE UNCHANGED <<view, intervals>>
    BY <1>1, <1>3 DEF Shaped
<1>4. ASSUME NEW a, NEW screen, Fits(screen), view' = [view EXCEPT ![a] = screen],
             \/ UNCHANGED intervals
             \/ \E n : intervals' = [intervals EXCEPT ![a] = n]
      PROVE  Shaped' /\ \A b \in Browser : Fits(view'[b])
    <2>1. \A b \in Browser : view'[b] = IF b = a THEN screen ELSE view[b]
        BY <1>4 DEF Shaped
    <2>2. \A b \in Browser : Fits(view'[b])
        BY <1>1, <1>4, <2>1
    <2>3. Shaped'
        BY <1>4 DEF Shaped
    <2>4. QED
        BY <2>2, <2>3
<1>5. CASE Answers
    <2>1. PICK r \in requests : \E resp, cause :
              Reply(r, resp, cause) /\ Fits(Screen(resp.body, r.path, cause))
        BY <1>5 DEF Answers
    <2>2. QED
        BY <1>3, <1>4, <2>1 DEF Reply
<1>6. CASE Asks
    <2>1. PICK b \in Browser : \E path : Request(b, path)
        BY <1>6 DEF Asks
    <2>2. \A path : Fits(Loading(path, visits))
        BY DEF Fits, Loading, Replaced
    <2>3. QED
        BY <1>4, <2>1, <2>2 DEF Request
<1>7. CASE Turns
    BY <1>4, <1>7 DEF Turns, Replaces
<1>8. CASE ServerRestarts
    <2>1. \A b \in Browser : view'[b] = IF view[b].kind = "loading"
                                 THEN Screen("lost", view[b].path, "none") ELSE view[b]
        BY <1>8 DEF ServerRestarts
    <2>2. \A path : Fits(Screen("lost", path, "none"))
        BY DEF Fits, Screen, Replaced
    <2>3. \A b \in Browser : Fits(view'[b])
        BY <1>1, <2>1, <2>2
    <2>4. Shaped'
        BY <1>8 DEF ServerRestarts, Shaped
    <2>5. QED
        BY <2>3, <2>4
<1>9. QED
    BY <1>3, <1>5, <1>6, <1>7, <1>8, PageSteps

\* Whatever throws, wherever: each browser is shown what belongs to its cause, and
\* no body of a swallowed error.
THEOREM AnswersAlwaysFit == SiteSpec => []AnswerFits
<1> DEFINE Inv == RequestsInv /\ Shaped /\ AnswerFits
<1>1. SiteInit => Inv
    BY DEF SiteInit, RequestsInv, Shaped, AnswerFits, Screen
<1>2. Inv /\ [SiteNext]_siteVars => Inv'
    BY RequestsKept, FitsKept
<1>3. Inv => AnswerFits
    OBVIOUS
<1> HIDE DEF Inv
<1>4. QED
    BY <1>1, <1>2, <1>3, PTL DEF SiteSpec
-----------------------------------------------------------------------------
(* Site: intervals. *)

\* One timer for each of the panels.
Timers(screen) == [p \in Polling |-> IF p \in Mounted(screen) THEN 1 ELSE 0]

LEMMA TimersTurn ==
    ASSUME NEW old, NEW new
    PROVE  Running(Timers(old), Mounted(old), Mounted(new)) = Timers(new)
<1>1. ASSUME NEW p \in Polling
      PROVE  Running(Timers(old), Mounted(old), Mounted(new))[p] = Timers(new)[p]
    <2>1. Timers(old)[p] = (IF p \in Mounted(old) THEN 1 ELSE 0)
        BY DEF Timers
    <2>2. (IF p \in Mounted(old) THEN Cleared(Timers(old)[p]) ELSE Timers(old)[p]) = 0
        BY <2>1 DEF Cleared
    <2>3. QED
        BY <2>2 DEF Running, Timers
<1>2. QED
    BY <1>1 DEF Running, Timers

LEMMA TimersStart ==
    ASSUME NEW new
    PROVE  Running(NoIntervals, {}, Mounted(new)) = Timers(new)
BY DEF Running, NoIntervals, Timers

\* Each page has the timers of its panels.
LEMMA TimersKept ==
    ASSUME RequestsInv, Shaped, PollsOfPage, [SiteNext]_siteVars
    PROVE  PollsOfPage'
<1>1. \A b \in Browser : view[b].kind # "loading" => intervals[b] = Timers(view[b])
    BY DEF PollsOfPage, Timers
<1>2. SUFFICES \A b \in Browser : view'[b].kind # "loading" => intervals'[b] = Timers(view'[b])
    BY DEF PollsOfPage, Timers
<1>3. CASE UNCHANGED <<view, intervals>>
    BY <1>1, <1>3
<1>4. ASSUME NEW a, NEW screen, view' = [view EXCEPT ![a] = screen],
             intervals' = [intervals EXCEPT ![a] = Timers(screen)]
      PROVE  \A b \in Browser : view'[b].kind # "loading" => intervals'[b] = Timers(view'[b])
    <2>1. \A b \in Browser : /\ view'[b] = IF b = a THEN screen ELSE view[b]
                             /\ intervals'[b] = IF b = a THEN Timers(screen) ELSE intervals[b]
        BY <1>4 DEF Shaped
    <2>2. QED
        BY <1>1, <2>1
<1>5. CASE Answers
    <2>1. PICK r \in requests : \E resp, cause : Reply(r, resp, cause)
        BY <1>5 DEF Answers
    <2>2. QED
        BY <1>3, <1>4, <2>1, TimersStart DEF Reply
<1>6. CASE Asks
    <2>1. PICK a \in Browser : \E path : Request(a, path)
        BY <1>6 DEF Asks
    <2>2. PICK path : view' = [view EXCEPT ![a] = Loading(path, visits)] /\ intervals' = intervals
        BY <2>1 DEF Request
    <2>3. \A b \in Browser : view'[b] = IF b = a THEN Loading(path, visits) ELSE view[b]
        BY <2>2 DEF Shaped
    <2>4. QED
        BY <1>1, <2>2, <2>3 DEF Loading
<1>7. CASE Turns
    <2>1. PICK a \in Browser : view[a].kind # "loading" /\ \E screen : Replaces(a, screen)
        BY <1>7 DEF Turns
    <2>2. PICK screen : Replaces(a, screen)
        BY <2>1
    <2>3. view' = [view EXCEPT ![a] = screen]
        BY <2>2 DEF Replaces
    <2>4. intervals' = [intervals EXCEPT ![a] =
              IF screen = view[a] THEN intervals[a]
              ELSE Running(intervals[a], Mounted(view[a]), Mounted(screen))]
        BY <2>2 DEF Replaces
    <2>5. intervals[a] = Timers(view[a])
        BY <1>1, <2>1
    <2>6. intervals' = [intervals EXCEPT ![a] = Timers(screen)]
        BY <2>4, <2>5, TimersTurn
    <2>7. QED
        BY <1>4, <2>3, <2>6
<1>8. CASE ServerRestarts
    <2>1. \A b \in Browser :
             /\ view'[b] = IF view[b].kind = "loading"
                           THEN Screen("lost", view[b].path, "none") ELSE view[b]
             /\ intervals'[b] = IF view[b].kind = "loading" THEN NoIntervals ELSE intervals[b]
        BY <1>8 DEF ServerRestarts
    <2>2. \A path : Timers(Screen("lost", path, "none")) = NoIntervals
        BY DEF Timers, Mounted, Screen, NoIntervals
    <2>3. QED
        BY <1>1, <2>1, <2>2
<1>9. QED
    BY <1>3, <1>5, <1>6, <1>7, <1>8, PageSteps

\* Every panel asks the cluster by one timer and no other timer does, whatever pages
\* are loaded, left, broken and tried again.
THEOREM PollsAlwaysOfPage == SiteSpec => []PollsOfPage
<1> DEFINE Inv == RequestsInv /\ Shaped /\ AnswerFits /\ PollsOfPage
<1>1. SiteInit => Inv
    BY DEF SiteInit, RequestsInv, Shaped, AnswerFits, PollsOfPage, Mounted, Screen, NoIntervals
<1>2. Inv /\ [SiteNext]_siteVars => Inv'
    BY RequestsKept, FitsKept, TimersKept
<1>3. Inv => PollsOfPage
    OBVIOUS
<1> HIDE DEF Inv
<1>4. QED
    BY <1>1, <1>2, <1>3, PTL DEF SiteSpec
=============================================================================
