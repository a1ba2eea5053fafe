------------------------------ MODULE Carousel ------------------------------
(***************************************************************************)
(* Carousel of src/src/components/ui/carousel.tsx: two flags that are      *)
(* copied from the Embla API whenever it says that something changed.      *)
(* Embla is external: its API exists once the element does, is another     *)
(* one when the element is replaced, and knows the slides and which of     *)
(* them is selected.  It emits its events at once; what their handlers     *)
(* set is rendered later.                                                  *)
(***************************************************************************)
EXTENDS Naturals

CONSTANTS MaxSlides, MaxInputs,   \* bounds: slides, what users and page do
          NoApi, NoFlags          \* undefined; nothing waits to be rendered

\* What is undefined is not the flags of a carousel.
ASSUME SlidesAssumption ==
    /\ MaxSlides \in Nat \ {0} /\ MaxInputs \in Nat
    /\ NoFlags \notin [prev : BOOLEAN, next : BOOLEAN]

VARIABLES
    loop, given,        \* opts.loop, and whether the parent has passed setApi
    api,                \* the API of this render, by number
    slides, selected,   \* what Embla knows
    subscribed,         \* the events of an API that call onSelect
    parentApi,          \* what the parent was given by setApi
    flags, flagsToSet,  \* canScrollPrev and canScrollNext, shown and set
    apiEffectsDue,         \* the effects of the render with this API have not run
    inputs              \* what is left of the bound

carouselVars == <<loop, given, api, slides, selected, subscribed, parentApi, flags,
                  flagsToSet, apiEffectsDue, inputs>>
-----------------------------------------------------------------------------
Flags(prev, next) == [prev |-> prev, next |-> next]

\* Embla: where it can go from slide s of n.
CanScroll(n, s) == IF loop THEN Flags(n > 1, n > 1) ELSE Flags(s > 1, s < n)
Present == CanScroll(slides, selected)
PrevOf(n, s) == IF s > 1 THEN s - 1 ELSE IF loop THEN n ELSE s
NextOf(n, s) == IF s < n THEN s + 1 ELSE IF loop THEN 1 ELSE s

\* api.on
OnlySelect(a) == {<<a, "select">>}     \* mutant: api.on("reInit") is missing
Subscriptions(a) == {<<a, "reInit">>, <<a, "select">>}

\* Embla emits an event; onSelect asks it for both flags.
Emits(event) ==
    flagsToSet' = IF <<api, event>> \in subscribed THEN CanScroll(slides', selected')
                                                   ELSE flagsToSet

Input == inputs > 0 /\ inputs' = inputs - 1 /\ UNCHANGED <<loop, given>>

CarouselInit ==
    /\ loop \in BOOLEAN /\ given \in BOOLEAN
    /\ api = NoApi /\ parentApi = NoApi
    /\ slides \in 1..MaxSlides /\ selected = 1
    /\ subscribed = {}
    /\ flags = Flags(FALSE, FALSE) /\ flagsToSet = NoFlags
    /\ apiEffectsDue = FALSE
    /\ inputs = MaxInputs
-----------------------------------------------------------------------------
\* The element is there, or another one is: rendered with a new API.
ApiChanges ==
    /\ Input
    /\ api' = inputs
    /\ selected' = 1
    /\ apiEffectsDue' = TRUE
    /\ UNCHANGED <<slides, subscribed, parentApi, flags, flagsToSet>>

\* Embla sees that there are other slides.
SlidesChange ==
    /\ Input
    /\ slides' \in 1..MaxSlides
    /\ selected' = IF selected > slides' THEN slides' ELSE selected
    /\ Emits("reInit")
    /\ UNCHANGED <<api, subscribed, parentApi, flags, apiEffectsDue>>

Select(s) ==
    /\ api # NoApi
    /\ s # selected /\ selected' = s
    /\ UNCHANGED slides
    /\ Emits("select")
    /\ UNCHANGED <<api, subscribed, parentApi, flags, apiEffectsDue>>

\* CarouselPrevious and CarouselNext are disabled by the flags shown; the arrow
\* keys of handleKeyDown, and a drag, are not.
ButtonPressed ==
    /\ Input
    /\ \/ flags.prev /\ Select(PrevOf(slides, selected))
       \/ flags.next /\ Select(NextOf(slides, selected))
ArrowKey == Input /\ (Select(PrevOf(slides, selected)) \/ Select(NextOf(slides, selected)))
Drag == Input /\ \E s \in 1..slides : Select(s)

\* The effects with api among their dependencies; the clean-up leaves the handler
\* of "reInit" with the old API.
RunEffects ==
    /\ apiEffectsDue /\ apiEffectsDue' = FALSE
    /\ parentApi' = IF given THEN api ELSE parentApi
    /\ subscribed' = {h \in subscribed : h[2] # "select"} \cup Subscriptions(api)
    /\ flagsToSet' = Present
    /\ UNCHANGED <<loop, given, api, slides, selected, flags, inputs>>

RenderFlags ==
    /\ flagsToSet # NoFlags
    /\ flags' = flagsToSet /\ flagsToSet' = NoFlags
    /\ UNCHANGED <<loop, given, api, slides, selected, subscribed, parentApi,
                   apiEffectsDue, inputs>>

CarouselNext ==
    \/ ApiChanges \/ SlidesChange \/ ButtonPressed \/ ArrowKey \/ Drag
    \/ RunEffects \/ RenderFlags

CarouselSpec == CarouselInit /\ [][CarouselNext]_carouselVars
-----------------------------------------------------------------------------
\* Once all is rendered, the buttons are disabled exactly where Embla cannot go,
\* and the parent holds the API that is in use, whatever slides came and went and
\* however the element was replaced (carousel.tsx:55-62, 85-105, 193, 221).
ButtonsTrue ==
    api # NoApi /\ ~apiEffectsDue /\ flagsToSet = NoFlags =>
        flags = Present /\ (given => parentApi = api)
=============================================================================
