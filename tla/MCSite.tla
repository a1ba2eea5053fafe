------------------------------- MODULE MCSite -------------------------------
(***************************************************************************)
(* The parts of the web site that have no business with the cluster, each  *)
(* by itself: a behaviour is one of the failure simulation, of server and  *)
(* browsers, of a sidebar or of a carousel, which share no state.          *)
(***************************************************************************)
EXTENDS FailureLab, Site, Sidebar, Carousel

LabSide == [n \in 0..4 |-> IF n \in {0, 4} THEN "a" ELSE "b"]

VARIABLE part
Part == {"lab", "site", "sidebar", "carousel"}

WebInit ==
    /\ part \in Part
    /\ LabInit /\ SiteInit /\ SidebarInit /\ CarouselInit
    /\ part # "sidebar" => mode = "own" /\ collapsible = "none" /\ ~narrow
    /\ part # "carousel" => ~loop /\ ~given /\ slides = 1

WebNext ==
    /\ UNCHANGED part
    /\ \/ part = "lab" /\ LabNext /\ UNCHANGED <<siteVars, sidebarVars, carouselVars>>
       \/ part = "site" /\ SiteNext /\ UNCHANGED <<labVars, sidebarVars, carouselVars>>
       \/ part = "sidebar" /\ SidebarNext /\ UNCHANGED <<labVars, siteVars, carouselVars>>
       \/ part = "carousel" /\ CarouselNext /\ UNCHANGED <<labVars, siteVars, sidebarVars>>

webVars == <<part, labVars, siteVars, sidebarVars, carouselVars>>
WebSpec ==
    /\ WebInit /\ [][WebNext]_webVars
    /\ WF_labVars(TimerFires) /\ WF_siteVars(ServerWorks)
=============================================================================
