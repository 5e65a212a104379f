------------------------ MODULE MeetPluginRefinement ------------------------
(***************************************************************************)
(* MeetPlugin implements MeetingService.  Everything a request does before *)
(* it has a space, fourteen steps with tokens, stores and Google, is one   *)
(* stage of the service.                                                   *)
(***************************************************************************)
EXTENDS MeetPlugin

StageOf(pc) ==
    CASE pc = "idle" -> "idle"
      [] pc = "post" -> "made"
      [] pc = "publish" -> "posted"
      [] OTHER -> "asked"

requestBar ==
    [r \in Starts |->
        [stage |-> StageOf(start[r].pc), user |-> start[r].user, chan |-> start[r].chan,
         meeting |-> start[r].link, reply |-> start[r].reply]]

meetingsBar ==
    [i \in 1..Len(spaces) |->
        [user |-> spaces[i].user, chan |-> spaces[i].chan,
         posted |-> spaces[i].posted, announced |-> spaces[i].announced]]

Service == INSTANCE MeetingService WITH
    serving <- phase = "active",
    ready <- Ready,
    request <- requestBar,
    meetings <- meetingsBar

\* To whoever starts a meeting, the server side is no more than a service that
\* makes one meeting per request, posts it, announces it and then answers "ok",
\* whatever becomes of settings, tokens and processes meanwhile.
ImplementsService == Service!ServiceSpec

\* The same with progress: each request comes to its end.
ImplementsFairService == Service!ServiceFairSpec
=============================================================================
