--------------------------- MODULE MeetingService ---------------------------
(***************************************************************************)
(* What the plugin's server side promises to whoever starts a meeting, and *)
(* no more: the endpoint POST /meeting (handleCreateMeeting in             *)
(* server/api.go) and the command /meet start, without tokens, stores,     *)
(* settings and Google.                                                    *)
(*                                                                         *)
(* A request is refused, or it makes ONE meeting, posts it and announces   *)
(* it, in this order; only then is it answered "ok".  It may fail at each  *)
(* step, and then what it did stays.  MeetPluginRefinement shows that the  *)
(* server side implements this; Webapp relies on it.                       *)
(***************************************************************************)
EXTENDS Naturals, Sequences

CONSTANTS
    Users,
    Channels,
    Starts,         \* slots for requests to start a meeting
    None            \* nothing

VARIABLES
    serving,        \* a process of the plugin takes requests
    ready,          \* the plugin is fully configured
    request,        \* the requests, each with its last reply
    meetings        \* the meetings made, with what became of them

serviceVars == <<serving, ready, request, meetings>>

NotAnswered == "none"
Refusals == {"not_configured", "connection_check_failed", "not_connected",
             "permission_denied", "public_channel_restricted",
             "needs_reconnect", "meeting_failed"}

Meeting == [user: Users, chan: Channels, posted: BOOLEAN, announced: BOOLEAN]

\* A request is "asked", then it has "made" its meeting, then "posted" it.
Request == [stage: {"idle", "asked", "made", "posted"},
            user: Users \cup {None}, chan: Channels \cup {None}, meeting: Nat,
            reply: {NotAnswered, "ok"} \cup Refusals]

RequestIdle == [stage |-> "idle", user |-> None, chan |-> None, meeting |-> 0,
                reply |-> NotAnswered]

Open(r) == request[r].stage # "idle"

Reply(r, reply) ==
    request' = [request EXCEPT ![r] = [RequestIdle EXCEPT !.user = request[r].user,
                                                         !.reply = reply]]

-----------------------------------------------------------------------------
(* What the requests do *)

Ask(r, u, ch) ==
    /\ serving
    /\ ~ Open(r)
    /\ request' = [request EXCEPT ![r] =
                     IF ready
                     THEN [RequestIdle EXCEPT !.stage = "asked", !.user = u, !.chan = ch]
                     ELSE [RequestIdle EXCEPT !.user = u, !.reply = "not_configured"]]
    /\ UNCHANGED <<serving, ready, meetings>>

\* Once there is a meeting, only its post can fail.
Refuse(r) ==
    /\ \/ /\ request[r].stage = "asked"
          /\ \E reply \in Refusals \ {"not_configured"} : Reply(r, reply)
       \/ request[r].stage = "made" /\ Reply(r, "meeting_failed")
    /\ UNCHANGED <<serving, ready, meetings>>

\* The meeting is made; whether the plugin learns of it is another matter.
Make(r) ==
    /\ request[r].stage = "asked"
    /\ meetings' = Append(meetings, [user |-> request[r].user, chan |-> request[r].chan,
                                     posted |-> FALSE, announced |-> FALSE])
    /\ \/ request' = [request EXCEPT ![r].stage = "made",
                                     ![r].meeting = Len(meetings) + 1]
       \/ Reply(r, "meeting_failed")
    /\ UNCHANGED <<serving, ready>>

Post(r) ==
    /\ request[r].stage = "made"
    /\ meetings' = [meetings EXCEPT ![request[r].meeting].posted = TRUE]
    /\ request' = [request EXCEPT ![r].stage = "posted"]
    /\ UNCHANGED <<serving, ready>>

Announce(r) ==
    /\ request[r].stage = "posted"
    /\ meetings' = [meetings EXCEPT ![request[r].meeting].announced = TRUE]
    /\ Reply(r, "ok")
    /\ UNCHANGED <<serving, ready>>

Serve(r) == Refuse(r) \/ Make(r) \/ Post(r) \/ Announce(r)

-----------------------------------------------------------------------------
(* What happens to them *)

\* Settings change, and a process comes up.
Configure ==
    /\ serving' \in {serving, TRUE}
    /\ ready' \in BOOLEAN
    /\ UNCHANGED <<request, meetings>>

\* The process ends, and its requests with it; the meetings stay.
StopServing ==
    /\ serving' = FALSE
    /\ ready' \in BOOLEAN
    /\ request' = [r \in Starts |-> RequestIdle]
    /\ UNCHANGED meetings

ServiceInit ==
    /\ serving = FALSE
    /\ ready \in BOOLEAN
    /\ request = [r \in Starts |-> RequestIdle]
    /\ meetings = <<>>

ServiceNext ==
    \/ \E r \in Starts, u \in Users, ch \in Channels : Ask(r, u, ch)
    \/ \E r \in Starts : Serve(r)
    \/ Configure
    \/ StopServing

ServiceSpec == ServiceInit /\ [][ServiceNext]_serviceVars

\* Every request comes to its end.
ServiceFairness == \A r \in Starts : WF_serviceVars(Serve(r))

ServiceFairSpec == ServiceSpec /\ ServiceFairness

ServiceTypeOK ==
    /\ serving \in BOOLEAN /\ ready \in BOOLEAN
    /\ request \in [Starts -> Request]
    /\ meetings \in Seq(Meeting)
    /\ \A r \in Starts : request[r].meeting <= Len(meetings)
=============================================================================
