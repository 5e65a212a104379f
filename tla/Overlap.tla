------------------------------ MODULE Overlap -------------------------------
(***************************************************************************)
(* Calls of OnConfigurationChange that overlap, as when two administrators *)
(* save at once.  The configuration and the token store are set under two  *)
(* locks, so overlapping calls may leave the one of this call and the      *)
(* other of that.  Configuration with two slots for calls has all of it;   *)
(* this module adds what it takes to say how the plugin comes out of it.   *)
(***************************************************************************)
EXTENDS Configuration

VARIABLE
    trust   \* history; see TrustKinds

\* "whole": no calls have overlapped since the process began, or a call has run
\* alone to its end since they did; "old": the same, but the last call ended
\* early, without the settings it should have brought; "torn": calls have
\* overlapped; "mending": one has begun alone after that.
TrustKinds == {"whole", "old", "torn", "mending"}

overlapVars == <<confVars, trust>>

Overlapping == \E g, h \in Slots : g # h /\ hook[g] # HookIdle /\ hook[h] # HookIdle

\* A call that ends from here is one whose load has failed.
NotLoaded == \E h \in Slots : hook[h].pc = "called"

Restarted == phase' = "down" /\ trust' = "whole"

Tears == phase' # "down" /\ Overlapping' /\ trust' = "torn"

Begins ==
    /\ phase' # "down" /\ ~ Overlapping' /\ HooksIdle /\ ~ HooksIdle'
    /\ trust' = IF trust = "torn" THEN "mending" ELSE trust

Ends ==
    /\ phase' # "down" /\ ~ HooksIdle /\ HooksIdle'
    /\ trust' = CASE trust = "torn" -> "torn"
                  [] trust = "mending" /\ NotLoaded -> "torn"
                  [] trust \in {"whole", "old"} /\ NotLoaded -> "old"
                  [] OTHER -> "whole"

GoesOn ==
    /\ phase' # "down" /\ ~ Overlapping' /\ HooksIdle = HooksIdle'
    /\ trust' = trust

OverlapInit == ConfInit /\ trust = "whole"

OverlapNext == ConfNext /\ (Restarted \/ Tears \/ Begins \/ Ends \/ GoesOn)

OverlapSpec == OverlapInit /\ [][OverlapNext]_overlapVars

FairOverlapSpec == OverlapSpec /\ ConfFairness

-----------------------------------------------------------------------------
(* Properties *)

\* Overlapping calls may leave a token store that is not the configuration's.
\* The next call that runs alone to its end repairs it, whatever they left, and
\* so does a restart.
LoneCallRepairs ==
    phase = "active" /\ HooksIdle /\ trust \in {"whole", "old"} =>
        /\ configuration # 0
        /\ kvstore = StoreFor(configuration)

\* No save is missed: once the server owes no call and none runs, the plugin
\* serves requests by the settings saved last, however saves, calls and
\* restarts met, if the last calls were not torn and loaded what they should.
NoSaveMissed ==
    phase = "active" /\ HooksIdle /\ due = 0 /\ trust = "whole" =>
        /\ configuration = Latest
        /\ kvstore = StoreFor(Latest)

\* Once the administrator stops saving, a plugin that serves requests comes to
\* serve them by the settings saved last, across restarts, if the last calls
\* were not torn and loaded what they should.
SettingsTakeEffect ==
    <>[](phase = "active" /\ trust = "whole" =>
            /\ configuration = Latest
            /\ kvstore = StoreFor(Latest))
=============================================================================
