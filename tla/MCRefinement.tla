---------------------------- MODULE MCRefinement ----------------------------
(* Model values for the runs of MeetPluginRefinement. *)
EXTENDS MeetPluginRefinement, MCMeetPlugin
=============================================================================
