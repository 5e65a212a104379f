---------------------------- MODULE MCMeetPlugin ----------------------------
(* Model values for the runs of MeetPlugin, and the settings they save.     *)
EXTENDS MeetPlugin

CONSTANTS a, b, k, l, h1, boot, none, u1, u2, s1, g0, g1, n1, c1, d1, r1, r2,
          town, dm

Usable(creds, key, restrict) ==
    [creds |-> creds, key |-> key, restrict |-> restrict, site |-> TRUE]

\* The key rotates; nothing else changes.
Rotation == { Usable(a, k, FALSE), Usable(a, l, FALSE) }

\* The key and the restriction change together.
Switching == { Usable(a, k, FALSE), Usable(a, l, TRUE) }

Steady == { Usable(a, k, FALSE) }
=============================================================================
