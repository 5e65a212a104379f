-------------------------- MODULE MCConfiguration --------------------------
(* Model values and settings for TLC.  Settings come valid, with either     *)
(* key or either pair of credentials, or unusable, for want of a key.       *)
EXTENDS Configuration

CONSTANTS a, b, k, l, h1, boot, none

MCSettings ==
    { [creds |-> a, key |-> k, restrict |-> FALSE, site |-> TRUE],
      [creds |-> a, key |-> l, restrict |-> TRUE, site |-> TRUE],
      [creds |-> b, key |-> k, restrict |-> FALSE, site |-> FALSE],
      [creds |-> b, key |-> none, restrict |-> FALSE, site |-> TRUE] }
=============================================================================
