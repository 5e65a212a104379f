----------------------------- MODULE MCOverlap ------------------------------
(* Model values and settings for Overlap: two keys, and no key at all.      *)
EXTENDS Overlap

CONSTANTS a, k, l, h1, h2, boot, none

MCSettings ==
    { [creds |-> a, key |-> k, restrict |-> FALSE, site |-> TRUE],
      [creds |-> a, key |-> l, restrict |-> FALSE, site |-> TRUE],
      [creds |-> a, key |-> none, restrict |-> FALSE, site |-> TRUE] }
=============================================================================
