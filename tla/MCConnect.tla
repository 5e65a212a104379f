----------------------------- MODULE MCConnect -----------------------------
(* Two users without a connection connect, reconnect and disconnect at      *)
(* once.  The settings are usable and stay as they are: what their change   *)
(* does to a connect is left to the proofs.                                 *)
EXTENDS ConnectFlow

CONSTANTS a, k, h1, boot, none, u1, u2, s1, s2, g1, g2, n1, n2, c1, c2, d1

MCSettings == { [creds |-> a, key |-> k, restrict |-> FALSE, site |-> TRUE] }
=============================================================================
