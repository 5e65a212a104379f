------------------------------ MODULE MCWebapp ------------------------------
(* Model values for the runs of Webapp.                                     *)
EXTENDS Webapp

CONSTANTS p1, u1, u2, r1, r2, town, none
=============================================================================
