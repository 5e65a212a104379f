----------------------------- MODULE MCLogWatch -----------------------------
(* The runs of LogWatch give its numbers in their .cfg files.               *)
EXTENDS LogWatch
=============================================================================
