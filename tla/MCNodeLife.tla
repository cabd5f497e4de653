----------------------------- MODULE MCNodeLife -----------------------------
(* A node with two topics whose callbacks depend on each other, and one     *)
(* service.                                                                *)
EXTENDS NodeLife, TLC

CONSTANTS t1, t2, s1

NeedsValue == (t1 :> t2) @@ (t2 :> t1)
=============================================================================
