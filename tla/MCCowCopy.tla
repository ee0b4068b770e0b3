----------------------------- MODULE MCCowCopy ------------------------------
(* CowCopy for TLC: two writers of one child, and another child.           *)
EXTENDS CowCopy, TLC

CONSTANTS c1, c2, w1, w2

MCChildOf == (w1 :> c1) @@ (w2 :> c1)
=============================================================================
