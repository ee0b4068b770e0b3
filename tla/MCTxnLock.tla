---------------------------- MODULE MCTxnLock ----------------------------
(* Instances of TxnLock: each thread with an open file of its own.         *)
EXTENDS TxnLock, TLC

CONSTANTS t1, t2, t3, f1, f2, f3

PrivateFileOf == (t1 :> f1) @@ (t2 :> f2) @@ (t3 :> f3)
=============================================================================
