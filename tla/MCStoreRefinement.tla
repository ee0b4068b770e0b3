------------------------- MODULE MCStoreRefinement -------------------------
(* The store and its refinement for TLC, with two kinds of programs: both  *)
(* threads use transactions and whole blocks, or t2 writes parts of blocks *)
(* and uses no transaction, and the child stays at its version.            *)
EXTENDS StoreRefinement, MCVersionStore

VARIABLE program

TxnOrParts ==
    [t \in Threads |-> IF t = t1 THEN WholeBlocks[t] ELSE WholeBlocks[t] \cup WholeAndPart[t]]

ProgramInit == Init /\ program \in {"txn", "parts"}

ProgramNext ==
    /\ Next /\ UNCHANGED program
    /\ IF program = "txn" THEN \A i \in DOMAIN req'[t2] : req'[t2][i] \in WholeBlocks[t2]
       ELSE /\ pc'[t2] # "lock_begin" /\ UNCHANGED childVersion
            /\ \A i \in DOMAIN req'[t2] : req'[t2][i] \in WholeAndPart[t2]

\* With failures: a program that uses transactions, or one that uses writev.
FaultInit == Init /\ program \in {"faults", "vectors"}

FaultNext ==
    /\ Next /\ UNCHANGED program
    /\ \A t \in Threads :
          pc'[t] # IF program = "faults" THEN "lock_inode_v" ELSE "lock_begin"

FaultSpec == FaultInit /\ [][FaultNext]_<<vars, program>>
ProgramSpec == ProgramInit /\ [][ProgramNext]_<<vars, program>>
=============================================================================
