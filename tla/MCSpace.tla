------------------------------ MODULE MCSpace ------------------------------
(* One run for the parts that hand out blocks and inodes, and the guard    *)
(* against a second mount; they share no state.                            *)
EXTENDS AllocScan, Mballoc, PaWindow, Ialloc, Mmp, TLC

\* A request and its goal length.
MCRequests == {<<1, 2>>, <<2, 3>>}

\* Blocks wanted, stream allocation or not, data of writeback or not.
MCKinds == {<<1, FALSE, FALSE>>, <<2, TRUE, FALSE>>, <<2, FALSE, TRUE>>}

\* The goal of an EA inode, and two layouts of the inodes in use: the first
\* group nearly full and the second uninitialised, and one inode left.
MCGoals == {<<1, 2>>}
MCLayouts == {[g \in {0, 1} |-> IF g = 0 THEN {0, 1, 2} ELSE {}],
              [g \in {0, 1} |-> IF g = 0 THEN 0 .. 3 ELSE 0 .. 2]}
SpaceSymmetry == Permutations(IaThreads)

VARIABLE part

spaceVars == <<bdVars, scVars, mbVars, pwVars, iaVars, mpVars, part>>

SpaceInit ==
    /\ part \in {"buddy", "scan", "mballoc", "window", "ialloc", "mmp"}
    /\ BdInit /\ ScInit /\ MbInit /\ PwInit /\ IaInit /\ MpInit
    /\ part # "buddy" => bheld.files # {}
    /\ part # "scan" => sgrp = [g \in Groups |-> GroupOf(Meta)]
    /\ part # "ialloc" => igrp[1].dbits = {}
    /\ part # "mmp" => mblk.seq = SEQ_CLEAN

SpaceNext ==
    \/ part = "buddy" /\ BdNext /\ UNCHANGED <<scVars, mbVars, pwVars, iaVars, mpVars, part>>
    \/ part = "scan" /\ ScNext /\ UNCHANGED <<bdVars, mbVars, pwVars, iaVars, mpVars, part>>
    \/ part = "mballoc" /\ MbNext /\ UNCHANGED <<bdVars, scVars, pwVars, iaVars, mpVars, part>>
    \/ part = "window" /\ PwNext /\ UNCHANGED <<bdVars, scVars, mbVars, iaVars, mpVars, part>>
    \/ part = "ialloc" /\ IaNext /\ UNCHANGED <<bdVars, scVars, mbVars, pwVars, mpVars, part>>
    \/ part = "mmp" /\ MpNext /\ UNCHANGED <<bdVars, scVars, mbVars, pwVars, iaVars, part>>

SpaceSpec == SpaceInit /\ [][SpaceNext]_spaceVars
=============================================================================
