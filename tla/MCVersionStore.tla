--------------------------- MODULE MCVersionStore ---------------------------
(* Instances of VersionStore: two original blocks of two units, and a third *)
(* that is half full or missing; requests on logical blocks 0 .. 2.         *)
EXTENDS VersionStore, TLC

CONSTANTS t1, t2, f1, f2

PrivateFileOf == (t1 :> f1) @@ (t2 :> f2)
SharedFileOf == (t1 :> f1) @@ (t2 :> f1)

TailOriginal == (0 :> "o0") @@ (1 :> "o1") @@ (2 :> "o2")
WholeOriginal == (0 :> "o0") @@ (1 :> "o1")
MCValues == {"o0", "o1", "o2", "z", "a", "b"}

Req(blk, off, count, val) ==
    [blk |-> blk, off |-> off, count |-> count, val |-> val]

\* Whole blocks: one of the original file, and two that span its end.
WholeBlocks == [t \in Threads |-> {Req(0, 0, 2, "a"), Req(1, 0, 4, "b")}]

\* t1 writes whole blocks and t2 parts: the head and the tail of a block, and
\* a tail with the whole block that follows.
WholeAndPart ==
    [t \in Threads |-> IF t = t1 THEN {Req(0, 0, 2, "a"), Req(1, 0, 4, "b")}
                       ELSE {Req(0, 0, 1, "b"), Req(0, 1, 3, "a")}]

\* The head of a block, the end of one block with the head of the next (both
\* are copied), and the head of the partial block at the original end.
FaultyBlocks ==
    [t \in Threads |-> {Req(0, 0, 1, "a"), Req(0, 1, 2, "b"), Req(2, 0, 1, "a")}]

NoVectors == {}
MCVectors == {<<Req(0, 0, 2, "a")>>,
              <<Req(0, 1, 1, "b"), Req(1, 0, 2, "b")>>}
=============================================================================
