------------------------------ MODULE MCTrees ------------------------------
(* One run for the trees and records on disk, which share no state: the    *)
(* extent tree, indexed directories, extended attributes and fast commits. *)
EXTENDS ExtentTree, HtreeDir, Xattr, FastCommit

\* Names of two lengths whose hashes collide on the major and minor part.
MCHash ==
    [n \in DxNames |-> CASE n = "a" -> <<4, 0>> [] n = "b" -> <<4, 2>>
                         [] n = "c" -> <<4, 0>> [] n = "d" -> <<6, 0>>
                         [] n = "e" -> <<8, 0>> [] n = "f" -> <<4, 1>>
                         [] n = "g" -> <<2, 0>> [] n = "h" -> <<6, 1>>
                         [] n = "i" -> <<8, 2>>]
MCLen == [n \in DxNames |-> IF n = "c" THEN 1 ELSE 2]

\* A directory whose only block is almost full, and one whose index is.
MCFilled == <<"a", "b", "d", "e", "f", "g", "h", "i">>
MCStarts == {SubSeq(MCFilled, 1, k) : k \in {3, 8}}

VARIABLE part

treesVars == <<etVars, dxVars, xaVars, fcVars, part>>

TreesInit ==
    /\ part \in {"tree", "index", "xattr", "fastcommit"}
    /\ EtInit /\ DxInit /\ XaInit /\ FcInit
    /\ part # "index" => Cardinality(names) = 3

TreesNext ==
    \/ part = "tree" /\ EtNext /\ UNCHANGED <<dxVars, xaVars, fcVars, part>>
    \/ part = "index" /\ DxNext /\ UNCHANGED <<etVars, xaVars, fcVars, part>>
    \/ part = "xattr" /\ XaNext /\ UNCHANGED <<etVars, dxVars, fcVars, part>>
    \/ part = "fastcommit" /\ FcNext /\ UNCHANGED <<etVars, dxVars, xaVars, part>>

TreesSpec == TreesInit /\ [][TreesNext]_treesVars
=============================================================================
