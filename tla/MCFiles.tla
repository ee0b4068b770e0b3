------------------------------ MODULE MCFiles ------------------------------
(* One run for the parts behind a file's data and names, which share no    *)
(* state: the extent status tree, buffered writes, links and renames, and  *)
(* orphans.                                                                *)
EXTENDS ExtentStatus, Writeback, Namei, Orphan

\* Writes of parts of two blocks, in each of two pages.
MCWrites == {<<1, 2>>, <<5, 2>>}

VARIABLE part

filesVars == <<esVars, wrVars, nmVars, orVars, part>>

FilesInit ==
    /\ part \in {"status", "writeback", "links", "orphan"}
    /\ EsInit /\ WrInit /\ NmInit /\ OrInit
    /\ part # "status" => others = 0
    /\ part # "links" => ino[Root].dx
    /\ part # "orphan" => obfree = << >>

FilesNext ==
    \/ part = "status" /\ EsNext /\ UNCHANGED <<wrVars, nmVars, orVars, part>>
    \/ part = "writeback" /\ WrNext /\ UNCHANGED <<esVars, nmVars, orVars, part>>
    \/ part = "links" /\ NmNext /\ UNCHANGED <<esVars, wrVars, orVars, part>>
    \/ part = "orphan" /\ OrNext /\ UNCHANGED <<esVars, wrVars, nmVars, part>>

FilesSpec == FilesInit /\ [][FilesNext]_filesVars
=============================================================================
