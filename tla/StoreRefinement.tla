-------------------------- MODULE StoreRefinement --------------------------
(***************************************************************************)
(* VersionStore implements Snapshots: version v of the store is the v-th   *)
(* content of the history.  A write outside a transaction takes effect     *)
(* when its record is logged, a transaction when END bumps the version.    *)
(* The pages that a logged write has still to fill count as filled.        *)
(***************************************************************************)
EXTENDS VersionStore

\* The writes that are logged and not finished.
Filling(t) == pc[t] \in {"unset", "data"}

\* Block b once the writes in progress are done.
FinalBlock(b) ==
    LET fillers == {t \in Threads : /\ Filling(t)
                                    /\ app[t] + page[t] <= b
                                    /\ b < app[t] + NrBlocks(TheReq(t))}
    IN  IF fillers = {} THEN BlockAt(data, b)
        ELSE LET t == CHOOSE t \in fillers : TRUE
             IN  Fill(TheReq(t), b - app[t], BlockAt(data, b))

\* The whole content of version v.
FinalContent(v) ==
    [L \in LogicalBlocks |->
        LET p == Lookup(log, v, L)
        IN  IF p # BLK_NOT_FOUND THEN FinalBlock(p)
            ELSE IF L < OrigPages THEN FinalBlock(L) ELSE ZeroBlock]

\* The version was bumped for a record that is not logged yet.
Announced == \E t \in Threads : pc[t] = "record" /\ status[t] = SET_NORMAL_WRITE

History == [v \in 1..(IF Announced THEN version - 1 ELSE version) |-> FinalContent(v)]

\* A transaction is over when END has bumped the version.
Open(f) ==
    /\ SelfStatus(f) = SET_TRANSACTION
    /\ \A t \in Threads : fileOf[t] = f => pc[t] # "end"

Pending == [f \in Files |-> IF Open(f) THEN FinalContent(version + 1) ELSE << >>]

ApplyTo(content, r) ==
    [L \in LogicalBlocks |->
        IF r.blk <= L /\ L <= LastBlock(r) THEN Fill(r, L - r.blk, content[L])
        ELSE content[L]]

OriginalContent ==
    [L \in LogicalBlocks |-> IF L < OrigPages THEN OriginalBlock(L) ELSE ZeroBlock]

Abstract == INSTANCE Snapshots WITH
                Requests <- UNION {Requests[t] : t \in Threads}, Apply <- ApplyTo,
                Empty <- OriginalContent, NoContent <- << >>,
                hist <- History, pending <- Pending

\* Writes, and transactions of whole blocks, behave as the history of
\* contents says: each write and each END adds exactly the content its caller
\* asked for, nothing else ever changes the history, and no transaction sees
\* or disturbs another writer (scorw_write_see_thru_ro, scorw_set_transaction,
\* scorw_read_from_parent).
ImplementsSnapshots == Abstract!Spec
=============================================================================
