------------------------------ MODULE MCClone ------------------------------
(* One run for three parts of a clone that share no state: the transaction *)
(* lock, the cached version maps, and the versions of child and friend.    *)
EXTENDS MCTxnLock, VersionCache, FriendVersion

VARIABLE part

cloneVars == <<lockVars, cacheAll, frVars, part>>

CloneInit ==
    /\ part \in {"lock", "cache", "friend"}
    /\ LockInit /\ CacheInit /\ FrInit

CloneNext ==
    \/ part = "lock" /\ LockNext /\ UNCHANGED <<cacheAll, frVars, part>>
    \/ part = "cache" /\ CacheSerialNext /\ UNCHANGED <<lockVars, frVars, part>>
    \/ part = "friend" /\ FrNext /\ UNCHANGED <<lockVars, cacheAll, part>>

CloneSpec ==
    /\ CloneInit /\ [][CloneNext]_cloneVars
    /\ LockFairness /\ FrFairness
=============================================================================
