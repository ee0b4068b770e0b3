-------------------------- MODULE LifeMountProofs ---------------------------
(***************************************************************************)
(* Two protocols that count who uses what.                                 *)
(*                                                                         *)
(* The life of scorw inodes (ScorwInode): nobody who has a parent or a     *)
(* clone open loses the parent's scorw inode or one attached to it, and    *)
(* nothing is left when all is closed.  The usage counter is the number of *)
(* gets that have not had their put, as a set of pairs of a process and a  *)
(* file (Users); the children's scorw inodes hang on the parent's or on    *)
(* the last put of it, which goes through them (KidsOwned, Passes); the    *)
(* locks tell which calls exclude each other (LocksHeld); and clones are   *)
(* made and unlinked while no scorw inode is in use (Changes).  All this   *)
(* is so until something strays: strayed = {} is part of the hypothesis.   *)
(*                                                                         *)
(* Multiple mount protection (Mmp): no two nodes are mounted at a time     *)
(* unless two mounts skipped the wait together or a write failed.          *)
(* A mounted node writes the block at least every Gap units of time, and   *)
(* a mount waits longer than that between its own write and its second     *)
(* look (Overwrites); the mounts that do not wait found a clean block,     *)
(* which nobody who is mounted leaves (CleanFree, Skipping).               *)
(***************************************************************************)
EXTENDS ScorwInode, Mmp, TLAPS

-----------------------------------------------------------------------------
(* The life of scorw inodes: the invariant.                                *)

\* What a slot of the parent has.
Kid == Children \cup {NoInode}

\* Where a thread can be as long as nothing has strayed.
Pcs == {"idle", "open", "get", "kids", "opened", "close", "put", "putkids", "putkid", "closed",
        "served", "create1", "create2", "create3", "create4", "unlink", "unlink2", "writeback"}

LocRec ==
    [pc: Pcs, f: Inodes \cup {NoInode}, i: Nat, ret: {"idle", "opened", "closed", "served", "change"},
     kids: [Slots -> Kid]]

\* Types.
LifeTypes ==
    /\ attr \in [Slots -> Kid]
    /\ isChild \subseteq Children /\ exists \subseteq Children
    /\ si \in [Inodes -> {NoInode} \cup ScorwRec]
    /\ open \in [Procs -> SUBSET Inodes]
    /\ plain \in [Procs -> SUBSET Inodes]
    /\ \A t \in Procs : plain[t] \subseteq open[t]
    /\ opens \in [Inodes -> Nat]
    /\ copies \in Nat
    /\ lk \in [Locks -> All \cup {NoInode}]
    /\ loc \in [All -> LocRec]

\* The stretches of the calls.
OpenPcs == {"open", "get", "kids", "opened"}
PutPcs == {"putkids", "putkid"}
CreatePcs == {"create1", "create2", "create3", "create4"}
UnlinkPcs == {"unlink", "unlink2"}

\* Where a process can be, and on which file.
ProcAt(t) ==
    LET l == loc[t] IN
    \/ l.pc = "idle" /\ l.f = NoInode /\ l.ret = "idle"
    \/ l.pc = "open" /\ l.f \in Inodes \ open[t] /\ l.ret = "idle"
    \/ l.pc \in {"get", "kids", "opened"} /\ l.f \in Inodes \ open[t] /\ l.ret = "opened"
    \/ l.pc = "close" /\ l.f \in open[t] \ plain[t] /\ l.ret = "idle"
    \/ l.pc \in {"put", "closed"} \cup PutPcs /\ l.f \in open[t] \ plain[t] /\ l.ret = "closed"
    \/ l.pc \in CreatePcs \cup UnlinkPcs /\ l.f \in Children /\ l.ret = "change"
    \/ l.pc = "writeback" /\ l.f = NoInode /\ l.ret = "idle"

\* The page copy thread works on no file of its own.
ThreadAt ==
    LET l == loc[CopyThread] IN
    /\ l.f = NoInode
    /\ \/ l.pc = "idle"
       \/ l.pc \in {"put", "served"} \cup PutPcs /\ l.ret = "served"

\* Every thread is at one of its places.
Places == (\A t \in Procs : ProcAt(t)) /\ ThreadAt

\* The calls that hold the parent's i_vfs_inode_lock over several steps.
VlPcs == {"kids", "create3", "create4"} \cup PutPcs

\* Which calls hold a lock.
MayHold(t, l) ==
    LET pc == loc[t].pc
        f == loc[t].f
    IN
    \/ l = VL(P) /\ pc \in VlPcs
    \/ l = FVL /\ pc = "putkid"
    \/ l = WB /\ pc \in {"writeback"} \cup CreatePcs
    \/ /\ l = OCL(f) /\ f # NoInode
       /\ pc \in {"get", "kids", "opened", "put", "closed"} \cup PutPcs \cup UnlinkPcs
    \/ l = OCL(P) /\ pc \in {"create2", "create3", "create4", "unlink2"}

\* A lock is held by a call that may hold it, and i_vfs_inode_lock of the
\* parent by every call that must.
LocksHeld ==
    /\ \A l \in Locks : lk[l] # NoInode => MayHold(lk[l], l)
    /\ \A t \in All : loc[t].pc \in VlPcs => lk[VL(P)] = t

\* A get of the parent that has not had its put.
Counts(t, f) ==
    \/ loc[t].f = f /\ loc[t].pc \in {"kids", "opened"}
    \/ /\ f \in open[t] \ plain[t]
       /\ ~ (loc[t].f = f /\ loc[t].pc \in {"closed"} \cup PutPcs)

\* All gets without their puts.
Users == {u \in Procs \X Inodes : Counts(u[1], u[2])}

\* An open that has not had its close.
Opened(t, f) ==
    \/ loc[t].f = f /\ loc[t].pc \in {"get", "kids", "opened"}
    \/ /\ f \in open[t] \ plain[t]
       /\ ~ (loc[t].f = f /\ loc[t].pc \in {"put", "closed"} \cup PutPcs)

\* S has n elements.
Numbers(S, n) ==
    /\ n \in Nat
    /\ \E e \in [1..n -> S] :
          /\ \A x \in S : \E k \in 1..n : e[k] = x
          /\ \A j, k \in 1..n : e[j] = e[k] => j = k

\* The processes whose open of f has not had its close.
OpenedBy(f) == {t \in Procs : Opened(t, f)}

\* A page copy that the thread has taken on and not put yet.
Serving == IF loc[CopyThread].pc = "put" THEN 1 ELSE 0

\* The counters are what they count: usage the users, added - removed the page
\* copies on their way, the open counts the opens.
Counted ==
    /\ si[P] = NoInode => Users = {} /\ copies = 0 /\ Serving = 0
    /\ si[P] # NoInode => /\ Numbers(Users, si[P].usage)
                          /\ si[P].added = si[P].removed + copies + Serving
                          /\ ~ Unused(si[P])
    /\ \A f \in Inodes : Numbers(OpenedBy(f), opens[f])

\* Slots of the parent that its creation has still to come to.
Ahead(i) == \E t \in Procs : loc[t].pc = "kids" /\ loc[t].i <= i

\* The children that creation has come to are attached at their slots.
Attached ==
    si[P] # NoInode => \A i \in Slots :
        /\ Ahead(i) => si[P].kids[i] = NoInode
        /\ ~ Ahead(i) => /\ si[P].kids[i] = attr[i]
                         /\ attr[i] # NoInode => /\ i <= si[P].last
                                                 /\ si[attr[i]] # NoInode
                                                 /\ si[attr[i]].at = i

\* The scorw inode of a child is there for the parent's, or for the call that
\* has still to put it.
KidsOwned ==
    \A c \in Children : si[c] # NoInode =>
        /\ si[c].usage = 1 /\ ~ si[c].unlinked
        /\ c \in isChild \cap exists
        /\ \/ si[P] # NoInode /\ \E i \in Slots : si[P].kids[i] = c
           \/ \E t \in All, i \in Slots : /\ loc[t].pc \in PutPcs /\ loc[t].i <= i
                                          /\ loc[t].kids[i] = c

\* Where creation and the last put are.
Passes ==
    \A t \in All :
        /\ loc[t].pc = "kids" => /\ loc[t].i \in 1..(SCORW_MAX_CHILDS + 1)
                                 /\ si[P] # NoInode /\ Users = {<<t, loc[t].f>>}
        /\ loc[t].pc \in PutPcs => /\ loc[t].i \in 1..(SCORW_MAX_CHILDS + 1)
                                   /\ si[P] = NoInode
        /\ loc[t].pc = "putkid" => /\ loc[t].i \in Slots
                                   /\ loc[t].kids[loc[t].i] # NoInode

\* Every clone has one slot of the parent.
SlotOf ==
    /\ \A i, j \in Slots : attr[i] = attr[j] /\ attr[i] # NoInode => i = j
    /\ \A c \in isChild \cap exists : \E i \in Slots : attr[i] = c
    /\ \A t \in Procs :
          /\ loc[t].pc \in CreatePcs \ {"create4"} => \A i \in Slots : attr[i] # loc[t].f
          /\ loc[t].pc = "create4" => loc[t].i \in Slots /\ attr[loc[t].i] = loc[t].f

\* Files are opened through clones that are there, and not as plain files
\* while scorw inodes are in use.
Clones ==
    /\ \A t \in Procs, c \in Children :
          (c \in open[t] \ plain[t]) \/ (loc[t].f = c /\ loc[t].pc \in OpenPcs)
             => c \in isChild \cap exists
    /\ \A t \in Procs : loc[t].pc \in OpenPcs =>
          \A u \in Procs : plain[u] \cap (isChild \cup {P}) = {}
    /\ si[P] # NoInode => \A u \in Procs : plain[u] \cap (isChild \cup {P}) = {}
    /\ \A c \in Children : si[c] # NoInode => \A u \in Procs : c \notin plain[u]

\* Clones are made and unlinked in peace.
Changes ==
    \A t \in Procs : loc[t].ret = "change" =>
        /\ NoneInUse
        /\ \A u \in Procs : u # t => loc[u].pc \in {"idle", "writeback"}
        /\ loc[t].pc \in UnlinkPcs => \A u \in Procs : loc[t].f \notin open[u]

\* The inductive invariant.
LifeInv ==
    /\ LifeTypes /\ Places /\ LocksHeld /\ Counted /\ Attached /\ KidsOwned
    /\ Passes /\ SlotOf /\ Clones /\ Changes

-----------------------------------------------------------------------------
(* Counting.                                                               *)

\* Zenon is tried on every leaf; leaves with arithmetic name SMT.
USE ZenonT(30)

\* The empty set has no element, and only it.
LEMMA NumbersZero ==
    /\ Numbers({}, 0)
    /\ \A S : Numbers(S, 0) => S = {}
    /\ \A n : Numbers({}, n) => n = 0
<1>1. Numbers({}, 0)
  <2> DEFINE e == [k \in 1..0 |-> 0]
  <2>1. e \in [1..0 -> {}] /\ 1..0 = {}
    BY SMT
  <2> QED BY <2>1 DEF Numbers
<1>2. ASSUME NEW S, Numbers(S, 0) PROVE S = {}
  BY <1>2, SMT DEF Numbers
<1>3. ASSUME NEW n, Numbers({}, n) PROVE n = 0
  <2>1. n \in Nat /\ \E e \in [1..n -> {}] : TRUE
    BY <1>3 DEF Numbers
  <2> QED BY <2>1, SMT
<1> QED BY <1>1, <1>2, <1>3

\* An element more is one more.
LEMMA NumbersAdd ==
    ASSUME NEW S, NEW n, NEW x, Numbers(S, n), x \notin S
    PROVE  Numbers(S \cup {x}, n + 1)
<1>1. n \in Nat
  BY DEF Numbers
<1>2. PICK e \in [1..n -> S] : /\ \A y \in S : \E k \in 1..n : e[k] = y
                               /\ \A j, k \in 1..n : e[j] = e[k] => j = k
  BY DEF Numbers
<1> DEFINE d == [k \in 1..(n + 1) |-> IF k = n + 1 THEN x ELSE e[k]]
<1>3. d \in [1..(n + 1) -> S \cup {x}]
  BY <1>1, <1>2, SMT
<1>4. \A y \in S \cup {x} : \E k \in 1..(n + 1) : d[k] = y
  <2>1. d[n + 1] = x /\ n + 1 \in 1..(n + 1)
    BY <1>1, SMT
  <2>2. \A k \in 1..n : k \in 1..(n + 1) /\ d[k] = e[k]
    BY <1>1, SMT
  <2> HIDE DEF d
  <2> QED BY <2>1, <2>2, <1>2
<1>5. \A j, k \in 1..(n + 1) : d[j] = d[k] => j = k
  <2>1. \A k \in 1..(n + 1) : k # n + 1 => k \in 1..n /\ e[k] \in S
    BY <1>1, <1>2, SMT
  <2> QED BY <2>1, <1>2
<1>6. n + 1 \in Nat
  BY <1>1, SMT
<1> HIDE DEF d
<1> QED BY <1>3, <1>4, <1>5, <1>6, Zenon DEF Numbers

\* An element less is one less.
LEMMA NumbersRemove ==
    ASSUME NEW S, NEW n, NEW x, Numbers(S, n), x \in S
    PROVE  n > 0 /\ n - 1 \in Nat /\ Numbers(S \ {x}, n - 1)
<1>1. n \in Nat
  BY DEF Numbers
<1>2. PICK e \in [1..n -> S] : /\ \A y \in S : \E k \in 1..n : e[k] = y
                               /\ \A j, k \in 1..n : e[j] = e[k] => j = k
  BY DEF Numbers
<1>3. PICK m \in 1..n : e[m] = x
  BY <1>2
<1>4. n > 0 /\ n - 1 \in Nat
  BY <1>1, <1>3, SMT
<1> DEFINE d == [k \in 1..(n - 1) |-> IF k < m THEN e[k] ELSE e[k + 1]]
<1>5. \A k \in 1..(n - 1) : /\ k < m => k \in 1..n /\ k # m
                            /\ ~ (k < m) => k + 1 \in 1..n /\ k + 1 # m
  BY <1>1, <1>3, SMT
<1>6. d \in [1..(n - 1) -> S \ {x}]
  BY <1>2, <1>3, <1>5
<1>7. \A y \in S \ {x} : \E k \in 1..(n - 1) : d[k] = y
  <2> TAKE y \in S \ {x}
  <2>1. PICK j \in 1..n : e[j] = y
    BY <1>2
  <2>2. j # m
    BY <2>1, <1>3
  <2>3. CASE j < m
    <3>1. j \in 1..(n - 1)
      BY <2>3, <1>1, <1>3, SMT
    <3> QED BY <3>1, <2>1, <2>3
  <2>4. CASE j > m
    <3>1. j - 1 \in 1..(n - 1) /\ ~ (j - 1 < m) /\ (j - 1) + 1 = j
      BY <2>4, <1>1, <1>3, SMT
    <3>2. d[j - 1] = e[j]
      BY <3>1
    <3> QED BY <3>1, <3>2, <2>1
  <2> QED BY <2>2, <2>3, <2>4, <1>1, <1>3, SMT
<1>8. \A j, k \in 1..(n - 1) : d[j] = d[k] => j = k
  <2> TAKE j, k \in 1..(n - 1)
  <2> HAVE d[j] = d[k]
  <2> DEFINE a == IF j < m THEN j ELSE j + 1
             b == IF k < m THEN k ELSE k + 1
  <2>1. a \in 1..n /\ b \in 1..n /\ d[j] = e[a] /\ d[k] = e[b]
    BY <1>5
  <2>2. a = b
    BY <2>1, <1>2
  <2> QED BY <2>2, <1>1, <1>3, SMT
<1> HIDE DEF d
<1> QED BY <1>4, <1>6, <1>7, <1>8, Zenon DEF Numbers

-----------------------------------------------------------------------------
(* Locks and places.                                                       *)

\* The locks are different from each other.
LEMMA LockNames ==
    /\ VL(P) # FVL /\ VL(P) # WB /\ FVL # WB
    /\ \A f : OCL(f) # VL(P) /\ OCL(f) # FVL /\ OCL(f) # WB
    /\ \A f, g : OCL(f) = OCL(g) => f = g
    /\ {VL(P), FVL, WB, OCL(P)} \subseteq Locks
    /\ \A f \in Inodes : OCL(f) \in Locks /\ VL(f) \in Locks
<1>1. \A f : OCL(f)[1] = "open_close" /\ VL(f)[1] = "vfs_inode" /\ OCL(f)[2] = f
  BY DEF OCL, VL
<1>2. FVL[1] = "frnd_version_cnt" /\ WB[1] = "writeback_sync"
  BY DEF FVL, WB
<1>3. VL(P) # FVL /\ VL(P) # WB /\ FVL # WB
  BY <1>1, <1>2
<1>4. \A f : OCL(f) # VL(P) /\ OCL(f) # FVL /\ OCL(f) # WB
  BY <1>1, <1>2
<1>5. \A f, g : OCL(f) = OCL(g) => f = g
  BY <1>1, SMT
<1> QED BY <1>3, <1>4, <1>5 DEF Locks, Inodes

-----------------------------------------------------------------------------
(* What a step of one thread leaves alone.                                 *)

\* Only t moves, and only its open files change.
Apart(t) ==
    /\ \A u \in All : u # t => loc'[u] = loc[u]
    /\ \A u \in Procs : u # t => open'[u] = open[u] /\ plain'[u] = plain[u]

\* Places of the others stay.
LEMMA PlacesKept ==
    ASSUME Places, NEW t \in All, Apart(t),
           t \in Procs => ProcAt(t)', t = CopyThread => ThreadAt'
    PROVE  Places'
<1>1. ASSUME NEW u \in Procs PROVE ProcAt(u)'
  <2>1. CASE u = t
    BY <2>1
  <2>2. CASE u # t
    <3>1. loc'[u] = loc[u] /\ open'[u] = open[u] /\ plain'[u] = plain[u]
      BY <2>2 DEF Apart, All
    <3>2. ProcAt(u)
      BY DEF Places
    <3> QED BY <3>1, <3>2 DEF ProcAt
  <2> QED BY <2>1, <2>2
<1>2. ThreadAt'
  <2>1. CASE t # CopyThread
    <3>1. loc'[CopyThread] = loc[CopyThread]
      BY <2>1 DEF Apart, All
    <3> QED BY <3>1 DEF Places, ThreadAt
  <2> QED BY <2>1
<1> QED BY <1>1, <1>2 DEF Places

\* A lock passes to t or stays where it is.
LEMMA LocksKept ==
    ASSUME LocksHeld, NEW t \in All, Apart(t),
           \A l \in Locks : lk'[l] = NoInode \/ lk'[l] = lk[l] \/ lk'[l] = t,
           \A l \in Locks : lk'[l] = t => MayHold(t, l)',
           loc'[t].pc \in VlPcs => lk'[VL(P)] = t,
           \A u \in All : u # t /\ loc[u].pc \in VlPcs => lk'[VL(P)] = lk[VL(P)],
           \A l \in Locks : lk[l] \in All \cup {NoInode}
    PROVE  LocksHeld'
<1>1. ASSUME NEW l \in Locks, lk'[l] # NoInode PROVE MayHold(lk[l], l)'
  <2>1. CASE lk'[l] = t
    <3>1. MayHold(t, l)'
      BY <2>1
    <3> QED BY <2>1, <3>1 DEF MayHold
  <2>2. CASE lk'[l] # t
    <3>1. PICK u \in All : lk'[l] = u /\ lk[l] = u /\ u # t
      BY <1>1, <2>2
    <3>2. MayHold(u, l)
      BY <1>1, <3>1 DEF LocksHeld
    <3>3. loc'[u] = loc[u]
      BY <3>1 DEF Apart
    <3>4. MayHold(u, l)'
      BY <3>2, <3>3 DEF MayHold
    <3> QED BY <3>1, <3>4 DEF MayHold
  <2> QED BY <2>1, <2>2
<1>2. ASSUME NEW u \in All, loc'[u].pc \in VlPcs PROVE lk'[VL(P)] = u
  <2>1. CASE u # t
    <3>1. loc[u].pc \in VlPcs
      BY <1>2, <2>1 DEF Apart
    <3> QED BY <3>1, <2>1 DEF LocksHeld
  <2> QED BY <2>1, <1>2
<1> QED BY <1>1, <1>2 DEF LocksHeld

\* The counts of the others stay.
LEMMA ElseCounts ==
    ASSUME NEW t \in All, Apart(t), NEW u \in Procs, u # t, NEW f
    PROVE  (Counts(u, f)' <=> Counts(u, f)) /\ (Opened(u, f)' <=> Opened(u, f))
<1>1. loc'[u] = loc[u] /\ open'[u] = open[u] /\ plain'[u] = plain[u]
  BY DEF Apart, All
<1> QED BY <1>1 DEF Counts, Opened

\* The users are the same when they are for t.
LEMMA UsersKept ==
    ASSUME NEW t \in All, Apart(t),
           t \in Procs => \A f \in Inodes : Counts(t, f)' <=> Counts(t, f)
    PROVE  Users' = Users
<1>1. \A u \in Procs, f \in Inodes : Counts(u, f)' <=> Counts(u, f)
  BY ElseCounts
<1>2. \A x \in Procs \X Inodes : Counts(x[1], x[2])' <=> Counts(x[1], x[2])
  BY <1>1
<1> QED BY <1>2 DEF Users

\* Those who have f open are the same when they are for t.
LEMMA OpenedKept ==
    ASSUME NEW t \in All, Apart(t), NEW f \in Inodes,
           t \in Procs => (Opened(t, f)' <=> Opened(t, f))
    PROVE  OpenedBy(f)' = OpenedBy(f)
<1>1. \A u \in Procs : Opened(u, f)' <=> Opened(u, f)
  BY ElseCounts
<1> QED BY <1>1 DEF OpenedBy

\* t becomes a user through one file.
LEMMA UsersAdd ==
    ASSUME NEW t \in Procs, Apart(t), NEW f \in Inodes, ~ Counts(t, f), Counts(t, f)',
           \A g \in Inodes : g # f => (Counts(t, g)' <=> Counts(t, g))
    PROVE  <<t, f>> \notin Users /\ Users' = Users \cup {<<t, f>>}
<1>1. \A u \in Procs, g \in Inodes :
         Counts(u, g)' <=> Counts(u, g) \/ <<u, g>> = <<t, f>>
  BY ElseCounts DEF All
<1>2. \A x \in Procs \X Inodes :
         Counts(x[1], x[2])' <=> Counts(x[1], x[2]) \/ x = <<t, f>>
  BY <1>1, SMT
<1> QED BY <1>2, SMT DEF Users

\* t ceases to be a user through one file.
LEMMA UsersRemove ==
    ASSUME NEW t \in Procs, Apart(t), NEW f \in Inodes, Counts(t, f), ~ Counts(t, f)',
           \A g \in Inodes : g # f => (Counts(t, g)' <=> Counts(t, g))
    PROVE  <<t, f>> \in Users /\ Users' = Users \ {<<t, f>>}
<1>1. \A u \in Procs, g \in Inodes :
         Counts(u, g)' <=> Counts(u, g) /\ <<u, g>> # <<t, f>>
  BY ElseCounts DEF All
<1>2. \A x \in Procs \X Inodes :
         Counts(x[1], x[2])' <=> Counts(x[1], x[2]) /\ x # <<t, f>>
  BY <1>1, SMT
<1> QED BY <1>2 DEF Users

\* One open more.
LEMMA OpenedAdd ==
    ASSUME NEW t \in Procs, Apart(t), NEW f \in Inodes, ~ Opened(t, f), Opened(t, f)'
    PROVE  t \notin OpenedBy(f) /\ OpenedBy(f)' = OpenedBy(f) \cup {t}
<1>1. \A u \in Procs : Opened(u, f)' <=> Opened(u, f) \/ u = t
  BY ElseCounts DEF All
<1> QED BY <1>1 DEF OpenedBy

\* One open less.
LEMMA OpenedRemove ==
    ASSUME NEW t \in Procs, Apart(t), NEW f \in Inodes, Opened(t, f), ~ Opened(t, f)'
    PROVE  t \in OpenedBy(f) /\ OpenedBy(f)' = OpenedBy(f) \ {t}
<1>1. \A u \in Procs : Opened(u, f)' <=> Opened(u, f) /\ u # t
  BY ElseCounts DEF All
<1> QED BY <1>1 DEF OpenedBy

\* What is attached stays when nobody comes to it or leaves it.
LEMMA AttachedKept ==
    ASSUME Attached, NEW t \in All, Apart(t), attr' = attr, attr \in [Slots -> Kid],
           loc[t].pc # "kids", loc'[t].pc # "kids",
           si'[P] # NoInode => /\ si[P] # NoInode
                               /\ si'[P].kids = si[P].kids /\ si'[P].last = si[P].last,
           \A c \in Children : si'[c] = si[c]
    PROVE  Attached'
<1>1. \A u \in Procs : \/ loc'[u] = loc[u]
                       \/ loc[u].pc # "kids" /\ loc'[u].pc # "kids"
  BY DEF Apart, All
<1>2. ASSUME NEW i \in Slots PROVE Ahead(i)' <=> Ahead(i)
  BY <1>1 DEF Ahead
<1>3. \A i \in Slots : attr[i] # NoInode => si'[attr[i]] = si[attr[i]]
  BY DEF Kid
<1> QED BY <1>2, <1>3 DEF Attached

\* The children's scorw inodes stay when nobody begins or ends to put them.
LEMMA KidsOwnedKept ==
    ASSUME KidsOwned, NEW t \in All, Apart(t),
           loc[t].pc \notin PutPcs \/ (/\ loc'[t].pc \in PutPcs
                                       /\ loc'[t].i = loc[t].i /\ loc'[t].kids = loc[t].kids),
           si[P] # NoInode => si'[P] # NoInode /\ si'[P].kids = si[P].kids,
           \A c \in Children : si'[c] = si[c],
           isChild \cap exists \subseteq isChild' \cap exists'
    PROVE  KidsOwned'
<1>1. ASSUME NEW u \in All, loc[u].pc \in PutPcs
      PROVE  loc'[u].pc \in PutPcs /\ loc'[u].i = loc[u].i /\ loc'[u].kids = loc[u].kids
  BY <1>1 DEF Apart
<1> SUFFICES ASSUME NEW c \in Children, si'[c] # NoInode
             PROVE  /\ si'[c].usage = 1 /\ ~ si'[c].unlinked
                    /\ c \in isChild' \cap exists'
                    /\ \/ si'[P] # NoInode /\ \E i \in Slots : si'[P].kids[i] = c
                       \/ \E u \in All, i \in Slots : /\ loc'[u].pc \in PutPcs /\ loc'[u].i <= i
                                                      /\ loc'[u].kids[i] = c
  BY DEF KidsOwned
<1>2. si[c] # NoInode /\ si'[c] = si[c]
  OBVIOUS
<1>3. \/ si[P] # NoInode /\ \E i \in Slots : si[P].kids[i] = c
      \/ \E u \in All, i \in Slots : /\ loc[u].pc \in PutPcs /\ loc[u].i <= i
                                     /\ loc[u].kids[i] = c
  BY <1>2 DEF KidsOwned
<1>4. \/ si'[P] # NoInode /\ \E i \in Slots : si'[P].kids[i] = c
      \/ \E u \in All, i \in Slots : /\ loc'[u].pc \in PutPcs /\ loc'[u].i <= i
                                     /\ loc'[u].kids[i] = c
  BY <1>1, <1>3
<1> QED BY <1>2, <1>4 DEF KidsOwned

\* Creation and last put stay where they are.
LEMMA PassesKept ==
    ASSUME Passes, NEW t \in All, Apart(t), loc'[t].pc \notin {"kids"} \cup PutPcs,
           \A u \in All : loc[u].pc = "kids" => Users' = Users,
           si'[P] = NoInode <=> si[P] = NoInode
    PROVE  Passes'
<1> SUFFICES ASSUME NEW u \in All, loc'[u].pc \in {"kids"} \cup PutPcs
             PROVE  /\ loc'[u].pc = "kids" => /\ loc'[u].i \in 1..(SCORW_MAX_CHILDS + 1)
                                              /\ si'[P] # NoInode /\ Users' = {<<u, loc'[u].f>>}
                    /\ loc'[u].pc \in PutPcs => /\ loc'[u].i \in 1..(SCORW_MAX_CHILDS + 1)
                                                /\ si'[P] = NoInode
                    /\ loc'[u].pc = "putkid" => /\ loc'[u].i \in Slots
                                                /\ loc'[u].kids[loc'[u].i] # NoInode
  BY DEF Passes, PutPcs
<1>1. u # t /\ loc'[u] = loc[u]
  BY DEF Apart
<1> QED BY <1>1 DEF Passes

\* Slots stay.
LEMMA SlotOfKept ==
    ASSUME SlotOf, NEW t \in All, Apart(t), loc'[t].pc \notin CreatePcs,
           attr' = attr, isChild' \cap exists' \subseteq isChild \cap exists
    PROVE  SlotOf'
<1>1. ASSUME NEW u \in Procs, loc'[u].pc \in CreatePcs PROVE loc'[u] = loc[u]
  BY <1>1 DEF Apart, All
<1>2. \A u \in Procs :
          /\ loc'[u].pc \in CreatePcs \ {"create4"} => \A i \in Slots : attr[i] # loc'[u].f
          /\ loc'[u].pc = "create4" => loc'[u].i \in Slots /\ attr[loc'[u].i] = loc'[u].f
  BY <1>1, SMT DEF SlotOf, CreatePcs
<1> QED BY <1>2 DEF SlotOf

\* What is open through clones stays open through them.
LEMMA ClonesKept ==
    ASSUME Clones, NEW t \in All, Apart(t), open' = open, plain' = plain,
           loc'[t].pc \in OpenPcs => loc[t].pc \in OpenPcs /\ loc'[t].f = loc[t].f,
           isChild' = isChild, exists' = exists,
           \A f \in Inodes : si'[f] # NoInode => si[f] # NoInode
    PROVE  Clones'
<1>1. ASSUME NEW u \in Procs, loc'[u].pc \in OpenPcs
      PROVE  loc[u].pc \in OpenPcs /\ loc'[u].f = loc[u].f
  BY <1>1 DEF Apart, All
<1>2. \A u \in Procs, c \in Children :
          (c \in open'[u] \ plain'[u]) \/ (loc'[u].f = c /\ loc'[u].pc \in OpenPcs)
             => c \in isChild' \cap exists'
  BY <1>1 DEF Clones
<1>3. \A u \in Procs : loc'[u].pc \in OpenPcs =>
          \A v \in Procs : plain'[v] \cap (isChild' \cup {P}) = {}
  BY <1>1 DEF Clones
<1>4. /\ si'[P] # NoInode => \A u \in Procs : plain'[u] \cap (isChild' \cup {P}) = {}
      /\ \A c \in Children : si'[c] # NoInode => \A u \in Procs : c \notin plain'[u]
  BY DEF Clones, Inodes
<1> QED BY <1>2, <1>3, <1>4 DEF Clones

\* Whoever is in a call that is no change keeps changes away.
LEMMA NoneChanging ==
    ASSUME Places, Changes, NEW t \in Procs, loc[t].pc \notin {"idle", "writeback"},
           loc[t].ret # "change"
    PROVE  \A u \in Procs : loc[u].ret # "change"
  BY DEF Changes

\* One thread at a time has the parent's i_vfs_inode_lock.
LEMMA VlOne ==
    ASSUME LocksHeld, NEW t \in All, loc[t].pc \in VlPcs \/ Free(VL(P))
    PROVE  \A u \in All : u # t => loc[u].pc \notin VlPcs
<1>1. \A u \in All : u # NoInode
  BY LifeAssumption DEF All
<1> QED BY <1>1 DEF LocksHeld, Free

\* A step of a call into another place.
LEMMA LocSet ==
    ASSUME loc \in [All -> LocRec], NEW t \in All, NEW r \in LocRec, Go(t, r)
    PROVE  /\ loc' \in [All -> LocRec] /\ loc'[t] = r
           /\ \A u \in All : u # t => loc'[u] = loc[u]
  BY DEF Go

\* Where a thread is between calls.
LEMMA IdleTyped == Idle \in LocRec
<1>1. "idle" \in Pcs /\ NoInode \in Inodes \cup {NoInode} /\ 0 \in Nat /\ NoKids \in [Slots -> Kid]
  BY DEF Pcs, NoKids, Kid
<1> QED BY <1>1 DEF Idle, LocRec

\* A fresh scorw inode is used once and has no child.
LEMMA FreshTyped ==
    /\ Fresh \in ScorwRec /\ Fresh.usage = 1 /\ Fresh.added = 0 /\ Fresh.removed = 0
    /\ ~ Fresh.unlinked
    /\ \A i \in Slots : Fresh.kids[i] = NoInode
<1>1. NoKids \in [Slots -> Children \cup {NoInode}] /\ \A i \in Slots : NoKids[i] = NoInode
  BY DEF NoKids
<1> QED BY <1>1 DEF Fresh, ScorwRec

\* Taking a lock and dropping locks.
LEMMA LockSet ==
    ASSUME lk \in [Locks -> All \cup {NoInode}]
    PROVE  /\ \A l \in Locks : lk[l] \in All \cup {NoInode}
           /\ \A t \in All, l \in Locks : Take(t, l) =>
                 /\ lk' \in [Locks -> All \cup {NoInode}]
                 /\ lk[l] = NoInode /\ lk'[l] = t
                 /\ \A k \in Locks : k # l => lk'[k] = lk[k]
           /\ \A ls : Drop(ls) =>
                 /\ lk' \in [Locks -> All \cup {NoInode}]
                 /\ \A l \in Locks : lk'[l] = IF l \in ls THEN NoInode ELSE lk[l]
<1>1. \A l \in Locks : lk[l] \in All \cup {NoInode}
  OBVIOUS
<1>2. ASSUME NEW t \in All, NEW l \in Locks, Take(t, l)
      PROVE  /\ lk' \in [Locks -> All \cup {NoInode}]
             /\ lk[l] = NoInode /\ lk'[l] = t
             /\ \A k \in Locks : k # l => lk'[k] = lk[k]
  BY <1>2 DEF Take, Free
<1>3. ASSUME NEW ls, Drop(ls)
      PROVE  /\ lk' \in [Locks -> All \cup {NoInode}]
             /\ \A l \in Locks : lk'[l] = IF l \in ls THEN NoInode ELSE lk[l]
  BY <1>3 DEF Drop
<1> QED BY <1>1, <1>2, <1>3, Zenon

\* t does not hold what its place gives it no right to.
LEMMA HoldsNone ==
    ASSUME LocksHeld, NEW t \in All, loc[t].pc \in {"idle", "open", "close", "served"}
    PROVE  \A l \in Locks : lk[l] # t
<1>1. t # NoInode
  BY LifeAssumption DEF All
<1>2. \A l \in Locks : ~ MayHold(t, l)
  BY DEF MayHold, VlPcs, PutPcs, CreatePcs, UnlinkPcs
<1> QED BY <1>1, <1>2 DEF LocksHeld

\* A step beside creation and last put.
LEMMA Aside ==
    ASSUME LifeInv, NEW t \in All, Apart(t), UNCHANGED <<attr, isChild, exists, si>>,
           loc[t].pc \notin {"kids"} \cup PutPcs, loc'[t].pc \notin {"kids"} \cup PutPcs,
           Users' = Users
    PROVE  Attached' /\ KidsOwned' /\ Passes'
<1>1. Attached'
  BY AttachedKept DEF LifeInv, LifeTypes
<1>2. KidsOwned'
  BY KidsOwnedKept DEF LifeInv
<1>3. Passes'
  BY PassesKept DEF LifeInv
<1> QED BY <1>1, <1>2, <1>3

-----------------------------------------------------------------------------
(* Opening.                                                                *)

\* Opening a plain file makes no user.
LEMMA OpenPlainKept ==
    ASSUME LifeInv, MayPrepare, NEW t \in Procs, NEW f \in Inodes, OpenPlain(t, f)
    PROVE  LifeInv'
<1>1. /\ UNCHANGED <<attr, isChild, exists, si, opens, copies, lk, loc>>
      /\ f \notin open[t] /\ ~ IsScorwFile(f, TRUE) /\ \A u \in Procs : loc[u].pc = "idle"
  BY DEF OpenPlain, MayPrepare, At
<1>2. /\ open' \in [Procs -> SUBSET Inodes] /\ plain' \in [Procs -> SUBSET Inodes]
      /\ open'[t] = open[t] \cup {f} /\ plain'[t] = plain[t] \cup {f}
      /\ \A u \in Procs : u # t => open'[u] = open[u] /\ plain'[u] = plain[u]
  BY DEF OpenPlain, LifeInv, LifeTypes
<1>3. LifeTypes'
  BY <1>1, <1>2 DEF LifeInv, LifeTypes
<1>4. t \in All /\ Apart(t)
  BY <1>1, <1>2 DEF Apart, All
<1>5. \A u \in Procs : loc[u].f = NoInode /\ loc[u].ret = "idle"
  BY <1>1 DEF LifeInv, Places, ProcAt, PutPcs, CreatePcs, UnlinkPcs
<1>6. Places'
  <2>1. ProcAt(t)'
    BY <1>1, <1>5 DEF ProcAt
  <2>2. t # CopyThread
    BY LifeAssumption
  <2> QED BY <2>1, <2>2, <1>4, PlacesKept DEF LifeInv
<1>7. LocksHeld'
  BY <1>1 DEF LifeInv, LocksHeld, MayHold
<1>8. open'[t] \ plain'[t] = open[t] \ plain[t]
  BY <1>1, <1>2 DEF LifeInv, LifeTypes
<1>9. \A g \in Inodes : (Counts(t, g)' <=> Counts(t, g)) /\ (Opened(t, g)' <=> Opened(t, g))
  BY <1>1, <1>8 DEF Counts, Opened
<1>10. Users' = Users /\ \A g \in Inodes : OpenedBy(g)' = OpenedBy(g)
  BY <1>4, <1>9, UsersKept, OpenedKept
<1>11. Counted'
  BY <1>1, <1>10 DEF LifeInv, Counted, Serving, Unused
<1>12. Attached' /\ KidsOwned' /\ Passes'
  BY <1>1, <1>4, <1>10, Aside DEF PutPcs
<1>13. SlotOf'
  BY <1>1 DEF LifeInv, SlotOf
<1>14. Clones'
  <2>1. \A u \in Procs, c \in Children :
          (c \in open'[u] \ plain'[u]) \/ (loc'[u].f = c /\ loc'[u].pc \in OpenPcs)
             => c \in isChild' \cap exists'
    BY <1>1, <1>2, <1>8 DEF LifeInv, Clones
  <2>2. \A u \in Procs : loc'[u].pc \notin OpenPcs
    BY <1>1 DEF OpenPcs
  <2>3. f = P => si[P] = NoInode
    BY <1>1 DEF IsScorwFile, IsParFile
  <2>4. f # P => f \notin isChild /\ si[f] = NoInode
    BY <1>1 DEF IsScorwFile, IsChildFile
  <2>5. si[P] # NoInode => \A u \in Procs : plain'[u] \cap (isChild \cup {P}) = {}
    BY <1>2, <2>3, <2>4, SMT DEF LifeInv, Clones
  <2>6. \A c \in Children : si[c] # NoInode => \A u \in Procs : c \notin plain'[u]
    BY <1>2, <2>3, <2>4 DEF LifeInv, Clones
  <2> QED BY <1>1, <2>1, <2>2, <2>5, <2>6 DEF Clones
<1>15. Changes'
  BY <1>1, <1>5 DEF Changes
<1> QED BY <1>3, <1>6, <1>7, <1>11, <1>12, <1>13, <1>14, <1>15 DEF LifeInv

\* Nothing but places, locks and open counts changes.
LEMMA CallStep ==
    ASSUME LifeInv, NEW t \in Procs, NEW r \in LocRec, Go(t, r),
           UNCHANGED <<attr, isChild, exists, si, open, plain, copies>>,
           opens' \in [Inodes -> Nat], lk' \in [Locks -> All \cup {NoInode}], LocksHeld', ProcAt(t)',
           loc[t].pc \notin {"kids"} \cup PutPcs, r.pc \notin {"kids"} \cup PutPcs \cup CreatePcs,
           \A g \in Inodes : Counts(t, g)' <=> Counts(t, g),
           \A g \in Inodes : Numbers(OpenedBy(g), opens[g])',
           Clones', Changes'
    PROVE  LifeInv'
<1>1. /\ t \in All /\ t # CopyThread
      /\ loc' \in [All -> LocRec] /\ loc'[t] = r /\ \A u \in All : u # t => loc'[u] = loc[u]
  BY LocSet, LifeAssumption, SMT DEF All, LifeInv, LifeTypes
<1>2. Apart(t) /\ loc'[CopyThread] = loc[CopyThread]
  BY <1>1 DEF Apart, All
<1>3. LifeTypes'
  BY <1>1 DEF LifeInv, LifeTypes
<1>4. Places'
  BY <1>1, <1>2, PlacesKept DEF LifeInv
<1>5. Users' = Users
  BY <1>1, <1>2, UsersKept
<1>6. Counted'
  BY <1>2, <1>5 DEF LifeInv, Counted, Serving, Unused
<1>7. Attached' /\ KidsOwned' /\ Passes'
  BY <1>1, <1>2, <1>5, Aside
<1>8. SlotOf'
  BY <1>1, <1>2, SlotOfKept DEF LifeInv
<1> QED BY <1>3, <1>4, <1>6, <1>7, <1>8 DEF LifeInv

\* An open of a clone or its parent begins.
LEMMA OpenStartKept ==
    ASSUME LifeInv, MayUse, NEW t \in Procs, NEW f \in Inodes, OpenStart(t, f)
    PROVE  LifeInv'
<1> DEFINE r == [loc[t] EXCEPT !.pc = "open", !.f = f]
<1>1. /\ UNCHANGED <<attr, isChild, exists, si, open, plain, opens, copies, lk>>
      /\ Go(t, r) /\ loc[t].pc = "idle"
      /\ f \notin open[t] /\ f \in exists \cup {P} /\ IsScorwFile(f, TRUE)
      /\ \A u \in Procs : loc[u].ret # "change" /\ plain[u] = {}
  BY DEF OpenStart, MayUse, At, Changing
<1>2. t \in All /\ loc \in [All -> LocRec] /\ loc[t] \in LocRec /\ "open" \in Pcs
  BY DEF All, LifeInv, LifeTypes, Pcs
<1>3. r \in LocRec
  BY <1>2, ZenonT(60) DEF LocRec
<1>4. r.pc = "open" /\ r.f = f /\ r.ret = loc[t].ret
  BY <1>2 DEF LocRec
<1> HIDE DEF r
<1>5. loc[t].f = NoInode /\ loc[t].ret = "idle"
  BY <1>1 DEF LifeInv, Places, ProcAt, PutPcs, CreatePcs, UnlinkPcs
<1>6. loc'[t] = r /\ \A u \in All : u # t => loc'[u] = loc[u]
  BY <1>1, <1>2, <1>3, LocSet
<1>7. Apart(t)
  BY <1>1, <1>6 DEF Apart, All
<1>8. LocksHeld'
  <2>1. \A l \in Locks : lk[l] # t
    BY <1>1, <1>2, HoldsNone DEF LifeInv
  <2>2. r.pc \notin VlPcs
    BY <1>4 DEF VlPcs, PutPcs
  <2> QED BY <1>1, <1>2, <1>6, <1>7, <2>1, <2>2, LocksKept DEF LifeInv, LifeTypes
<1>9. ProcAt(t)'
  BY <1>1, <1>4, <1>5, <1>6 DEF ProcAt
<1>10. \A g \in Inodes : (Counts(t, g)' <=> Counts(t, g)) /\ (Opened(t, g)' <=> Opened(t, g))
  <2>1. NoInode \notin Inodes
    BY LifeAssumption DEF Inodes
  <2> QED BY <1>1, <1>4, <1>5, <1>6, <2>1 DEF Counts, Opened, PutPcs
<1>11. \A g \in Inodes : Numbers(OpenedBy(g), opens[g])'
  <2>1. \A g \in Inodes : OpenedBy(g)' = OpenedBy(g)
    BY <1>2, <1>7, <1>10, OpenedKept
  <2> QED BY <1>1, <2>1 DEF LifeInv, Counted
<1>12. Clones'
  <2>1. ASSUME f \in Children PROVE f \in isChild \cap exists
    <3>1. f # P /\ f \in exists
      BY <1>1, <2>1, LifeAssumption
    <3>2. si[f] # NoInode \/ f \in isChild
      BY <1>1, <3>1 DEF IsScorwFile, IsChildFile, IsParFile
    <3> QED BY <2>1, <3>1, <3>2 DEF LifeInv, KidsOwned
  <2>2. \A u \in Procs, c \in Children :
          (c \in open[u] \ plain[u]) \/ (loc'[u].f = c /\ loc'[u].pc \in OpenPcs)
             => c \in isChild \cap exists
    BY <1>4, <1>6, <2>1, ZenonT(60) DEF LifeInv, Clones, All
  <2> QED BY <1>1, <2>2 DEF Clones
<1>13. Changes'
  BY <1>1, <1>4, <1>5, <1>6 DEF Changes, All
<1>14. loc[t].pc \notin {"kids"} \cup PutPcs /\ r.pc \notin {"kids"} \cup PutPcs \cup CreatePcs
  BY <1>1, <1>4 DEF PutPcs, CreatePcs
<1>15. opens' \in [Inodes -> Nat] /\ lk' \in [Locks -> All \cup {NoInode}]
  BY <1>1 DEF LifeInv, LifeTypes
<1> QED BY <1>1, <1>3, <1>8, <1>9, <1>10, <1>11, <1>12, <1>13, <1>14, <1>15, CallStep

\* The open count goes up with the open_close_lock taken.
LEMMA OpenLockKept ==
    ASSUME LifeInv, NEW t \in Procs, OpenLock(t)
    PROVE  LifeInv'
<1> DEFINE r == [loc[t] EXCEPT !.pc = "get", !.ret = "opened"]
<1>0. PICK f \in Inodes \ open[t] : f = loc[t].f
  BY DEF OpenLock, At, LifeInv, Places, ProcAt, PutPcs, CreatePcs, UnlinkPcs
<1>1. /\ UNCHANGED <<attr, isChild, exists, si, open, plain, copies>>
      /\ Go(t, r) /\ loc[t].pc = "open" /\ Take(t, OCL(f))
      /\ opens' = [opens EXCEPT ![f] = @ + 1]
  BY <1>0 DEF OpenLock, At
<1>2. t \in All /\ loc \in [All -> LocRec] /\ loc[t] \in LocRec /\ "get" \in Pcs
  BY DEF All, LifeInv, LifeTypes, Pcs
<1>3. r \in LocRec
  BY <1>2, ZenonT(60) DEF LocRec
<1>4. r.pc = "get" /\ r.f = f /\ r.ret = "opened"
  BY <1>0, <1>2 DEF LocRec
<1>5. loc[t].f = f /\ loc[t].ret = "idle"
  BY <1>0, <1>1 DEF LifeInv, Places, ProcAt, PutPcs, CreatePcs, UnlinkPcs
<1> HIDE DEF r
<1>6. loc'[t] = r /\ \A u \in All : u # t => loc'[u] = loc[u]
  BY <1>1, <1>2, <1>3, LocSet
<1>7. Apart(t)
  BY <1>1, <1>6 DEF Apart, All
<1>8. /\ OCL(f) \in Locks /\ lk' \in [Locks -> All \cup {NoInode}] /\ lk'[OCL(f)] = t
      /\ \A k \in Locks : k # OCL(f) => lk'[k] = lk[k]
      /\ \A k \in Locks : lk[k] \in All \cup {NoInode}
  BY <1>1, <1>2, <1>5, LockNames, LockSet, SMT DEF LifeInv, LifeTypes
<1>9. LocksHeld'
  <2>1. \A l \in Locks : lk[l] # t
    BY <1>1, <1>2, HoldsNone DEF LifeInv
  <2>2. r.pc \notin VlPcs /\ VL(P) # OCL(f) /\ VL(P) \in Locks
    BY <1>4, LockNames DEF VlPcs, PutPcs
  <2>3. MayHold(t, OCL(f))'
    BY <1>4, <1>5, <1>6, LifeAssumption DEF MayHold, Inodes
  <2>4. \A l \in Locks : lk'[l] = t => MayHold(t, l)'
    BY <1>8, <2>1, <2>3
  <2> QED BY <1>2, <1>6, <1>7, <1>8, <2>2, <2>4, LocksKept DEF LifeInv
<1>10. ProcAt(t)'
  BY <1>1, <1>4, <1>5, <1>6 DEF ProcAt
<1>11. \A g \in Inodes : (Counts(t, g)' <=> Counts(t, g))
  BY <1>1, <1>4, <1>5, <1>6 DEF Counts, PutPcs
<1>12. \A g \in Inodes : Numbers(OpenedBy(g), opens[g])'
  <2>1. ~ Opened(t, f) /\ Opened(t, f)'
    BY <1>1, <1>4, <1>5, <1>6 DEF Opened
  <2>2. \A g \in Inodes : g # f => (Opened(t, g)' <=> Opened(t, g))
    BY <1>1, <1>4, <1>5, <1>6 DEF Opened, PutPcs
  <2>3. \A g \in Inodes : g # f => OpenedBy(g)' = OpenedBy(g)
    BY <1>2, <1>7, <2>2, OpenedKept
  <2>4. t \notin OpenedBy(f) /\ OpenedBy(f)' = OpenedBy(f) \cup {t}
    BY <1>2, <1>7, <1>5, <2>1, OpenedAdd
  <2>5. opens'[f] = opens[f] + 1 /\ \A g \in Inodes : g # f => opens'[g] = opens[g]
    BY <1>1, <1>5 DEF LifeInv, LifeTypes
  <2>6. \A g \in Inodes : Numbers(OpenedBy(g), opens[g])
    BY DEF LifeInv, Counted
  <2>7. Numbers(OpenedBy(f) \cup {t}, opens[f] + 1)
    BY <2>4, <2>6, <1>5, NumbersAdd
  <2> QED BY <2>3, <2>4, <2>5, <2>6, <2>7
<1>13. Clones'
  BY <1>1, <1>2, <1>4, <1>5, <1>6, <1>7, ClonesKept DEF LifeInv, OpenPcs
<1>14. Changes'
  <2>1. \A u \in Procs : loc[u].ret # "change"
    BY <1>1, <1>5, NoneChanging DEF LifeInv
  <2> QED BY <1>4, <1>6, <2>1 DEF Changes, All
<1>15. loc[t].pc \notin {"kids"} \cup PutPcs /\ r.pc \notin {"kids"} \cup PutPcs \cup CreatePcs
  BY <1>1, <1>4 DEF PutPcs, CreatePcs
<1>16. opens' \in [Inodes -> Nat]
  BY <1>1, <1>5, SMT DEF LifeInv, LifeTypes
<1> QED BY <1>1, <1>3, <1>8, <1>9, <1>10, <1>11, <1>12, <1>13, <1>14, <1>15, <1>16, CallStep

\* The file is open.
LEMMA OpenDoneKept ==
    ASSUME LifeInv, NEW t \in Procs, OpenDone(t)
    PROVE  LifeInv'
<1>0. PICK f \in Inodes \ open[t] : f = loc[t].f
  BY DEF OpenDone, At, LifeInv, Places, ProcAt, PutPcs, CreatePcs, UnlinkPcs
<1>1. /\ UNCHANGED <<attr, isChild, exists, si, plain, opens, copies>>
      /\ Go(t, Idle) /\ loc[t].pc = "opened" /\ Drop({OCL(f)})
      /\ open' = [open EXCEPT ![t] = @ \cup {f}]
  BY <1>0 DEF OpenDone, At
<1>2. loc[t].ret = "opened"
  BY <1>1 DEF LifeInv, Places, ProcAt, PutPcs, CreatePcs, UnlinkPcs
<1>3. t \in All /\ t # CopyThread
  BY LifeAssumption DEF All
<1>4. /\ loc' \in [All -> LocRec] /\ loc'[t] = Idle
      /\ \A u \in All : u # t => loc'[u] = loc[u]
  BY <1>1, <1>3, IdleTyped, LocSet DEF LifeInv, LifeTypes
<1>5. Idle.pc = "idle" /\ Idle.f = NoInode /\ Idle.ret = "idle"
  BY DEF Idle
<1>6. /\ open' \in [Procs -> SUBSET Inodes] /\ open'[t] = open[t] \cup {f}
      /\ \A u \in Procs : u # t => open'[u] = open[u]
  BY <1>1 DEF LifeInv, LifeTypes
<1>7. Apart(t) /\ loc'[CopyThread] = loc[CopyThread]
  BY <1>1, <1>3, <1>4, <1>6 DEF Apart, All
<1>8. lk' \in [Locks -> All \cup {NoInode}] /\ LocksHeld'
  <2>1. /\ lk' \in [Locks -> All \cup {NoInode}]
        /\ \A l \in Locks : lk[l] \in All \cup {NoInode}
        /\ \A l \in Locks : lk'[l] = IF l \in {OCL(f)} THEN NoInode ELSE lk[l]
    BY <1>1, LockSet DEF LifeInv, LifeTypes
  <2>2. ASSUME NEW l \in Locks, lk[l] = t PROVE l = OCL(f)
    <3>1. MayHold(t, l)
      BY <2>2, <1>3, LifeAssumption DEF LifeInv, LocksHeld, All
    <3> QED BY <3>1, <1>0, <1>1 DEF MayHold, VlPcs, PutPcs, CreatePcs
  <2>3. t # NoInode /\ VL(P) \in Locks /\ VL(P) # OCL(f) /\ Idle.pc \notin VlPcs
    BY <1>5, LifeAssumption, LockNames DEF VlPcs, PutPcs
  <2>4. /\ \A l \in Locks : lk'[l] = NoInode \/ lk'[l] = lk[l]
        /\ \A l \in Locks : lk'[l] # t
        /\ lk'[VL(P)] = lk[VL(P)]
    BY <2>1, <2>2, <2>3
  <2> QED BY <1>3, <1>4, <1>7, <2>1, <2>3, <2>4, LocksKept DEF LifeInv
<1>9. LifeTypes'
  BY <1>1, <1>4, <1>6, <1>8 DEF LifeInv, LifeTypes
<1>10. Places'
  <2>1. ProcAt(t)'
    BY <1>4, <1>5 DEF ProcAt
  <2> QED BY <1>3, <1>7, <2>1, PlacesKept DEF LifeInv
<1>11. f \notin plain[t] /\ NoInode \notin Inodes
  BY LifeAssumption DEF LifeInv, LifeTypes, Inodes
<1>12. \A g \in Inodes : (Counts(t, g)' <=> Counts(t, g)) /\ (Opened(t, g)' <=> Opened(t, g))
  BY <1>0, <1>1, <1>4, <1>5, <1>6, <1>11 DEF Counts, Opened, PutPcs
<1>13. Users' = Users /\ \A g \in Inodes : OpenedBy(g)' = OpenedBy(g)
  BY <1>3, <1>7, <1>12, UsersKept, OpenedKept
<1>14. Counted'
  BY <1>1, <1>7, <1>13 DEF LifeInv, Counted, Serving, Unused
<1>15. Attached' /\ KidsOwned' /\ Passes'
  BY <1>1, <1>3, <1>4, <1>5, <1>7, <1>13, Aside DEF PutPcs
<1>16. SlotOf'
  BY <1>1, <1>3, <1>4, <1>5, <1>7, SlotOfKept DEF LifeInv, CreatePcs
<1>17. Clones'
  <2>1. f \in Children => f \in isChild \cap exists
    BY <1>0, <1>1 DEF LifeInv, Clones, OpenPcs
  <2>2. \A u \in Procs : loc'[u].pc \in OpenPcs => u # t /\ loc'[u] = loc[u]
    BY <1>4, <1>5 DEF OpenPcs, All
  <2>3. \A u \in Procs, c \in Children :
          (c \in open'[u] \ plain[u]) \/ (loc'[u].f = c /\ loc'[u].pc \in OpenPcs)
             => c \in isChild \cap exists
    BY <1>6, <2>1, <2>2 DEF LifeInv, Clones
  <2>4. \A u \in Procs : loc'[u].pc \in OpenPcs =>
          \A v \in Procs : plain[v] \cap (isChild \cup {P}) = {}
    BY <2>2 DEF LifeInv, Clones
  <2> QED BY <1>1, <2>3, <2>4 DEF LifeInv, Clones
<1>18. Changes'
  <2>1. \A u \in Procs : loc[u].ret # "change"
    BY <1>1, <1>2, NoneChanging DEF LifeInv
  <2> QED BY <1>4, <1>5, <2>1 DEF Changes, All
<1> QED BY <1>8, <1>9, <1>10, <1>14, <1>15, <1>16, <1>17, <1>18 DEF LifeInv

-----------------------------------------------------------------------------
(* Getting the scorw inode of the parent.                                  *)

\* The parent's scorw inode gets one user more.
LEMMA GetExistingKept ==
    ASSUME LifeInv, NEW t \in Procs, GetExisting(t)
    PROVE  LifeInv'
<1> DEFINE r == [loc[t] EXCEPT !.pc = loc[t].ret]
           s == [si[P] EXCEPT !.usage = si[P].usage + 1]
<1>0. PICK f \in Inodes \ open[t] : f = loc[t].f /\ loc[t].ret = "opened"
  BY DEF GetExisting, At, LifeInv, Places, ProcAt, PutPcs, CreatePcs, UnlinkPcs
<1>1. /\ UNCHANGED <<attr, isChild, exists, open, plain, opens, copies, lk>>
      /\ Go(t, r) /\ loc[t].pc = "get" /\ Free(VL(P)) /\ si[P] # NoInode
      /\ si' = [si EXCEPT ![P] = s]
  BY DEF GetExisting, At
<1>2. /\ t \in All /\ t # CopyThread /\ loc \in [All -> LocRec] /\ loc[t] \in LocRec
      /\ "opened" \in Pcs
  BY LifeAssumption DEF All, LifeInv, LifeTypes, Pcs
<1>3. r \in LocRec
  BY <1>0, <1>2, ZenonT(60) DEF LocRec
<1>4. r.pc = "opened" /\ r.f = f /\ r.ret = "opened"
  BY <1>0, <1>2 DEF LocRec
<1>5. si[P] \in ScorwRec /\ si[P].usage + 1 \in Nat
  BY <1>1, SMT DEF LifeInv, LifeTypes, Inodes, ScorwRec
<1>6. s \in ScorwRec
  BY <1>5, ZenonT(60) DEF ScorwRec
<1>7. /\ s.usage = si[P].usage + 1 /\ s.kids = si[P].kids /\ s.last = si[P].last
      /\ s.added = si[P].added /\ s.removed = si[P].removed
  BY <1>5 DEF ScorwRec
<1> HIDE DEF r, s
<1>8. /\ si' \in [Inodes -> {NoInode} \cup ScorwRec] /\ si'[P] = s /\ s # NoInode
      /\ \A c \in Children : si'[c] = si[c]
  BY <1>1, <1>6, LifeAssumption DEF LifeInv, LifeTypes, Inodes
<1>9. /\ loc' \in [All -> LocRec] /\ loc'[t] = r
      /\ \A u \in All : u # t => loc'[u] = loc[u]
  BY <1>1, <1>2, <1>3, LocSet
<1>10. Apart(t) /\ loc'[CopyThread] = loc[CopyThread]
  BY <1>1, <1>2, <1>9 DEF Apart, All
<1>11. LifeTypes'
  BY <1>1, <1>8, <1>9 DEF LifeInv, LifeTypes
<1>12. Places'
  <2>1. ProcAt(t)'
    BY <1>0, <1>1, <1>4, <1>9 DEF ProcAt
  <2> QED BY <1>2, <1>10, <2>1, PlacesKept DEF LifeInv
<1>13. LocksHeld'
  <2>1. ASSUME NEW l \in Locks, lk[l] = t PROVE MayHold(t, l)'
    <3>1. MayHold(t, l)
      BY <2>1, LifeAssumption DEF LifeInv, LocksHeld
    <3> QED BY <3>1, <1>0, <1>1, <1>4, <1>9 DEF MayHold, VlPcs, PutPcs, CreatePcs, UnlinkPcs
  <2>2. r.pc \notin VlPcs
    BY <1>4 DEF VlPcs, PutPcs
  <2> QED BY <1>1, <1>2, <1>9, <1>10, <2>1, <2>2, LocksKept DEF LifeInv, LifeTypes
<1>14. <<t, f>> \notin Users /\ Users' = Users \cup {<<t, f>>}
  <2>1. ~ Counts(t, f) /\ Counts(t, f)'
    BY <1>0, <1>1, <1>4, <1>9 DEF Counts
  <2>2. \A g \in Inodes : g # f => (Counts(t, g)' <=> Counts(t, g))
    BY <1>0, <1>1, <1>4, <1>9 DEF Counts, PutPcs
  <2> QED BY <1>10, <2>1, <2>2, UsersAdd
<1>15. \A g \in Inodes : OpenedBy(g)' = OpenedBy(g)
  <2>1. \A g \in Inodes : Opened(t, g)' <=> Opened(t, g)
    BY <1>0, <1>1, <1>4, <1>9 DEF Opened, PutPcs
  <2> QED BY <1>2, <1>10, <2>1, OpenedKept
<1>16. Counted'
  <2>1. /\ Numbers(Users, si[P].usage) /\ si[P].usage \in Nat
        /\ si[P].added = si[P].removed + copies + Serving
    BY <1>1, <1>5 DEF LifeInv, Counted, ScorwRec
  <2>2. Numbers(Users', s.usage)
    BY <1>7, <1>14, <2>1, NumbersAdd
  <2>3. ~ Unused(s)
    BY <1>7, <2>1, SMT DEF Unused
  <2>4. s.added = s.removed + copies + Serving'
    BY <1>7, <1>10, <2>1 DEF Serving
  <2>5. \A g \in Inodes : Numbers(OpenedBy(g), opens[g])'
    BY <1>1, <1>15 DEF LifeInv, Counted
  <2> QED BY <1>1, <1>8, <2>2, <2>3, <2>4, <2>5 DEF Counted, Unused
<1>17. \A u \in All : loc[u].pc \notin VlPcs
  BY <1>1, <1>2, VlOne DEF LifeInv, VlPcs, PutPcs
<1>18. loc[t].pc \notin {"kids"} \cup PutPcs /\ r.pc \notin {"kids"} \cup PutPcs
  BY <1>1, <1>4 DEF PutPcs
<1>19. Attached'
  BY <1>1, <1>2, <1>7, <1>8, <1>9, <1>10, <1>18, AttachedKept DEF LifeInv, LifeTypes
<1>20. KidsOwned'
  BY <1>1, <1>2, <1>7, <1>8, <1>10, <1>18, KidsOwnedKept DEF LifeInv
<1>21. Passes'
  BY <1>1, <1>2, <1>8, <1>9, <1>10, <1>17, <1>18, PassesKept DEF LifeInv, VlPcs
<1>22. SlotOf'
  BY <1>1, <1>2, <1>4, <1>9, <1>10, SlotOfKept DEF LifeInv, CreatePcs
<1>23. Clones'
  BY <1>0, <1>1, <1>2, <1>4, <1>8, <1>9, <1>10, ClonesKept DEF LifeInv, OpenPcs, Inodes
<1>24. Changes'
  <2>1. \A u \in Procs : loc[u].ret # "change"
    BY <1>0, <1>1, NoneChanging DEF LifeInv
  <2> QED BY <1>4, <1>9, <2>1 DEF Changes, All
<1> QED BY <1>11, <1>12, <1>13, <1>16, <1>19, <1>20, <1>21, <1>22, <1>23, <1>24 DEF LifeInv

\* The parent's scorw inode is made; its children are still to come.
LEMMA GetNewKept ==
    ASSUME LifeInv, NEW t \in Procs, GetNew(t)
    PROVE  LifeInv'
<1> DEFINE r == [loc[t] EXCEPT !.pc = "kids", !.i = 1]
<1>0. PICK f \in Inodes \ open[t] : f = loc[t].f /\ loc[t].ret = "opened"
  BY DEF GetNew, At, LifeInv, Places, ProcAt, PutPcs, CreatePcs, UnlinkPcs
<1>1. /\ UNCHANGED <<attr, isChild, exists, open, plain, opens, copies>>
      /\ Go(t, r) /\ loc[t].pc = "get" /\ Take(t, VL(P)) /\ si[P] = NoInode
      /\ si' = [si EXCEPT ![P] = Fresh]
  BY DEF GetNew, At
<1>2. /\ t \in All /\ t # CopyThread /\ loc \in [All -> LocRec] /\ loc[t] \in LocRec
      /\ "kids" \in Pcs /\ 1 \in Nat
  BY LifeAssumption DEF All, LifeInv, LifeTypes, Pcs
<1>3. r \in LocRec
  BY <1>2, ZenonT(60) DEF LocRec
<1>4. r.pc = "kids" /\ r.f = f /\ r.ret = "opened" /\ r.i = 1
  BY <1>0, <1>2 DEF LocRec
<1> HIDE DEF r
<1>5. /\ Fresh \in ScorwRec /\ Fresh.usage = 1 /\ Fresh.added = 0 /\ Fresh.removed = 0
      /\ \A i \in Slots : Fresh.kids[i] = NoInode
  BY FreshTyped
<1>6. /\ si' \in [Inodes -> {NoInode} \cup ScorwRec] /\ si'[P] = Fresh /\ Fresh # NoInode
      /\ \A c \in Children : si'[c] = si[c]
  BY <1>1, <1>5, LifeAssumption DEF LifeInv, LifeTypes, Inodes
<1>7. /\ loc' \in [All -> LocRec] /\ loc'[t] = r
      /\ \A u \in All : u # t => loc'[u] = loc[u]
  BY <1>1, <1>2, <1>3, LocSet
<1>8. Apart(t) /\ loc'[CopyThread] = loc[CopyThread]
  BY <1>1, <1>2, <1>7 DEF Apart, All
<1>9. /\ VL(P) \in Locks /\ lk[VL(P)] = NoInode
      /\ lk' \in [Locks -> All \cup {NoInode}] /\ lk'[VL(P)] = t
      /\ \A k \in Locks : k # VL(P) => lk'[k] = lk[k]
      /\ \A k \in Locks : lk[k] \in All \cup {NoInode}
  BY <1>1, <1>2, LockNames, LockSet, SMT DEF LifeInv, LifeTypes
<1>10. \A u \in All : loc[u].pc \notin VlPcs
  BY <1>1, <1>2, <1>9, VlOne DEF LifeInv, VlPcs, PutPcs, Free
<1>11. \A c \in Children : si[c] = NoInode
  BY <1>1, <1>10 DEF LifeInv, KidsOwned, VlPcs
<1>12. LifeTypes'
  BY <1>1, <1>6, <1>7, <1>9 DEF LifeInv, LifeTypes
<1>13. Places'
  <2>1. ProcAt(t)'
    BY <1>0, <1>1, <1>4, <1>7 DEF ProcAt
  <2> QED BY <1>2, <1>8, <2>1, PlacesKept DEF LifeInv
<1>14. LocksHeld'
  <2>1. ASSUME NEW l \in Locks, lk[l] = t PROVE MayHold(t, l)'
    <3>1. MayHold(t, l)
      BY <2>1, LifeAssumption DEF LifeInv, LocksHeld
    <3> QED BY <3>1, <1>0, <1>1, <1>4, <1>7 DEF MayHold, VlPcs, PutPcs, CreatePcs, UnlinkPcs
  <2>2. MayHold(t, VL(P))'
    BY <1>4, <1>7 DEF MayHold, VlPcs
  <2>3. \A l \in Locks : lk'[l] = t => MayHold(t, l)'
    BY <1>9, <2>1, <2>2
  <2> QED BY <1>2, <1>7, <1>8, <1>9, <1>10, <2>3, LocksKept DEF LifeInv
<1>15. Users = {} /\ copies = 0 /\ Serving = 0
  BY <1>1 DEF LifeInv, Counted
<1>16. Users' = {<<t, f>>}
  <2>1. ~ Counts(t, f) /\ Counts(t, f)'
    BY <1>0, <1>1, <1>4, <1>7 DEF Counts
  <2>2. \A g \in Inodes : g # f => (Counts(t, g)' <=> Counts(t, g))
    BY <1>0, <1>1, <1>4, <1>7 DEF Counts, PutPcs
  <2>3. Users' = Users \cup {<<t, f>>}
    BY <1>8, <2>1, <2>2, UsersAdd
  <2> QED BY <1>15, <2>3
<1>17. \A g \in Inodes : OpenedBy(g)' = OpenedBy(g)
  <2>1. \A g \in Inodes : Opened(t, g)' <=> Opened(t, g)
    BY <1>0, <1>1, <1>4, <1>7 DEF Opened, PutPcs
  <2> QED BY <1>2, <1>8, <2>1, OpenedKept
<1>18. Counted'
  <2>1. Numbers({} \cup {<<t, f>>}, 0 + 1)
    BY NumbersZero, NumbersAdd
  <2>2. Numbers(Users', Fresh.usage)
    BY <1>5, <1>16, <2>1, SMT
  <2>3. ~ Unused(Fresh)
    BY <1>5, SMT DEF Unused
  <2>4. Fresh.added = Fresh.removed + copies + Serving'
    BY <1>5, <1>8, <1>15, SMT DEF Serving
  <2>5. \A g \in Inodes : Numbers(OpenedBy(g), opens[g])'
    BY <1>1, <1>17 DEF LifeInv, Counted
  <2> QED BY <1>1, <1>6, <2>2, <2>3, <2>4, <2>5 DEF Counted, Unused
<1>19. Attached'
  <2>1. ASSUME NEW i \in Slots PROVE Ahead(i)'
    <3>1. 1 <= i
      BY SMT DEF Slots
    <3> QED BY <1>4, <1>7, <3>1 DEF Ahead
  <2> QED BY <1>5, <1>6, <2>1 DEF Attached
<1>20. KidsOwned'
  BY <1>6, <1>11 DEF KidsOwned
<1>21. Passes'
  <2>1. 1 \in 1..(SCORW_MAX_CHILDS + 1)
    BY LifeAssumption, SMT
  <2>2. \A u \in All : u # t => loc'[u].pc \notin {"kids"} \cup PutPcs
    BY <1>7, <1>10 DEF VlPcs
  <2> QED BY <1>4, <1>6, <1>7, <1>16, <2>1, <2>2 DEF Passes, PutPcs
<1>22. SlotOf'
  BY <1>1, <1>2, <1>4, <1>7, <1>8, SlotOfKept DEF LifeInv, CreatePcs
<1>23. Clones'
  <2>1. \A u \in Procs : plain[u] \cap (isChild \cup {P}) = {}
    BY <1>1 DEF LifeInv, Clones, OpenPcs
  <2>2. \A u \in Procs : loc'[u].pc \in OpenPcs => loc[u].pc \in OpenPcs /\ loc'[u].f = loc[u].f
    BY <1>0, <1>1, <1>4, <1>7 DEF OpenPcs, All
  <2>3. \A u \in Procs, c \in Children :
          (c \in open[u] \ plain[u]) \/ (loc'[u].f = c /\ loc'[u].pc \in OpenPcs)
             => c \in isChild \cap exists
    BY <2>2 DEF LifeInv, Clones
  <2> QED BY <1>1, <1>6, <1>11, <2>1, <2>3 DEF Clones
<1>24. Changes'
  <2>1. \A u \in Procs : loc[u].ret # "change"
    BY <1>0, <1>1, NoneChanging DEF LifeInv
  <2> QED BY <1>4, <1>7, <2>1 DEF Changes, All
<1> QED BY <1>12, <1>13, <1>14, <1>18, <1>19, <1>20, <1>21, <1>22, <1>23, <1>24 DEF LifeInv

\* A slot without a child, or whose attribute is removed because there is no
\* such child.
LEMMA GetSkipKept ==
    ASSUME LifeInv, NEW t \in Procs, GetNoKid(t) \/ GetDangling(t)
    PROVE  LifeInv'
<1> DEFINE r == [loc[t] EXCEPT !.i = loc[t].i + 1]
<1>0. PICK f \in Inodes \ open[t], i \in Slots :
         f = loc[t].f /\ loc[t].ret = "opened" /\ i = loc[t].i
  BY DEF GetNoKid, GetDangling, AtSlot, At, LifeInv, Places, ProcAt, PutPcs, CreatePcs, UnlinkPcs
<1>1. /\ UNCHANGED <<isChild, exists, si, open, plain, opens, copies, lk>>
      /\ Go(t, r) /\ loc[t].pc = "kids"
  BY DEF GetNoKid, GetDangling, AtSlot, At
<1>2. /\ attr' \in [Slots -> Kid] /\ attr'[i] = NoInode
      /\ \A j \in Slots : j # i => attr'[j] = attr[j]
      /\ attr[i] \notin isChild \cap exists
  <2>1. attr \in [Slots -> Kid] /\ isChild \subseteq Children /\ NoInode \notin Children
    BY LifeAssumption DEF LifeInv, LifeTypes
  <2>2. CASE GetNoKid(t)
    BY <1>0, <2>1, <2>2 DEF GetNoKid
  <2>3. CASE GetDangling(t)
    <3>1. attr' = [attr EXCEPT ![i] = NoInode]
      BY <1>0, <2>3 DEF GetDangling
    <3>2. attr[i] \notin exists \/ ~ IsChildFile(attr[i], TRUE)
      BY <1>0, <2>3 DEF GetDangling
    <3>3. attr[i] \notin isChild \cap exists
      BY <2>1, <3>2, LifeAssumption DEF IsChildFile
    <3> QED BY <2>1, <3>1, <3>3 DEF Kid
  <2> QED BY <2>2, <2>3
<1>3. /\ t \in All /\ t # CopyThread /\ loc \in [All -> LocRec] /\ loc[t] \in LocRec
      /\ i \in Nat /\ i + 1 \in Nat /\ loc[t].i + 1 \in Nat
  BY <1>0, LifeAssumption, SMT DEF All, LifeInv, LifeTypes, Slots
<1>4. r \in LocRec
  BY <1>3, ZenonT(60) DEF LocRec
<1>5. r.pc = "kids" /\ r.f = f /\ r.ret = "opened" /\ r.i = i + 1
  BY <1>0, <1>1, <1>3 DEF LocRec
<1> HIDE DEF r
<1>6. /\ loc' \in [All -> LocRec] /\ loc'[t] = r
      /\ \A u \in All : u # t => loc'[u] = loc[u]
  BY <1>1, <1>3, <1>4, LocSet
<1>7. Apart(t) /\ loc'[CopyThread] = loc[CopyThread]
  BY <1>1, <1>3, <1>6 DEF Apart, All
<1>8. lk[VL(P)] = t /\ \A u \in All : u # t => loc[u].pc \notin VlPcs
  BY <1>1, <1>3, VlOne DEF LifeInv, LocksHeld, VlPcs
<1>9. LifeTypes'
  BY <1>1, <1>2, <1>6 DEF LifeInv, LifeTypes
<1>10. Places'
  <2>1. ProcAt(t)'
    BY <1>0, <1>1, <1>5, <1>6 DEF ProcAt
  <2> QED BY <1>3, <1>7, <2>1, PlacesKept DEF LifeInv
<1>11. LocksHeld'
  <2>1. ASSUME NEW l \in Locks, lk[l] = t PROVE MayHold(t, l)'
    <3>1. MayHold(t, l)
      BY <2>1, LifeAssumption DEF LifeInv, LocksHeld
    <3> QED BY <3>1, <1>0, <1>1, <1>5, <1>6 DEF MayHold
  <2> QED BY <1>1, <1>3, <1>6, <1>7, <1>8, <2>1, LocksKept DEF LifeInv, LifeTypes
<1>12. Users' = Users /\ \A g \in Inodes : OpenedBy(g)' = OpenedBy(g)
  <2>1. \A g \in Inodes : (Counts(t, g)' <=> Counts(t, g)) /\ (Opened(t, g)' <=> Opened(t, g))
    BY <1>0, <1>1, <1>5, <1>6 DEF Counts, Opened
  <2> QED BY <1>3, <1>7, <2>1, UsersKept, OpenedKept
<1>13. Counted'
  BY <1>1, <1>7, <1>12 DEF LifeInv, Counted, Serving, Unused
<1>14. Attached'
  <2>1. \A j \in Slots : (Ahead(j) <=> i <= j) /\ (Ahead(j)' <=> i + 1 <= j)
    BY <1>0, <1>1, <1>5, <1>6, <1>8 DEF Ahead, VlPcs, All
  <2>2. si[P] # NoInode /\ si[P].kids[i] = NoInode
    <3>1. si[P] # NoInode
      BY <1>1, <1>3 DEF LifeInv, Passes
    <3> QED BY <1>3, <2>1, <3>1, SMT DEF LifeInv, Attached
  <2>3. ASSUME NEW j \in Slots, j # i
        PROVE  (Ahead(j)' <=> Ahead(j)) /\ attr'[j] = attr[j]
    BY <1>2, <1>3, <2>1, <2>3, SMT DEF Slots
  <2>4. ~ Ahead(i)' /\ attr'[i] = NoInode
    BY <1>2, <1>3, <2>1, SMT
  <2>5. ASSUME NEW j \in Slots
        PROVE  /\ Ahead(j)' => si[P].kids[j] = NoInode
               /\ ~ Ahead(j)' => /\ si[P].kids[j] = attr'[j]
                                 /\ attr'[j] # NoInode => /\ j <= si[P].last
                                                          /\ si[attr'[j]] # NoInode
                                                          /\ si[attr'[j]].at = j
    BY <2>2, <2>3, <2>4 DEF LifeInv, Attached
  <2> QED BY <1>1, <2>5 DEF Attached
<1>15. KidsOwned'
  BY <1>1, <1>3, <1>7, KidsOwnedKept DEF LifeInv, PutPcs
<1>16. Passes'
  <2>1. i + 1 \in 1..(SCORW_MAX_CHILDS + 1)
    BY LifeAssumption, SMT DEF Slots
  <2>2. \A u \in All : u # t => loc'[u].pc \notin {"kids"} \cup PutPcs
    BY <1>6, <1>8 DEF VlPcs
  <2>3. si'[P] # NoInode /\ Users' = {<<t, f>>}
    BY <1>0, <1>1, <1>3, <1>12 DEF LifeInv, Passes
  <2> QED BY <1>5, <1>6, <2>1, <2>2, <2>3 DEF Passes, PutPcs
<1>17. \A u \in Procs : loc[u].ret # "change"
  BY <1>0, <1>1, NoneChanging DEF LifeInv
<1>18. SlotOf'
  <2>1. \A j, k \in Slots : attr'[j] = attr'[k] /\ attr'[j] # NoInode => j = k
    BY <1>2, ZenonT(60) DEF LifeInv, SlotOf
  <2>2. \A c \in isChild \cap exists : \E j \in Slots : attr'[j] = c
    BY <1>2 DEF LifeInv, SlotOf
  <2>3. \A u \in Procs : loc'[u].pc \notin CreatePcs
    <3>1. \A u \in Procs : loc[u].pc \notin CreatePcs
      BY <1>17 DEF LifeInv, Places, ProcAt, CreatePcs, PutPcs
    <3> QED BY <1>5, <1>6, <3>1 DEF CreatePcs, All
  <2> QED BY <1>1, <2>1, <2>2, <2>3 DEF SlotOf, CreatePcs
<1>19. Clones'
  BY <1>0, <1>1, <1>3, <1>5, <1>6, <1>7, ClonesKept DEF LifeInv, OpenPcs
<1>20. Changes'
  BY <1>5, <1>6, <1>17 DEF Changes, All
<1> QED BY <1>9, <1>10, <1>11, <1>13, <1>14, <1>15, <1>16, <1>18, <1>19, <1>20 DEF LifeInv

\* The scorw inode of a child is made and attached: what becomes of the two.
LEMMA KidAttached ==
    ASSUME LifeInv, NEW t \in Procs, GetKid(t), NEW i \in Slots, i = loc[t].i,
           NEW c \in Children, c = attr[i], si[c] = NoInode, si[P] # NoInode
    PROVE  /\ si' \in [Inodes -> {NoInode} \cup ScorwRec]
           /\ si'[P] # NoInode /\ si'[P].usage = si[P].usage /\ si'[P].last = i
           /\ si'[P].added = si[P].added /\ si'[P].removed = si[P].removed
           /\ si'[P].kids[i] = c /\ \A j \in Slots : j # i => si'[P].kids[j] = si[P].kids[j]
           /\ si'[c] # NoInode /\ si'[c].usage = 1 /\ ~ si'[c].unlinked /\ si'[c].at = i
           /\ \A d \in Children : d # c => si'[d] = si[d]
<1> DEFINE got == [si EXCEPT ![c] = Fresh]
           kids == [si[P].kids EXCEPT ![i] = c]
           p == [si[P] EXCEPT !.kids = kids]
           q == [p EXCEPT !.last = i]
           k == [Fresh EXCEPT !.at = i]
<1>1. /\ c # P /\ c \in Inodes /\ P \in Inodes /\ si \in [Inodes -> {NoInode} \cup ScorwRec]
      /\ si[P] \in ScorwRec /\ i \in Nat /\ NoInode \notin ScorwRec
  BY LifeAssumption, SMT DEF LifeInv, LifeTypes, Inodes, Slots
<1>2. si[P].kids \in [Slots -> Children \cup {NoInode}]
  BY <1>1 DEF ScorwRec
<1>3. /\ kids \in [Slots -> Children \cup {NoInode}] /\ kids[i] = c
      /\ \A j \in Slots : j # i => kids[j] = si[P].kids[j]
  BY <1>2
<1>4. p \in ScorwRec
  BY <1>1, <1>3, ZenonT(60) DEF ScorwRec
<1>5. q \in ScorwRec
  BY <1>1, <1>4, ZenonT(60) DEF ScorwRec
<1>6. /\ q.usage = si[P].usage /\ q.last = i /\ q.kids = kids
      /\ q.added = si[P].added /\ q.removed = si[P].removed
  BY <1>1 DEF ScorwRec
<1>7. Fresh \in ScorwRec /\ Fresh.usage = 1 /\ ~ Fresh.unlinked
  BY FreshTyped
<1>8. k \in ScorwRec
  BY <1>1, <1>7, ZenonT(60) DEF ScorwRec
<1>9. k.usage = 1 /\ ~ k.unlinked /\ k.at = i
  BY <1>7 DEF ScorwRec
<1>10. KidAfterGet(si, c) = got
  BY DEF KidAfterGet
<1>11. got[c] = Fresh /\ got[P] = si[P] /\ got \in [Inodes -> {NoInode} \cup ScorwRec]
  BY <1>1, <1>7
<1>12. Attach(got, c, i) = [got EXCEPT ![P] = p, ![c] = k]
  BY <1>1, <1>11 DEF Attach
<1>13. si' = [[got EXCEPT ![P] = p, ![c] = k] EXCEPT ![P] = q]
  <2>1. si' = [(IF got[c].unlinked THEN got ELSE Attach(got, c, i)) EXCEPT ![P].last = i]
    BY <1>10 DEF GetKid
  <2>2. si' = [Attach(got, c, i) EXCEPT ![P].last = i]
    BY <1>7, <1>11, <2>1
  <2>3. [got EXCEPT ![P] = p, ![c] = k][P] = p
    BY <1>1, <1>11
  <2> QED BY <1>12, <2>2, <2>3, ZenonT(60)
<1> HIDE DEF kids, p, q, k
<1>14. /\ si' \in [Inodes -> {NoInode} \cup ScorwRec] /\ si'[P] = q /\ si'[c] = k
       /\ \A d \in Children : d # c => si'[d] = si[d]
  BY <1>1, <1>4, <1>5, <1>8, <1>11, <1>13, LifeAssumption DEF Inodes
<1> QED BY <1>1, <1>3, <1>5, <1>6, <1>8, <1>9, <1>14

\* The child comes to its slot; it has had no scorw inode before.
LEMMA GetKidKept ==
    ASSUME LifeInv, NEW t \in Procs, GetKid(t)
    PROVE  LifeInv'
<1> DEFINE r == [loc[t] EXCEPT !.i = loc[t].i + 1]
<1>0. PICK f \in Inodes \ open[t], i \in Slots, c \in Children :
         f = loc[t].f /\ loc[t].ret = "opened" /\ i = loc[t].i /\ c = attr[i]
  <2>1. loc[t].i \in Slots /\ attr[loc[t].i] # NoInode /\ loc[t].pc = "kids"
    BY DEF GetKid, AtSlot, At
  <2>2. attr[loc[t].i] \in Children
    BY <2>1 DEF LifeInv, LifeTypes, Kid
  <2> QED BY <2>1, <2>2 DEF LifeInv, Places, ProcAt, PutPcs, CreatePcs, UnlinkPcs
<1>1. /\ UNCHANGED <<attr, isChild, exists, open, plain, opens, copies, lk>>
      /\ Go(t, r) /\ loc[t].pc = "kids" /\ c \in exists /\ IsChildFile(c, TRUE)
  BY <1>0 DEF GetKid, AtSlot, At
<1>2. /\ t \in All /\ t # CopyThread /\ loc \in [All -> LocRec] /\ loc[t] \in LocRec
      /\ i \in Nat /\ i + 1 \in Nat /\ loc[t].i + 1 \in Nat
  BY <1>0, LifeAssumption, SMT DEF All, LifeInv, LifeTypes, Slots
<1>3. r \in LocRec
  BY <1>2, ZenonT(60) DEF LocRec
<1>4. r.pc = "kids" /\ r.f = f /\ r.ret = "opened" /\ r.i = i + 1
  BY <1>0, <1>1, <1>2 DEF LocRec
<1> HIDE DEF r
<1>5. /\ loc' \in [All -> LocRec] /\ loc'[t] = r
      /\ \A u \in All : u # t => loc'[u] = loc[u]
  BY <1>1, <1>2, <1>3, LocSet
<1>6. Apart(t) /\ loc'[CopyThread] = loc[CopyThread]
  BY <1>1, <1>2, <1>5 DEF Apart, All
<1>7. lk[VL(P)] = t /\ \A u \in All : u # t => loc[u].pc \notin VlPcs
  BY <1>1, <1>2, VlOne DEF LifeInv, LocksHeld, VlPcs
<1>8. \A j \in Slots : (Ahead(j) <=> i <= j) /\ (Ahead(j)' <=> i + 1 <= j)
  BY <1>0, <1>1, <1>4, <1>5, <1>7 DEF Ahead, VlPcs, All
<1>9. si[P] # NoInode /\ si[P].kids[i] = NoInode
  <2>1. si[P] # NoInode
    BY <1>1, <1>2 DEF LifeInv, Passes
  <2> QED BY <1>2, <1>8, <2>1, SMT DEF LifeInv, Attached
<1>10. si[c] = NoInode
  <2> SUFFICES ASSUME si[c] # NoInode PROVE FALSE
    OBVIOUS
  <2>1. \A u \in All : loc[u].pc \notin PutPcs
    BY <1>1, <1>7 DEF VlPcs, PutPcs
  <2>2. PICK j \in Slots : si[P].kids[j] = c
    BY <2>1 DEF LifeInv, KidsOwned
  <2>3. c # NoInode
    BY LifeAssumption
  <2>4. attr[j] = c /\ ~ Ahead(j)
    BY <1>9, <2>2, <2>3 DEF LifeInv, Attached
  <2>5. j = i
    BY <1>0, <2>3, <2>4, SMT DEF LifeInv, SlotOf
  <2> QED BY <1>2, <1>8, <2>4, <2>5, SMT
<1>11. c \in isChild
  BY <1>1, <1>10 DEF IsChildFile
<1>12. /\ si' \in [Inodes -> {NoInode} \cup ScorwRec]
       /\ si'[P] # NoInode /\ si'[P].usage = si[P].usage /\ si'[P].last = i
       /\ si'[P].added = si[P].added /\ si'[P].removed = si[P].removed
       /\ si'[P].kids[i] = c /\ \A j \in Slots : j # i => si'[P].kids[j] = si[P].kids[j]
       /\ si'[c] # NoInode /\ si'[c].usage = 1 /\ ~ si'[c].unlinked /\ si'[c].at = i
       /\ \A d \in Children : d # c => si'[d] = si[d]
  BY <1>0, <1>9, <1>10, KidAttached, SMT
<1>13. LifeTypes'
  BY <1>1, <1>5, <1>12 DEF LifeInv, LifeTypes
<1>14. Places'
  <2>1. ProcAt(t)'
    BY <1>0, <1>1, <1>4, <1>5 DEF ProcAt
  <2> QED BY <1>2, <1>6, <2>1, PlacesKept DEF LifeInv
<1>15. LocksHeld'
  <2>1. ASSUME NEW l \in Locks, lk[l] = t PROVE MayHold(t, l)'
    <3>1. MayHold(t, l)
      BY <2>1, LifeAssumption DEF LifeInv, LocksHeld
    <3> QED BY <3>1, <1>0, <1>1, <1>4, <1>5 DEF MayHold
  <2> QED BY <1>1, <1>2, <1>5, <1>6, <1>7, <2>1, LocksKept DEF LifeInv, LifeTypes
<1>16. Users' = Users /\ \A g \in Inodes : OpenedBy(g)' = OpenedBy(g)
  <2>1. \A g \in Inodes : (Counts(t, g)' <=> Counts(t, g)) /\ (Opened(t, g)' <=> Opened(t, g))
    BY <1>0, <1>1, <1>4, <1>5 DEF Counts, Opened
  <2> QED BY <1>2, <1>6, <2>1, UsersKept, OpenedKept
<1>17. Counted'
  <2>1. Numbers(Users', si'[P].usage) /\ \A g \in Inodes : Numbers(OpenedBy(g), opens[g])'
    BY <1>1, <1>9, <1>12, <1>16 DEF LifeInv, Counted
  <2>2. si'[P].added = si'[P].removed + copies + Serving' /\ ~ Unused(si[P])'
    BY <1>6, <1>9, <1>12 DEF LifeInv, Counted, Serving, Unused
  <2> QED BY <1>1, <1>12, <2>1, <2>2 DEF Counted
<1>18. Attached'
  <2>1. ASSUME NEW j \in Slots, Ahead(j)' PROVE si'[P].kids[j] = NoInode
    <3>1. j # i /\ Ahead(j)
      BY <1>2, <1>8, <2>1, SMT DEF Slots
    <3> QED BY <1>9, <1>12, <3>1, ZenonT(60) DEF LifeInv, Attached
  <2>2. ASSUME NEW j \in Slots, ~ Ahead(j)'
        PROVE  /\ si'[P].kids[j] = attr[j]
               /\ attr[j] # NoInode => /\ j <= si'[P].last
                                       /\ si'[attr[j]] # NoInode
                                       /\ si'[attr[j]].at = j
    <3>1. CASE j = i
      BY <1>0, <1>2, <1>12, <3>1, SMT
    <3>2. CASE j # i
      <4>1. j < i /\ ~ Ahead(j)
        BY <1>2, <1>8, <2>2, <3>2, SMT DEF Slots
      <4>2. attr[j] # NoInode => attr[j] \in Children /\ attr[j] # c
        BY <1>0, <3>2, SMT DEF LifeInv, LifeTypes, Kid, SlotOf
      <4>3. /\ si[P].kids[j] = attr[j]
            /\ attr[j] # NoInode => si[attr[j]] # NoInode /\ si[attr[j]].at = j
        BY <1>9, <4>1 DEF LifeInv, Attached
      <4> QED BY <1>2, <1>12, <3>2, <4>1, <4>2, <4>3, SMT DEF Slots
    <3> QED BY <3>1, <3>2
  <2> QED BY <1>1, <2>1, <2>2 DEF Attached
<1>19. KidsOwned'
  <2>1. ASSUME NEW d \in Children, si'[d] # NoInode
        PROVE  /\ si'[d].usage = 1 /\ ~ si'[d].unlinked /\ d \in isChild \cap exists
               /\ \E j \in Slots : si'[P].kids[j] = d
    <3>1. CASE d = c
      BY <1>1, <1>11, <1>12, <3>1
    <3>2. CASE d # c
      <4>1. si'[d] = si[d] /\ si[d] # NoInode
        BY <1>12, <2>1, <3>2
      <4>2. \A u \in All : loc[u].pc \notin PutPcs
        BY <1>1, <1>7 DEF VlPcs, PutPcs
      <4>3. /\ si[d].usage = 1 /\ ~ si[d].unlinked /\ d \in isChild \cap exists
            /\ \E j \in Slots : si[P].kids[j] = d
        BY <4>1, <4>2 DEF LifeInv, KidsOwned
      <4>4. \E j \in Slots : si'[P].kids[j] = d
        BY <1>9, <1>12, <4>3, LifeAssumption
      <4> QED BY <4>1, <4>3, <4>4
    <3> QED BY <3>1, <3>2
  <2> QED BY <1>1, <1>12, <2>1 DEF KidsOwned
<1>20. Passes'
  <2>1. i + 1 \in 1..(SCORW_MAX_CHILDS + 1)
    BY LifeAssumption, SMT DEF Slots
  <2>2. \A u \in All : u # t => loc'[u].pc \notin {"kids"} \cup PutPcs
    BY <1>5, <1>7 DEF VlPcs
  <2>3. si'[P] # NoInode /\ Users' = {<<t, f>>}
    BY <1>0, <1>1, <1>2, <1>12, <1>16 DEF LifeInv, Passes
  <2> QED BY <1>4, <1>5, <2>1, <2>2, <2>3 DEF Passes, PutPcs
<1>21. SlotOf'
  BY <1>1, <1>2, <1>4, <1>5, <1>6, SlotOfKept DEF LifeInv, CreatePcs
<1>22. Clones'
  <2>1. \A u \in Procs : plain[u] \cap (isChild \cup {P}) = {}
    BY <1>9 DEF LifeInv, Clones
  <2>2. \A u \in Procs : loc'[u].pc \in OpenPcs => loc[u].pc \in OpenPcs /\ loc'[u].f = loc[u].f
    BY <1>0, <1>1, <1>4, <1>5 DEF OpenPcs, All
  <2>3. \A u \in Procs, d \in Children :
          (d \in open[u] \ plain[u]) \/ (loc'[u].f = d /\ loc'[u].pc \in OpenPcs)
             => d \in isChild \cap exists
    BY <2>2 DEF LifeInv, Clones
  <2>4. \A d \in Children : si'[d] # NoInode => \A u \in Procs : d \notin plain[u]
    BY <1>11, <1>12, <2>1, SMT DEF LifeInv, Clones
  <2> QED BY <1>1, <2>1, <2>3, <2>4 DEF Clones
<1>23. Changes'
  <2>1. \A u \in Procs : loc[u].ret # "change"
    BY <1>0, <1>1, NoneChanging DEF LifeInv
  <2> QED BY <1>4, <1>5, <2>1 DEF Changes, All
<1> QED BY <1>13, <1>14, <1>15, <1>17, <1>18, <1>19, <1>20, <1>21, <1>22, <1>23 DEF LifeInv

\* All children have come.
LEMMA GetDoneKept ==
    ASSUME LifeInv, NEW t \in Procs, GetDone(t)
    PROVE  LifeInv'
<1> DEFINE r == [loc[t] EXCEPT !.pc = loc[t].ret, !.i = 0]
<1>0. PICK f \in Inodes \ open[t] : f = loc[t].f /\ loc[t].ret = "opened"
  BY DEF GetDone, At, LifeInv, Places, ProcAt, PutPcs, CreatePcs, UnlinkPcs
<1>1. /\ UNCHANGED <<attr, isChild, exists, si, open, plain, opens, copies>>
      /\ Go(t, r) /\ loc[t].pc = "kids" /\ loc[t].i \notin Slots /\ Drop({VL(P)})
  BY DEF GetDone, At
<1>2. /\ t \in All /\ t # CopyThread /\ loc \in [All -> LocRec] /\ loc[t] \in LocRec
      /\ "opened" \in Pcs /\ 0 \in Nat
  BY LifeAssumption DEF All, LifeInv, LifeTypes, Pcs
<1>3. r \in LocRec
  BY <1>0, <1>2, ZenonT(60) DEF LocRec
<1>4. r.pc = "opened" /\ r.f = f /\ r.ret = "opened"
  BY <1>0, <1>2 DEF LocRec
<1> HIDE DEF r
<1>5. /\ loc' \in [All -> LocRec] /\ loc'[t] = r
      /\ \A u \in All : u # t => loc'[u] = loc[u]
  BY <1>1, <1>2, <1>3, LocSet
<1>6. Apart(t) /\ loc'[CopyThread] = loc[CopyThread]
  BY <1>1, <1>2, <1>5 DEF Apart, All
<1>7. lk[VL(P)] = t /\ \A u \in All : u # t => loc[u].pc \notin VlPcs
  BY <1>1, <1>2, VlOne DEF LifeInv, LocksHeld, VlPcs
<1>8. /\ lk' \in [Locks -> All \cup {NoInode}]
      /\ \A l \in Locks : lk[l] \in All \cup {NoInode}
      /\ \A l \in Locks : lk'[l] = IF l \in {VL(P)} THEN NoInode ELSE lk[l]
  BY <1>1, LockSet DEF LifeInv, LifeTypes
<1>9. LifeTypes'
  BY <1>1, <1>5, <1>8 DEF LifeInv, LifeTypes
<1>10. Places'
  <2>1. ProcAt(t)'
    BY <1>0, <1>1, <1>4, <1>5 DEF ProcAt
  <2> QED BY <1>2, <1>6, <2>1, PlacesKept DEF LifeInv
<1>11. LocksHeld'
  <2>0. t # NoInode /\ VL(P) \in Locks /\ r.pc \notin VlPcs
    BY <1>4, LifeAssumption, LockNames DEF VlPcs, PutPcs
  <2>1. ASSUME NEW l \in Locks, lk'[l] = t PROVE MayHold(t, l)'
    <3>1. lk[l] = t /\ l # VL(P)
      BY <1>8, <2>0, <2>1
    <3>2. MayHold(t, l)
      BY <3>1, <2>0 DEF LifeInv, LocksHeld
    <3> QED BY <3>1, <3>2, <1>0, <1>1, <1>4, <1>5 DEF MayHold, PutPcs, CreatePcs, UnlinkPcs
  <2>2. \A l \in Locks : lk'[l] = NoInode \/ lk'[l] = lk[l]
    BY <1>8
  <2> QED BY <1>2, <1>5, <1>6, <1>7, <1>8, <2>0, <2>1, <2>2, LocksKept DEF LifeInv
<1>12. Users' = Users /\ \A g \in Inodes : OpenedBy(g)' = OpenedBy(g)
  <2>1. \A g \in Inodes : (Counts(t, g)' <=> Counts(t, g)) /\ (Opened(t, g)' <=> Opened(t, g))
    BY <1>0, <1>1, <1>4, <1>5 DEF Counts, Opened, PutPcs
  <2> QED BY <1>2, <1>6, <2>1, UsersKept, OpenedKept
<1>13. Counted'
  BY <1>1, <1>6, <1>12 DEF LifeInv, Counted, Serving, Unused
<1>14. Attached'
  <2>1. loc[t].i = SCORW_MAX_CHILDS + 1
    BY <1>1, <1>2, LifeAssumption, SMT DEF LifeInv, Passes, Slots
  <2>2. \A u \in Procs : u # t => loc[u].pc # "kids"
    BY <1>7 DEF All, VlPcs
  <2>3. ASSUME NEW j \in Slots PROVE ~ Ahead(j) /\ ~ Ahead(j)'
    <3>1. ~ (loc[t].i <= j)
      BY <2>1, LifeAssumption, SMT DEF Slots
    <3> QED BY <1>4, <1>5, <2>2, <3>1 DEF Ahead, All
  <2> QED BY <1>1, <2>3 DEF LifeInv, Attached
<1>15. KidsOwned'
  BY <1>1, <1>2, <1>6, KidsOwnedKept DEF LifeInv, PutPcs
<1>16. Passes'
  BY <1>1, <1>2, <1>4, <1>5, <1>6, <1>12, PassesKept DEF LifeInv, PutPcs
<1>17. SlotOf'
  BY <1>1, <1>2, <1>4, <1>5, <1>6, SlotOfKept DEF LifeInv, CreatePcs
<1>18. Clones'
  BY <1>0, <1>1, <1>2, <1>4, <1>5, <1>6, ClonesKept DEF LifeInv, OpenPcs
<1>19. Changes'
  <2>1. \A u \in Procs : loc[u].ret # "change"
    BY <1>0, <1>1, NoneChanging DEF LifeInv
  <2> QED BY <1>4, <1>5, <2>1 DEF Changes, All
<1> QED BY <1>9, <1>10, <1>11, <1>13, <1>14, <1>15, <1>16, <1>17, <1>18, <1>19 DEF LifeInv

-----------------------------------------------------------------------------
(* Closing.                                                                *)

\* Who has a parent or child open and does nothing finds its scorw inode.
LEMMA OpenFound ==
    ASSUME LifeInv, NEW t \in Procs, loc[t].pc = "idle", NEW f \in open[t] \ plain[t]
    PROVE  si[P] # NoInode /\ si[f] # NoInode
<1>1. f \in Inodes /\ <<t, f>> \in Users
  BY DEF LifeInv, LifeTypes, Users, Counts, PutPcs
<1>2. si[P] # NoInode
  BY <1>1 DEF LifeInv, Counted
<1>3. ASSUME f \in Children PROVE si[f] # NoInode
  <2>1. PICK i \in Slots : attr[i] = f
    BY <1>3 DEF LifeInv, Clones, SlotOf
  <2>2. ~ Ahead(i)
    <3> SUFFICES ASSUME NEW u \in Procs, loc[u].pc = "kids" PROVE FALSE
      BY DEF Ahead
    <3>1. Users = {<<u, loc[u].f>>}
      BY DEF LifeInv, Passes, All
    <3>2. u = t
      BY <1>1, <3>1
    <3> QED BY <3>2
  <2> QED BY <1>2, <1>3, <2>1, <2>2, LifeAssumption DEF LifeInv, Attached
<1> QED BY <1>1, <1>2, <1>3 DEF Inodes

\* Closing a plain file ends no use.
LEMMA ClosePlainKept ==
    ASSUME LifeInv, NEW t \in Procs, NEW f \in Inodes, ClosePlain(t, f)
    PROVE  LifeInv'
<1>1. /\ UNCHANGED <<attr, isChild, exists, si, opens, copies, lk, loc>>
      /\ f \in open[t] /\ ~ IsScorwFile(f, FALSE) /\ loc[t].pc = "idle"
  BY DEF ClosePlain, At
<1>2. /\ open' \in [Procs -> SUBSET Inodes] /\ plain' \in [Procs -> SUBSET Inodes]
      /\ open'[t] = open[t] \ {f} /\ plain'[t] = plain[t] \ {f}
      /\ \A u \in Procs : u # t => open'[u] = open[u] /\ plain'[u] = plain[u]
  BY DEF ClosePlain, LifeInv, LifeTypes
<1>3. LifeTypes'
  BY <1>1, <1>2 DEF LifeInv, LifeTypes
<1>4. t \in All /\ t # CopyThread /\ Apart(t)
  BY <1>1, <1>2, LifeAssumption DEF Apart, All
<1>5. f \in plain[t]
  <2> SUFFICES ASSUME f \notin plain[t] PROVE FALSE
    OBVIOUS
  <2>1. si[P] # NoInode /\ si[f] # NoInode
    BY <1>1, OpenFound
  <2> QED BY <1>1, <2>1 DEF IsScorwFile, IsChildFile, IsParFile
<1>6. Places'
  <2>1. ProcAt(t)
    BY DEF LifeInv, Places
  <2>2. ProcAt(t)'
    BY <1>1, <2>1 DEF ProcAt, PutPcs, CreatePcs, UnlinkPcs
  <2> QED BY <1>4, <2>2, PlacesKept DEF LifeInv
<1>7. LocksHeld'
  BY <1>1 DEF LifeInv, LocksHeld, MayHold
<1>8. open'[t] \ plain'[t] = open[t] \ plain[t]
  BY <1>2, <1>5
<1>9. Users' = Users /\ \A g \in Inodes : OpenedBy(g)' = OpenedBy(g)
  <2>1. \A g \in Inodes : (Counts(t, g)' <=> Counts(t, g)) /\ (Opened(t, g)' <=> Opened(t, g))
    BY <1>1, <1>8 DEF Counts, Opened
  <2> QED BY <1>4, <2>1, UsersKept, OpenedKept
<1>10. Counted'
  BY <1>1, <1>9 DEF LifeInv, Counted, Serving, Unused
<1>11. Attached' /\ KidsOwned' /\ Passes'
  BY <1>1, <1>4, <1>9, Aside DEF PutPcs
<1>12. SlotOf'
  BY <1>1 DEF LifeInv, SlotOf
<1>13. Clones'
  <2>1. \A u \in Procs : plain'[u] \subseteq plain[u] /\ open'[u] \ plain'[u] = open[u] \ plain[u]
    BY <1>2, <1>8
  <2> QED BY <1>1, <2>1 DEF LifeInv, Clones
<1>14. Changes'
  <2>1. \A u \in Procs : open'[u] \subseteq open[u]
    BY <1>2
  <2> QED BY <1>1, <2>1 DEF LifeInv, Changes, NoneInUse
<1> QED BY <1>3, <1>6, <1>7, <1>10, <1>11, <1>12, <1>13, <1>14 DEF LifeInv

\* A close of a clone or its parent begins.
LEMMA CloseStartKept ==
    ASSUME LifeInv, NEW t \in Procs, NEW f \in Inodes, CloseStart(t, f)
    PROVE  LifeInv'
<1> DEFINE r == [loc[t] EXCEPT !.pc = "close", !.f = f]
<1>1. /\ UNCHANGED <<attr, isChild, exists, si, open, plain, opens, copies, lk>>
      /\ Go(t, r) /\ loc[t].pc = "idle" /\ f \in open[t] /\ IsScorwFile(f, FALSE)
  BY DEF CloseStart, At
<1>2. t \in All /\ loc \in [All -> LocRec] /\ loc[t] \in LocRec /\ "close" \in Pcs
  BY DEF All, LifeInv, LifeTypes, Pcs
<1>3. r \in LocRec
  BY <1>2, ZenonT(60) DEF LocRec
<1>4. r.pc = "close" /\ r.f = f /\ r.ret = loc[t].ret
  BY <1>2 DEF LocRec
<1> HIDE DEF r
<1>5. loc[t].f = NoInode /\ loc[t].ret = "idle"
  BY <1>1 DEF LifeInv, Places, ProcAt, PutPcs, CreatePcs, UnlinkPcs
<1>6. loc'[t] = r /\ \A u \in All : u # t => loc'[u] = loc[u]
  BY <1>1, <1>2, <1>3, LocSet
<1>7. Apart(t)
  BY <1>1, <1>6 DEF Apart, All
<1>8. si[f] # NoInode /\ f \notin plain[t]
  <2>1. si[f] # NoInode
    BY <1>1 DEF IsScorwFile, IsChildFile, IsParFile
  <2> QED BY <2>1 DEF LifeInv, Clones, Inodes
<1>9. LocksHeld'
  <2>1. \A l \in Locks : lk[l] # t
    BY <1>1, <1>2, HoldsNone DEF LifeInv
  <2>2. r.pc \notin VlPcs
    BY <1>4 DEF VlPcs, PutPcs
  <2> QED BY <1>1, <1>2, <1>6, <1>7, <2>1, <2>2, LocksKept DEF LifeInv, LifeTypes
<1>10. ProcAt(t)'
  BY <1>1, <1>4, <1>5, <1>6, <1>8 DEF ProcAt
<1>11. \A g \in Inodes : (Counts(t, g)' <=> Counts(t, g)) /\ (Opened(t, g)' <=> Opened(t, g))
  <2>1. NoInode \notin Inodes
    BY LifeAssumption DEF Inodes
  <2> QED BY <1>1, <1>4, <1>5, <1>6, <2>1 DEF Counts, Opened, PutPcs
<1>12. \A g \in Inodes : Numbers(OpenedBy(g), opens[g])'
  <2>1. \A g \in Inodes : OpenedBy(g)' = OpenedBy(g)
    BY <1>2, <1>7, <1>11, OpenedKept
  <2> QED BY <1>1, <2>1 DEF LifeInv, Counted
<1>13. Clones'
  BY <1>1, <1>2, <1>4, <1>6, <1>7, ClonesKept DEF LifeInv, OpenPcs
<1>14. Changes'
  <2>1. \A u \in Procs : loc[u].ret # "change"
    BY <1>8 DEF LifeInv, Changes, NoneInUse
  <2> QED BY <1>4, <1>5, <1>6, <2>1 DEF Changes, All
<1>15. loc[t].pc \notin {"kids"} \cup PutPcs /\ r.pc \notin {"kids"} \cup PutPcs \cup CreatePcs
  BY <1>1, <1>4 DEF PutPcs, CreatePcs
<1>16. opens' \in [Inodes -> Nat] /\ lk' \in [Locks -> All \cup {NoInode}]
  BY <1>1 DEF LifeInv, LifeTypes
<1> QED BY <1>1, <1>3, <1>9, <1>10, <1>11, <1>12, <1>13, <1>14, <1>15, <1>16, CallStep

\* The open count goes down with the open_close_lock taken.
LEMMA CloseLockKept ==
    ASSUME LifeInv, NEW t \in Procs, CloseLock(t)
    PROVE  LifeInv'
<1> DEFINE r == [loc[t] EXCEPT !.pc = "put", !.ret = "closed"]
<1>0. PICK f \in open[t] \ plain[t] : f = loc[t].f
  BY DEF CloseLock, At, LifeInv, Places, ProcAt, PutPcs, CreatePcs, UnlinkPcs
<1>1. /\ UNCHANGED <<attr, isChild, exists, si, open, plain, copies>>
      /\ Go(t, r) /\ loc[t].pc = "close" /\ Take(t, OCL(f))
      /\ opens' = [opens EXCEPT ![f] = @ - 1]
  BY <1>0 DEF CloseLock, At
<1>2. t \in All /\ loc \in [All -> LocRec] /\ loc[t] \in LocRec /\ "put" \in Pcs /\ f \in Inodes
  BY DEF All, LifeInv, LifeTypes, Pcs
<1>3. r \in LocRec
  BY <1>2, ZenonT(60) DEF LocRec
<1>4. r.pc = "put" /\ r.f = f /\ r.ret = "closed"
  BY <1>0, <1>2 DEF LocRec
<1>5. loc[t].f = f /\ loc[t].ret = "idle"
  BY <1>0, <1>1 DEF LifeInv, Places, ProcAt, PutPcs, CreatePcs, UnlinkPcs
<1> HIDE DEF r
<1>6. loc'[t] = r /\ \A u \in All : u # t => loc'[u] = loc[u]
  BY <1>1, <1>2, <1>3, LocSet
<1>7. Apart(t)
  BY <1>1, <1>6 DEF Apart, All
<1>8. /\ OCL(f) \in Locks /\ lk' \in [Locks -> All \cup {NoInode}] /\ lk'[OCL(f)] = t
      /\ \A k \in Locks : k # OCL(f) => lk'[k] = lk[k]
      /\ \A k \in Locks : lk[k] \in All \cup {NoInode}
  BY <1>1, <1>2, LockNames, LockSet, ZenonT(60) DEF LifeInv, LifeTypes
<1>9. LocksHeld'
  <2>1. \A l \in Locks : lk[l] # t
    BY <1>1, <1>2, HoldsNone DEF LifeInv
  <2>2. r.pc \notin VlPcs /\ VL(P) # OCL(f) /\ VL(P) \in Locks
    BY <1>4, LockNames DEF VlPcs, PutPcs
  <2>3. MayHold(t, OCL(f))'
    BY <1>2, <1>4, <1>6, LifeAssumption DEF MayHold, Inodes
  <2>4. \A l \in Locks : lk'[l] = t => MayHold(t, l)'
    BY <1>8, <2>1, <2>3
  <2> QED BY <1>2, <1>6, <1>7, <1>8, <2>2, <2>4, LocksKept DEF LifeInv
<1>10. ProcAt(t)'
  BY <1>1, <1>4, <1>6 DEF ProcAt
<1>11. \A g \in Inodes : (Counts(t, g)' <=> Counts(t, g))
  BY <1>1, <1>4, <1>5, <1>6 DEF Counts, PutPcs
<1>12. /\ opens' \in [Inodes -> Nat]
       /\ \A g \in Inodes : Numbers(OpenedBy(g), opens[g])'
  <2>1. Opened(t, f) /\ ~ Opened(t, f)'
    BY <1>1, <1>4, <1>5, <1>6 DEF Opened, PutPcs
  <2>2. \A g \in Inodes : g # f => (Opened(t, g)' <=> Opened(t, g))
    BY <1>1, <1>4, <1>5, <1>6 DEF Opened, PutPcs
  <2>3. \A g \in Inodes : g # f => OpenedBy(g)' = OpenedBy(g)
    BY <1>2, <1>7, <2>2, OpenedKept
  <2>4. t \in OpenedBy(f) /\ OpenedBy(f)' = OpenedBy(f) \ {t}
    BY <1>2, <1>7, <2>1, OpenedRemove
  <2>5. opens'[f] = opens[f] - 1 /\ \A g \in Inodes : g # f => opens'[g] = opens[g]
    BY <1>1, <1>2 DEF LifeInv, LifeTypes
  <2>6. \A g \in Inodes : Numbers(OpenedBy(g), opens[g])
    BY DEF LifeInv, Counted
  <2>7. Numbers(OpenedBy(f) \ {t}, opens[f] - 1) /\ opens[f] - 1 \in Nat
    BY <1>2, <2>4, <2>6, NumbersRemove
  <2>8. opens' \in [Inodes -> Nat]
    BY <1>1, <2>7 DEF LifeInv, LifeTypes
  <2> QED BY <2>3, <2>4, <2>5, <2>6, <2>7, <2>8
<1>13. Clones'
  BY <1>1, <1>2, <1>4, <1>6, <1>7, ClonesKept DEF LifeInv, OpenPcs
<1>14. Changes'
  <2>1. \A u \in Procs : loc[u].ret # "change"
    BY <1>1, <1>5, NoneChanging DEF LifeInv
  <2> QED BY <1>4, <1>6, <2>1 DEF Changes, All
<1>15. loc[t].pc \notin {"kids"} \cup PutPcs /\ r.pc \notin {"kids"} \cup PutPcs \cup CreatePcs
  BY <1>1, <1>4 DEF PutPcs, CreatePcs
<1> QED BY <1>1, <1>3, <1>8, <1>9, <1>10, <1>11, <1>12, <1>13, <1>14, <1>15, CallStep

\* The file is closed.
LEMMA CloseDoneKept ==
    ASSUME LifeInv, NEW t \in Procs, CloseDone(t)
    PROVE  LifeInv'
<1>0. PICK f \in open[t] \ plain[t] : f = loc[t].f /\ loc[t].ret = "closed"
  BY DEF CloseDone, At, LifeInv, Places, ProcAt, PutPcs, CreatePcs, UnlinkPcs
<1>1. /\ UNCHANGED <<attr, isChild, exists, si, opens, copies>>
      /\ Go(t, Idle) /\ loc[t].pc = "closed" /\ Drop({OCL(f)})
      /\ open' = [open EXCEPT ![t] = @ \ {f}] /\ plain' = [plain EXCEPT ![t] = @ \ {f}]
  BY <1>0 DEF CloseDone, At
<1>2. t \in All /\ t # CopyThread /\ f \in Inodes
  BY LifeAssumption DEF All, LifeInv, LifeTypes
<1>3. /\ loc' \in [All -> LocRec] /\ loc'[t] = Idle
      /\ \A u \in All : u # t => loc'[u] = loc[u]
  BY <1>1, <1>2, IdleTyped, LocSet DEF LifeInv, LifeTypes
<1>4. Idle.pc = "idle" /\ Idle.f = NoInode /\ Idle.ret = "idle"
  BY DEF Idle
<1>5. /\ open' \in [Procs -> SUBSET Inodes] /\ open'[t] = open[t] \ {f}
      /\ plain' \in [Procs -> SUBSET Inodes] /\ plain'[t] = plain[t]
      /\ \A u \in Procs : u # t => open'[u] = open[u] /\ plain'[u] = plain[u]
  BY <1>0, <1>1 DEF LifeInv, LifeTypes
<1>6. Apart(t) /\ loc'[CopyThread] = loc[CopyThread]
  BY <1>1, <1>2, <1>3, <1>5 DEF Apart, All
<1>7. lk' \in [Locks -> All \cup {NoInode}] /\ LocksHeld'
  <2>1. /\ lk' \in [Locks -> All \cup {NoInode}]
        /\ \A l \in Locks : lk[l] \in All \cup {NoInode}
        /\ \A l \in Locks : lk'[l] = IF l \in {OCL(f)} THEN NoInode ELSE lk[l]
    BY <1>1, LockSet DEF LifeInv, LifeTypes
  <2>2. ASSUME NEW l \in Locks, lk[l] = t PROVE l = OCL(f)
    <3>1. MayHold(t, l)
      BY <2>2, <1>2, LifeAssumption DEF LifeInv, LocksHeld, All
    <3> QED BY <3>1, <1>0, <1>1 DEF MayHold, VlPcs, PutPcs, CreatePcs
  <2>3. t # NoInode /\ VL(P) \in Locks /\ VL(P) # OCL(f) /\ Idle.pc \notin VlPcs
    BY <1>4, LifeAssumption, LockNames DEF VlPcs, PutPcs
  <2>4. /\ \A l \in Locks : lk'[l] = NoInode \/ lk'[l] = lk[l]
        /\ \A l \in Locks : lk'[l] # t
        /\ lk'[VL(P)] = lk[VL(P)]
    BY <2>1, <2>2, <2>3, SMT
  <2> QED BY <1>2, <1>3, <1>6, <2>1, <2>3, <2>4, LocksKept DEF LifeInv
<1>8. LifeTypes'
  <2>1. \A u \in Procs : plain'[u] \subseteq open'[u]
    BY <1>0, <1>5 DEF LifeInv, LifeTypes
  <2> QED BY <1>1, <1>3, <1>5, <1>7, <2>1 DEF LifeInv, LifeTypes
<1>9. Places'
  <2>1. ProcAt(t)'
    BY <1>3, <1>4 DEF ProcAt
  <2> QED BY <1>2, <1>6, <2>1, PlacesKept DEF LifeInv
<1>10. NoInode \notin Inodes
  BY LifeAssumption DEF Inodes
<1>11. Users' = Users /\ \A g \in Inodes : OpenedBy(g)' = OpenedBy(g)
  <2>1. \A g \in Inodes : (Counts(t, g)' <=> Counts(t, g)) /\ (Opened(t, g)' <=> Opened(t, g))
    BY <1>0, <1>1, <1>3, <1>4, <1>5, <1>10 DEF Counts, Opened
  <2> QED BY <1>2, <1>6, <2>1, UsersKept, OpenedKept
<1>12. Counted'
  BY <1>1, <1>6, <1>11 DEF LifeInv, Counted, Serving, Unused
<1>13. Attached' /\ KidsOwned' /\ Passes'
  BY <1>1, <1>2, <1>3, <1>4, <1>6, <1>11, Aside DEF PutPcs
<1>14. SlotOf'
  BY <1>1, <1>2, <1>3, <1>4, <1>6, SlotOfKept DEF LifeInv, CreatePcs
<1>15. Clones'
  <2>1. \A u \in Procs : plain'[u] = plain[u] /\ open'[u] \subseteq open[u]
    BY <1>5
  <2>2. \A u \in Procs : loc'[u].pc \in OpenPcs => loc'[u] = loc[u]
    BY <1>3, <1>4 DEF OpenPcs, All
  <2> QED BY <1>1, <2>1, <2>2 DEF LifeInv, Clones
<1>16. Changes'
  <2>1. \A u \in Procs : loc[u].ret # "change"
    BY <1>0, <1>1, NoneChanging DEF LifeInv
  <2> QED BY <1>3, <1>4, <2>1 DEF Changes, All
<1> QED BY <1>7, <1>8, <1>9, <1>12, <1>13, <1>14, <1>15, <1>16 DEF LifeInv

-----------------------------------------------------------------------------
(* Putting the scorw inode of the parent.                                  *)

\* A put is the end of a use: of a file that a process closes, or of a page
\* copy.
LEMMA PutBy ==
    ASSUME LifeInv, NEW t \in All, loc[t].pc \in {"put"} \cup PutPcs
    PROVE  \/ /\ t \in Procs /\ t # CopyThread /\ loc[t].ret = "closed"
              /\ loc[t].f \in open[t] \ plain[t]
           \/ t = CopyThread /\ t \notin Procs /\ loc[t].ret = "served" /\ loc[t].f = NoInode
<1>1. CASE t \in Procs
  BY <1>1, LifeAssumption DEF LifeInv, Places, ProcAt, PutPcs, CreatePcs, UnlinkPcs
<1>2. CASE t = CopyThread
  BY <1>2, LifeAssumption DEF LifeInv, Places, ThreadAt, PutPcs
<1> QED BY <1>1, <1>2 DEF All

\* The counts of the parent after a put that is not the last, and the users
\* after any.
LEMMA PutCounts ==
    ASSUME LifeInv, NEW t \in All, loc[t].pc = "put", Apart(t), si[P] # NoInode,
           loc'[t].pc \in {loc[t].ret, "putkids"}, loc'[t].f = loc[t].f,
           open' = open, plain' = plain, copies' = copies
    PROVE  /\ AfterPut(t) \in ScorwRec
           /\ AfterPut(t).kids = si[P].kids /\ AfterPut(t).last = si[P].last
           /\ Numbers(Users', AfterPut(t).usage)
           /\ AfterPut(t).added = AfterPut(t).removed + copies + Serving'
           /\ \A g \in Inodes : OpenedBy(g)' = OpenedBy(g)
<1>1. /\ si[P] \in ScorwRec /\ si[P].usage \in Nat /\ si[P].removed \in Nat /\ si[P].added \in Nat
      /\ copies \in Nat
  BY DEF LifeInv, LifeTypes, Inodes, ScorwRec
<1>2. /\ Numbers(Users, si[P].usage)
      /\ si[P].added = si[P].removed + copies + Serving
  BY DEF LifeInv, Counted
<1>3. CASE t \in Procs
  <2> DEFINE a == [si[P] EXCEPT !.usage = si[P].usage - 1]
  <2>1. /\ t # CopyThread /\ loc[t].ret = "closed"
        /\ loc'[t].pc \in {"closed"} \cup PutPcs /\ loc'[t].pc # "put"
    BY <1>3, PutBy, LifeAssumption DEF PutPcs
  <2>2. PICK f \in open[t] \ plain[t] : f = loc[t].f
    BY <1>3, PutBy, LifeAssumption
  <2>3. f \in Inodes
    BY <1>3 DEF LifeInv, LifeTypes
  <2>4. Counts(t, f) /\ ~ Counts(t, f)' /\ \A g \in Inodes : g # f => (Counts(t, g)' <=> Counts(t, g))
    BY <2>1, <2>2 DEF Counts, PutPcs
  <2>5. <<t, f>> \in Users /\ Users' = Users \ {<<t, f>>}
    BY <1>3, <2>3, <2>4, UsersRemove
  <2>6. si[P].usage - 1 \in Nat /\ Numbers(Users', si[P].usage - 1)
    BY <1>2, <2>5, NumbersRemove
  <2>7. \A g \in Inodes : Opened(t, g)' <=> Opened(t, g)
    BY <2>1, <2>2 DEF Opened, PutPcs
  <2>8. \A g \in Inodes : OpenedBy(g)' = OpenedBy(g)
    BY <2>7, OpenedKept
  <2>9. Serving' = Serving
    BY <2>1 DEF Serving, Apart, All
  <2>10. AfterPut(t) = a
    BY <2>1 DEF AfterPut
  <2>11. a \in ScorwRec
    BY <1>1, <2>6, ZenonT(60) DEF ScorwRec
  <2>12. /\ a.usage = si[P].usage - 1 /\ a.kids = si[P].kids /\ a.last = si[P].last
         /\ a.added = si[P].added /\ a.removed = si[P].removed
    BY <1>1 DEF ScorwRec
  <2> HIDE DEF a
  <2> QED BY <1>2, <2>6, <2>8, <2>9, <2>10, <2>11, <2>12
<1>4. CASE t = CopyThread
  <2> DEFINE a == [si[P] EXCEPT !.removed = si[P].removed + 1]
  <2>1. t \notin Procs /\ loc[t].ret = "served" /\ loc'[t].pc # "put"
    BY <1>4, PutBy, LifeAssumption
  <2>2. Users' = Users /\ \A g \in Inodes : OpenedBy(g)' = OpenedBy(g)
    BY <2>1, UsersKept, OpenedKept
  <2>3. Serving = 1 /\ Serving' = 0
    BY <1>4, <2>1 DEF Serving
  <2>4. AfterPut(t) = a
    BY <2>1 DEF AfterPut
  <2>5. a \in ScorwRec
    <3>1. si[P].removed + 1 \in Nat
      BY <1>1, SMT
    <3> QED BY <1>1, <3>1, ZenonT(60) DEF ScorwRec
  <2>6. /\ a.usage = si[P].usage /\ a.kids = si[P].kids /\ a.last = si[P].last
        /\ a.added = si[P].added /\ a.removed = si[P].removed + 1
    BY <1>1 DEF ScorwRec
  <2> HIDE DEF a
  <2>7. a.added = a.removed + copies + 0
    BY <1>1, <1>2, <2>3, <2>6, SMT
  <2> QED BY <1>2, <2>2, <2>3, <2>4, <2>5, <2>6, <2>7
<1> QED BY <1>3, <1>4 DEF All

\* What a put does beside the scorw inodes: the thread goes on with what it
\* holds.
LEMMA PutPlace ==
    ASSUME LifeInv, NEW t \in All, loc[t].pc \in {"put"} \cup PutPcs, Apart(t),
           loc'[t].pc \in {loc[t].ret} \cup PutPcs, loc'[t].f = loc[t].f, loc'[t].ret = loc[t].ret,
           open' = open, plain' = plain,
           lk' \in [Locks -> All \cup {NoInode}],
           \A l \in Locks : lk'[l] = NoInode \/ lk'[l] = lk[l] \/ lk'[l] = t,
           lk'[VL(P)] = t <=> loc'[t].pc \in PutPcs,
           lk'[FVL] = t => loc'[t].pc = "putkid",
           \A l \in Locks : l \notin {VL(P), FVL} => lk'[l] = lk[l],
           \A u \in All : u # t => loc[u].pc \notin VlPcs
    PROVE  Places' /\ LocksHeld'
<1>1. Places'
  <2>1. ASSUME t \in Procs PROVE ProcAt(t)'
    <3>1. /\ loc[t].ret = "closed" /\ loc[t].f \in open[t] \ plain[t]
      BY <2>1, PutBy, LifeAssumption
    <3> QED BY <3>1 DEF ProcAt, PutPcs
  <2>2. ASSUME t = CopyThread PROVE ThreadAt'
    <3>1. loc[t].ret = "served" /\ loc[t].f = NoInode
      BY <2>2, PutBy, LifeAssumption
    <3> QED BY <2>2, <3>1 DEF ThreadAt, PutPcs
  <2> QED BY <2>1, <2>2, PlacesKept DEF LifeInv
<1>2. LocksHeld'
  <2>1. t # NoInode /\ VL(P) \in Locks /\ FVL \in Locks
    BY LifeAssumption, LockNames DEF All
  <2>2. loc[t].ret \in {"closed", "served"}
    BY PutBy
  <2>3. ASSUME NEW l \in Locks, lk'[l] = t PROVE MayHold(t, l)'
    <3>1. CASE l = VL(P)
      BY <2>3, <3>1 DEF MayHold, VlPcs
    <3>2. CASE l = FVL
      BY <2>3, <3>2 DEF MayHold
    <3>3. CASE l \notin {VL(P), FVL}
      <4>1. MayHold(t, l)
        BY <2>1, <2>3, <3>3 DEF LifeInv, LocksHeld
      <4>2. l = OCL(loc[t].f) /\ loc[t].f # NoInode
        BY <3>3, <4>1 DEF MayHold, PutPcs, CreatePcs, UnlinkPcs
      <4>3. loc'[t].pc \in {"closed"} \cup PutPcs
        BY <4>2, PutBy
      <4> QED BY <4>2, <4>3 DEF MayHold, PutPcs
    <3> QED BY <3>1, <3>2, <3>3
  <2>4. loc'[t].pc \in VlPcs => loc'[t].pc \in PutPcs
    BY <2>2 DEF VlPcs
  <2>5. \A l \in Locks : lk[l] \in All \cup {NoInode}
    BY DEF LifeInv, LifeTypes
  <2> QED BY <2>3, <2>4, <2>5, LocksKept DEF LifeInv
<1> QED BY <1>1, <1>2

\* A put that is not the last.
LEMMA PutUsedKept ==
    ASSUME LifeInv, NEW t \in All, PutUsed(t)
    PROVE  LifeInv'
<1> DEFINE r == [loc[t] EXCEPT !.pc = loc[t].ret]
<1>1. /\ UNCHANGED <<attr, isChild, exists, open, plain, opens, copies, lk>>
      /\ Go(t, r) /\ loc[t].pc = "put" /\ Free(VL(P)) /\ si[P] # NoInode
      /\ ~ Unused(AfterPut(t)) /\ si' = [si EXCEPT ![P] = AfterPut(t)]
  BY DEF PutUsed, At
<1>2. /\ loc \in [All -> LocRec] /\ loc[t] \in LocRec
      /\ loc[t].ret \in {"closed", "served"} /\ loc[t].ret \in Pcs
  BY <1>1, PutBy DEF LifeInv, LifeTypes, Pcs
<1>3. r \in LocRec
  BY <1>2, ZenonT(60) DEF LocRec
<1>4. r.pc = loc[t].ret /\ r.f = loc[t].f /\ r.ret = loc[t].ret
  BY <1>2 DEF LocRec
<1> HIDE DEF r
<1>5. /\ loc' \in [All -> LocRec] /\ loc'[t] = r
      /\ \A u \in All : u # t => loc'[u] = loc[u]
  BY <1>1, <1>2, <1>3, LocSet
<1>6. Apart(t)
  BY <1>1, <1>5 DEF Apart, All
<1>7. /\ AfterPut(t) \in ScorwRec
      /\ AfterPut(t).kids = si[P].kids /\ AfterPut(t).last = si[P].last
      /\ Numbers(Users', AfterPut(t).usage)
      /\ AfterPut(t).added = AfterPut(t).removed + copies + Serving'
      /\ \A g \in Inodes : OpenedBy(g)' = OpenedBy(g)
  BY <1>1, <1>4, <1>5, <1>6, PutCounts
<1>8. PICK a : a = AfterPut(t)
  OBVIOUS
<1>9. /\ si' \in [Inodes -> {NoInode} \cup ScorwRec] /\ si'[P] = a /\ a # NoInode
      /\ \A c \in Children : si'[c] = si[c]
  BY <1>1, <1>7, <1>8, LifeAssumption DEF LifeInv, LifeTypes, Inodes
<1>10. \A u \in All : loc[u].pc \notin VlPcs
  BY <1>1, VlOne DEF LifeInv, VlPcs, PutPcs
<1>11. LifeTypes'
  BY <1>1, <1>5, <1>9 DEF LifeInv, LifeTypes
<1>12. /\ loc[t].pc \notin {"kids"} \cup PutPcs
       /\ r.pc \notin {"kids"} \cup PutPcs \cup CreatePcs \cup OpenPcs
  BY <1>1, <1>2, <1>4 DEF PutPcs, CreatePcs, OpenPcs
<1>13. Places' /\ LocksHeld'
  <2>1. lk[VL(P)] # t /\ lk[FVL] # t
    <3>1. t # NoInode /\ VL(P) \in Locks /\ FVL \in Locks
      BY LifeAssumption, LockNames DEF All
    <3>2. ~ MayHold(t, VL(P)) /\ ~ MayHold(t, FVL)
      BY <1>1, LockNames DEF MayHold, VlPcs, PutPcs, CreatePcs
    <3> QED BY <3>1, <3>2, SMT DEF LifeInv, LocksHeld
  <2>2. lk' \in [Locks -> All \cup {NoInode}]
    BY <1>1 DEF LifeInv, LifeTypes
  <2>3. loc'[t].pc \notin PutPcs
    BY <1>5, <1>12
  <2> QED BY <1>1, <1>4, <1>5, <1>6, <1>10, <2>1, <2>2, <2>3, PutPlace
<1>14. Counted'
  <2>1. \A g \in Inodes : Numbers(OpenedBy(g), opens[g])'
    BY <1>1, <1>7 DEF LifeInv, Counted
  <2>2. ~ Unused(a)
    BY <1>1, <1>8
  <2>3. Numbers(Users', a.usage) /\ a.added = a.removed + copies + Serving'
    BY <1>7, <1>8
  <2> QED BY <1>1, <1>9, <2>1, <2>2, <2>3 DEF Counted, Unused
<1>15. a.kids = si[P].kids /\ a.last = si[P].last
  BY <1>7, <1>8
<1>16. Attached'
  BY <1>1, <1>5, <1>6, <1>9, <1>12, <1>15, AttachedKept DEF LifeInv, LifeTypes
<1>17. KidsOwned'
  BY <1>1, <1>6, <1>9, <1>12, <1>15, KidsOwnedKept DEF LifeInv
<1>18. Passes'
  BY <1>1, <1>5, <1>6, <1>9, <1>10, <1>12, PassesKept DEF LifeInv, VlPcs
<1>19. SlotOf'
  BY <1>1, <1>5, <1>6, <1>12, SlotOfKept DEF LifeInv
<1>20. Clones'
  BY <1>1, <1>5, <1>6, <1>9, <1>12, ClonesKept DEF LifeInv, Inodes
<1>21. Changes'
  <2>1. \A u \in Procs : loc[u].ret # "change"
    BY <1>1 DEF LifeInv, Changes, NoneInUse, Inodes
  <2> QED BY <1>2, <1>4, <1>5, <2>1 DEF Changes, All
<1> QED BY <1>11, <1>13, <1>14, <1>16, <1>17, <1>18, <1>19, <1>20, <1>21 DEF LifeInv

\* The last put detaches the parent's scorw inode.
LEMMA PutLastKept ==
    ASSUME LifeInv, NEW t \in All, PutLast(t)
    PROVE  LifeInv'
<1> DEFINE r == [loc[t] EXCEPT !.pc = "putkids", !.i = 1, !.kids = si[P].kids]
<1>1. /\ UNCHANGED <<attr, isChild, exists, open, plain, opens, copies>>
      /\ Go(t, r) /\ loc[t].pc = "put" /\ si[P] # NoInode /\ Take(t, VL(P))
      /\ Unused(AfterPut(t)) /\ si' = [si EXCEPT ![P] = NoInode]
  BY DEF PutLast, At
<1>2. /\ loc \in [All -> LocRec] /\ loc[t] \in LocRec /\ "putkids" \in Pcs /\ 1 \in Nat
      /\ si[P] \in ScorwRec /\ si[P].kids \in [Slots -> Kid]
  BY <1>1 DEF LifeInv, LifeTypes, Pcs, Inodes, ScorwRec, Kid
<1>3. r \in LocRec
  BY <1>2, ZenonT(60) DEF LocRec
<1>4. r.pc = "putkids" /\ r.i = 1 /\ r.kids = si[P].kids /\ r.f = loc[t].f /\ r.ret = loc[t].ret
  BY <1>2 DEF LocRec
<1> HIDE DEF r
<1>5. /\ loc' \in [All -> LocRec] /\ loc'[t] = r
      /\ \A u \in All : u # t => loc'[u] = loc[u]
  BY <1>1, <1>2, <1>3, LocSet
<1>6. Apart(t)
  BY <1>1, <1>5 DEF Apart, All
<1>7. /\ AfterPut(t) \in ScorwRec
      /\ Numbers(Users', AfterPut(t).usage)
      /\ AfterPut(t).added = AfterPut(t).removed + copies + Serving'
      /\ \A g \in Inodes : OpenedBy(g)' = OpenedBy(g)
  BY <1>1, <1>4, <1>5, <1>6, PutCounts
<1>8. Users' = {} /\ copies = 0 /\ Serving' = 0
  <2>1. AfterPut(t).usage = 0 /\ AfterPut(t).added = AfterPut(t).removed
    BY <1>1 DEF Unused
  <2>2. Users' = {}
    BY <1>7, <2>1, NumbersZero
  <2>3. copies \in Nat /\ Serving' \in Nat /\ AfterPut(t).removed \in Nat
    BY <1>7 DEF LifeInv, LifeTypes, Serving, ScorwRec
  <2> QED BY <1>7, <2>1, <2>2, <2>3, SMT
<1>9. /\ si' \in [Inodes -> {NoInode} \cup ScorwRec] /\ si'[P] = NoInode
      /\ \A c \in Children : si'[c] = si[c]
  BY <1>1, LifeAssumption DEF LifeInv, LifeTypes, Inodes
<1>10. /\ VL(P) \in Locks /\ FVL \in Locks /\ FVL # VL(P) /\ lk[VL(P)] = NoInode
       /\ lk' \in [Locks -> All \cup {NoInode}] /\ lk'[VL(P)] = t
       /\ \A k \in Locks : k # VL(P) => lk'[k] = lk[k]
  BY <1>1, LockNames, LockSet DEF LifeInv, LifeTypes
<1>11. \A u \in All : loc[u].pc \notin VlPcs
  BY <1>1, <1>10, VlOne DEF LifeInv, VlPcs, PutPcs, Free
<1>12. LifeTypes'
  BY <1>1, <1>5, <1>9, <1>10 DEF LifeInv, LifeTypes
<1>13. Places' /\ LocksHeld'
  <2>1. lk[FVL] # t
    <3>1. t # NoInode
      BY LifeAssumption DEF All
    <3>2. ~ MayHold(t, FVL)
      BY <1>1, LockNames DEF MayHold, VlPcs, PutPcs, CreatePcs
    <3> QED BY <1>10, <3>1, <3>2 DEF LifeInv, LocksHeld
  <2>2. loc'[t].pc \in PutPcs
    BY <1>4, <1>5 DEF PutPcs
  <2>3. \A l \in Locks : lk'[l] = NoInode \/ lk'[l] = lk[l] \/ lk'[l] = t
    BY <1>10
  <2>4. lk'[FVL] # t /\ \A l \in Locks : l \notin {VL(P), FVL} => lk'[l] = lk[l]
    BY <1>10, <2>1
  <2> QED BY <1>1, <1>4, <1>5, <1>6, <1>10, <1>11, <2>2, <2>3, <2>4, PutPlace
<1>14. Counted'
  <2>1. \A g \in Inodes : Numbers(OpenedBy(g), opens[g])'
    BY <1>1, <1>7 DEF LifeInv, Counted
  <2> QED BY <1>1, <1>8, <1>9, <2>1 DEF Counted
<1>15. Attached'
  BY <1>9 DEF Attached
<1>16. KidsOwned'
  <2>1. ASSUME NEW c \in Children, si[c] # NoInode
        PROVE  /\ si[c].usage = 1 /\ ~ si[c].unlinked /\ c \in isChild \cap exists
               /\ \E i \in Slots : r.i <= i /\ r.kids[i] = c
    <3>1. \A u \in All : loc[u].pc \notin PutPcs
      BY <1>11 DEF VlPcs
    <3>2. /\ si[c].usage = 1 /\ ~ si[c].unlinked /\ c \in isChild \cap exists
          /\ \E i \in Slots : si[P].kids[i] = c
      BY <2>1, <3>1 DEF LifeInv, KidsOwned
    <3>3. \A i \in Slots : 1 <= i
      BY SMT DEF Slots
    <3> QED BY <1>4, <3>2, <3>3
  <2>2. loc'[t].pc \in PutPcs
    BY <1>4, <1>5 DEF PutPcs
  <2> QED BY <1>1, <1>5, <1>9, <2>1, <2>2, SMT DEF KidsOwned
<1>17. Passes'
  <2>1. 1 \in 1..(SCORW_MAX_CHILDS + 1)
    BY LifeAssumption, SMT
  <2>2. \A u \in All : u # t => loc'[u].pc \notin {"kids"} \cup PutPcs
    BY <1>5, <1>11 DEF VlPcs
  <2> QED BY <1>4, <1>5, <1>9, <2>1, <2>2 DEF Passes, PutPcs
<1>18. SlotOf'
  BY <1>1, <1>4, <1>5, <1>6, SlotOfKept DEF LifeInv, CreatePcs
<1>19. Clones'
  BY <1>1, <1>4, <1>5, <1>6, <1>9, ClonesKept DEF LifeInv, Inodes, OpenPcs
<1>20. Changes'
  <2>1. \A u \in Procs : loc[u].ret # "change"
    BY <1>1 DEF LifeInv, Changes, NoneInUse, Inodes
  <2>2. loc[t].ret # "change"
    BY <1>1, PutBy
  <2> QED BY <1>4, <1>5, <2>1, <2>2 DEF Changes, All
<1> QED BY <1>12, <1>13, <1>14, <1>15, <1>16, <1>17, <1>18, <1>19, <1>20 DEF LifeInv

\* A step of the last put: the parent's scorw inode is gone, those of the
\* children go.
LEMMA PutOn ==
    ASSUME LifeInv, NEW t \in All, loc[t].pc \in PutPcs, NEW r \in LocRec, Go(t, r),
           r.pc \in {loc[t].ret} \cup PutPcs, r.f = loc[t].f, r.ret = loc[t].ret,
           UNCHANGED <<attr, isChild, exists, open, plain, opens, copies>>,
           si' \in [Inodes -> {NoInode} \cup ScorwRec],
           \A f \in Inodes : si[f] = NoInode => si'[f] = NoInode,
           lk' \in [Locks -> All \cup {NoInode}],
           \A l \in Locks : lk'[l] = NoInode \/ lk'[l] = lk[l] \/ lk'[l] = t,
           lk'[VL(P)] = t <=> r.pc \in PutPcs,
           lk'[FVL] = t => r.pc = "putkid",
           \A l \in Locks : l \notin {VL(P), FVL} => lk'[l] = lk[l],
           KidsOwned',
           r.pc \in PutPcs => r.i \in 1..(SCORW_MAX_CHILDS + 1),
           r.pc = "putkid" => r.i \in Slots /\ r.kids[r.i] # NoInode
    PROVE  LifeInv'
<1>1. /\ loc' \in [All -> LocRec] /\ loc'[t] = r
      /\ \A u \in All : u # t => loc'[u] = loc[u]
  BY LocSet DEF LifeInv, LifeTypes
<1>2. Apart(t)
  BY <1>1 DEF Apart, All
<1>3. \A u \in All : u # t => loc[u].pc \notin VlPcs
  BY VlOne DEF LifeInv, VlPcs
<1>4. Places' /\ LocksHeld'
  BY <1>1, <1>2, <1>3, PutPlace
<1>5. LifeTypes'
  BY <1>1 DEF LifeInv, LifeTypes
<1>6. si[P] = NoInode /\ si'[P] = NoInode
  BY DEF LifeInv, Passes, Inodes
<1>7. r.pc \notin OpenPcs \cup CreatePcs /\ loc[t].ret # "change" /\ r.pc # "kids" /\ r.pc # "put"
  BY PutBy DEF OpenPcs, CreatePcs, PutPcs
<1>8. Users' = Users /\ \A g \in Inodes : OpenedBy(g)' = OpenedBy(g)
  <2>1. ASSUME t \in Procs
        PROVE  \A g \in Inodes : (Counts(t, g)' <=> Counts(t, g)) /\ (Opened(t, g)' <=> Opened(t, g))
    <3>1. r.pc \in {"closed"} \cup PutPcs
      BY <2>1, PutBy, LifeAssumption
    <3> QED BY <1>1, <3>1 DEF Counts, Opened, PutPcs
  <2> QED BY <1>2, <2>1, UsersKept, OpenedKept
<1>9. Serving' = Serving
  <2>1. CASE t = CopyThread
    BY <1>1, <1>7, <2>1 DEF Serving, PutPcs
  <2>2. CASE t # CopyThread
    BY <1>1, <2>2 DEF Serving, All
  <2> QED BY <2>1, <2>2
<1>10. Counted'
  BY <1>6, <1>8, <1>9 DEF LifeInv, Counted
<1>11. Attached'
  BY <1>6 DEF Attached
<1>12. Passes'
  <2>1. \A u \in All : u # t => loc'[u].pc \notin {"kids"} \cup PutPcs
    BY <1>1, <1>3 DEF VlPcs
  <2> QED BY <1>1, <1>6, <1>7, <2>1 DEF Passes, PutPcs
<1>13. SlotOf'
  BY <1>1, <1>2, <1>7, SlotOfKept DEF LifeInv
<1>14. Clones'
  BY <1>1, <1>2, <1>7, ClonesKept DEF LifeInv
<1>15. Changes'
  <2>1. \A u \in Procs : loc'[u].ret = "change" => u # t /\ loc'[u] = loc[u]
    BY <1>1, <1>7 DEF All
  <2>2. ASSUME t \in Procs PROVE \A u \in Procs : loc[u].ret # "change"
    BY <1>7, <2>2, NoneChanging DEF LifeInv, PutPcs
  <2>3. ASSUME t \notin Procs PROVE \A u \in Procs : loc'[u] = loc[u]
    BY <1>1, <2>3 DEF All
  <2>4. CASE t \in Procs
    BY <2>1, <2>2, <2>4 DEF Changes
  <2>5. CASE t \notin Procs
    <3>1. NoneInUse => NoneInUse'
      BY DEF NoneInUse
    <3> QED BY <2>3, <2>5, <3>1 DEF LifeInv, Changes
  <2> QED BY <2>4, <2>5
<1> QED BY <1>4, <1>5, <1>10, <1>11, <1>12, <1>13, <1>14, <1>15 DEF LifeInv

\* A slot without a child.
LEMMA PutNoKidKept ==
    ASSUME LifeInv, NEW t \in All, PutNoKid(t)
    PROVE  LifeInv'
<1> DEFINE r == [loc[t] EXCEPT !.i = loc[t].i + 1]
<1>1. /\ UNCHANGED <<attr, isChild, exists, si, open, plain, opens, copies, lk>>
      /\ Go(t, r) /\ loc[t].pc = "putkids" /\ loc[t].i \in Slots
      /\ loc[t].kids[loc[t].i] = NoInode
  BY DEF PutNoKid, At
<1>2. /\ loc \in [All -> LocRec] /\ loc[t] \in LocRec /\ loc[t].i \in Nat /\ loc[t].i + 1 \in Nat
      /\ loc[t].i + 1 \in 1..(SCORW_MAX_CHILDS + 1)
  BY <1>1, LifeAssumption, SMT DEF LifeInv, LifeTypes, Slots
<1>3. r \in LocRec
  BY <1>2, ZenonT(60) DEF LocRec
<1>4. /\ r.pc = "putkids" /\ r.f = loc[t].f /\ r.ret = loc[t].ret /\ r.i = loc[t].i + 1
      /\ r.kids = loc[t].kids
  BY <1>1, <1>2 DEF LocRec
<1> HIDE DEF r
<1>5. loc'[t] = r /\ \A u \in All : u # t => loc'[u] = loc[u]
  BY <1>1, <1>2, <1>3, LocSet
<1>6. lk[VL(P)] = t /\ lk[FVL] # t /\ \A u \in All : u # t => loc[u].pc \notin VlPcs
  <2>1. lk[VL(P)] = t /\ \A u \in All : u # t => loc[u].pc \notin VlPcs
    BY <1>1, VlOne DEF LifeInv, LocksHeld, VlPcs, PutPcs
  <2>2. t # NoInode /\ FVL \in Locks
    BY LifeAssumption, LockNames DEF All
  <2>3. ~ MayHold(t, FVL)
    BY <1>1, LockNames DEF MayHold
  <2> QED BY <2>1, <2>2, <2>3 DEF LifeInv, LocksHeld
<1>7. KidsOwned'
  <2>1. ASSUME NEW c \in Children, si[c] # NoInode
        PROVE  \E i \in Slots : r.i <= i /\ r.kids[i] = c
    <3>1. \A u \in All : u # t => loc[u].pc \notin PutPcs
      BY <1>6 DEF VlPcs
    <3>2. si[P] = NoInode
      BY <1>1 DEF LifeInv, Passes, PutPcs
    <3>3. PICK i \in Slots : loc[t].i <= i /\ loc[t].kids[i] = c
      BY <2>1, <3>1, <3>2, SMT DEF LifeInv, KidsOwned
    <3>4. c # NoInode /\ i # loc[t].i
      BY <1>1, <3>3, LifeAssumption
    <3>5. loc[t].i + 1 <= i
      BY <1>2, <3>3, <3>4, SMT DEF Slots
    <3> QED BY <1>4, <3>3, <3>5
  <2>2. loc'[t].pc \in PutPcs
    BY <1>4, <1>5 DEF PutPcs
  <2> QED BY <1>1, <1>5, <2>1, <2>2, SMT DEF LifeInv, KidsOwned
<1>8. loc[t].pc \in PutPcs /\ r.pc \in PutPcs /\ r.pc # "putkid"
  BY <1>1, <1>4 DEF PutPcs
<1>9. si' \in [Inodes -> {NoInode} \cup ScorwRec] /\ lk' \in [Locks -> All \cup {NoInode}]
  BY <1>1 DEF LifeInv, LifeTypes
<1> QED BY <1>1, <1>2, <1>3, <1>4, <1>6, <1>7, <1>8, <1>9, PutOn

\* Before the put of a child.
LEMMA PutKidLockKept ==
    ASSUME LifeInv, NEW t \in All, PutKidLock(t)
    PROVE  LifeInv'
<1> DEFINE r == [loc[t] EXCEPT !.pc = "putkid"]
<1>1. /\ UNCHANGED <<attr, isChild, exists, si, open, plain, opens, copies>>
      /\ Go(t, r) /\ loc[t].pc = "putkids" /\ loc[t].i \in Slots
      /\ loc[t].kids[loc[t].i] # NoInode /\ Take(t, FVL)
  BY DEF PutKidLock, At
<1>2. /\ loc \in [All -> LocRec] /\ loc[t] \in LocRec /\ "putkid" \in Pcs
      /\ loc[t].i \in 1..(SCORW_MAX_CHILDS + 1)
  BY <1>1 DEF LifeInv, LifeTypes, Passes, PutPcs, Pcs
<1>3. r \in LocRec
  BY <1>2, ZenonT(60) DEF LocRec
<1>4. /\ r.pc = "putkid" /\ r.f = loc[t].f /\ r.ret = loc[t].ret /\ r.i = loc[t].i
      /\ r.kids = loc[t].kids
  BY <1>2 DEF LocRec
<1> HIDE DEF r
<1>5. loc'[t] = r /\ \A u \in All : u # t => loc'[u] = loc[u]
  BY <1>1, <1>2, <1>3, LocSet
<1>6. lk[VL(P)] = t
  BY <1>1 DEF LifeInv, LocksHeld, VlPcs, PutPcs
<1>7. loc[t].pc \in PutPcs /\ r.pc \in PutPcs /\ r.pc = "putkid"
  BY <1>1, <1>4 DEF PutPcs
<1>8. KidsOwned'
  <2>1. Apart(t)
    BY <1>1, <1>5 DEF Apart, All
  <2> QED BY <1>1, <1>4, <1>5, <1>7, <2>1, KidsOwnedKept DEF LifeInv
<1>9. /\ VL(P) \in Locks /\ VL(P) # FVL /\ FVL \in Locks
      /\ lk' \in [Locks -> All \cup {NoInode}] /\ lk'[FVL] = t
      /\ \A k \in Locks : k # FVL => lk'[k] = lk[k]
  BY <1>1, LockNames, LockSet, SMT DEF LifeInv, LifeTypes
<1>10. /\ \A l \in Locks : lk'[l] = NoInode \/ lk'[l] = lk[l] \/ lk'[l] = t
       /\ \A l \in Locks : l \notin {VL(P), FVL} => lk'[l] = lk[l]
       /\ lk'[VL(P)] = t
  BY <1>6, <1>9
<1>11. si' \in [Inodes -> {NoInode} \cup ScorwRec]
  BY <1>1 DEF LifeInv, LifeTypes
<1> QED BY <1>1, <1>2, <1>3, <1>4, <1>7, <1>8, <1>9, <1>10, <1>11, PutOn

\* The put of a child: it was the only one.
LEMMA PutKidKept ==
    ASSUME LifeInv, NEW t \in All, PutKid(t)
    PROVE  LifeInv'
<1> DEFINE r == [loc[t] EXCEPT !.pc = "putkids", !.i = loc[t].i + 1]
<1>0. loc[t].pc = "putkid" /\ loc[t].i \in Slots /\ loc[t].kids[loc[t].i] # NoInode
  BY DEF PutKid, At, LifeInv, Passes
<1>1. PICK i \in Slots, c \in Children : i = loc[t].i /\ c = loc[t].kids[i]
  <2>1. loc[t] \in LocRec
    BY DEF LifeInv, LifeTypes
  <2>2. loc[t].kids \in [Slots -> Kid]
    BY <2>1 DEF LocRec
  <2>3. loc[t].kids[loc[t].i] \in Children
    BY <1>0, <2>2 DEF Kid
  <2> QED BY <1>0, <2>3
<1>2. /\ UNCHANGED <<attr, isChild, exists, open, plain, opens, copies>>
      /\ Go(t, r) /\ Drop({FVL})
      /\ si' = IF si[c] = NoInode THEN si
               ELSE IF si[c].usage = 1 THEN [si EXCEPT ![c] = NoInode]
               ELSE [si EXCEPT ![c].usage = @ - 1]
  BY <1>1 DEF PutKid
<1>3. /\ loc \in [All -> LocRec] /\ loc[t] \in LocRec /\ "putkids" \in Pcs
      /\ i \in Nat /\ loc[t].i + 1 \in Nat /\ loc[t].i + 1 \in 1..(SCORW_MAX_CHILDS + 1)
  BY <1>1, LifeAssumption, SMT DEF LifeInv, LifeTypes, Slots, Pcs
<1>4. r \in LocRec
  BY <1>3, ZenonT(60) DEF LocRec
<1>5. /\ r.pc = "putkids" /\ r.f = loc[t].f /\ r.ret = loc[t].ret /\ r.i = loc[t].i + 1
      /\ r.kids = loc[t].kids
  BY <1>3 DEF LocRec
<1> HIDE DEF r
<1>6. loc'[t] = r /\ \A u \in All : u # t => loc'[u] = loc[u]
  BY <1>2, <1>3, <1>4, LocSet
<1>7. lk[VL(P)] = t /\ \A u \in All : u # t => loc[u].pc \notin VlPcs
  BY <1>0, VlOne DEF LifeInv, LocksHeld, VlPcs, PutPcs
<1>8. /\ si' \in [Inodes -> {NoInode} \cup ScorwRec] /\ si'[c] = NoInode
      /\ \A f \in Inodes : f # c => si'[f] = si[f]
  <2>1. si[c] # NoInode => si[c].usage = 1
    BY DEF LifeInv, KidsOwned
  <2>2. si \in [Inodes -> {NoInode} \cup ScorwRec] /\ c \in Inodes
    BY DEF LifeInv, LifeTypes, Inodes
  <2>3. si' = [si EXCEPT ![c] = NoInode]
    BY <1>2, <2>1, <2>2
  <2> QED BY <2>2, <2>3
<1>9. KidsOwned'
  <2>1. ASSUME NEW d \in Children, si'[d] # NoInode
        PROVE  /\ si'[d] = si[d]
               /\ si[d].usage = 1 /\ ~ si[d].unlinked /\ d \in isChild \cap exists
               /\ \E j \in Slots : r.i <= j /\ r.kids[j] = d
    <3>1. d # c /\ si'[d] = si[d] /\ si[d] # NoInode
      BY <1>8, <2>1 DEF Inodes
    <3>2. \A u \in All : u # t => loc[u].pc \notin PutPcs
      BY <1>7 DEF VlPcs
    <3>3. si[P] = NoInode
      BY <1>0 DEF LifeInv, Passes, PutPcs
    <3>4. /\ si[d].usage = 1 /\ ~ si[d].unlinked /\ d \in isChild \cap exists
          /\ \E j \in Slots : loc[t].i <= j /\ loc[t].kids[j] = d
      BY <3>1, <3>2, <3>3, SMT DEF LifeInv, KidsOwned
    <3>5. PICK j \in Slots : loc[t].i <= j /\ loc[t].kids[j] = d
      BY <3>4
    <3>6. j # loc[t].i /\ loc[t].i + 1 <= j
      BY <1>1, <1>3, <3>1, <3>5, SMT DEF Slots
    <3> QED BY <1>5, <3>1, <3>4, <3>5, <3>6
  <2>2. loc'[t].pc \in PutPcs
    BY <1>5, <1>6 DEF PutPcs
  <2> QED BY <1>2, <1>6, <2>1, <2>2, SMT DEF KidsOwned
<1>10. loc[t].pc \in PutPcs /\ r.pc \in PutPcs /\ r.pc # "putkid"
  BY <1>0, <1>5 DEF PutPcs
<1>11. /\ VL(P) \in Locks /\ VL(P) # FVL /\ FVL \in Locks /\ t # NoInode
       /\ lk' \in [Locks -> All \cup {NoInode}]
       /\ \A l \in Locks : lk'[l] = IF l \in {FVL} THEN NoInode ELSE lk[l]
  BY <1>2, LockNames, LockSet, LifeAssumption, SMT DEF LifeInv, LifeTypes, All
<1>12. /\ \A l \in Locks : lk'[l] = NoInode \/ lk'[l] = lk[l] \/ lk'[l] = t
       /\ \A l \in Locks : l \notin {VL(P), FVL} => lk'[l] = lk[l]
       /\ lk'[VL(P)] = t /\ lk'[FVL] # t
  BY <1>7, <1>11
<1>13. \A f \in Inodes : si[f] = NoInode => si'[f] = NoInode
  BY <1>8
<1> QED BY <1>2, <1>3, <1>4, <1>5, <1>8, <1>9, <1>10, <1>11, <1>12, <1>13, PutOn

\* All children have been put.
LEMMA PutDoneKept ==
    ASSUME LifeInv, NEW t \in All, PutDone(t)
    PROVE  LifeInv'
<1> DEFINE r == [loc[t] EXCEPT !.pc = loc[t].ret, !.i = 0, !.kids = NoKids]
<1>1. /\ UNCHANGED <<attr, isChild, exists, si, open, plain, opens, copies>>
      /\ Go(t, r) /\ loc[t].pc = "putkids" /\ loc[t].i \notin Slots /\ Drop({VL(P)})
  BY DEF PutDone, At
<1>2. /\ loc \in [All -> LocRec] /\ loc[t] \in LocRec /\ 0 \in Nat /\ NoKids \in [Slots -> Kid]
      /\ loc[t].ret \in {"closed", "served"} /\ loc[t].ret \in Pcs
  BY <1>1, PutBy DEF LifeInv, LifeTypes, Pcs, PutPcs, NoKids, Kid
<1>3. r \in LocRec
  BY <1>2, ZenonT(60) DEF LocRec
<1>4. r.pc = loc[t].ret /\ r.f = loc[t].f /\ r.ret = loc[t].ret
  BY <1>2 DEF LocRec
<1> HIDE DEF r
<1>5. loc'[t] = r /\ \A u \in All : u # t => loc'[u] = loc[u]
  BY <1>1, <1>2, <1>3, LocSet
<1>6. lk[VL(P)] = t /\ lk[FVL] # t /\ \A u \in All : u # t => loc[u].pc \notin VlPcs
  <2>1. lk[VL(P)] = t /\ \A u \in All : u # t => loc[u].pc \notin VlPcs
    BY <1>1, VlOne DEF LifeInv, LocksHeld, VlPcs, PutPcs
  <2>2. t # NoInode /\ FVL \in Locks
    BY LifeAssumption, LockNames DEF All
  <2>3. ~ MayHold(t, FVL)
    BY <1>1, LockNames DEF MayHold
  <2> QED BY <2>1, <2>2, <2>3 DEF LifeInv, LocksHeld
<1>7. \A c \in Children : si[c] = NoInode
  <2>1. loc[t].i = SCORW_MAX_CHILDS + 1 /\ si[P] = NoInode
    BY <1>1, LifeAssumption, SMT DEF LifeInv, Passes, PutPcs, Slots
  <2>2. \A i \in Slots : ~ (loc[t].i <= i)
    BY <2>1, LifeAssumption, SMT DEF Slots
  <2>3. \A u \in All : u # t => loc[u].pc \notin PutPcs
    BY <1>6 DEF VlPcs
  <2> QED BY <2>1, <2>2, <2>3 DEF LifeInv, KidsOwned
<1>8. KidsOwned'
  BY <1>1, <1>7 DEF KidsOwned
<1>9. loc[t].pc \in PutPcs /\ r.pc \notin PutPcs /\ r.pc # "putkid"
  BY <1>1, <1>2, <1>4 DEF PutPcs
<1>10. /\ VL(P) \in Locks /\ VL(P) # FVL /\ FVL \in Locks /\ t # NoInode
       /\ lk' \in [Locks -> All \cup {NoInode}]
       /\ \A l \in Locks : lk'[l] = IF l \in {VL(P)} THEN NoInode ELSE lk[l]
  BY <1>1, LockNames, LockSet, LifeAssumption, SMT DEF LifeInv, LifeTypes, All
<1>11. /\ \A l \in Locks : lk'[l] = NoInode \/ lk'[l] = lk[l] \/ lk'[l] = t
       /\ \A l \in Locks : l \notin {VL(P), FVL} => lk'[l] = lk[l]
       /\ lk'[VL(P)] # t /\ lk'[FVL] # t
  BY <1>6, <1>10
<1>12. si' \in [Inodes -> {NoInode} \cup ScorwRec]
  BY <1>1 DEF LifeInv, LifeTypes
<1> QED BY <1>1, <1>3, <1>4, <1>8, <1>9, <1>10, <1>11, <1>12, PutOn

-----------------------------------------------------------------------------
(* Page copies.                                                            *)

\* A page copy that is queued is counted, and a write keeps what it uses.
LEMMA QueueCopyKept ==
    ASSUME LifeInv, NEW t \in Procs, QueueCopy(t)
    PROVE  LifeInv'
<1> DEFINE s == [si[P] EXCEPT !.added = si[P].added + 1]
<1>1. /\ UNCHANGED <<attr, isChild, exists, open, plain, opens, lk, loc>>
      /\ loc[t].pc = "idle" /\ si[P] # NoInode
      /\ si' = [si EXCEPT ![P] = s] /\ copies' = copies + 1
  BY DEF QueueCopy, At
<1>2. /\ si[P] \in ScorwRec /\ si[P].added \in Nat /\ si[P].added + 1 \in Nat
      /\ si[P].removed \in Nat /\ copies \in Nat
  BY <1>1, SMT DEF LifeInv, LifeTypes, Inodes, ScorwRec
<1>3. s \in ScorwRec
  BY <1>2, ZenonT(60) DEF ScorwRec
<1>4. /\ s.usage = si[P].usage /\ s.kids = si[P].kids /\ s.last = si[P].last
      /\ s.added = si[P].added + 1 /\ s.removed = si[P].removed
  BY <1>2 DEF ScorwRec
<1> HIDE DEF s
<1>5. /\ si' \in [Inodes -> {NoInode} \cup ScorwRec] /\ si'[P] = s /\ s # NoInode
      /\ \A c \in Children : si'[c] = si[c]
  BY <1>1, <1>3, LifeAssumption DEF LifeInv, LifeTypes, Inodes
<1>6. LifeTypes'
  BY <1>1, <1>2, <1>5, SMT DEF LifeInv, LifeTypes
<1>7. t \in All /\ Apart(t) /\ loc'[t] = loc[t]
  BY <1>1, ZenonT(60) DEF Apart, All
<1>8. Places' /\ LocksHeld'
  BY <1>1, SMT DEF LifeInv, Places, ProcAt, ThreadAt, LocksHeld, MayHold
<1>9. Users' = Users /\ \A g \in Inodes : OpenedBy(g)' = OpenedBy(g)
  BY <1>1 DEF Users, OpenedBy, Counts, Opened
<1>10. Counted'
  <2>1. /\ Numbers(Users, si[P].usage) /\ si[P].added = si[P].removed + copies + Serving
        /\ \A g \in Inodes : Numbers(OpenedBy(g), opens[g])
    BY <1>1 DEF LifeInv, Counted
  <2>2. Serving' = Serving /\ Serving \in Nat
    BY <1>1 DEF Serving
  <2>3. s.added = s.removed + copies' + Serving /\ s.added # s.removed
    BY <1>1, <1>2, <1>4, <2>1, <2>2, SMT
  <2> QED BY <1>1, <1>4, <1>5, <1>9, <2>1, <2>2, <2>3 DEF Counted, Unused
<1>11. Attached'
  BY <1>1, <1>4, <1>5, <1>7, AttachedKept DEF LifeInv, LifeTypes
<1>12. KidsOwned'
  BY <1>1, <1>4, <1>5, <1>7, KidsOwnedKept DEF LifeInv, PutPcs
<1>13. Passes'
  BY <1>1, <1>5, <1>7, <1>9, PassesKept DEF LifeInv, PutPcs
<1>14. SlotOf'
  BY <1>1 DEF LifeInv, SlotOf
<1>15. Clones'
  BY <1>1, <1>5, <1>7, ClonesKept DEF LifeInv, OpenPcs, Inodes
<1>16. Changes'
  <2>1. ~ NoneInUse
    BY <1>1 DEF NoneInUse, Inodes
  <2> QED BY <1>1, <2>1 DEF LifeInv, Changes
<1> QED BY <1>6, <1>8, <1>10, <1>11, <1>12, <1>13, <1>14, <1>15, <1>16 DEF LifeInv

\* A page copy that moves from the list to the thread leaves the total as it is.
LEMMA SameTotal ==
    ASSUME NEW a \in Nat, NEW c \in Nat, NEW d \in Nat, NEW m \in Nat, NEW n \in Nat,
           c + m = d + n
    PROVE  a + c + m = a + d + n
BY SMT

\* A step of the page copy thread outside its put.
LEMMA ThreadStep ==
    ASSUME LifeInv, NEW r \in LocRec, Go(CopyThread, r),
           UNCHANGED <<attr, isChild, exists, si, open, plain, opens, lk>>, copies' \in Nat,
           loc[CopyThread].pc \in {"idle", "served"}, r.pc \in {"idle", "put"},
           r.f = NoInode, r.pc = "put" => r.ret = "served",
           si[P] = NoInode => copies' = 0 /\ r.pc # "put",
           copies + Serving = copies' + Serving'
    PROVE  LifeInv'
<1>1. /\ CopyThread \in All /\ CopyThread \notin Procs
      /\ loc' \in [All -> LocRec] /\ loc'[CopyThread] = r
      /\ \A u \in All : u # CopyThread => loc'[u] = loc[u]
  BY LocSet, LifeAssumption DEF All, LifeInv, LifeTypes
<1>2. Apart(CopyThread) /\ \A u \in Procs : loc'[u] = loc[u]
  BY <1>1 DEF Apart, All
<1>3. LifeTypes'
  BY <1>1 DEF LifeInv, LifeTypes
<1>4. Places'
  <2>1. ThreadAt'
    BY <1>1 DEF ThreadAt
  <2> QED BY <1>1, <1>2, <2>1, PlacesKept DEF LifeInv
<1>5. LocksHeld'
  <2>1. \A l \in Locks : lk[l] # CopyThread
    BY <1>1, HoldsNone DEF LifeInv
  <2>2. r.pc \notin VlPcs
    BY DEF VlPcs, PutPcs
  <2> QED BY <1>1, <1>2, <2>1, <2>2, LocksKept DEF LifeInv, LifeTypes
<1>6. Users' = Users /\ \A g \in Inodes : OpenedBy(g)' = OpenedBy(g)
  BY <1>1, <1>2, UsersKept, OpenedKept
<1>7. Counted'
  <2>1. r.pc # "put" => Serving' = 0
    BY <1>1 DEF Serving
  <2>2. ASSUME si[P] # NoInode PROVE si[P].added = si[P].removed + copies' + Serving'
    <3>1. si[P].removed \in Nat /\ copies \in Nat /\ Serving \in Nat /\ Serving' \in Nat
      BY <2>2 DEF LifeInv, LifeTypes, Inodes, ScorwRec, Serving
    <3>2. si[P].added = si[P].removed + copies + Serving
      BY <2>2 DEF LifeInv, Counted
    <3>3. PICK a \in Nat, c \in Nat, d \in Nat, m \in Nat, n \in Nat :
            /\ a = si[P].removed /\ c = copies /\ d = copies' /\ m = Serving /\ n = Serving'
      BY <3>1, Zenon
    <3>4. c + m = d + n
      BY <3>3, Zenon
    <3>5. a + c + m = a + d + n
      BY <3>4, SameTotal, SMT
    <3> QED BY <3>2, <3>3, <3>5
  <2> QED BY <1>6, <2>1, <2>2 DEF LifeInv, Counted, Unused
<1>8. Attached' /\ KidsOwned' /\ Passes'
  BY <1>1, <1>2, <1>6, Aside DEF PutPcs
<1>9. SlotOf'
  BY <1>1, <1>2, SlotOfKept DEF LifeInv, CreatePcs
<1>10. Clones'
  BY <1>1, <1>2, ClonesKept DEF LifeInv, OpenPcs
<1>11. Changes'
  BY <1>2 DEF LifeInv, Changes, NoneInUse
<1> QED BY <1>3, <1>4, <1>5, <1>7, <1>8, <1>9, <1>10, <1>11 DEF LifeInv

\* The thread takes a page copy on, which the parent's scorw inode is there for.
LEMMA ServeCopyKept ==
    ASSUME LifeInv, ServeCopy
    PROVE  LifeInv'
<1> DEFINE r == [loc[CopyThread] EXCEPT !.pc = "put", !.ret = "served"]
<1>1. /\ UNCHANGED <<attr, isChild, exists, si, open, plain, opens, lk>>
      /\ Go(CopyThread, r) /\ loc[CopyThread].pc = "idle" /\ copies > 0 /\ copies' = copies - 1
  BY DEF ServeCopy, At
<1>2. loc[CopyThread] \in LocRec /\ "put" \in Pcs /\ copies \in Nat /\ loc[CopyThread].f = NoInode
  BY DEF LifeInv, LifeTypes, All, Pcs, Places, ThreadAt
<1>3. r \in LocRec
  BY <1>2, ZenonT(60) DEF LocRec
<1>4. r.pc = "put" /\ r.f = NoInode /\ r.ret = "served"
  BY <1>2 DEF LocRec
<1> HIDE DEF r
<1>5. loc'[CopyThread] = r
  BY <1>1, <1>3, LocSet DEF LifeInv, LifeTypes, All
<1>6. si[P] # NoInode
  BY <1>1, SMT DEF LifeInv, Counted
<1>7. copies' \in Nat /\ copies + Serving = copies' + Serving'
  BY <1>1, <1>2, <1>4, <1>5, SMT DEF Serving
<1> QED BY <1>1, <1>3, <1>4, <1>6, <1>7, ThreadStep

\* The thread has put the parent.
LEMMA ServeDoneKept ==
    ASSUME LifeInv, ServeDone
    PROVE  LifeInv'
<1>1. /\ UNCHANGED <<attr, isChild, exists, si, open, plain, opens, copies, lk>>
      /\ Go(CopyThread, Idle) /\ loc[CopyThread].pc = "served" /\ Idle \in LocRec
  BY IdleTyped DEF ServeDone, At
<1>2. Idle.pc = "idle" /\ Idle.f = NoInode
  BY DEF Idle
<1>3. loc'[CopyThread] = Idle
  BY <1>1, LocSet DEF LifeInv, LifeTypes, All
<1>4. copies' \in Nat /\ Serving = 0 /\ Serving' = 0
  BY <1>1, <1>2, <1>3 DEF LifeInv, LifeTypes, Serving
<1>5. si[P] = NoInode => copies = 0
  BY DEF LifeInv, Counted
<1> QED BY <1>1, <1>2, <1>4, <1>5, ThreadStep

-----------------------------------------------------------------------------
(* Making and unlinking clones, and writeback.                             *)

\* A step after which t holds no lock.
LEMMA DropAll ==
    ASSUME LifeInv, NEW t \in All, Apart(t), NEW ls, Drop(ls),
           \A l \in Locks : lk[l] = t => l \in ls,
           VL(P) \in ls => loc[t].pc \in VlPcs, loc'[t].pc \notin VlPcs
    PROVE  lk' \in [Locks -> All \cup {NoInode}] /\ LocksHeld'
<1>1. /\ lk' \in [Locks -> All \cup {NoInode}]
      /\ \A l \in Locks : lk[l] \in All \cup {NoInode}
      /\ \A l \in Locks : lk'[l] = IF l \in ls THEN NoInode ELSE lk[l]
  BY LockSet DEF LifeInv, LifeTypes
<1>2. t # NoInode /\ VL(P) \in Locks
  BY LifeAssumption, LockNames DEF All
<1>3. ASSUME NEW u \in All, u # t, loc[u].pc \in VlPcs PROVE lk'[VL(P)] = lk[VL(P)]
  BY <1>1, <1>2, <1>3, VlOne DEF LifeInv
<1>4. \A l \in Locks : lk'[l] = NoInode \/ lk'[l] = lk[l]
  BY <1>1
<1>5. \A l \in Locks : lk'[l] # t
  BY <1>1, <1>2
<1> QED BY <1>1, <1>3, <1>4, <1>5, LocksKept DEF LifeInv

\* A step that takes a lock.
LEMMA TakeOne ==
    ASSUME LifeInv, NEW t \in All, Apart(t), NEW l \in Locks, Take(t, l), MayHold(t, l)',
           \A k \in Locks : MayHold(t, k) => MayHold(t, k)',
           loc'[t].pc \in VlPcs => l = VL(P) \/ loc[t].pc \in VlPcs
    PROVE  lk' \in [Locks -> All \cup {NoInode}] /\ LocksHeld'
<1>1. /\ lk' \in [Locks -> All \cup {NoInode}] /\ lk[l] = NoInode /\ lk'[l] = t
      /\ \A k \in Locks : k # l => lk'[k] = lk[k]
      /\ \A k \in Locks : lk[k] \in All \cup {NoInode}
  BY LockSet DEF LifeInv, LifeTypes
<1>2. t # NoInode /\ VL(P) \in Locks
  BY LifeAssumption, LockNames DEF All
<1>3. ASSUME NEW u \in All, u # t, loc[u].pc \in VlPcs PROVE lk'[VL(P)] = lk[VL(P)]
  <2>1. ~ Free(VL(P))
    BY <1>3, VlOne DEF LifeInv
  <2> QED BY <1>1, <1>2, <2>1 DEF Free
<1>4. ASSUME NEW k \in Locks, lk'[k] = t PROVE MayHold(t, k)'
  <2>1. CASE k = l
    BY <2>1
  <2>2. CASE k # l
    <3>1. MayHold(t, k)
      BY <1>1, <1>2, <1>4, <2>2, ZenonT(60) DEF LifeInv, LocksHeld
    <3> QED BY <3>1
  <2> QED BY <2>1, <2>2
<1>5. loc'[t].pc \in VlPcs => lk'[VL(P)] = t
  <2>1. loc[t].pc \in VlPcs => lk[VL(P)] = t
    BY DEF LifeInv, LocksHeld
  <2> QED BY <1>1, <1>2, <2>1
<1>6. \A k \in Locks : lk'[k] = lk[k] \/ lk'[k] = t
  BY <1>1
<1> QED BY <1>1, <1>3, <1>4, <1>5, <1>6, LocksKept DEF LifeInv

\* A step of making or unlinking a clone, while no scorw inode is in use.
LEMMA ChangeStep ==
    ASSUME LifeInv, NEW t \in Procs, NEW r \in LocRec, Go(t, r),
           UNCHANGED <<si, open, plain, opens, copies>>,
           attr' \in [Slots -> Kid], isChild' \subseteq Children, exists' \subseteq Children,
           lk' \in [Locks -> All \cup {NoInode}], LocksHeld', ProcAt(t)', SlotOf',
           NoneInUse, \A u \in Procs : u # t => loc[u].pc \in {"idle", "writeback"},
           loc[t].pc \in {"idle"} \cup CreatePcs \cup UnlinkPcs,
           r.pc \in {"idle"} \cup CreatePcs \cup UnlinkPcs,
           r.pc \in UnlinkPcs => \A u \in Procs : r.f \notin open[u],
           \A c \in isChild \cap exists :
              c \in isChild' \cap exists' \/ \A u \in Procs : c \notin open[u]
    PROVE  LifeInv'
<1>1. /\ t \in All /\ t # CopyThread
      /\ loc' \in [All -> LocRec] /\ loc'[t] = r /\ \A u \in All : u # t => loc'[u] = loc[u]
  BY LocSet, LifeAssumption, ZenonT(60) DEF All, LifeInv, LifeTypes
<1>2. Apart(t) /\ loc'[CopyThread] = loc[CopyThread]
  BY <1>1 DEF Apart, All
<1>3. LifeTypes'
  BY <1>1 DEF LifeInv, LifeTypes
<1>4. Places'
  BY <1>1, <1>2, PlacesKept DEF LifeInv
<1>5. /\ loc[t].pc \notin OpenPcs \cup PutPcs \cup {"put", "closed"}
      /\ r.pc \notin OpenPcs \cup PutPcs \cup {"put", "closed"}
  BY DEF OpenPcs, PutPcs, CreatePcs, UnlinkPcs
<1>6. Users' = Users /\ \A g \in Inodes : OpenedBy(g)' = OpenedBy(g)
  <2>1. \A g \in Inodes : (Counts(t, g)' <=> Counts(t, g)) /\ (Opened(t, g)' <=> Opened(t, g))
    BY <1>1, <1>5 DEF Counts, Opened, OpenPcs
  <2> QED BY <1>1, <1>2, <2>1, UsersKept, OpenedKept
<1>7. Counted'
  BY <1>2, <1>6 DEF LifeInv, Counted, Serving, Unused
<1>8. \A f \in Inodes : si'[f] = NoInode
  BY DEF NoneInUse
<1>9. Attached' /\ KidsOwned'
  BY <1>8 DEF Attached, KidsOwned, Inodes
<1>10. Passes'
  BY <1>1, <1>2, <1>5, <1>6, PassesKept DEF LifeInv, OpenPcs
<1>11. Clones'
  <2>1. \A u \in Procs : loc'[u].pc \notin OpenPcs
    BY <1>1, <1>5 DEF All, OpenPcs
  <2>2. \A u \in Procs, c \in Children : c \in open[u] \ plain[u] => c \in isChild' \cap exists'
    BY DEF LifeInv, Clones
  <2> QED BY <1>8, <2>1, <2>2 DEF Clones, Inodes
<1>12. Changes'
  <2>1. \A u \in Procs : u # t => loc'[u] = loc[u] /\ loc[u].ret # "change"
    BY <1>1 DEF All, LifeInv, Places, ProcAt, PutPcs, CreatePcs, UnlinkPcs
  <2>2. NoneInUse'
    BY <1>8 DEF NoneInUse
  <2> QED BY <1>1, <2>1, <2>2 DEF Changes
<1> QED BY <1>3, <1>4, <1>7, <1>9, <1>10, <1>11, <1>12 DEF LifeInv

\* A step inside the making of a clone keeps slots when it keeps the file.
LEMMA SlotOfChange ==
    ASSUME SlotOf, NEW t \in Procs, Apart(t), attr' = attr, isChild' = isChild, exists' = exists,
           loc'[t].pc \in CreatePcs \ {"create4"}, \A i \in Slots : attr[i] # loc'[t].f
    PROVE  SlotOf'
<1>1. \A u \in Procs : u # t => loc'[u] = loc[u]
  BY DEF Apart, All
<1>2. \A u \in Procs :
          /\ loc'[u].pc \in CreatePcs \ {"create4"} => \A i \in Slots : attr[i] # loc'[u].f
          /\ loc'[u].pc = "create4" => loc'[u].i \in Slots /\ attr[loc'[u].i] = loc'[u].f
  BY <1>1, ZenonT(60) DEF SlotOf
<1> QED BY <1>2 DEF SlotOf

\* A clone is begun: no slot has it, and nobody else does anything.
LEMMA CreateStartKept ==
    ASSUME LifeInv, NEW t \in Procs, NEW c \in Children, MayCreate(c), CreateStart(t, c)
    PROVE  LifeInv'
<1> DEFINE r == [loc[t] EXCEPT !.pc = "create1", !.f = c, !.ret = "change"]
<1>1. /\ UNCHANGED <<attr, isChild, exists, si, open, plain, opens, copies>>
      /\ Go(t, r) /\ loc[t].pc = "idle" /\ Take(t, WB)
      /\ NoneInUse /\ \A u \in Procs : loc[u].pc = "idle"
      /\ \A i \in Slots : attr[i] # c
  BY DEF CreateStart, At, MayCreate, MayChange, MayPrepare
<1>2. t \in All /\ loc \in [All -> LocRec] /\ loc[t] \in LocRec /\ "create1" \in Pcs /\ c \in Inodes
  BY DEF All, LifeInv, LifeTypes, Pcs, Inodes
<1>3. r \in LocRec
  BY <1>2, ZenonT(60) DEF LocRec
<1>4. r.pc = "create1" /\ r.f = c /\ r.ret = "change"
  BY <1>2 DEF LocRec
<1> HIDE DEF r
<1>5. loc'[t] = r /\ \A u \in All : u # t => loc'[u] = loc[u]
  BY <1>1, <1>2, <1>3, LocSet
<1>6. Apart(t)
  BY <1>1, <1>5 DEF Apart, All
<1>7. lk' \in [Locks -> All \cup {NoInode}] /\ LocksHeld'
  <2>1. MayHold(t, WB)' /\ r.pc \notin VlPcs
    BY <1>4, <1>5 DEF MayHold, CreatePcs, VlPcs, PutPcs
  <2>2. \A k : ~ MayHold(t, k)
    BY <1>1 DEF MayHold, VlPcs, PutPcs, CreatePcs, UnlinkPcs
  <2>3. WB \in Locks
    BY LockNames
  <2> QED BY <1>1, <1>2, <1>5, <1>6, <2>1, <2>2, <2>3, TakeOne
<1>8. ProcAt(t)'
  BY <1>4, <1>5 DEF ProcAt, CreatePcs
<1>9. r.pc \in CreatePcs \ {"create4"} /\ r.pc \notin UnlinkPcs
  BY <1>4 DEF CreatePcs, UnlinkPcs
<1>10. SlotOf'
  BY <1>1, <1>4, <1>5, <1>6, <1>9, SlotOfChange DEF LifeInv
<1>11. attr' \in [Slots -> Kid] /\ isChild' \subseteq Children /\ exists' \subseteq Children
  BY <1>1 DEF LifeInv, LifeTypes
<1> QED BY <1>1, <1>3, <1>7, <1>8, <1>9, <1>10, <1>11, ChangeStep

\* Inside a change.
LEMMA InChange ==
    ASSUME LifeInv, NEW t \in Procs, loc[t].pc \in CreatePcs \cup UnlinkPcs
    PROVE  /\ loc[t].f \in Children /\ loc[t].ret = "change" /\ NoneInUse
           /\ \A u \in Procs : u # t => loc[u].pc \in {"idle", "writeback"}
           /\ loc[t].pc \in UnlinkPcs => \A u \in Procs : loc[t].f \notin open[u]
           /\ t \in All /\ loc \in [All -> LocRec] /\ loc[t] \in LocRec
<1>1. loc[t].f \in Children /\ loc[t].ret = "change"
  BY DEF LifeInv, Places, ProcAt, PutPcs, CreatePcs, UnlinkPcs
<1> QED BY <1>1 DEF LifeInv, Changes, LifeTypes, All

\* One lock after the other.
LEMMA CreateLockKept ==
    ASSUME LifeInv, NEW t \in Procs, CreateLock(t)
    PROVE  LifeInv'
<1>1. PICK p \in {"create2", "create3"}, l \in {OCL(P), VL(P)} :
        /\ UNCHANGED <<attr, isChild, exists, si, open, plain, opens, copies>>
        /\ Go(t, [loc[t] EXCEPT !.pc = p]) /\ Take(t, l)
        /\ p = "create2" => loc[t].pc = "create1" /\ l = OCL(P)
        /\ p = "create3" => loc[t].pc = "create2" /\ l = VL(P)
  BY DEF CreateLock, At
<1> DEFINE r == [loc[t] EXCEPT !.pc = p]
<1>2. /\ loc[t].pc \in CreatePcs \ {"create4"} /\ p \in CreatePcs \ {"create4"} /\ p \notin UnlinkPcs
      /\ p \in Pcs
  BY <1>1 DEF CreatePcs, UnlinkPcs, Pcs
<1>3. /\ loc[t].f \in Children /\ loc[t].ret = "change" /\ NoneInUse
      /\ \A u \in Procs : u # t => loc[u].pc \in {"idle", "writeback"}
      /\ t \in All /\ loc \in [All -> LocRec] /\ loc[t] \in LocRec
  BY <1>2, InChange
<1>4. r \in LocRec
  BY <1>2, <1>3, ZenonT(60) DEF LocRec
<1>5. r.pc = p /\ r.f = loc[t].f /\ r.ret = "change"
  BY <1>3 DEF LocRec
<1>6. Go(t, r)
  BY <1>1
<1> HIDE DEF r
<1>7. loc'[t] = r /\ \A u \in All : u # t => loc'[u] = loc[u]
  BY <1>3, <1>4, <1>6, LocSet
<1>8. Apart(t)
  BY <1>1, <1>7 DEF Apart, All
<1>9. lk' \in [Locks -> All \cup {NoInode}] /\ LocksHeld'
  <2>1. MayHold(t, l)' /\ l \in Locks
    BY <1>1, <1>5, <1>7, LockNames DEF MayHold, VlPcs
  <2>2. ASSUME NEW k \in Locks, MayHold(t, k) PROVE MayHold(t, k)'
    BY <1>1, <1>2, <1>5, <1>7, <2>2 DEF MayHold, VlPcs, PutPcs, CreatePcs, UnlinkPcs
  <2>3. r.pc \in VlPcs => l = VL(P)
    BY <1>1, <1>5 DEF VlPcs, PutPcs
  <2> QED BY <1>1, <1>3, <1>7, <1>8, <2>1, <2>2, <2>3, TakeOne
<1>10. ProcAt(t)'
  BY <1>2, <1>3, <1>5, <1>7 DEF ProcAt
<1>11. SlotOf'
  <2>1. \A i \in Slots : attr[i] # r.f
    BY <1>2, <1>5 DEF LifeInv, SlotOf
  <2> QED BY <1>1, <1>2, <1>5, <1>7, <1>8, <2>1, SlotOfChange DEF LifeInv
<1>12. attr' \in [Slots -> Kid] /\ isChild' \subseteq Children /\ exists' \subseteq Children
  BY <1>1 DEF LifeInv, LifeTypes
<1> QED BY <1>1, <1>2, <1>3, <1>4, <1>5, <1>6, <1>9, <1>10, <1>11, <1>12, ChangeStep

\* A clone takes the first free slot, and no other slot has it.
LEMMA CreateAttrsKept ==
    ASSUME LifeInv, NEW t \in Procs, CreateAttrs(t)
    PROVE  LifeInv'
<1>0. PICK i \in Slots :
        /\ UNCHANGED <<isChild, exists, si, open, plain, opens, copies, lk>>
        /\ loc[t].pc = "create3" /\ attr[i] = NoInode
        /\ attr' = [attr EXCEPT ![i] = loc[t].f]
        /\ Go(t, [loc[t] EXCEPT !.pc = "create4", !.i = i])
  BY DEF CreateAttrs, At
<1> DEFINE r == [loc[t] EXCEPT !.pc = "create4", !.i = i]
<1>1. loc[t].pc \in CreatePcs \ {"create4"} /\ "create4" \in Pcs
  BY <1>0 DEF CreatePcs, Pcs
<1>2. /\ loc[t].f \in Children /\ loc[t].ret = "change" /\ NoneInUse
      /\ \A u \in Procs : u # t => loc[u].pc \in {"idle", "writeback"}
      /\ t \in All /\ loc \in [All -> LocRec] /\ loc[t] \in LocRec /\ i \in Nat
  BY <1>1, InChange, SMT DEF Slots
<1>3. r \in LocRec
  BY <1>1, <1>2, ZenonT(60) DEF LocRec
<1>4. r.pc = "create4" /\ r.f = loc[t].f /\ r.ret = "change" /\ r.i = i
  BY <1>2 DEF LocRec
<1>5. Go(t, r)
  BY <1>0
<1> HIDE DEF r
<1>6. loc'[t] = r /\ \A u \in All : u # t => loc'[u] = loc[u]
  BY <1>2, <1>3, <1>5, LocSet
<1>7. Apart(t)
  BY <1>0, <1>6 DEF Apart, All
<1>8. lk' \in [Locks -> All \cup {NoInode}] /\ LocksHeld'
  <2>1. ASSUME NEW k \in Locks, lk[k] = t PROVE MayHold(t, k)'
    <3>1. MayHold(t, k)
      BY <1>2, <2>1, LifeAssumption DEF LifeInv, LocksHeld, All
    <3> QED BY <1>0, <1>4, <1>6, <3>1 DEF MayHold, VlPcs, PutPcs, CreatePcs, UnlinkPcs
  <2>2. lk[VL(P)] = t
    BY <1>0, <1>2 DEF LifeInv, LocksHeld, VlPcs
  <2> QED BY <1>0, <1>2, <1>6, <1>7, <2>1, <2>2, LocksKept DEF LifeInv, LifeTypes
<1>9. ProcAt(t)'
  BY <1>2, <1>4, <1>6 DEF ProcAt, CreatePcs
<1>10. /\ attr' \in [Slots -> Kid] /\ attr'[i] = loc[t].f
       /\ \A j \in Slots : j # i => attr'[j] = attr[j]
  BY <1>0, <1>2 DEF LifeInv, LifeTypes, Kid
<1>11. SlotOf'
  <2>1. \A j \in Slots : attr[j] # loc[t].f
    BY <1>1 DEF LifeInv, SlotOf
  <2>2. \A j, k \in Slots : attr'[j] = attr'[k] /\ attr'[j] # NoInode => j = k
    BY <1>10, <2>1, SMT DEF LifeInv, SlotOf
  <2>3. ASSUME NEW c \in isChild \cap exists PROVE \E j \in Slots : attr'[j] = c
    <3>1. PICK j \in Slots : attr[j] = c
      BY DEF LifeInv, SlotOf
    <3>2. c # NoInode
      BY LifeAssumption DEF LifeInv, LifeTypes
    <3> QED BY <1>0, <1>10, <3>1, <3>2
  <2>4. \A u \in Procs : u # t => loc'[u].pc \notin CreatePcs
    BY <1>2, <1>6 DEF All, CreatePcs
  <2> QED BY <1>0, <1>4, <1>6, <1>10, <2>2, <2>3, <2>4 DEF SlotOf, CreatePcs
<1>12. r.pc \in CreatePcs /\ r.pc \notin UnlinkPcs
  BY <1>4 DEF CreatePcs, UnlinkPcs
<1>13. isChild' \subseteq Children /\ exists' \subseteq Children
  BY <1>0 DEF LifeInv, LifeTypes
<1> QED BY <1>0, <1>1, <1>2, <1>3, <1>5, <1>8, <1>9, <1>10, <1>11, <1>12, <1>13, ChangeStep

\* The making of a clone ends, well or not: at its end the clone has its slot.
LEMMA CreateEndKept ==
    ASSUME LifeInv, NEW t \in Procs, loc[t].pc \in {"create3", "create4"}, Drop(CreateLocks),
           Go(t, Idle), UNCHANGED <<attr, exists, si, open, plain, opens, copies>>,
           isChild' = isChild \/ (loc[t].pc = "create4" /\ isChild' = isChild \cup {loc[t].f})
    PROVE  LifeInv'
<1>1. loc[t].pc \in CreatePcs /\ loc[t].pc \in VlPcs
  BY DEF CreatePcs, VlPcs
<1>2. /\ loc[t].f \in Children /\ loc[t].ret = "change" /\ NoneInUse
      /\ \A u \in Procs : u # t => loc[u].pc \in {"idle", "writeback"}
      /\ t \in All /\ loc \in [All -> LocRec] /\ loc[t] \in LocRec
  BY <1>1, InChange
<1>3. loc'[t] = Idle /\ \A u \in All : u # t => loc'[u] = loc[u]
  BY <1>2, IdleTyped, LocSet
<1>4. Idle.pc = "idle" /\ Idle.f = NoInode /\ Idle.ret = "idle"
  BY DEF Idle
<1>5. Apart(t)
  BY <1>3 DEF Apart, All
<1>6. lk' \in [Locks -> All \cup {NoInode}] /\ LocksHeld'
  <2>1. ASSUME NEW l \in Locks, lk[l] = t PROVE l \in CreateLocks
    <3>1. MayHold(t, l)
      BY <1>2, <2>1, LifeAssumption DEF LifeInv, LocksHeld, All
    <3> QED BY <3>1 DEF MayHold, CreateLocks, PutPcs, CreatePcs, UnlinkPcs
  <2>2. Idle.pc \notin VlPcs
    BY <1>4 DEF VlPcs, PutPcs
  <2> QED BY <1>1, <1>2, <1>3, <1>5, <2>1, <2>2, DropAll
<1>7. ProcAt(t)'
  BY <1>3, <1>4 DEF ProcAt
<1>8. SlotOf'
  <2>1. \A c \in isChild' \cap exists : \E i \in Slots : attr[i] = c
    BY DEF LifeInv, SlotOf
  <2>2. \A u \in Procs : loc'[u].pc \notin CreatePcs
    BY <1>2, <1>3, <1>4 DEF All, CreatePcs
  <2>3. \A i, j \in Slots : attr[i] = attr[j] /\ attr[i] # NoInode => i = j
    BY DEF LifeInv, SlotOf
  <2> QED BY <2>1, <2>2, <2>3 DEF SlotOf, CreatePcs
<1>9. /\ attr' \in [Slots -> Kid] /\ isChild' \subseteq Children /\ exists' \subseteq Children
      /\ isChild \subseteq isChild'
  BY <1>2 DEF LifeInv, LifeTypes
<1>10. Idle.pc \notin UnlinkPcs
  BY <1>4 DEF UnlinkPcs
<1> QED BY <1>1, <1>2, <1>4, <1>6, <1>7, <1>8, <1>9, <1>10, IdleTyped, ChangeStep

\* An unlink begins: nobody has the clone open.
LEMMA UnlinkStartKept ==
    ASSUME LifeInv, MayChange, NEW t \in Procs, NEW c \in Children, UnlinkStart(t, c)
    PROVE  LifeInv'
<1> DEFINE r == [loc[t] EXCEPT !.pc = "unlink", !.f = c, !.ret = "change"]
<1>1. /\ UNCHANGED <<attr, isChild, exists, si, open, plain, opens, copies>>
      /\ Go(t, r) /\ loc[t].pc = "idle" /\ Take(t, OCL(c))
      /\ NoneInUse /\ \A u \in Procs : loc[u].pc = "idle" /\ c \notin open[u]
  BY DEF UnlinkStart, At, MayChange, MayPrepare
<1>2. t \in All /\ loc \in [All -> LocRec] /\ loc[t] \in LocRec /\ "unlink" \in Pcs /\ c \in Inodes
  BY DEF All, LifeInv, LifeTypes, Pcs, Inodes
<1>3. r \in LocRec
  BY <1>2, ZenonT(60) DEF LocRec
<1>4. r.pc = "unlink" /\ r.f = c /\ r.ret = "change"
  BY <1>2 DEF LocRec
<1> HIDE DEF r
<1>5. loc'[t] = r /\ \A u \in All : u # t => loc'[u] = loc[u]
  BY <1>1, <1>2, <1>3, LocSet
<1>6. Apart(t)
  BY <1>1, <1>5 DEF Apart, All
<1>7. lk' \in [Locks -> All \cup {NoInode}] /\ LocksHeld'
  <2>1. MayHold(t, OCL(c))' /\ r.pc \notin VlPcs
    BY <1>4, <1>5, LifeAssumption DEF MayHold, UnlinkPcs, VlPcs, PutPcs
  <2>2. \A k : ~ MayHold(t, k)
    BY <1>1 DEF MayHold, VlPcs, PutPcs, CreatePcs, UnlinkPcs
  <2>3. OCL(c) \in Locks
    BY <1>2, LockNames
  <2> QED BY <1>1, <1>2, <1>5, <1>6, <2>1, <2>2, <2>3, TakeOne
<1>8. ProcAt(t)'
  BY <1>4, <1>5 DEF ProcAt, UnlinkPcs
<1>9. r.pc \in UnlinkPcs /\ r.pc \notin CreatePcs
  BY <1>4 DEF CreatePcs, UnlinkPcs
<1>10. SlotOf'
  BY <1>1, <1>2, <1>5, <1>6, <1>9, SlotOfKept DEF LifeInv
<1>11. attr' \in [Slots -> Kid] /\ isChild' \subseteq Children /\ exists' \subseteq Children
  BY <1>1 DEF LifeInv, LifeTypes
<1> QED BY <1>1, <1>3, <1>4, <1>7, <1>8, <1>9, <1>10, <1>11, ChangeStep

\* The parent's open_close_lock is the second one.
LEMMA UnlinkLockKept ==
    ASSUME LifeInv, NEW t \in Procs, UnlinkLock(t)
    PROVE  LifeInv'
<1> DEFINE r == [loc[t] EXCEPT !.pc = "unlink2"]
<1>1. /\ UNCHANGED <<attr, isChild, exists, si, open, plain, opens, copies>>
      /\ Go(t, r) /\ loc[t].pc = "unlink" /\ Take(t, OCL(P))
  BY DEF UnlinkLock, At
<1>2. loc[t].pc \in UnlinkPcs /\ "unlink2" \in Pcs
  BY <1>1 DEF UnlinkPcs, Pcs
<1>3. /\ loc[t].f \in Children /\ loc[t].ret = "change" /\ NoneInUse
      /\ \A u \in Procs : u # t => loc[u].pc \in {"idle", "writeback"}
      /\ \A u \in Procs : loc[t].f \notin open[u]
      /\ t \in All /\ loc \in [All -> LocRec] /\ loc[t] \in LocRec
  BY <1>2, InChange
<1>4. r \in LocRec
  BY <1>2, <1>3, ZenonT(60) DEF LocRec
<1>5. r.pc = "unlink2" /\ r.f = loc[t].f /\ r.ret = "change"
  BY <1>3 DEF LocRec
<1> HIDE DEF r
<1>6. loc'[t] = r /\ \A u \in All : u # t => loc'[u] = loc[u]
  BY <1>1, <1>3, <1>4, LocSet
<1>7. Apart(t)
  BY <1>1, <1>6 DEF Apart, All
<1>8. lk' \in [Locks -> All \cup {NoInode}] /\ LocksHeld'
  <2>1. MayHold(t, OCL(P))' /\ OCL(P) \in Locks
    BY <1>5, <1>6, LockNames DEF MayHold
  <2>2. ASSUME NEW k \in Locks, MayHold(t, k) PROVE MayHold(t, k)'
    BY <1>1, <1>5, <1>6, <2>2 DEF MayHold, VlPcs, PutPcs, CreatePcs, UnlinkPcs
  <2>3. r.pc \notin VlPcs
    BY <1>5 DEF VlPcs, PutPcs
  <2> QED BY <1>1, <1>3, <1>6, <1>7, <2>1, <2>2, <2>3, TakeOne
<1>9. ProcAt(t)'
  BY <1>3, <1>5, <1>6 DEF ProcAt, UnlinkPcs
<1>10. r.pc \in UnlinkPcs /\ r.pc \notin CreatePcs
  BY <1>5 DEF CreatePcs, UnlinkPcs
<1>11. SlotOf'
  BY <1>1, <1>3, <1>6, <1>7, <1>10, SlotOfKept DEF LifeInv
<1>12. attr' \in [Slots -> Kid] /\ isChild' \subseteq Children /\ exists' \subseteq Children
  BY <1>1 DEF LifeInv, LifeTypes
<1> QED BY <1>1, <1>2, <1>3, <1>4, <1>5, <1>8, <1>9, <1>10, <1>11, <1>12, ChangeStep

\* The clone and its slot go together.
LEMMA UnlinkQuietKept ==
    ASSUME LifeInv, NEW t \in Procs, UnlinkQuiet(t)
    PROVE  LifeInv'
<1>0. loc[t].pc = "unlink2" /\ loc[t].pc \in UnlinkPcs
  BY DEF UnlinkQuiet, At, UnlinkPcs
<1>1. /\ loc[t].f \in Children /\ loc[t].ret = "change" /\ NoneInUse
      /\ \A u \in Procs : u # t => loc[u].pc \in {"idle", "writeback"}
      /\ \A u \in Procs : loc[t].f \notin open[u]
      /\ t \in All /\ loc \in [All -> LocRec] /\ loc[t] \in LocRec
  BY <1>0, InChange
<1>2. PICK c \in Children : c = loc[t].f
  BY <1>1
<1>3. /\ UNCHANGED <<isChild, si, open, plain, opens, copies>>
      /\ Go(t, Idle) /\ Drop({OCL(c), OCL(P)}) /\ exists' = exists \ {c}
      /\ attr' = [i \in Slots |-> IF attr[i] = c THEN NoInode ELSE attr[i]]
  BY <1>2 DEF UnlinkQuiet, WithoutAttr
<1>4. loc'[t] = Idle /\ \A u \in All : u # t => loc'[u] = loc[u]
  BY <1>1, <1>3, IdleTyped, LocSet
<1>5. Idle.pc = "idle" /\ Idle.f = NoInode /\ Idle.ret = "idle"
  BY DEF Idle
<1>6. Apart(t)
  BY <1>3, <1>4 DEF Apart, All
<1>7. lk' \in [Locks -> All \cup {NoInode}] /\ LocksHeld'
  <2>1. ASSUME NEW l \in Locks, lk[l] = t PROVE l \in {OCL(c), OCL(P)}
    <3>1. MayHold(t, l)
      BY <1>1, <2>1, LifeAssumption DEF LifeInv, LocksHeld, All
    <3> QED BY <1>0, <1>2, <3>1 DEF MayHold, VlPcs, PutPcs, CreatePcs
  <2>2. Idle.pc \notin VlPcs /\ VL(P) \notin {OCL(c), OCL(P)}
    BY <1>5, LockNames DEF VlPcs, PutPcs
  <2> QED BY <1>1, <1>3, <1>4, <1>6, <2>1, <2>2, DropAll
<1>8. ProcAt(t)'
  BY <1>4, <1>5 DEF ProcAt
<1>9. /\ attr' \in [Slots -> Kid] /\ isChild' \subseteq Children /\ exists' \subseteq Children
      /\ \A i \in Slots : attr'[i] = IF attr[i] = c THEN NoInode ELSE attr[i]
  BY <1>3 DEF LifeInv, LifeTypes, Kid
<1>10. SlotOf'
  <2>1. \A i, j \in Slots : attr'[i] = attr'[j] /\ attr'[i] # NoInode => i = j
    BY <1>9 DEF LifeInv, SlotOf
  <2>2. \A d \in isChild' \cap exists' : \E i \in Slots : attr'[i] = d
    BY <1>3, <1>9 DEF LifeInv, SlotOf
  <2>3. \A u \in Procs : loc'[u].pc \notin CreatePcs
    BY <1>1, <1>4, <1>5 DEF All, CreatePcs
  <2> QED BY <2>1, <2>2, <2>3 DEF SlotOf, CreatePcs
<1>11. \A d \in isChild \cap exists :
          d \in isChild' \cap exists' \/ \A u \in Procs : d \notin open[u]
  BY <1>1, <1>2, <1>3
<1>12. Idle.pc \notin UnlinkPcs
  BY <1>5 DEF UnlinkPcs
<1> QED BY <1>0, <1>1, <1>3, <1>5, <1>7, <1>8, <1>9, <1>10, <1>11, <1>12, IdleTyped, ChangeStep

\* Writeback of the parent takes one lock and gives it back.
LEMMA WritebackKept ==
    ASSUME LifeInv, NEW t \in Procs, WritebackStart(t) \/ WritebackDone(t)
    PROVE  LifeInv'
<1> DEFINE s == [loc[t] EXCEPT !.pc = "writeback"]
<1>1. /\ loc[t].pc \in {"idle", "writeback"} /\ loc[t].f = NoInode /\ loc[t].ret = "idle"
      /\ t \in All /\ loc \in [All -> LocRec] /\ loc[t] \in LocRec /\ "writeback" \in Pcs
  BY DEF WritebackStart, WritebackDone, At, LifeInv, LifeTypes, Places, ProcAt, PutPcs, CreatePcs,
         UnlinkPcs, All, Pcs
<1>2. s \in LocRec
  BY <1>1, ZenonT(60) DEF LocRec
<1>3. s.pc = "writeback" /\ s.f = NoInode /\ s.ret = "idle"
  BY <1>1 DEF LocRec
<1>4. Idle.pc = "idle" /\ Idle.f = NoInode /\ Idle.ret = "idle"
  BY DEF Idle
<1>5. /\ UNCHANGED <<attr, isChild, exists, si, open, plain, opens, copies>>
      /\ \/ loc[t].pc = "idle" /\ Take(t, WB) /\ Go(t, s)
         \/ loc[t].pc = "writeback" /\ Drop({WB}) /\ Go(t, Idle)
  BY DEF WritebackStart, WritebackDone, At
<1> HIDE DEF s
<1>6. PICK r \in LocRec :
        /\ Go(t, r) /\ r.f = NoInode /\ r.ret = "idle"
        /\ \/ loc[t].pc = "idle" /\ Take(t, WB) /\ r.pc = "writeback"
           \/ loc[t].pc = "writeback" /\ Drop({WB}) /\ r.pc = "idle"
  BY <1>2, <1>3, <1>4, <1>5, IdleTyped
<1>7. loc'[t] = r /\ \A u \in All : u # t => loc'[u] = loc[u]
  BY <1>1, <1>6, LocSet
<1>8. Apart(t)
  BY <1>5, <1>7 DEF Apart, All
<1>9. lk' \in [Locks -> All \cup {NoInode}] /\ LocksHeld'
  <2>1. WB \in Locks /\ VL(P) # WB /\ r.pc \notin VlPcs
    BY <1>6, LockNames DEF VlPcs, PutPcs
  <2>2. CASE r.pc = "writeback"
    <3>1. MayHold(t, WB)' /\ Take(t, WB) /\ loc[t].pc = "idle"
      BY <1>6, <1>7, <2>2 DEF MayHold
    <3>2. \A k : ~ MayHold(t, k)
      BY <3>1 DEF MayHold, VlPcs, PutPcs, CreatePcs, UnlinkPcs
    <3> QED BY <1>1, <1>7, <1>8, <2>1, <3>1, <3>2, TakeOne
  <2>3. CASE r.pc = "idle"
    <3>1. Drop({WB}) /\ loc[t].pc = "writeback"
      BY <1>6, <2>3
    <3>2. ASSUME NEW l \in Locks, lk[l] = t PROVE l \in {WB}
      <4>1. MayHold(t, l)
        BY <1>1, <3>2, LifeAssumption DEF LifeInv, LocksHeld, All
      <4> QED BY <3>1, <4>1 DEF MayHold, VlPcs, PutPcs, CreatePcs, UnlinkPcs
    <3> QED BY <1>1, <1>7, <1>8, <2>1, <3>1, <3>2, DropAll
  <2> QED BY <1>6, <2>2, <2>3
<1>10. ProcAt(t)'
  BY <1>6, <1>7 DEF ProcAt
<1>11. \A g \in Inodes : (Counts(t, g)' <=> Counts(t, g)) /\ (Opened(t, g)' <=> Opened(t, g))
  BY <1>1, <1>5, <1>6, <1>7 DEF Counts, Opened, PutPcs
<1>12. \A g \in Inodes : Numbers(OpenedBy(g), opens[g])'
  <2>1. \A g \in Inodes : OpenedBy(g)' = OpenedBy(g)
    BY <1>1, <1>8, <1>11, OpenedKept
  <2> QED BY <1>5, <2>1 DEF LifeInv, Counted
<1>13. Clones'
  BY <1>1, <1>5, <1>6, <1>7, <1>8, ClonesKept DEF LifeInv, OpenPcs
<1>14. Changes'
  BY <1>5, <1>6, <1>7 DEF LifeInv, Changes, All, NoneInUse
<1>15. loc[t].pc \notin {"kids"} \cup PutPcs /\ r.pc \notin {"kids"} \cup PutPcs \cup CreatePcs
  BY <1>1, <1>6 DEF PutPcs, CreatePcs
<1>16. opens' \in [Inodes -> Nat]
  BY <1>5 DEF LifeInv, LifeTypes
<1> QED BY <1>5, <1>6, <1>9, <1>10, <1>11, <1>12, <1>13, <1>14, <1>15, <1>16, CallStep, ZenonT(60)

-----------------------------------------------------------------------------
(* The invariant.                                                          *)

\* Nothing is open and nothing is there.
LEMMA InitLife == Init => LifeInv
<1> SUFFICES ASSUME Init PROVE LifeInv
  OBVIOUS
<1>1. /\ Idle \in LocRec /\ Idle.pc = "idle" /\ Idle.f = NoInode /\ Idle.ret = "idle"
  BY IdleTyped DEF Idle
<1>2. /\ \A t \in All : loc[t] = Idle
      /\ \A t \in Procs : loc[t] = Idle /\ open[t] = {} /\ plain[t] = {}
      /\ \A f \in Inodes : si[f] = NoInode /\ opens[f] = 0
      /\ \A l \in Locks : lk[l] = NoInode
      /\ \A i \in Slots : attr[i] = NoInode
      /\ isChild = {} /\ copies = 0
  BY DEF Init, NoKids, All
<1>3. LifeTypes
  BY <1>1 DEF Init, LifeTypes, NoKids, Kid
<1>4. Places
  BY <1>1, <1>2 DEF Places, ProcAt, ThreadAt, All
<1>5. LocksHeld
  BY <1>1, <1>2 DEF LocksHeld, VlPcs, PutPcs
<1>6. Users = {} /\ \A f \in Inodes : OpenedBy(f) = {}
  BY <1>1, <1>2 DEF Users, OpenedBy, Counts, Opened
<1>7. Counted
  <2>1. Serving = 0 /\ P \in Inodes
    BY <1>1, <1>2 DEF Serving, All, Inodes
  <2> QED BY <1>2, <1>6, <2>1, NumbersZero DEF Counted
<1>8. Attached /\ KidsOwned
  BY <1>2 DEF Attached, KidsOwned, Inodes
<1>9. Passes
  BY <1>1, <1>2 DEF Passes, PutPcs
<1>10. SlotOf
  BY <1>1, <1>2 DEF SlotOf, CreatePcs
<1>11. Clones /\ Changes
  BY <1>1, <1>2 DEF Clones, Changes, OpenPcs, Inodes
<1> QED BY <1>3, <1>4, <1>5, <1>7, <1>8, <1>9, <1>10, <1>11 DEF LifeInv

\* Gets.
LEMMA GetKept ==
    ASSUME LifeInv, NEW t \in Procs, Get(t)
    PROVE  LifeInv'
  BY GetExistingKept, GetNewKept, GetSkipKept, GetKidKept, GetDoneKept DEF Get

\* Puts, also of the page copy thread.
LEMMA PutKept ==
    ASSUME LifeInv, NEW t \in All, Put(t)
    PROVE  LifeInv'
<1>1. ~ PutGone(t)
  <2> SUFFICES ASSUME loc[t].pc = "put", si[P] = NoInode PROVE FALSE
    BY DEF PutGone, At
  <2>1. CASE t = CopyThread
    BY <2>1, SMT DEF LifeInv, Counted, Serving
  <2>2. CASE t # CopyThread
    <3>1. t \in Procs
      BY <2>2 DEF All
    <3>2. loc[t].f \in open[t] \ plain[t] /\ loc[t].f \in Inodes
      BY <3>1 DEF LifeInv, Places, ProcAt, LifeTypes, PutPcs, CreatePcs, UnlinkPcs
    <3>3. <<t, loc[t].f>> \in Users
      BY <3>1, <3>2 DEF Users, Counts, PutPcs
    <3> QED BY <3>3 DEF LifeInv, Counted
  <2> QED BY <2>1, <2>2
<1> QED
  BY <1>1, PutUsedKept, PutLastKept, PutNoKidKept, PutKidLockKept, PutKidKept, PutDoneKept DEF Put

\* Steps of a call.
LEMMA StepKept ==
    ASSUME LifeInv, NEW t \in Procs, Step(t)
    PROVE  LifeInv'
<1>0. t \in All
  BY DEF All
<1>1. CASE OpenLock(t) \/ OpenDone(t) \/ Get(t)
  BY <1>1, OpenLockKept, OpenDoneKept, GetKept
<1>2. CASE CloseLock(t) \/ CloseDone(t) \/ Put(t)
  BY <1>0, <1>2, CloseLockKept, CloseDoneKept, PutKept
<1>3. CASE CreateLock(t) \/ CreateAttrs(t)
  BY <1>3, CreateLockKept, CreateAttrsKept
<1>4. CASE (\E e \in BOOLEAN : CreateRefused(t, e)) \/ CreateFails(t) \/ CreateOnQuiet(t)
  <2>1. /\ loc[t].pc \in {"create3", "create4"} /\ Drop(CreateLocks) /\ Go(t, Idle)
        /\ UNCHANGED <<attr, exists, si, open, plain, opens, copies>>
        /\ isChild' = isChild \/ (loc[t].pc = "create4" /\ isChild' = isChild \cup {loc[t].f})
    BY <1>4 DEF CreateRefused, CreateFails, CreateOnQuiet, At
  <2> QED BY <2>1, CreateEndKept
<1>5. CASE UnlinkLock(t) \/ UnlinkQuiet(t)
  BY <1>5, UnlinkLockKept, UnlinkQuietKept
<1>6. CASE WritebackDone(t)
  BY <1>6, WritebackKept
<1>7. ~ (CreateOnOpen(t) \/ UnlinkUsed(t))
  <2>1. loc[t].pc \in CreatePcs \cup UnlinkPcs => \A f \in Inodes : si[f] = NoInode
    BY InChange DEF NoneInUse
  <2>2. loc[t].pc = "unlink2" => loc[t].f \in Inodes
    BY InChange DEF UnlinkPcs, Inodes
  <2> QED BY <2>1, <2>2 DEF CreateOnOpen, UnlinkUsed, At, CreatePcs, UnlinkPcs, Inodes
<1>8. ~ (UnlinkPut(t) \/ UnlinkFree(t))
  <2>1. loc[t].pc \in Pcs
    BY <1>0 DEF LifeInv, LifeTypes, LocRec
  <2> QED BY <2>1 DEF UnlinkPut, UnlinkFree, At, Pcs
<1> QED BY <1>1, <1>2, <1>3, <1>4, <1>5, <1>6, <1>7, <1>8 DEF Step

\* The beginnings of calls: none strays.
LEMMA CallKept ==
    ASSUME LifeInv, strayed' = {}, NEW t \in Procs, Call(t) \/ CallInside(t)
    PROVE  LifeInv'
<1>1. CASE \E f \in Inodes : OpenPlain(t, f) \/ OpenStart(t, f)
  <2>1. ASSUME NEW f \in Inodes, OpenPlain(t, f) PROVE LifeInv'
    <3>1. MayPrepare
      BY <2>1 DEF OpenPlain, Note
    <3> QED BY <2>1, <3>1, OpenPlainKept
  <2>2. ASSUME NEW f \in Inodes, OpenStart(t, f) PROVE LifeInv'
    <3>1. MayUse
      BY <2>2 DEF OpenStart, Note
    <3> QED BY <2>2, <3>1, OpenStartKept
  <2> QED BY <1>1, <2>1, <2>2
<1>2. CASE \E c \in Children : CreateStart(t, c) \/ UnlinkStart(t, c)
  <2>1. ASSUME NEW c \in Children, CreateStart(t, c) PROVE LifeInv'
    <3>1. MayCreate(c)
      BY <2>1 DEF CreateStart, Note
    <3> QED BY <2>1, <3>1, CreateStartKept
  <2>2. ASSUME NEW c \in Children, UnlinkStart(t, c) PROVE LifeInv'
    <3>1. MayChange
      BY <2>2 DEF UnlinkStart, Note
    <3> QED BY <2>2, <3>1, UnlinkStartKept
  <2> QED BY <1>2, <2>1, <2>2
<1>3. CASE \E f \in Inodes : ClosePlain(t, f) \/ CloseStart(t, f)
  BY <1>3, ClosePlainKept, CloseStartKept
<1>4. CASE QueueCopy(t) \/ WritebackStart(t)
  BY <1>4, QueueCopyKept, WritebackKept
<1> QED BY <1>1, <1>2, <1>3, <1>4 DEF Call, CallInside

\* What has strayed stays noted, and the steps that fail are strays.
LEMMA StrayedGrows ==
    ASSUME [Next]_vars, strayed' = {}
    PROVE  strayed = {} /\ \A t \in Procs : ~ Fails(t)
<1>1. ASSUME NEW t \in Procs PROVE ~ Fails(t)
  BY DEF Fails, GetFails, GetKidFails, WritebackClean, Note
<1>2. ASSUME NEW t \in Procs, Call(t) PROVE strayed = {}
  BY <1>2 DEF Call, OpenPlain, OpenStart, CreateStart, UnlinkStart, Note
<1> QED BY <1>1, <1>2, ZenonT(60) DEF Next, vars

\* Every step keeps the invariant.
LEMMA NextLife ==
    ASSUME LifeInv, [Next]_vars, strayed' = {}
    PROVE  LifeInv'
<1>1. CASE \E t \in Procs : Call(t) \/ CallInside(t) \/ Step(t)
  BY <1>1, CallKept, StepKept
<1>2. CASE CopyStep
  <2>1. CopyThread \in All
    BY DEF All
  <2> QED BY <1>2, <2>1, ServeCopyKept, ServeDoneKept, PutKept DEF CopyStep
<1>3. CASE UNCHANGED vars
  <2>1. UNCHANGED <<attr, isChild, exists, si, open, plain, opens, copies, lk, loc>>
    BY <1>3, ZenonT(60) DEF vars, lifeVars
  <2>2. LifeTypes' /\ Places' /\ LocksHeld'
    BY <2>1, SMT DEF LifeInv, LifeTypes, Places, ProcAt, ThreadAt, LocksHeld, MayHold
  <2>3. Users' = Users /\ \A f \in Inodes : OpenedBy(f)' = OpenedBy(f)
    BY <2>1, ZenonT(60) DEF Users, OpenedBy, Counts, Opened
  <2>4. Counted' /\ Attached' /\ KidsOwned'
    <3>1. Counted'
      BY <2>1, <2>3, ZenonT(60) DEF LifeInv, Counted, Serving, Unused
    <3>2. Attached'
      BY <2>1, <2>3, ZenonT(60) DEF LifeInv, Attached, Ahead
    <3>3. KidsOwned'
      BY <2>1, <2>3, ZenonT(60) DEF LifeInv, KidsOwned
    <3> QED BY <3>1, <3>2, <3>3
  <2>5. Passes' /\ SlotOf' /\ Clones' /\ Changes'
    BY <2>1, <2>3 DEF LifeInv, Passes, SlotOf, Clones, Changes, NoneInUse
  <2> QED BY <2>2, <2>4, <2>5 DEF LifeInv
<1> QED BY <1>1, <1>2, <1>3, StrayedGrows DEF Next

\* The invariant of every run: LifeInv, until something strays.
QuietInv == strayed = {} => LifeInv

\* QuietInv holds of every run, for any number of processes, children and
\* slots.
THEOREM LifeInvariant == Spec => []QuietInv
<1>1. Init => QuietInv
  BY InitLife DEF QuietInv
<1>2. QuietInv /\ [Next]_vars => QuietInv'
  BY NextLife, StrayedGrows DEF QuietInv
<1> QED BY <1>1, <1>2, PTL DEF Spec

\* What is in use has a user.
LEMMA InUseCounts ==
    ASSUME LifeInv, NEW t \in Procs, NEW f \in InUse(t)
    PROVE  f \in Inodes /\ <<t, f>> \in Users
<1>1. f \in open[t] \ plain[t] /\ loc[t].f # f /\ f \in Inodes
  BY DEF InUse, LifeInv, LifeTypes
<1> QED BY <1>1 DEF Users, Counts

\* NoneLost: scorw inodes are there for all who use them, with all children
\* attached, until an allocation fails or a call comes in between.
THEOREM NoneLostHolds == Spec => []NoneLost
<1>1. ASSUME LifeInv PROVE NoneLost
  <2>1. (\E t \in Procs : InUse(t) # {}) \/ copies > 0 => si[P] # NoInode
    <3>1. ASSUME NEW t \in Procs, InUse(t) # {} PROVE si[P] # NoInode
      <4>1. PICK f \in InUse(t) : TRUE
        BY <3>1, ZenonT(60)
      <4> QED BY <1>1, <4>1, InUseCounts DEF LifeInv, Counted
    <3>2. copies > 0 => si[P] # NoInode
      BY <1>1, SMT DEF LifeInv, Counted
    <3> QED BY <3>1, <3>2
  <2>2. ASSUME NEW t \in Procs, P \in InUse(t), ~ (\E u \in All : At(u, "kids")),
               NEW i \in Slots, attr[i] # NoInode
        PROVE  /\ si[P].kids[i] = attr[i] /\ i <= si[P].last
               /\ si[attr[i]] # NoInode /\ si[attr[i]].at = i
    <3>1. ~ Ahead(i)
      BY <2>2 DEF Ahead, At, All
    <3>2. si[P] # NoInode
      BY <2>1, <2>2
    <3> QED BY <1>1, <2>2, <3>1, <3>2 DEF LifeInv, Attached
  <2> QED BY <2>1, <2>2 DEF NoneLost
<1>2. ASSUME strayed # {} PROVE NoneLost
  BY <1>2 DEF NoneLost
<1>3. QuietInv => NoneLost
  BY <1>1, <1>2 DEF QuietInv
<1> QED BY <1>3, LifeInvariant, PTL

\* NoneLeaks: when all is closed and served nothing is left, and no call
\* leaves a lock behind, until something strays.
THEOREM NoneLeaksHolds == Spec => []NoneLeaks
<1>1. ASSUME LifeInv PROVE NoneLeaks
  <2>1. ASSUME Settled, copies = 0, \A t \in Procs : open[t] = {}
        PROVE  NoneInUse /\ \A f \in Inodes : opens[f] = 0
    <3>1. \A t \in All : loc[t].pc = "idle"
      BY <2>1 DEF Settled, At
    <3>2. Users = {} /\ Serving = 0 /\ \A f \in Inodes : OpenedBy(f) = {}
      BY <2>1, <3>1 DEF Users, Counts, OpenedBy, Opened, Serving, All
    <3>3. si[P] = NoInode
      <4> SUFFICES ASSUME si[P] # NoInode PROVE FALSE
        OBVIOUS
      <4>1. /\ Numbers({}, si[P].usage) /\ si[P].added = si[P].removed + 0 + 0
            /\ ~ Unused(si[P])
        BY <1>1, <2>1, <3>2 DEF LifeInv, Counted
      <4>2. si[P].removed \in Nat
        BY <1>1 DEF LifeInv, LifeTypes, Inodes, ScorwRec
      <4> QED BY <4>1, <4>2, NumbersZero, SMT DEF Unused
    <3>4. \A c \in Children : si[c] = NoInode
      BY <1>1, <3>1, <3>3 DEF LifeInv, KidsOwned, PutPcs
    <3>5. \A f \in Inodes : opens[f] = 0
      BY <1>1, <3>2, NumbersZero DEF LifeInv, Counted
    <3> QED BY <3>3, <3>4, <3>5 DEF NoneInUse, Inodes
  <2>2. ASSUME NEW t \in All, At(t, "idle") PROVE Held(t) = {}
    BY <1>1, <2>2, HoldsNone DEF LifeInv, At, Held
  <2> QED BY <2>1, <2>2 DEF NoneLeaks
<1>2. ASSUME strayed # {} PROVE NoneLeaks
  BY <1>2 DEF NoneLeaks
<1>3. QuietInv => NoneLeaks
  BY <1>1, <1>2 DEF QuietInv
<1> QED BY <1>3, LifeInvariant, PTL

-----------------------------------------------------------------------------
(* Multiple mount protection: the invariant.                               *)

\* States of a node, and what it keeps.
MpStates ==
    {"down", "hung", "first", "own", "second", "update", "writing", "sleep", "leaving"}

MpNode ==
    [st: MpStates, seq: Int, buf: Int, t: Nat, wt: Nat, age: Nat, check: Nat]

\* How long a mounted node may take to write the block.
Deadline(m) ==
    IF m.st = "update" THEN Late
    ELSE IF m.st = "sleep" THEN m.t + Late
    ELSE m.t

\* The states of a mounted node.
Up(m) == m.st \in {"update", "writing", "sleep", "leaving"}

\* The states of a node that writes the block without waiting first: a mounted
\* one, and a mount that found the block clean.
Bids(m) == Up(m) \/ (m.st = "own" /\ m.wt = 0)

\* The longest time between two writes.
Gap == UPDATE_INTERVAL + Over + Late

\* Types.
MpTypes ==
    /\ mnode \in [MpNodes -> MpNode]
    /\ mblk \in [seq: Int, node: Int, check: Nat]

\* What a node knows of its own numbers and times.
OwnState(n, m) ==
    /\ m.st = "second" => m.seq \in {10 * n, 10 * n + 1}
    /\ Up(m) => m.seq \in 0..SEQ_MAX /\ Deadline(m) <= Gap
    /\ m.st \in {"writing", "leaving", "own"} => m.t <= Late
    /\ m.st = "update" => m.t = 0
    /\ m.st = "first" => m.wt > Gap
    /\ m.st = "own" => m.wt = 0 \/ m.wt > Gap

\* A mount that found the block clean and skips its waits is the only one to do
\* so, and nobody is mounted.
Skipping ==
    \A n \in MpNodes : Skips(n) =>
        \A k \in MpNodes : ~ Up(mnode[k]) /\ (Skips(k) => k = n)

\* A clean block means that nobody is mounted.
CleanFree == mblk.seq = SEQ_CLEAN => \A n \in MpNodes : ~ Up(mnode[n])

\* A node that writes the block without waiting does so before a mount that
\* still finds its own number there looks for the second time.
Overwrites ==
    \A a, b \in MpNodes :
        Bids(mnode[a]) /\ mnode[b].st = "second" /\ mblk.seq = mnode[b].seq =>
            mnode[b].t > Deadline(mnode[a])

\* The property itself.
OneUp == \A a, b \in MpNodes : Up(mnode[a]) /\ Up(mnode[b]) => a = b

\* What holds while no two mounts have skipped the wait together and every
\* write of a mounted node has reached the block.
MpSafe ==
    /\ MpTypes
    /\ \A n \in MpNodes : OwnState(n, mnode[n])
    /\ Skipping /\ CleanFree /\ Overwrites /\ OneUp

\* The inductive invariant of the protection.
MpInv == mseen = {} => MpSafe

-----------------------------------------------------------------------------
(* Numbers.                                                                *)

\* The largest of two numbers.
LEMMA MaxTwo ==
    ASSUME NEW a \in Int, NEW b \in Int
    PROVE  Max({a, b}) = IF a >= b THEN a ELSE b
<1> DEFINE c == IF a >= b THEN a ELSE b
<1>1. c \in {a, b} /\ \A y \in {a, b} : c >= y
  BY SMT
<1>2. \A x \in {a, b} : (\A y \in {a, b} : x >= y) => x = c
  BY SMT
<1> QED BY <1>1, <1>2 DEF Max

\* The largest of three numbers.
LEMMA MaxThree ==
    ASSUME NEW a \in Int, NEW b \in Int, NEW c \in Int
    PROVE  /\ Max({a, b, c}) \in {a, b, c}
           /\ Max({a, b, c}) >= a /\ Max({a, b, c}) >= b /\ Max({a, b, c}) >= c
<1>1. \E x \in {a, b, c} : \A y \in {a, b, c} : x >= y
  <2>1. CASE a >= b /\ a >= c
    BY <2>1, SMT
  <2>2. CASE b >= a /\ b >= c
    BY <2>2, SMT
  <2>3. CASE c >= a /\ c >= b
    BY <2>3, SMT
  <2> QED BY <2>1, <2>2, <2>3, SMT
<1>2. /\ Max({a, b, c}) \in {a, b, c}
      /\ \A y \in {a, b, c} : Max({a, b, c}) >= y
  BY <1>1 DEF Max
<1> QED BY <1>2

\* The smallest of two numbers.
LEMMA MinTwo ==
    ASSUME NEW a \in Int, NEW b \in Int
    PROVE  Min({a, b}) = IF a <= b THEN a ELSE b
<1> DEFINE c == IF a <= b THEN a ELSE b
<1>1. c \in {a, b} /\ \A y \in {a, b} : c <= y
  BY SMT
<1>2. \A x \in {a, b} : (\A y \in {a, b} : x <= y) => x = c
  BY SMT
<1> QED BY <1>1, <1>2 DEF Min

\* The constants are numbers.
LEMMA MpNumbers ==
    /\ UPDATE_INTERVAL \in Nat /\ MIN_CHECK \in Nat /\ MAX_CHECK \in Nat
    /\ Late \in Nat /\ Over \in Nat /\ SEQ_MAX \in 1..9 /\ Gap \in Nat
    /\ \A n \in MpNodes : n \in Nat /\ n > 0
  BY MpAssumption, SMT DEF Gap

\* A mount that waits, waits longer than the time between two writes, whatever
\* check interval the block asks for.
LEMMA WaitsLonger ==
    ASSUME NEW c \in Nat
    PROVE  LET w == WaitTime(Max({UPDATE_INTERVAL, MIN_CHECK, c})) IN w \in Nat /\ w > Gap
<1> DEFINE u == Max({UPDATE_INTERVAL, MIN_CHECK})
           v == Max({UPDATE_INTERVAL, MIN_CHECK, c})
<1>1. u \in Nat /\ v \in Nat /\ v >= u
  <2>1. u \in Nat /\ u \in {UPDATE_INTERVAL, MIN_CHECK}
    BY MpNumbers, MaxTwo, SMT
  <2>2. /\ v \in {UPDATE_INTERVAL, MIN_CHECK, c}
        /\ v >= UPDATE_INTERVAL /\ v >= MIN_CHECK
    BY MpNumbers, MaxThree, SMT
  <2> HIDE DEF u, v
  <2> QED BY <2>1, <2>2, MpNumbers
<1>2. WaitTime(u) > Gap
  BY MpAssumption DEF Gap
<1> HIDE DEF u, v
<1>3. /\ WaitTime(u) = IF u * 2 + 1 <= u + 60 THEN u * 2 + 1 ELSE u + 60
      /\ WaitTime(v) = IF v * 2 + 1 <= v + 60 THEN v * 2 + 1 ELSE v + 60
  BY <1>1, MinTwo, SMT DEF WaitTime
<1>4. WaitTime(v) \in Nat /\ WaitTime(v) > Gap
  BY <1>1, <1>2, <1>3, MpNumbers, SMT
<1> QED BY <1>4 DEF v

-----------------------------------------------------------------------------
(* One node changes and the block stays.                                   *)

\* The invariant stays when one node takes a step that does not make it mounted
\* or begin a mount, and does not put its next write off.
LEMMA NodeStep ==
    ASSUME MpSafe, NEW n \in MpNodes, NEW f \in MpNode, MpTo(n, f), UNCHANGED mblk,
           OwnState(n, f), f.st # "second",
           Up(f) => Up(mnode[n]) /\ Deadline(f) <= Deadline(mnode[n]),
           f.st \in {"first", "own"} => mnode[n].st = "first" /\ f.wt = mnode[n].wt
    PROVE  MpSafe'
<1>1. /\ mnode' \in [MpNodes -> MpNode] /\ mnode'[n] = f
      /\ \A k \in MpNodes : k # n => mnode'[k] = mnode[k]
  BY DEF MpSafe, MpTypes, MpTo
<1>2. MpTypes'
  BY <1>1 DEF MpSafe, MpTypes
<1>3. \A k \in MpNodes : OwnState(k, mnode'[k])
  BY <1>1 DEF MpSafe
<1>31. \A k \in MpNodes : Bids(mnode'[k]) => Bids(mnode[k])
  <2>1. f.st = "own" => f.wt # 0
    BY MpNumbers, SMT DEF MpSafe, OwnState, MpTypes, MpNode
  <2> QED BY <1>1, <2>1 DEF Bids
<1>32. \A k \in MpNodes : (Up(mnode'[k]) => Up(mnode[k])) /\ (Skips(k)' => Skips(k))
  <2>1. f.st = "own" => f.wt # 0
    BY MpNumbers, SMT DEF MpSafe, OwnState, MpTypes, MpNode
  <2> QED BY <1>1, <2>1 DEF Skips
<1>4. Skipping'
  BY <1>32 DEF MpSafe, Skipping
<1>5. CleanFree'
  BY <1>1 DEF MpSafe, CleanFree
<1>6. Overwrites'
  <2>0. f.st = "own" => f.wt # 0
    BY MpNumbers, SMT DEF MpSafe, OwnState, MpTypes, MpNode
  <2>1. \A k \in MpNodes : /\ Deadline(mnode'[k]) \in Int /\ Deadline(mnode[k]) \in Int
                           /\ Bids(mnode'[k]) => Deadline(mnode'[k]) <= Deadline(mnode[k])
    BY <1>1, <2>0, MpNumbers, SMT DEF MpSafe, MpTypes, MpNode, Deadline, Bids
  <2>2. \A k \in MpNodes : mnode'[k].st = "second" => mnode'[k] = mnode[k] /\ mnode[k].t \in Nat
    BY <1>1 DEF MpSafe, MpTypes, MpNode
  <2> QED BY <1>31, <2>1, <2>2, SMT DEF MpSafe, Overwrites
<1>7. OneUp'
  BY <1>1 DEF MpSafe, OneUp
<1> QED BY <1>2, <1>3, <1>4, <1>5, <1>6, <1>7 DEF MpSafe

\* The parts of the invariant after a step of one node.
LEMMA NodeTypes ==
    ASSUME MpSafe, NEW n \in MpNodes, NEW f \in MpNode, MpTo(n, f),
           mblk' \in [seq: Int, node: Int, check: Nat], OwnState(n, f)
    PROVE  /\ MpTypes' /\ mnode'[n] = f
           /\ \A k \in MpNodes : k # n => mnode'[k] = mnode[k]
           /\ \A k \in MpNodes : OwnState(k, mnode'[k])
<1>1. /\ mnode' \in [MpNodes -> MpNode] /\ mnode'[n] = f
      /\ \A k \in MpNodes : k # n => mnode'[k] = mnode[k]
  BY DEF MpSafe, MpTypes, MpTo
<1> QED BY <1>1 DEF MpSafe, MpTypes

\* A node that is down.
LEMMA DownOk ==
    /\ DownNode \in MpNode /\ DownNode.st = "down" /\ ~ Up(DownNode)
    /\ \A n \in MpNodes : OwnState(n, DownNode)
<1>1. "down" \in MpStates /\ 0 \in Nat /\ 0 \in Int
  BY SMT DEF MpStates
<1>2. DownNode \in MpNode
  BY <1>1, ZenonT(60) DEF DownNode, MpNode
<1> QED BY <1>2 DEF DownNode, Up, OwnState

\* A node that writes without waiting has a deadline.
LEMMA BidDeadline ==
    ASSUME MpSafe, NEW a \in MpNodes, Bids(mnode[a])
    PROVE  Deadline(mnode[a]) \in Nat /\ Deadline(mnode[a]) <= Gap
  BY MpNumbers, SMT DEF MpSafe, MpTypes, MpNode, Deadline, OwnState, Bids, Gap

-----------------------------------------------------------------------------
(* The mount.                                                              *)

\* A mount reads the block.
LEMMA ReadKept ==
    ASSUME MpSafe, NEW n \in MpNodes, mmp_read(n), mseen' = {}
    PROVE  MpSafe'
<1> DEFINE w == WaitTime(Max({UPDATE_INTERVAL, MIN_CHECK, mblk.check}))
<1>1. w \in Nat /\ w > Gap /\ Gap \in Nat
  BY WaitsLonger, MpNumbers DEF MpSafe, MpTypes
<1>2. /\ mnode[n].st = "down" /\ mblk' = mblk
      /\ mblk.seq = SEQ_CLEAN => \A k \in MpNodes : ~ Skips(k)
  BY DEF mmp_read
<1>3. mblk.seq \in Int /\ mblk.check \in Nat /\ mblk.node \in Int
  BY DEF MpSafe, MpTypes
<1>4. \E f \in MpNode :
         /\ MpTo(n, f) /\ OwnState(n, f) /\ ~ Up(f) /\ f.st \in {"first", "own"}
         /\ f.st = "own" => f.wt = 0 /\ mblk.seq = SEQ_CLEAN
         /\ f.st = "first" => mblk.seq # SEQ_CLEAN
  <2> DEFINE m == [DownNode EXCEPT !.seq = mblk.seq, !.check = mblk.check, !.buf = mblk.node]
  <2>0. m \in MpNode
    BY <1>3, DownOk, ZenonT(60) DEF MpNode
  <2>1. CASE mblk.seq = SEQ_CLEAN
    <3>1. PICK d \in 0..Late : MpTo(n, [m EXCEPT !.st = "own", !.t = d])
      BY <2>1 DEF mmp_read
    <3> DEFINE f == [m EXCEPT !.st = "own", !.t = d]
    <3>2. "own" \in MpStates /\ d \in Nat
      BY MpNumbers, SMT DEF MpStates
    <3>3. MpTo(n, f) /\ f \in MpNode
      BY <3>1, <3>2, <2>0, ZenonT(60) DEF MpNode
    <3>4. f.st = "own" /\ f.wt = 0 /\ f.t = d
      BY DEF DownNode
    <3> HIDE DEF f
    <3>50. f.t <= Late
      BY <3>4, MpNumbers, SMT
    <3>5. OwnState(n, f) /\ ~ Up(f)
      BY <3>4, <3>50 DEF OwnState, Up
    <3> QED BY <3>3, <3>4, <3>5, <2>1
  <2>2. CASE mblk.seq # SEQ_CLEAN
    <3> DEFINE f == [m EXCEPT !.st = "first", !.t = w, !.wt = w]
    <3>1. MpTo(n, f)
      BY <2>2 DEF mmp_read
    <3> HIDE DEF w
    <3>2. "first" \in MpStates
      BY DEF MpStates
    <3>3. f \in MpNode
      BY <1>1, <2>0, <3>2, ZenonT(60) DEF MpNode
    <3>4. f.st = "first" /\ f.wt = w
      BY DEF DownNode
    <3> HIDE DEF f
    <3>5. OwnState(n, f) /\ ~ Up(f)
      BY <3>4, <1>1 DEF OwnState, Up
    <3> QED BY <3>1, <3>3, <3>4, <3>5, <2>2
  <2> QED BY <2>1, <2>2
<1>5. PICK f \in MpNode :
         /\ MpTo(n, f) /\ OwnState(n, f) /\ ~ Up(f) /\ f.st \in {"first", "own"}
         /\ f.st = "own" => f.wt = 0 /\ mblk.seq = SEQ_CLEAN
         /\ f.st = "first" => mblk.seq # SEQ_CLEAN
  BY <1>4
<1>6. /\ MpTypes' /\ mnode'[n] = f
      /\ \A k \in MpNodes : k # n => mnode'[k] = mnode[k]
      /\ \A k \in MpNodes : OwnState(k, mnode'[k])
  BY <1>2, <1>5, NodeTypes DEF MpSafe, MpTypes
<1>60. /\ \A k \in MpNodes : Up(mnode'[k]) => Up(mnode[k])
       /\ \A k \in MpNodes : Skips(k)' => Skips(k) \/ (k = n /\ f.st = "own")
  BY <1>5, <1>6 DEF Skips
<1>7. Skipping'
  BY <1>2, <1>5, <1>60 DEF MpSafe, Skipping, CleanFree
<1>8. CleanFree'
  BY <1>2, <1>5, <1>6 DEF MpSafe, CleanFree
<1>9. Overwrites'
  <2> SUFFICES ASSUME NEW a \in MpNodes, NEW b \in MpNodes,
                      Bids(mnode'[a]), mnode'[b].st = "second", mblk'.seq = mnode'[b].seq
               PROVE  mnode'[b].t > Deadline(mnode'[a])
    BY DEF Overwrites
  <2>1. b # n /\ mnode'[b] = mnode[b]
    BY <1>5, <1>6
  <2>2. CASE a = n
    <3>1. mblk.seq = SEQ_CLEAN
      BY <1>5, <1>6, <2>2 DEF Bids
    <3>2. mnode[b].seq \in {10 * b, 10 * b + 1} /\ b \in Nat
      BY <2>1, MpNumbers DEF MpSafe, OwnState
    <3> QED BY <1>2, <2>1, <3>1, <3>2, SMT DEF SEQ_CLEAN
  <2>3. CASE a # n
    BY <1>2, <1>6, <2>1, <2>3 DEF MpSafe, Overwrites
  <2> QED BY <2>2, <2>3
<1>10. OneUp'
  BY <1>2, <1>5, <1>6 DEF MpSafe, OneUp
<1> QED BY <1>6, <1>7, <1>8, <1>9, <1>10 DEF MpSafe

\* The first look at the block: another number there ends the mount.
LEMMA FirstCheckKept ==
    ASSUME MpSafe, NEW n \in MpNodes, mmp_first_check(n)
    PROVE  MpSafe'
<1>1. mnode[n].st = "first" /\ mnode[n] \in MpNode /\ mblk' = mblk /\ mblk.check \in Nat
  BY DEF MpSafe, MpTypes, mmp_first_check, TimedOut
<1>2. CASE Refused(n)
  <2>1. MpTo(n, DownNode)
    BY <1>2 DEF mmp_first_check
  <2> QED BY <1>1, <2>1, DownOk, NodeStep
<1>3. CASE ~ Refused(n)
  <2>1. PICK d \in 0..Late :
           MpTo(n, [mnode[n] EXCEPT !.st = "own", !.t = d, !.check = mblk.check])
    BY <1>3 DEF mmp_first_check
  <2> DEFINE m == mnode[n]
             f == [m EXCEPT !.st = "own", !.t = d, !.check = mblk.check]
  <2>2. "own" \in MpStates /\ d \in Nat
    BY MpNumbers, SMT DEF MpStates
  <2>3. MpTo(n, f) /\ f \in MpNode
    BY <1>1, <2>1, <2>2, ZenonT(60) DEF MpNode
  <2>4. f.st = "own" /\ f.wt = mnode[n].wt /\ f.t = d
    BY <1>1 DEF MpNode
  <2> HIDE DEF f
  <2>50. f.t <= Late
    BY <2>4, MpNumbers, SMT
  <2>5. OwnState(n, f) /\ ~ Up(f)
    BY <2>4, <2>50, <1>1 DEF MpSafe, OwnState, Up
  <2> QED BY <1>1, <2>3, <2>4, <2>5, NodeStep
<1> QED BY <1>2, <1>3

\* The number of its own: only the mount itself can find it there.
LEMMA WriteSeqKept ==
    ASSUME MpSafe, NEW n \in MpNodes, mmp_write_seq(n)
    PROVE  MpSafe'
<1> DEFINE seq == 10 * n + (IF mblk.seq = 10 * n THEN 1 ELSE 0)
           m == mnode[n]
           f == [m EXCEPT !.st = "second", !.t = m.wt, !.seq = seq]
<1>1. m \in MpNode /\ m.st = "own" /\ n \in Nat /\ n > 0 /\ seq \in {10 * n, 10 * n + 1}
  BY MpNumbers, SMT DEF MpSafe, MpTypes, mmp_write_seq, TimedOut
<1>2. "second" \in MpStates /\ seq \in Int /\ m.wt \in Nat
  BY <1>1, SMT DEF MpStates, MpNode
<1>3. MpTo(n, f) /\ mblk' = [seq |-> seq, node |-> m.buf, check |-> m.check]
  BY DEF mmp_write_seq
<1> HIDE DEF seq
<1>4. f \in MpNode /\ f.st = "second" /\ f.seq = seq /\ f.t = m.wt
  <2>1. f \in MpNode
    BY <1>1, <1>2, ZenonT(60) DEF MpNode
  <2>2. f.st = "second" /\ f.seq = seq /\ f.t = m.wt
    BY <1>1 DEF MpNode
  <2> QED BY <2>1, <2>2
<1> HIDE DEF f
<1>5. OwnState(n, f) /\ ~ Up(f)
  BY <1>1, <1>4 DEF OwnState, Up
<1>6. mblk' \in [seq: Int, node: Int, check: Nat] /\ mblk'.seq = seq
  BY <1>1, <1>3, SMT DEF MpNode
<1>7. /\ MpTypes' /\ mnode'[n] = f
      /\ \A k \in MpNodes : k # n => mnode'[k] = mnode[k]
      /\ \A k \in MpNodes : OwnState(k, mnode'[k])
  BY <1>3, <1>4, <1>5, <1>6, NodeTypes
<1>70. \A k \in MpNodes :
          /\ Up(mnode'[k]) => Up(mnode[k])
          /\ Skips(k)' => Skips(k)
  BY <1>4, <1>5, <1>7 DEF Skips
<1>8. Skipping'
  BY <1>70 DEF MpSafe, Skipping
<1>9. CleanFree'
  BY <1>1, <1>6, SMT DEF CleanFree, SEQ_CLEAN
<1>10. Overwrites'
  <2> SUFFICES ASSUME NEW a \in MpNodes, NEW b \in MpNodes,
                      Bids(mnode'[a]), mnode'[b].st = "second", mblk'.seq = mnode'[b].seq
               PROVE  mnode'[b].t > Deadline(mnode'[a])
    BY DEF Overwrites
  <2>1. a # n /\ mnode'[a] = mnode[a]
    BY <1>4, <1>5, <1>7 DEF Bids
  <2>2. b = n
    <3>1. mnode'[b].seq \in {10 * b, 10 * b + 1} /\ b \in Nat
      BY <1>7, MpNumbers DEF OwnState
    <3> QED BY <1>1, <1>6, <3>1, SMT
  <2>3. ~ Skips(n)
    BY <2>1 DEF MpSafe, Skipping, Bids, Skips
  <2>4. m.wt > Gap
    BY <1>1, <2>3 DEF MpSafe, OwnState, Skips
  <2>5. Deadline(mnode[a]) \in Nat /\ Deadline(mnode[a]) <= Gap
    BY <2>1, BidDeadline
  <2> QED BY <1>1, <1>4, <1>7, <2>1, <2>2, <2>4, <2>5, MpNumbers, SMT DEF MpNode
<1>11. OneUp'
  BY <1>5, <1>7 DEF MpSafe, OneUp
<1> QED BY <1>7, <1>8, <1>9, <1>10, <1>11 DEF MpSafe

\* The second look finds the mount's own number: nobody is mounted.
LEMMA SecondCheckKept ==
    ASSUME MpSafe, NEW n \in MpNodes, mmp_second_check(n)
    PROVE  MpSafe'
<1>1. /\ mnode[n].st = "second" /\ mnode[n].t = 0 /\ mnode[n] \in MpNode /\ mblk' = mblk
      /\ mnode[n].seq \in {10 * n, 10 * n + 1} /\ n \in Nat /\ n > 0
  BY MpNumbers DEF MpSafe, MpTypes, mmp_second_check, TimedOut, OwnState
<1>2. CASE Refused(n)
  <2>1. MpTo(n, DownNode)
    BY <1>2 DEF mmp_second_check
  <2> QED BY <1>1, <2>1, DownOk, NodeStep
<1>3. CASE ~ Refused(n)
  <2> DEFINE c == Max({CHECK_MULT * UPDATE_INTERVAL, MIN_CHECK})
             f == [DownNode EXCEPT !.st = "update", !.check = c]
  <2>1. MpTo(n, f) /\ mblk.seq = mnode[n].seq
    BY <1>3 DEF mmp_second_check, Refused
  <2>2. c \in Nat
    BY MpNumbers, MaxTwo, SMT DEF CHECK_MULT
  <2> HIDE DEF c
  <2>3. "update" \in MpStates
    BY DEF MpStates
  <2>4. f \in MpNode /\ f.st = "update" /\ f.seq = 0 /\ f.t = 0
    <3>1. f \in MpNode
      BY <2>2, <2>3, DownOk, ZenonT(60) DEF MpNode
    <3> QED BY <3>1 DEF DownNode
  <2> HIDE DEF f
  <2>5. OwnState(n, f) /\ Up(f)
    BY <2>4, MpNumbers, SMT DEF OwnState, Up, Deadline, Gap
  <2>6. /\ MpTypes' /\ mnode'[n] = f
        /\ \A k \in MpNodes : k # n => mnode'[k] = mnode[k]
        /\ \A k \in MpNodes : OwnState(k, mnode'[k])
    BY <1>1, <2>1, <2>4, <2>5, NodeTypes DEF MpSafe, MpTypes
  <2>7. \A a \in MpNodes : ~ Bids(mnode[a])
    <3> SUFFICES ASSUME NEW a \in MpNodes, Bids(mnode[a]) PROVE FALSE
      OBVIOUS
    <3>1. 0 > Deadline(mnode[a])
      BY <1>1, <2>1 DEF MpSafe, Overwrites
    <3> QED BY <3>1, BidDeadline, SMT
  <2>8. Skipping'
    BY <2>4, <2>6, <2>7 DEF Skipping, Skips, Bids
  <2>9. CleanFree'
    BY <1>1, <2>1, SMT DEF CleanFree, SEQ_CLEAN
  <2>10. Overwrites'
    <3> SUFFICES ASSUME NEW b \in MpNodes, mnode'[b].st = "second", mblk'.seq = mnode'[b].seq
                 PROVE  FALSE
      BY DEF Overwrites
    <3>1. b = n
      BY <1>1, <2>1, <2>6, MpNumbers, SMT DEF OwnState
    <3> QED BY <3>1, <2>4, <2>6
  <2>11. OneUp'
    BY <2>6, <2>7 DEF OneUp, Bids
  <2> QED BY <2>6, <2>8, <2>9, <2>10, <2>11 DEF MpSafe
<1> QED BY <1>2, <1>3

-----------------------------------------------------------------------------
(* kmmpd.                                                                  *)

\* A mounted node begins to write the block.
LEMMA KmmpdWriteKept ==
    ASSUME MpSafe, NEW n \in MpNodes, kmmpd_write(n)
    PROVE  MpSafe'
<1> DEFINE m == mnode[n]
<1>1. m.st = "update" /\ m \in MpNode /\ mblk' = mblk /\ m.seq \in 0..SEQ_MAX
  BY DEF MpSafe, MpTypes, kmmpd_write, TimedOut, OwnState, Up
<1>2. PICK d \in 0..Late :
         MpTo(n, [m EXCEPT !.st = "writing", !.seq = (m.seq % SEQ_MAX) + 1, !.t = d, !.age = 0])
  BY DEF kmmpd_write
<1> DEFINE s == (m.seq % SEQ_MAX) + 1
           f == [m EXCEPT !.st = "writing", !.seq = s, !.t = d, !.age = 0]
<1>3. s \in 0..SEQ_MAX
  BY <1>1, MpNumbers, SMT
<1>4. MpTo(n, f)
  BY <1>2
<1>5. "writing" \in MpStates /\ s \in Int /\ d \in Nat /\ 0 \in Nat
  BY <1>3, MpNumbers, SMT DEF MpStates
<1> HIDE DEF s
<1>6. f \in MpNode /\ f.st = "writing" /\ f.seq = s /\ f.t = d
  <2>1. f \in MpNode
    BY <1>1, <1>5, ZenonT(60) DEF MpNode
  <2>2. f.st = "writing" /\ f.seq = s /\ f.t = d
    BY <1>1 DEF MpNode
  <2> QED BY <2>1, <2>2
<1> HIDE DEF f
<1>7. OwnState(n, f) /\ Up(f) /\ Up(m) /\ Deadline(f) <= Deadline(m)
  BY <1>1, <1>3, <1>6, MpNumbers, SMT DEF OwnState, Up, Deadline, Gap
<1> QED BY <1>1, <1>4, <1>6, <1>7, NodeStep

\* After the write no other mount finds its own number in the block.
LEMMA KmmpdWrittenKept ==
    ASSUME MpSafe, NEW n \in MpNodes, kmmpd_written(n), mseen' = {}
    PROVE  MpSafe'
<1> DEFINE m == mnode[n]
           rest == UPDATE_INTERVAL - m.age
<1>0. Wrote(n, m.seq)
  BY DEF kmmpd_written
<1>1. /\ m.st = "writing" /\ m \in MpNode /\ m.seq \in 0..SEQ_MAX /\ n \in Nat
      /\ mblk' = [seq |-> m.seq, node |-> n, check |-> m.check] /\ Up(m)
  BY <1>0, MpNumbers DEF MpSafe, MpTypes, kmmpd_written, TimedOut, Wrote, OwnState, Up
<1>2. PICK o \in 0..Over :
         MpTo(n, [m EXCEPT !.st = "sleep", !.t = IF rest > 0 THEN rest + o ELSE 0])
  BY DEF kmmpd_written, SleepRest
<1> DEFINE d == IF rest > 0 THEN rest + o ELSE 0
           f == [m EXCEPT !.st = "sleep", !.t = d]
<1>3. d \in Nat /\ d <= UPDATE_INTERVAL + Over
  BY <1>1, MpNumbers, SMT DEF MpNode
<1>4. MpTo(n, f)
  BY <1>2
<1>5. "sleep" \in MpStates
  BY DEF MpStates
<1> HIDE DEF d
<1>6. f \in MpNode /\ f.st = "sleep" /\ f.seq = m.seq /\ f.t = d
  <2>1. f \in MpNode
    BY <1>1, <1>3, <1>5, ZenonT(60) DEF MpNode
  <2>2. f.st = "sleep" /\ f.seq = m.seq /\ f.t = d
    BY <1>1 DEF MpNode
  <2> QED BY <2>1, <2>2
<1> HIDE DEF f
<1>7. OwnState(n, f) /\ Up(f)
  BY <1>1, <1>3, <1>6, MpNumbers, SMT DEF OwnState, Up, Deadline, Gap
<1>8. mblk' \in [seq: Int, node: Int, check: Nat] /\ mblk'.seq = m.seq
  BY <1>1, MpNumbers, SMT DEF MpNode
<1>9. /\ MpTypes' /\ mnode'[n] = f
      /\ \A k \in MpNodes : k # n => mnode'[k] = mnode[k]
      /\ \A k \in MpNodes : OwnState(k, mnode'[k])
  BY <1>4, <1>6, <1>7, <1>8, NodeTypes
<1>10. Skipping'
  BY <1>1, <1>6, <1>9 DEF MpSafe, Skipping, Skips
<1>11. CleanFree'
  BY <1>1, <1>8, MpNumbers, SMT DEF CleanFree, SEQ_CLEAN
<1>12. Overwrites'
  <2> SUFFICES ASSUME NEW b \in MpNodes, mnode'[b].st = "second", mblk'.seq = mnode'[b].seq
               PROVE  FALSE
    BY DEF Overwrites
  <2> QED BY <1>1, <1>8, <1>9, MpNumbers, SMT DEF OwnState
<1>13. OneUp'
  BY <1>1, <1>9 DEF MpSafe, OneUp
<1> QED BY <1>9, <1>10, <1>11, <1>12, <1>13 DEF MpSafe

\* A mounted node looks whether the block is as it left it.
LEMMA KmmpdCheckKept ==
    ASSUME MpSafe, NEW n \in MpNodes, kmmpd_check(n)
    PROVE  MpSafe'
<1> DEFINE m == mnode[n]
           lost == m.age > m.check /\ (mblk.seq # m.seq \/ mblk.node # n)
           c == Max({Min({CHECK_MULT * m.age, MAX_CHECK}), MIN_CHECK})
<1>1. /\ m.st = "sleep" /\ m.t = 0 /\ m \in MpNode /\ mblk' = mblk
      /\ m.seq \in 0..SEQ_MAX /\ Up(m)
  BY DEF MpSafe, MpTypes, kmmpd_check, TimedOut, OwnState, Up
<1>2. MpTo(n, IF lost THEN [DownNode EXCEPT !.st = "hung"] ELSE [m EXCEPT !.st = "update", !.check = c])
  BY DEF kmmpd_check
<1>3. c \in Nat
  <2> DEFINE e == Min({CHECK_MULT * m.age, MAX_CHECK})
  <2>1. CHECK_MULT * m.age \in Nat
    BY <1>1, SMT DEF CHECK_MULT, MpNode
  <2>2. e \in Nat
    BY <2>1, MpNumbers, MinTwo, SMT
  <2> HIDE DEF e
  <2>3. Max({e, MIN_CHECK}) \in Nat
    BY <2>2, MpNumbers, MaxTwo, SMT
  <2> QED BY <2>3 DEF e
<1>4. CASE lost
  <2> DEFINE f == [DownNode EXCEPT !.st = "hung"]
  <2>1. MpTo(n, f)
    BY <1>2, <1>4
  <2>2. "hung" \in MpStates
    BY DEF MpStates
  <2>3. f \in MpNode /\ f.st = "hung"
    <3>1. f \in MpNode
      BY <2>2, DownOk, ZenonT(60) DEF MpNode
    <3> QED BY <3>1 DEF DownNode
  <2> HIDE DEF f
  <2>4. OwnState(n, f) /\ ~ Up(f)
    BY <2>3 DEF OwnState, Up
  <2> QED BY <1>1, <2>1, <2>3, <2>4, NodeStep
<1>5. CASE ~ lost
  <2> DEFINE f == [m EXCEPT !.st = "update", !.check = c]
  <2>1. MpTo(n, f)
    BY <1>2, <1>5
  <2>2. "update" \in MpStates
    BY DEF MpStates
  <2> HIDE DEF c
  <2>3. f \in MpNode /\ f.st = "update" /\ f.seq = m.seq /\ f.t = 0
    <3>1. f \in MpNode
      BY <1>1, <1>3, <2>2, ZenonT(60) DEF MpNode
    <3>2. f.st = "update" /\ f.seq = m.seq /\ f.t = 0
      BY <1>1 DEF MpNode
    <3> QED BY <3>1, <3>2
  <2> HIDE DEF f
  <2>4. OwnState(n, f) /\ Up(f) /\ Deadline(f) <= Deadline(m)
    BY <1>1, <2>3, MpNumbers, SMT DEF OwnState, Up, Deadline, Gap
  <2> QED BY <1>1, <2>1, <2>3, <2>4, NodeStep
<1> QED BY <1>4, <1>5

\* A mounted node is stopped.
LEMMA StopKept ==
    ASSUME MpSafe, NEW n \in MpNodes, stop_mmpd(n)
    PROVE  MpSafe'
<1> DEFINE m == mnode[n]
<1>1. m.st \in {"sleep", "hung"} /\ m \in MpNode /\ mblk' = mblk
  BY DEF MpSafe, MpTypes, stop_mmpd
<1>2. PICK d \in 0..Late :
         MpTo(n, IF m.st = "hung" THEN DownNode ELSE [m EXCEPT !.st = "leaving", !.t = d])
  BY DEF stop_mmpd
<1>3. CASE m.st = "hung"
  BY <1>1, <1>2, <1>3, DownOk, NodeStep
<1>4. CASE m.st = "sleep"
  <2> DEFINE f == [m EXCEPT !.st = "leaving", !.t = d]
  <2>1. MpTo(n, f)
    BY <1>2, <1>4
  <2>2. "leaving" \in MpStates /\ d \in Nat
    BY MpNumbers, SMT DEF MpStates
  <2>3. f \in MpNode /\ f.st = "leaving" /\ f.seq = m.seq /\ f.t = d
    <3>1. f \in MpNode
      BY <1>1, <2>2, ZenonT(60) DEF MpNode
    <3>2. f.st = "leaving" /\ f.seq = m.seq /\ f.t = d
      BY <1>1 DEF MpNode
    <3> QED BY <3>1, <3>2
  <2> HIDE DEF f
  <2>4. m.seq \in 0..SEQ_MAX /\ Up(m) /\ m.t \in Nat
    BY <1>1, <1>4 DEF MpSafe, OwnState, Up, MpNode
  <2>5. OwnState(n, f) /\ Up(f) /\ Deadline(f) <= Deadline(m)
    BY <1>4, <2>3, <2>4, MpNumbers, SMT DEF OwnState, Up, Deadline, Gap
  <2> QED BY <1>1, <2>1, <2>3, <2>4, <2>5, NodeStep
<1> QED BY <1>1, <1>3, <1>4

\* The only mounted node leaves, and says so.
LEMMA CleanKept ==
    ASSUME MpSafe, NEW n \in MpNodes, kmmpd_clean(n)
    PROVE  MpSafe'
<1> DEFINE m == mnode[n]
<1>1. /\ m.st = "leaving" /\ m \in MpNode /\ n \in Nat /\ Up(m) /\ MpTo(n, DownNode)
      /\ mblk' = [seq |-> SEQ_CLEAN, node |-> n, check |-> m.check]
  BY MpNumbers DEF MpSafe, MpTypes, kmmpd_clean, TimedOut, Wrote, Up
<1>2. mblk' \in [seq: Int, node: Int, check: Nat] /\ mblk'.seq = SEQ_CLEAN
  BY <1>1, SMT DEF MpNode, SEQ_CLEAN
<1>3. /\ MpTypes' /\ mnode'[n] = DownNode
      /\ \A k \in MpNodes : k # n => mnode'[k] = mnode[k]
      /\ \A k \in MpNodes : OwnState(k, mnode'[k])
  BY <1>1, <1>2, DownOk, NodeTypes
<1>4. Skipping'
  BY <1>1, <1>3, DownOk DEF MpSafe, Skipping, Skips
<1>5. CleanFree'
  BY <1>1, <1>3, DownOk DEF MpSafe, CleanFree, OneUp
<1>6. Overwrites'
  <2>1. \A b \in MpNodes : mnode'[b].st = "second" => mnode'[b].seq # SEQ_CLEAN
    BY <1>3, MpNumbers, SMT DEF OwnState, SEQ_CLEAN
  <2> QED BY <1>2, <2>1 DEF Overwrites
<1>7. OneUp'
  BY <1>3, DownOk DEF MpSafe, OneUp
<1> QED BY <1>3, <1>4, <1>5, <1>6, <1>7 DEF MpSafe

\* A node crashes.
LEMMA CrashKept ==
    ASSUME MpSafe, NEW n \in MpNodes, mp_crash(n)
    PROVE  MpSafe'
  BY DownOk, NodeStep DEF mp_crash

\* e2fsck marks the block while no node is mounted.
LEMMA FsckKept ==
    ASSUME MpSafe, fsck
    PROVE  MpSafe'
<1>1. /\ mnode' = mnode /\ \A n \in MpNodes : mnode[n].st = "down"
      /\ mblk' \in [seq: Int, node: Int, check: Nat]
  BY SMT DEF MpSafe, MpTypes, fsck, SEQ_FSCK, SEQ_CLEAN
<1> QED BY <1>1 DEF MpSafe, MpTypes, Skipping, Skips, CleanFree, Overwrites, OneUp, Up, Bids

\* Time passes for the writer and the mount that waits for it alike.
LEMMA TickKept ==
    ASSUME MpSafe, tick
    PROVE  MpSafe'
<1> DEFINE aged(n) == [mnode[n] EXCEPT !.t = @ - 1,
                                       !.age = IF mnode[n].st \in {"writing", "sleep"} THEN @ + 1 ELSE @]
<1>1. mblk' = mblk /\ \A n \in MpNodes : mnode[n] \in MpNode /\ OwnState(n, mnode[n])
  BY DEF MpSafe, MpTypes, tick
<1>2. \A n \in MpNodes :
         /\ mnode[n].t = 0 => mnode'[n] = mnode[n]
         /\ mnode[n].t # 0 => mnode'[n] = aged(n)
  BY DEF tick
<1>20. \A n \in MpNodes : mnode[n].t = 0 => mnode[n].st \in {"down", "hung"}
  <2>1. \A n \in MpNodes : Waits(n)
    BY DEF tick
  <2> QED BY <2>1, SMT DEF Waits
<1>3. \A n \in MpNodes :
         /\ mnode'[n] \in MpNode /\ mnode'[n].st = mnode[n].st /\ mnode'[n].seq = mnode[n].seq
         /\ mnode'[n].wt = mnode[n].wt
         /\ mnode[n].st \notin {"down", "hung"} => mnode'[n].t = mnode[n].t - 1 /\ mnode[n].st # "update"
  <2> SUFFICES ASSUME NEW n \in MpNodes
               PROVE  /\ mnode'[n] \in MpNode /\ mnode'[n].st = mnode[n].st
                      /\ mnode'[n].seq = mnode[n].seq /\ mnode'[n].wt = mnode[n].wt
                      /\ mnode[n].st \notin {"down", "hung"} =>
                            mnode'[n].t = mnode[n].t - 1 /\ mnode[n].st # "update"
    OBVIOUS
  <2>1. CASE mnode[n].t = 0
    BY <1>1, <1>2, <1>20, <2>1
  <2>2. CASE mnode[n].t # 0
    <3> DEFINE m == mnode[n]
               g == IF m.st \in {"writing", "sleep"} THEN m.age + 1 ELSE m.age
    <3>1. m \in MpNode
      BY <1>1
    <3>2. mnode'[n] = [m EXCEPT !.t = m.t - 1, !.age = g]
      BY <1>2, <2>2
    <3>3. g \in Nat /\ m.t - 1 \in Nat
      BY <2>2, <3>1, SMT DEF MpNode
    <3> HIDE DEF g
    <3>4. mnode'[n] \in MpNode
      BY <3>1, <3>2, <3>3, ZenonT(60) DEF MpNode
    <3>5. m.st # "update"
      BY <1>1, <2>2 DEF OwnState
    <3>6. /\ mnode'[n].st = m.st /\ mnode'[n].seq = m.seq /\ mnode'[n].wt = m.wt
          /\ mnode'[n].t = m.t - 1
      BY <3>1, <3>2 DEF MpNode
    <3> QED BY <3>4, <3>5, <3>6
  <2> QED BY <2>1, <2>2
<1>4. MpTypes'
  BY <1>1, <1>3 DEF MpSafe, MpTypes, tick
<1>5. \A n \in MpNodes :
         /\ Up(mnode'[n]) <=> Up(mnode[n])
         /\ Bids(mnode'[n]) <=> Bids(mnode[n])
         /\ Skips(n)' <=> Skips(n)
         /\ Bids(mnode[n]) => /\ Deadline(mnode[n]) \in Int
                              /\ Deadline(mnode'[n]) = Deadline(mnode[n]) - 1
  BY <1>1, <1>3, MpNumbers, SMT DEF Up, Bids, Skips, Deadline, MpNode
<1>6. \A n \in MpNodes : OwnState(n, mnode'[n])
  <2> SUFFICES ASSUME NEW n \in MpNodes PROVE OwnState(n, mnode'[n])
    OBVIOUS
  <2>1. mnode[n].st \in {"writing", "leaving", "own"} /\ mnode[n].t <= Late => mnode'[n].t <= Late
    BY <1>1, <1>3, MpNumbers, SMT DEF MpNode
  <2>2. Up(mnode[n]) /\ Deadline(mnode[n]) <= Gap => Deadline(mnode'[n]) <= Gap
    BY <1>5, MpNumbers, SMT DEF Bids
  <2> QED BY <1>1, <1>3, <1>5, <2>1, <2>2 DEF OwnState
<1>7. Skipping'
  BY <1>5 DEF MpSafe, Skipping
<1>8. CleanFree'
  BY <1>1, <1>5 DEF MpSafe, CleanFree
<1>9. Overwrites'
  <2> SUFFICES ASSUME NEW a \in MpNodes, NEW b \in MpNodes,
                      Bids(mnode'[a]), mnode'[b].st = "second", mblk'.seq = mnode'[b].seq
               PROVE  mnode'[b].t > Deadline(mnode'[a])
    BY DEF Overwrites
  <2>1. mnode[b].t > Deadline(mnode[a])
    BY <1>1, <1>3, <1>5 DEF MpSafe, Overwrites
  <2>2. mnode[b].t \in Nat /\ mnode'[b].t = mnode[b].t - 1
    BY <1>1, <1>3 DEF MpNode
  <2> QED BY <1>5, <2>1, <2>2, SMT
<1>10. OneUp'
  BY <1>5 DEF MpSafe, OneUp
<1> QED BY <1>4, <1>6, <1>7, <1>8, <1>9, <1>10 DEF MpSafe

-----------------------------------------------------------------------------
\* Multiple mount protection keeps MpInv (ext4_multi_mount_protect, kmmpd): the
\* invariant the waits rest on fails only once two mounts have skipped the wait
\* together or a write of a mounted node has failed.
THEOREM MpInvariant == MpSpec => []MpInv
<1>1. MpInit => MpInv
  <2> SUFFICES ASSUME MpInit PROVE MpSafe
    BY DEF MpInv
  <2>1. /\ mnode = [n \in MpNodes |-> DownNode] /\ mblk \in [seq: Int, node: Int, check: Nat]
    BY SMT DEF MpInit, SEQ_CLEAN
  <2> QED BY <2>1, DownOk DEF MpSafe, MpTypes, Skipping, Skips, CleanFree, Overwrites, OneUp, Bids
<1>2. MpInv /\ [MpNext]_mpVars => MpInv'
  <2> SUFFICES ASSUME MpInv, [MpNext]_mpVars, mseen' = {} PROVE MpSafe'
    BY DEF MpInv
  <2>0. MpSafe
    <3>1. mseen \subseteq mseen'
      BY DEF MpNext, mpVars, mmp_read, mmp_first_check, mmp_write_seq, mmp_second_check,
             kmmpd_write, kmmpd_written, kmmpd_check, stop_mmpd, kmmpd_clean, mp_crash, fsck, tick
    <3> QED BY <3>1 DEF MpInv
  <2>1. CASE \E n \in MpNodes : mmp_read(n)
    BY <2>0, <2>1, ReadKept
  <2>2. CASE \E n \in MpNodes :
               mmp_first_check(n) \/ mmp_write_seq(n) \/ mmp_second_check(n)
    BY <2>0, <2>2, FirstCheckKept, WriteSeqKept, SecondCheckKept
  <2>3. CASE \E n \in MpNodes : kmmpd_write(n) \/ kmmpd_written(n) \/ kmmpd_check(n)
    BY <2>0, <2>3, KmmpdWriteKept, KmmpdWrittenKept, KmmpdCheckKept
  <2>4. CASE \E n \in MpNodes : stop_mmpd(n) \/ kmmpd_clean(n) \/ mp_crash(n)
    BY <2>0, <2>4, StopKept, CleanKept, CrashKept
  <2>5. CASE fsck
    BY <2>0, <2>5, FsckKept
  <2>6. CASE tick
    BY <2>0, <2>6, TickKept
  <2>7. CASE UNCHANGED mpVars
    BY <2>0, <2>7 DEF MpSafe, MpTypes, Skipping, Skips, CleanFree, Overwrites, OneUp, mpVars
  <2> QED BY <2>1, <2>2, <2>3, <2>4, <2>5, <2>6, <2>7 DEF MpNext
<1> QED BY <1>1, <1>2, PTL DEF MpSpec

\* No two nodes have the file system mounted at once, for any number of nodes
\* and any intervals for which a mount waits longer than a mounted node takes
\* from one write of the MMP block to the next, unless two mounts skipped the
\* wait together or a write of a mounted node failed.
THEOREM WaitsExcludeHolds == MpSpec => []WaitsExclude
<1>1. MpInv => WaitsExclude
  BY DEF MpInv, MpSafe, OneUp, WaitsExclude, MountedOnce, IsUp, Up
<1> QED BY <1>1, MpInvariant, PTL

=============================================================================
