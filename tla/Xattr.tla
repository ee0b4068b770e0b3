------------------------------- MODULE Xattr --------------------------------
(***************************************************************************)
(* Extended attributes: entries in the inode body, in a block that inodes  *)
(* with equal attributes share by reference count, and large values in EA  *)
(* inodes that entries share.  Sharing goes through the metadata block     *)
(* cache, whose entries pin a block while someone decides to reuse it.     *)
(* Calls on different inodes run at the same time; xattr_sem serialises    *)
(* the calls on one inode.  A step is what the code does under the lock of *)
(* the buffer or of the EA inode.                                          *)
(*                                                                         *)
(* Values are 1..XaVals; those of XaLarge are kept in EA inodes; 0 is no   *)
(* value.  A name takes one unit of space, a value that is not in an EA    *)
(* inode another.                                                          *)
(***************************************************************************)
EXTENDS Integers, FiniteSets, FiniteSetsExt

CONSTANTS XaFiles,     \* inodes
          XaNames,     \* attribute names
          XaVals,      \* number of values
          XaLarge,     \* values above EXT4_XATTR_MIN_LARGE_EA_SIZE
          XaBlocks,    \* blocks, 1..
          XaInodes,    \* EA inodes, 1..
          BodyRoom,    \* units of space in an inode body
          BlockRoom,   \* units of space in a block
          REFCOUNT_MAX,
          XaOps,       \* bound on calls
          RemoveMayFail \* whether there may be no block to remove a name from a shared one

VARIABLES body,        \* inode -> name -> entry
          facl,        \* inode -> its block, or 0
          xblk,        \* block -> [ref, c]; ref 0: free
          mbc,         \* block -> its entry in the block cache
          eai,         \* EA inode -> [val, ref]; val 0: free
          xop,         \* inode -> the call running on it
          attr,        \* inode -> name -> the value last set
          xcalls

xaVars == <<body, facl, xblk, mbc, eai, xop, attr, xcalls>>

NoEntry == [v |-> 0, ea |-> 0]
NoEntries == [n \in XaNames |-> NoEntry]
FreeBlk == [ref |-> 0, c |-> NoEntries]
NotCached == [in |-> FALSE, users |-> 0, reusable |-> FALSE]
Idling == [st |-> "idle", n |-> CHOOSE n \in XaNames : TRUE, v |-> 0, inno |-> FALSE, sub |-> "body",
           rm |-> FALSE, wasBody |-> FALSE, wasBlk |-> FALSE, moves |-> FALSE, ea |-> 0,
           base |-> NoEntries, place |-> FALSE, ce |-> 0, old |-> 0]

Space(c) == FoldSet(LAMBDA n, a : a + (IF c[n].v = 0 THEN 0 ELSE IF c[n].ea = 0 THEN 2 ELSE 1), 0, XaNames)
HasNone(c) == \A n \in XaNames : c[n].v = 0
EasOf(c) == {n \in XaNames : c[n].ea # 0}

(* The entries after the call's value is set, or removed, among them. *)
set_entry(c, op) == [c EXCEPT ![op.n] = IF op.rm THEN NoEntry ELSE [v |-> op.v, ea |-> op.ea]]
Fits(c, op, room) == op.rm \/ Space(c) <= room
value_same(e, v) == e.v = v /\ e.ea = 0

(* What getxattr returns: the body is searched first. *)
ViewOf(bd, bl, n) == IF bd[n].v # 0 THEN bd[n].v ELSE bl[n].v
BlockOfFile(i) == IF facl[i] = 0 THEN NoEntries ELSE xblk[facl[i]].c

ToXa(i, f) == xop' = [xop EXCEPT ![i] = f]
XaAt(i, st) == xop[i].st = st

-----------------------------------------------------------------------------
(* EA inodes. *)

inode_update_ref(t, e, d) == IF e = 0 THEN t ELSE [t EXCEPT ![e].ref = @ + d]

RefAll(t, c, d) ==
  [e \in DOMAIN t |-> [t[e] EXCEPT !.ref = @ + d * Cardinality({n \in EasOf(c) : c[n].ea = e})]]
inode_inc_ref_all(t, c) == RefAll(t, c, 1)
inode_dec_ref_all(t, c) == RefAll(t, c, -1)

(* The search of the cache pins an EA inode with the value; its count, 0   *)
(* perhaps by now, is raised in a step of its own.                         *)
inode_cache_find(i) ==
  /\ XaAt(i, "lookup")
  /\ \E e \in DOMAIN eai : /\ eai[e].val = xop[i].v
                           /\ ToXa(i, [xop[i] EXCEPT !.st = "incref", !.ea = e])
  /\ UNCHANGED <<body, facl, xblk, mbc, eai, attr, xcalls>>

AfterLookup(op) == IF op.sub = "body" THEN "apply" ELSE "lock"

inode_inc_ref(i) ==
  /\ XaAt(i, "incref")
  /\ eai' = inode_update_ref(eai, xop[i].ea, 1)
  /\ ToXa(i, [xop[i] EXCEPT !.st = AfterLookup(xop[i])])
  /\ UNCHANGED <<body, facl, xblk, mbc, attr, xcalls>>

(* Not in the cache, or dropped from it: a new EA inode. *)
inode_create(i) ==
  /\ XaAt(i, "lookup")
  /\ \E e \in DOMAIN eai :
       /\ eai[e].val = 0 /\ \A k \in DOMAIN eai : eai[k].val = 0 => e <= k
       /\ eai' = [eai EXCEPT ![e] = [val |-> xop[i].v, ref |-> 1]]
       /\ ToXa(i, [xop[i] EXCEPT !.st = AfterLookup(xop[i]), !.ea = e])
  /\ UNCHANGED <<body, facl, xblk, mbc, attr, xcalls>>

(* The last pin of an EA inode without references goes. *)
evict_ea_inode(e) ==
  /\ eai[e].val # 0 /\ eai[e].ref = 0
  /\ \A i \in XaFiles : xop[i].ea # e
  /\ eai' = [eai EXCEPT ![e] = [val |-> 0, ref |-> 0]]
  /\ UNCHANGED <<body, facl, xblk, mbc, xop, attr, xcalls>>

-----------------------------------------------------------------------------
(* Calls. *)

Call(i) == XaAt(i, "idle") /\ xcalls < XaOps /\ xcalls' = xcalls + 1

set_handle(i, n, v) ==
  /\ Call(i)
  /\ LET inBody == body[i][n].v # 0
         inBlk == ~inBody /\ BlockOfFile(i)[n].v # 0
         here == IF inBody THEN body[i][n] ELSE BlockOfFile(i)[n]
         op == [Idling EXCEPT !.n = n, !.v = v, !.wasBody = inBody, !.wasBlk = inBlk, !.rm = v = 0]
     IN  IF v = 0
         THEN /\ inBody \/ inBlk
              /\ ToXa(i, IF inBody THEN [op EXCEPT !.st = "apply"]
                         ELSE [op EXCEPT !.st = "lock", !.sub = "block"])
         ELSE /\ ~value_same(here, v)
              /\ ToXa(i, [op EXCEPT !.st = IF v \in XaLarge THEN "lookup" ELSE "apply",
                                    !.inno = v \in XaLarge])
  /\ UNCHANGED <<body, facl, xblk, mbc, eai, attr>>

(* Making room in the body for new fixed fields: an entry goes to the      *)
(* block.                                                                  *)
move_to_block(i, n) ==
  /\ Call(i)
  /\ body[i][n].v # 0
  /\ LET large == body[i][n].ea # 0
     IN  ToXa(i, [Idling EXCEPT !.n = n, !.v = body[i][n].v, !.inno = large, !.sub = "block",
                                !.wasBody = TRUE, !.wasBlk = BlockOfFile(i)[n].v # 0, !.moves = TRUE,
                                !.st = IF large THEN "lookup" ELSE "lock"])
  /\ UNCHANGED <<body, facl, xblk, mbc, eai, attr>>

(* The call ends.  One that fails changes nothing, or all. *)
Finish(i, ok, bd, bl) ==
  LET op == xop[i]
      n == op.n
  IN  /\ ToXa(i, Idling)
      /\ attr' = IF ok \/ ViewOf(bd, bl, n) = op.v THEN [attr EXCEPT ![i][n] = op.v] ELSE attr

(* block_set is done: a value that was in the body leaves it. *)
BlockSetDone(i, bl) ==
  IF ~xop[i].rm /\ xop[i].wasBody
  THEN /\ ToXa(i, [xop[i] EXCEPT !.st = "apply", !.sub = "body", !.rm = TRUE, !.ea = 0, !.ce = 0,
                                 !.old = 0, !.base = NoEntries, !.place = FALSE])
       /\ UNCHANGED attr
  ELSE Finish(i, TRUE, body[i], bl)

(* No room in the block: the value goes into an EA inode if it is not in   *)
(* one already.                                                            *)
NoRoom(i) ==
  LET op == xop[i]
  IN  IF ~op.rm /\ ~op.inno /\ ~op.moves
      THEN /\ ToXa(i, [op EXCEPT !.st = "lookup", !.sub = "body", !.inno = TRUE, !.ea = 0,
                                 !.base = NoEntries, !.place = FALSE])
           /\ UNCHANGED attr
      ELSE Finish(i, FALSE, body[i], BlockOfFile(i))

ibody_set(i) ==
  /\ XaAt(i, "apply")
  /\ LET op == xop[i]
         c == set_entry(body[i], op)
     IN  IF Fits(c, op, BodyRoom)
         THEN /\ body' = [body EXCEPT ![i] = c]
              /\ eai' = inode_update_ref(eai, body[i][op.n].ea, -1)
              /\ IF ~op.rm /\ op.wasBlk
                 THEN /\ ToXa(i, [op EXCEPT !.st = "lock", !.sub = "block", !.rm = TRUE, !.ea = 0])
                      /\ UNCHANGED attr
                 ELSE Finish(i, TRUE, c, BlockOfFile(i))
         ELSE /\ eai' = inode_update_ref(eai, op.ea, -1)
              /\ ToXa(i, [op EXCEPT !.sub = "block", !.ea = 0,
                                    !.st = IF op.inno THEN "lookup" ELSE "lock"])
              /\ UNCHANGED <<body, attr>>
  /\ UNCHANGED <<facl, xblk, mbc, xcalls>>

-----------------------------------------------------------------------------
(* ext4_xattr_block_set. *)

CacheIn(b, ref) == [mbc EXCEPT ![b] = IF @.in THEN @ ELSE [in |-> TRUE, users |-> 0,
                                                           reusable |-> ref < REFCOUNT_MAX]]

InPlace_despite_users(b) == xblk[b].ref = 1
(* Nobody else has the block or is about to. *)
InPlace(b) == xblk[b].ref = 1 /\ mbc[b].users = 0

block_set_entry(i) ==
  /\ XaAt(i, "lock")
  /\ LET op == xop[i]
         b == facl[i]
         c == set_entry(BlockOfFile(i), op)
         place == b # 0 /\ InPlace(b)
     IN  /\ mbc' = IF place THEN [mbc EXCEPT ![b] = NotCached] ELSE mbc
         /\ IF Fits(c, op, BlockRoom)
            THEN /\ ToXa(i, [op EXCEPT !.st = "insert", !.base = c, !.place = place, !.old = b])
                 /\ xblk' = IF place THEN [xblk EXCEPT ![b].c = c] ELSE xblk
                 /\ eai' = IF place THEN inode_update_ref(eai, xblk[b].c[op.n].ea, -1) ELSE eai
                 /\ UNCHANGED attr
            ELSE /\ eai' = inode_update_ref(eai, op.ea, -1)
                 /\ NoRoom(i)
                 /\ UNCHANGED xblk
  /\ UNCHANGED <<body, facl, xcalls>>

CachedLike(c) == {b \in 1..XaBlocks : mbc[b].in /\ mbc[b].reusable /\ xblk[b].c = c}

(* The inode gets the block b; its old one is let go. *)
SwitchTo(i, b, c) ==
  /\ facl' = [facl EXCEPT ![i] = b]
  /\ IF xop[i].old # 0 /\ xop[i].old # b
     THEN ToXa(i, [xop[i] EXCEPT !.st = "release", !.ce = 0, !.base = c]) /\ UNCHANGED attr
     ELSE BlockSetDone(i, c)

insert_empty(i) ==
  /\ XaAt(i, "insert") /\ HasNone(xop[i].base)
  /\ SwitchTo(i, 0, NoEntries)
  /\ UNCHANGED <<body, xblk, mbc, eai, xcalls>>

(* An equal block in the cache is pinned ... *)
insert_found(i) ==
  /\ XaAt(i, "insert") /\ ~HasNone(xop[i].base)
  /\ \E b \in CachedLike(xop[i].base) :
       IF b = xop[i].old
       THEN SwitchTo(i, b, xop[i].base) /\ UNCHANGED mbc
       ELSE /\ mbc' = [mbc EXCEPT ![b].users = @ + 1]
            /\ ToXa(i, [xop[i] EXCEPT !.st = "join", !.ce = b])
            /\ UNCHANGED <<facl, attr>>
  /\ UNCHANGED <<body, xblk, eai, xcalls>>

AtLimit(ref) == ref > REFCOUNT_MAX

(* ... and its count raised, unless it is at its limit by now. *)
insert_join(i) ==
  /\ XaAt(i, "join")
  /\ LET b == xop[i].ce
         ref == xblk[b].ref + 1
     IN  IF AtLimit(ref)
         THEN /\ mbc' = [mbc EXCEPT ![b].users = @ - 1]
              /\ ToXa(i, [xop[i] EXCEPT !.st = "insert", !.ce = 0])
              /\ UNCHANGED <<xblk, facl, attr>>
         ELSE /\ xblk' = [xblk EXCEPT ![b].ref = ref]
              /\ mbc' = [mbc EXCEPT ![b].users = @ - 1, ![b].reusable = @ /\ ref # REFCOUNT_MAX]
              /\ SwitchTo(i, b, xop[i].base)
  /\ UNCHANGED <<body, eai, xcalls>>

insert_keep(i) ==
  /\ XaAt(i, "insert") /\ ~HasNone(xop[i].base)
  /\ CachedLike(xop[i].base) = {} /\ xop[i].place
  /\ mbc' = CacheIn(xop[i].old, 1)
  /\ SwitchTo(i, xop[i].old, xop[i].base)
  /\ UNCHANGED <<body, xblk, eai, xcalls>>

(* The new block takes references of its own, for the new entry too. *)
insert_new(i) ==
  /\ XaAt(i, "insert") /\ ~HasNone(xop[i].base)
  /\ CachedLike(xop[i].base) = {} /\ ~xop[i].place
  /\ \E b \in 1..XaBlocks :
       /\ xblk[b].ref = 0 /\ \A k \in 1..XaBlocks : xblk[k].ref = 0 => b <= k
       /\ xblk' = [xblk EXCEPT ![b] = [ref |-> 1, c |-> xop[i].base]]
       /\ eai' = inode_update_ref(inode_inc_ref_all(eai, xop[i].base), xop[i].ea, -1)
       /\ mbc' = CacheIn(b, 1)
       /\ SwitchTo(i, b, xop[i].base)
  /\ UNCHANGED <<body, xcalls>>

insert_fails(i) ==
  /\ XaAt(i, "insert") /\ ~HasNone(xop[i].base)
  /\ CachedLike(xop[i].base) = {} /\ ~xop[i].place
  /\ xop[i].rm => RemoveMayFail
  /\ eai' = inode_update_ref(eai, xop[i].ea, -1)
  /\ NoRoom(i)
  /\ UNCHANGED <<body, facl, xblk, mbc, xcalls>>

(* The last reference waits until nobody is about to reuse the block. *)
release_blocked(b) == xblk[b].ref = 1 /\ mbc[b].users > 0

release_block(i) ==
  /\ XaAt(i, "release")
  /\ LET b == xop[i].old
         ref == xblk[b].ref - 1
     IN  /\ ~release_blocked(b)
         /\ IF ref = 0
            THEN /\ mbc' = [mbc EXCEPT ![b] = NotCached]
                 /\ eai' = inode_dec_ref_all(eai, xblk[b].c)
                 /\ xblk' = [xblk EXCEPT ![b] = FreeBlk]
            ELSE /\ xblk' = [xblk EXCEPT ![b].ref = ref]
                 /\ mbc' = [mbc EXCEPT ![b].reusable = @ \/ (mbc[b].in /\ ref = REFCOUNT_MAX - 1)]
                 /\ UNCHANGED eai
  /\ BlockSetDone(i, xop[i].base)
  /\ UNCHANGED <<body, facl, xcalls>>

-----------------------------------------------------------------------------
(* The inode is deleted. *)
xattr_delete_inode(i) ==
  /\ Call(i)
  /\ ~HasNone(body[i]) \/ facl[i] # 0
  /\ eai' = inode_dec_ref_all(eai, body[i])
  /\ body' = [body EXCEPT ![i] = NoEntries]
  /\ facl' = [facl EXCEPT ![i] = 0]
  /\ attr' = [attr EXCEPT ![i] = [n \in XaNames |-> 0]]
  /\ ToXa(i, IF facl[i] = 0 THEN Idling
             ELSE [Idling EXCEPT !.st = "release", !.rm = TRUE, !.old = facl[i]])
  /\ UNCHANGED <<xblk, mbc>>

(* Reading an attribute or listing them puts the block into the cache. *)
xattr_block_get(i) ==
  /\ XaAt(i, "idle") /\ facl[i] # 0 /\ ~mbc[facl[i]].in
  /\ mbc' = CacheIn(facl[i], xblk[facl[i]].ref)
  /\ UNCHANGED <<body, facl, xblk, eai, xop, attr, xcalls>>

(* The cache drops an entry nobody uses. *)
mb_cache_shrink(b) ==
  /\ mbc[b].in /\ mbc[b].users = 0
  /\ mbc' = [mbc EXCEPT ![b] = NotCached]
  /\ UNCHANGED <<body, facl, xblk, eai, xop, attr, xcalls>>

-----------------------------------------------------------------------------
XaInit ==
  /\ body = [i \in XaFiles |-> NoEntries]
  /\ facl = [i \in XaFiles |-> 0]
  /\ xblk = [b \in 1..XaBlocks |-> FreeBlk]
  /\ mbc = [b \in 1..XaBlocks |-> NotCached]
  /\ eai = [e \in 1..XaInodes |-> [val |-> 0, ref |-> 0]]
  /\ xop = [i \in XaFiles |-> Idling]
  /\ attr = [i \in XaFiles |-> [n \in XaNames |-> 0]]
  /\ xcalls = 0

XaNext ==
  \/ \E i \in XaFiles :
       \/ \E n \in XaNames : move_to_block(i, n) \/ \E v \in 0..XaVals : set_handle(i, n, v)
       \/ inode_cache_find(i) \/ inode_inc_ref(i) \/ inode_create(i)
       \/ ibody_set(i) \/ block_set_entry(i)
       \/ insert_empty(i) \/ insert_found(i) \/ insert_join(i) \/ insert_keep(i)
       \/ insert_new(i) \/ insert_fails(i)
       \/ release_block(i) \/ xattr_delete_inode(i) \/ xattr_block_get(i)
  \/ \E e \in 1..XaInodes : evict_ea_inode(e)
  \/ \E b \in 1..XaBlocks : mb_cache_shrink(b)

XaSpec == XaInit /\ [][XaNext]_xaVars

-----------------------------------------------------------------------------
(* What an inode shows is what was last set on it, whatever happens to the *)
(* attributes of the inodes it shares a block or an EA inode with, and     *)
(* whether the value moved between body, block and EA inode or not.        *)
AttrsOwn ==
  \A i \in XaFiles : XaAt(i, "idle") =>
    \A n \in XaNames : ViewOf(body[i], BlockOfFile(i), n) = attr[i][n]

(* A block's count is the number of inodes that have it, those still on    *)
(* their way to release it included, and is never above its limit.         *)
SharedExact ==
  \A b \in 1..XaBlocks :
    /\ xblk[b].ref = Cardinality({i \in XaFiles : facl[i] = b})
                     + Cardinality({i \in XaFiles : XaAt(i, "release") /\ xop[i].old = b})
    /\ xblk[b].ref <= REFCOUNT_MAX

EntriesOn(e) ==
  Cardinality({k \in XaFiles \X XaNames : body[k[1]][k[2]].ea = e})
  + Cardinality({k \in (1..XaBlocks) \X XaNames : xblk[k[1]].ref > 0 /\ xblk[k[1]].c[k[2]].ea = e})

(* An EA inode has a reference for every entry that leads to it, and holds *)
(* the value of those entries: it is not freed or reused under them.       *)
EaCovered ==
  \A e \in 1..XaInodes :
    /\ eai[e].ref >= EntriesOn(e)
    /\ \A i \in XaFiles, n \in XaNames :
         /\ body[i][n].ea = e => eai[e].val = body[i][n].v
         /\ BlockOfFile(i)[n].ea = e => eai[e].val = BlockOfFile(i)[n].v

(* When no call runs, an EA inode has no other references than those: none *)
(* is left that would keep it for ever.                                    *)
EaExact ==
  (\A i \in XaFiles : XaAt(i, "idle")) => \A e \in 1..XaInodes : eai[e].ref = EntriesOn(e)

\* An inode's attributes are its own although blocks are shared: the users of a
\* block are counted and every value inode that is named has a reference.
AttrsExact == AttrsOwn /\ SharedExact /\ EaCovered
=============================================================================
