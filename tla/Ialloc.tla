------------------------------- MODULE Ialloc --------------------------------
(***************************************************************************)
(* Allocation of inodes: which group an inode comes from, the inode bitmap *)
(* and the counters of the groups, the inode table in memory and on disk,  *)
(* and the thread that zeroes what mke2fs left uninitialized in the        *)
(* tables.  A step ends where the code drops a group's lock or alloc_sem.  *)
(* The file system has a journal and group descriptor checksums.           *)
(*                                                                         *)
(* An inode is <<g, i>>, bit i of the bitmap of group g.  A group without  *)
(* inodes is as mke2fs leaves it: bitmap and table not written.            *)
(***************************************************************************)
EXTENDS Integers, FiniteSets, FiniteSetsExt

CONSTANTS IaGroups,      \* number of groups
          InoPerGroup, InoPerBlock, FlexSize,
          IaThreads,
          IaLayouts,     \* what is in use at the start: group -> bits
          IaGoals,       \* inodes asked for by number: as a goal, or in a replay
          IaCalls        \* bound on calls, buffers dropped and clusters taken

VARIABLES igrp,          \* group -> bitmap and descriptor
          itab,          \* group -> block of the table -> contents
          ith,           \* thread -> its call
          ihash,         \* inodes in the inode cache
          ifree, idirs,  \* the percpu counters
          iflex,         \* flex group -> its counters
          li,            \* the lazy initialization thread
          icalls

iaVars == <<igrp, itab, ith, ihash, ifree, idirs, iflex, li, icalls>>

Grps == 0..(IaGroups - 1)
Bits == 0..(InoPerGroup - 1)
Flexes == 0..((IaGroups - 1) \div FlexSize)
FlexOf(g) == g \div FlexSize
TabBlk(i) == i \div InoPerBlock
TabBlks == 0..((InoPerGroup - 1) \div InoPerBlock)
NoGroup == -1
IdleCall == [st |-> "idle", g |-> 0, i |-> 0, left |-> 0, dir |-> FALSE, goal |-> FALSE, quiet |-> TRUE]

(* The next state of thread t.  A step that changes bitmaps or counters    *)
(* makes the other calls' view of them out of date.                        *)
IaTo(t, c) == ith' = [ith EXCEPT ![t] = c]
IaMoves(t, c) == ith' = [x \in IaThreads |-> IF x = t THEN c
                                             ELSE IF ith[x].st = "idle" THEN IdleCall
                                             ELSE [ith[x] EXCEPT !.quiet = FALSE]]

-----------------------------------------------------------------------------
(* Choosing a group. *)

(* The first of n places, going round from s, that is in S. *)
FirstFrom(s, n, S) ==
  LET at == {k \in 0..(n - 1) : (s + k) % n \in S}
  IN  IF at = {} THEN NoGroup ELSE (s + Min(at)) % n

HasFree == {g \in Grps : igrp[g].freei > 0}

orlov_fallback(parent) ==
  LET g == FirstFrom(parent, IaGroups, {x \in HasFree : igrp[x].freei >= ifree \div IaGroups})
  IN  IF g # NoGroup THEN g ELSE FirstFrom(parent, IaGroups, HasFree)

get_orlov_stats(f) ==
  IF FlexSize > 1 THEN iflex[f] ELSE [freei |-> igrp[f].freei, dirs |-> igrp[f].dirs]

(* roomy: the flex groups with enough free clusters; start: where the      *)
(* search begins, a hash of the name for a directory in a top directory.   *)
find_group_orlov(parent, top, start, roomy) ==
  LET n == Cardinality(Flexes)
      ave == ifree \div n
      good == {f \in Flexes \cap roomy : get_orlov_stats(f).freei > 0
                                         /\ get_orlov_stats(f).freei >= ave
                                         /\ get_orlov_stats(f).dirs < InoPerGroup}
      fewest == {f \in good : \A x \in good : get_orlov_stats(f).dirs <= get_orlov_stats(x).dirs}
      max_dirs == (idirs \div n) + ((InoPerGroup * FlexSize) \div 16)
      min_inodes == Max({ave - ((InoPerGroup * FlexSize) \div 4), 1})
      near == {f \in Flexes \cap roomy : get_orlov_stats(f).dirs < max_dirs
                                         /\ get_orlov_stats(f).freei >= min_inodes}
      f == IF top THEN FirstFrom(start, n, fewest) ELSE FirstFrom(start, n, near)
      inside == {g \in HasFree : FlexOf(g) = f}
  IN  CASE f = NoGroup -> orlov_fallback(parent)
        [] f # NoGroup /\ FlexSize = 1 -> f
        [] f # NoGroup /\ FlexSize > 1 /\ inside # {} -> Min(inside)
        [] OTHER -> orlov_fallback(parent)

(* last: the group the directory's previous inode came from; hash: its own *)
(* inode number.                                                           *)
find_group_other(parent, last, hash, roomy) ==
  LET near == {g \in HasFree : FlexOf(g) = FlexOf(parent)}
      next == {g \in HasFree : last # NoGroup /\ FlexOf(g) = FlexOf(last)}
      probe(k) == (parent + hash + 2^k - 1) % IaGroups
      hits == {k \in 1..IaGroups : 2^(k - 1) < IaGroups /\ probe(k) \in HasFree \cap roomy}
  IN  IF FlexSize > 1
      THEN CASE near # {} -> Min(near)
             [] near = {} /\ next # {} -> Min(next)
             [] OTHER -> find_group_orlov(parent, FALSE, FlexOf(IF last # NoGroup THEN last ELSE parent), roomy)
      ELSE CASE parent \in HasFree \cap roomy -> parent
             [] parent \notin HasFree \cap roomy /\ hits # {} -> probe(Min(hits))
             [] OTHER -> FirstFrom(parent + 1, IaGroups, HasFree)

-----------------------------------------------------------------------------
(* Bitmaps and the inode table. *)

(* The bitmap as ext4_read_inode_bitmap leaves it in memory. *)
read_inode_bitmap(d) ==
  IF d.up THEN d ELSE [d EXCEPT !.up = TRUE, !.bits = IF d.uninit THEN {} ELSE d.dbits]

find_inode_bit(bits, from) ==
  LET free == {i \in Bits \ bits : i >= from}
  IN  IF free = {} THEN InoPerGroup ELSE Min(free)

(* The block of the table with inode <<g, i>> in memory; mine: the caller  *)
(* has all of the inode's data in memory.                                  *)
get_inode_loc(g, i, mine) ==
  LET b == itab[g][TabBlk(i)]
      others == {k \in Bits \ {i} : TabBlk(k) = TabBlk(i)}
  IN  IF b.up THEN b.mem
      ELSE IF mine /\ igrp[g].up /\ others \cap igrp[g].bits = {}
           THEN [k \in DOMAIN b.mem |-> "zero"]
           ELSE b.disk

do_update_inode(g, i, mine, val) ==
  itab' = [itab EXCEPT ![g][TabBlk(i)] =
             [@ EXCEPT !.up = TRUE, !.mem = [get_inode_loc(g, i, mine) EXCEPT ![i % InoPerBlock] = val]]]

-----------------------------------------------------------------------------
(* __ext4_new_inode. *)

Scan(g, i, left, dir, goal) ==
  [st |-> "scan", g |-> g, i |-> i, left |-> left, dir |-> dir, goal |-> goal, quiet |-> TRUE]

new_inode(t, dir) ==
  /\ ith[t].st = "idle" /\ icalls < IaCalls /\ icalls' = icalls + 1
  /\ \/ \E goal \in IaGoals : IaTo(t, Scan(goal[1], goal[2], IaGroups, dir, TRUE))
     \/ \E parent \in Grps, last \in Grps \cup {NoGroup}, top \in BOOLEAN, start \in Flexes, roomy \in SUBSET Flexes :
          LET near == FlexOf(IF last # NoGroup THEN last ELSE parent)
              g == IF dir THEN find_group_orlov(parent, top, IF top THEN start ELSE near, roomy)
                   ELSE find_group_other(parent, last, start, roomy)
          IN  IaTo(t, IF g = NoGroup THEN [Scan(0, 0, 0, dir, FALSE) EXCEPT !.st = "nospc"]
                      ELSE Scan(g, 0, IaGroups, dir, FALSE))
  /\ UNCHANGED <<igrp, itab, ihash, ifree, idirs, iflex, li>>

next_group(c) ==
  IF c.left = 1 THEN [c EXCEPT !.st = "nospc"]
  ELSE [c EXCEPT !.st = "scan", !.g = (@ + 1) % IaGroups, !.i = 0, !.left = @ - 1]

(* A free bit is looked for without the group's lock. *)
find_bit(t) ==
  LET c == ith[t] d == read_inode_bitmap(igrp[c.g]) i == find_inode_bit(d.bits, c.i)
  IN  /\ c.st = "scan"
      /\ igrp' = IF igrp[c.g].freei = 0 THEN igrp ELSE [igrp EXCEPT ![c.g] = d]
      /\ IaTo(t, IF igrp[c.g].freei = 0 \/ i = InoPerGroup THEN next_group(c)
                 ELSE [c EXCEPT !.st = "set", !.i = i])
      /\ UNCHANGED <<itab, ihash, ifree, idirs, iflex, li, icalls>>

set_bit_blind(t) ==
  LET c == ith[t] d == igrp[c.g]
  IN  /\ c.st = "set"
      /\ igrp' = [igrp EXCEPT ![c.g].bits = @ \cup {c.i}]
      /\ IaMoves(t, [c EXCEPT !.st = IF d.buninit THEN "binit" ELSE "count"])
      /\ UNCHANGED <<itab, ihash, ifree, idirs, iflex, li, icalls>>

(* Under the lock: someone else may have taken it. *)
set_bit(t) ==
  LET c == ith[t] d == igrp[c.g]
      i == IF c.i \in d.bits THEN find_inode_bit(d.bits, c.i) ELSE c.i
  IN  /\ c.st = "set"
      /\ IF i = InoPerGroup THEN IaTo(t, next_group(c)) /\ UNCHANGED igrp
         ELSE /\ igrp' = [igrp EXCEPT ![c.g].bits = @ \cup {i}]
              /\ IaMoves(t, [c EXCEPT !.st = IF d.buninit THEN "binit" ELSE "count", !.i = i])
      /\ UNCHANGED <<itab, ihash, ifree, idirs, iflex, li, icalls>>

(* The block bitmap is initialized with the first inode, if it still has   *)
(* to be; one cluster stands for the free clusters of a group.             *)
block_init(d) == IF d.buninit THEN [d EXCEPT !.buninit = FALSE, !.fclus = 1] ELSE d

init_block_bitmap(t) ==
  LET c == ith[t]
  IN  /\ c.st = "binit"
      /\ igrp' = [igrp EXCEPT ![c.g] = block_init(@)]
      /\ IaTo(t, [c EXCEPT !.st = "count"])
      /\ UNCHANGED <<itab, ihash, ifree, idirs, iflex, li, icalls>>

(* The part of the table never used shrinks to what lies behind inode i. *)
itable_unused(d, i) ==
  LET used == IF d.uninit THEN 0 ELSE InoPerGroup - d.unused
  IN  [d EXCEPT !.uninit = FALSE, !.unused = IF i + 1 > used THEN InoPerGroup - i - 1 ELSE @]

alloc_sem_free(g) == ~(li.st = "zero" /\ li.g = g)

count_inode(t) ==
  LET c == ith[t] dirs == IF c.dir THEN 1 ELSE 0
  IN  /\ c.st = "count" /\ alloc_sem_free(c.g)
      /\ igrp' = [igrp EXCEPT ![c.g] = [itable_unused(@, c.i) EXCEPT !.freei = @ - 1, !.dirs = @ + dirs]]
      /\ iflex' = [iflex EXCEPT ![FlexOf(c.g)].dirs = @ + dirs]
      /\ IaMoves(t, [c EXCEPT !.st = "insert"])
      /\ UNCHANGED <<itab, ihash, ifree, idirs, li, icalls>>

(* insert_inode_locked takes an inode found in the cache for one that was  *)
(* allocated twice.                                                        *)
insert_inode(t) ==
  LET c == ith[t]
  IN  /\ c.st = "insert"
      /\ ifree' = ifree - 1
      /\ idirs' = IF c.dir THEN idirs + 1 ELSE idirs
      /\ iflex' = [iflex EXCEPT ![FlexOf(c.g)].freei = @ - 1]
      /\ ihash' = ihash \cup {<<c.g, c.i>>}
      /\ IaMoves(t, [c EXCEPT !.st = IF <<c.g, c.i>> \in ihash THEN "twice" ELSE "write"])
      /\ UNCHANGED <<igrp, itab, li, icalls>>

(* The inode is complete, or quota, encryption or ACLs refuse it. *)
write_inode(t) ==
  LET c == ith[t]
  IN  /\ c.st = "write"
      /\ \/ /\ do_update_inode(c.g, c.i, TRUE, IF c.dir THEN "dir" ELSE "file")
            /\ IaTo(t, IdleCall)
            /\ UNCHANGED ihash
         \/ /\ IaTo(t, [c EXCEPT !.st = "dying"])
            /\ ihash' = ihash \ {<<c.g, c.i>>}
            /\ UNCHANGED itab
      /\ UNCHANGED <<igrp, ifree, idirs, iflex, li, icalls>>

no_space(t) ==
  /\ ith[t].st = "nospc" /\ IaTo(t, IdleCall)
  /\ UNCHANGED <<igrp, itab, ihash, ifree, idirs, iflex, li, icalls>>

-----------------------------------------------------------------------------
(* Eviction of an unlinked inode, and ext4_free_inode. *)

Written == {x \in ihash : \A t \in IaThreads : ith[t].st = "write" => <<ith[t].g, ith[t].i>> # x}

(* What the table says of an inode, in memory or else on disk. *)
Stored(x) ==
  LET b == itab[x[1]][TabBlk(x[2])] IN (IF b.up THEN b.mem ELSE b.disk)[x[2] % InoPerBlock]

(* The last reference goes; from now on the cache ignores the inode. *)
evict_inode(t) ==
  /\ ith[t].st = "idle" /\ icalls < IaCalls /\ icalls' = icalls + 1
  /\ \E x \in Written :
       /\ IaTo(t, [IdleCall EXCEPT !.st = "dying", !.g = x[1], !.i = x[2], !.dir = (Stored(x) = "dir")])
       /\ ihash' = ihash \ {x}
  /\ UNCHANGED <<igrp, itab, ifree, idirs, iflex, li>>

(* i_dtime reaches the table. *)
write_dtime(t) ==
  LET c == ith[t]
  IN  /\ c.st = "dying"
      /\ \E xattr \in BOOLEAN : do_update_inode(c.g, c.i, ~xattr, "dead")
      /\ IaTo(t, [c EXCEPT !.st = "free"])
      /\ UNCHANGED <<igrp, ihash, ifree, idirs, iflex, li, icalls>>

free_inode(t) ==
  LET c == ith[t] d == read_inode_bitmap(igrp[c.g])
  IN  /\ c.st = "free"
      /\ igrp' = [igrp EXCEPT ![c.g] = [d EXCEPT !.bits = @ \ {c.i}, !.freei = @ + 1,
                                                !.dirs = IF c.dir THEN @ - 1 ELSE @]]
      /\ idirs' = IF c.dir THEN idirs - 1 ELSE idirs
      /\ IaMoves(t, [c EXCEPT !.st = "freed"])
      /\ UNCHANGED <<itab, ihash, ifree, iflex, li, icalls>>

free_inode_end(t) ==
  LET c == ith[t]
  IN  /\ c.st = "freed"
      /\ ifree' = ifree + 1
      /\ iflex' = [iflex EXCEPT ![FlexOf(c.g)] = [freei |-> @.freei + 1, dirs |-> IF c.dir THEN @.dirs - 1 ELSE @.dirs]]
      /\ IaMoves(t, IdleCall)
      /\ UNCHANGED <<igrp, itab, ihash, idirs, li, icalls>>

-----------------------------------------------------------------------------
(* ext4_init_inode_table, run by the lazy initialization thread. *)

init_inode_table(g) ==
  LET d == igrp[g] used == IF d.uninit THEN 0 ELSE InoPerGroup - d.unused
  IN  /\ li.st = "idle" /\ ~d.zeroed
      /\ li' = [st |-> "zero", g |-> g, from |-> (used + InoPerBlock - 1) \div InoPerBlock]
      /\ UNCHANGED <<igrp, itab, ith, ihash, ifree, idirs, iflex, icalls>>

zeroout_table ==
  /\ li.st = "zero"
  /\ itab' = [itab EXCEPT ![li.g] = [b \in TabBlks |-> IF b < li.from THEN @[b]
                                     ELSE [@[b] EXCEPT !.disk = [k \in DOMAIN @ |-> "zero"]]]]
  /\ igrp' = [igrp EXCEPT ![li.g].zeroed = TRUE]
  /\ li' = [li EXCEPT !.st = "idle", !.g = 0, !.from = 0]
  /\ UNCHANGED <<ith, ihash, ifree, idirs, iflex, icalls>>

-----------------------------------------------------------------------------
(* Buffers are written back and leave memory; a bitmap only when no call   *)
(* holds it.                                                               *)
drop_table_block(g, b) ==
  /\ itab[g][b].up /\ icalls < IaCalls /\ icalls' = icalls + 1
  /\ itab' = [itab EXCEPT ![g][b] = [disk |-> @.mem, mem |-> [k \in DOMAIN @.mem |-> "zero"], up |-> FALSE]]
  /\ UNCHANGED <<igrp, ith, ihash, ifree, idirs, iflex, li>>

drop_bitmap(g) ==
  /\ igrp[g].up /\ icalls < IaCalls /\ icalls' = icalls + 1
  /\ \A t \in IaThreads : ith[t].st \in {"idle", "nospc", "scan"} \/ ith[t].g # g
  /\ igrp' = [igrp EXCEPT ![g] = [igrp[g] EXCEPT !.up = FALSE, !.dbits = igrp[g].bits, !.bits = {}]]
  /\ UNCHANGED <<itab, ith, ihash, ifree, idirs, iflex, li>>

(* ext4_mb_mark_context: a block of the group is allocated. *)
use_cluster(g) ==
  /\ ~igrp[g].cused /\ icalls < IaCalls /\ icalls' = icalls + 1
  /\ igrp' = [igrp EXCEPT ![g] = [block_init(@) EXCEPT !.fclus = @ - 1, !.cused = TRUE]]
  /\ UNCHANGED <<itab, ith, ihash, ifree, idirs, iflex, li>>

(* ext4_mark_inode_used, while a fast commit that created a file is        *)
(* replayed: before anything else happens and before the counters of the   *)
(* mounted file system are computed.                                       *)
mark_inode_used(g, i) ==
  LET d == read_inode_bitmap(igrp[g])
  IN  /\ icalls = 0 /\ li.st = "idle" /\ i \notin d.bits
      /\ igrp' = [igrp EXCEPT ![g] = [itable_unused(block_init(d), i) EXCEPT !.bits = @ \cup {i}, !.freei = @ - 1]]
      /\ do_update_inode(g, i, FALSE, "file")
      /\ ihash' = ihash \cup {<<g, i>>}
      /\ ifree' = ifree - 1
      /\ iflex' = [iflex EXCEPT ![FlexOf(g)].freei = @ - 1]
      /\ icalls' = 1
      /\ UNCHANGED <<ith, idirs, li>>

-----------------------------------------------------------------------------
FlexSum(f, count) == MapThenSumSet(LAMBDA g : count[g], {g \in Grps : FlexOf(g) = f})

IaInit ==
  /\ \E used \in IaLayouts :
       /\ igrp = [g \in Grps |->
            [bits |-> {}, up |-> FALSE, dbits |-> used[g], freei |-> InoPerGroup - Cardinality(used[g]), dirs |-> 0,
             unused |-> IF used[g] = {} THEN InoPerGroup ELSE InoPerGroup - Max(used[g]) - 1,
             uninit |-> used[g] = {}, zeroed |-> g = 0, buninit |-> used[g] = {}, fclus |-> 1, cused |-> FALSE]]
       /\ itab = [g \in Grps |-> [b \in TabBlks |->
            [disk |-> [k \in 0..(InoPerBlock - 1) |-> IF b * InoPerBlock + k \in used[g] THEN "file" ELSE "junk"],
             mem |-> [k \in 0..(InoPerBlock - 1) |-> "zero"], up |-> FALSE]]]
       /\ ihash = UNION {{g} \X used[g] : g \in Grps}
  /\ ith = [t \in IaThreads |-> IdleCall]
  /\ ifree = MapThenSumSet(LAMBDA g : igrp[g].freei, Grps)
  /\ idirs = 0
  /\ iflex = [f \in Flexes |-> [freei |-> FlexSum(f, [g \in Grps |-> igrp[g].freei]), dirs |-> 0]]
  /\ li = [st |-> "idle", g |-> 0, from |-> 0]
  /\ icalls = 0

IaNext ==
  \/ \E t \in IaThreads :
       \/ \E dir \in BOOLEAN : new_inode(t, dir)
       \/ find_bit(t) \/ set_bit(t) \/ init_block_bitmap(t) \/ count_inode(t) \/ insert_inode(t)
       \/ write_inode(t) \/ no_space(t)
       \/ evict_inode(t) \/ write_dtime(t) \/ free_inode(t) \/ free_inode_end(t)
  \/ \E g \in Grps :
       \/ init_inode_table(g) \/ drop_bitmap(g) \/ use_cluster(g)
       \/ \E b \in TabBlks : drop_table_block(g, b)
  \/ \E x \in IaGoals : mark_inode_used(x[1], x[2])
  \/ zeroout_table

IaSpec == IaInit /\ [][IaNext]_iaVars

-----------------------------------------------------------------------------
(* An inode is never handed out while it is in use: insert_inode_locked    *)
(* never finds it in the cache.                                            *)
InodesOwnedOnce == \A t \in IaThreads : ith[t].st # "twice"

(* The inodes in use are in the table, in memory or on disk: neither the   *)
(* zeroing of tables nor a block taken to be unused, read from memory      *)
(* only, loses one.                                                        *)
InodesKept == \A x \in Written : Stored(x) \in {"file", "dir"}

(* With no call under way the counters of groups, flex groups and the file *)
(* system agree with the bitmaps and the table, and the free clusters with *)
(* the clusters in use.                                                    *)
InodeCountsSettle ==
  /\ \A g \in Grps : igrp[g].fclus = (IF igrp[g].cused THEN 0 ELSE 1)
  /\ (\A t \in IaThreads : ith[t].st \in {"idle", "nospc"}) =>
       /\ \A g \in Grps : igrp[g].freei = InoPerGroup - Cardinality(read_inode_bitmap(igrp[g]).bits)
       /\ ifree = MapThenSumSet(LAMBDA g : igrp[g].freei, Grps)
       /\ idirs = MapThenSumSet(LAMBDA g : igrp[g].dirs, Grps)
       /\ \A f \in Flexes : iflex[f] = [freei |-> FlexSum(f, [g \in Grps |-> igrp[g].freei]),
                                        dirs |-> FlexSum(f, [g \in Grps |-> igrp[g].dirs])]

(* A call without a goal that no other call disturbs fails for want of an  *)
(* inode only when there is none.                                          *)
NoSpaceRightly ==
  \A t \in IaThreads :
    ith[t].st = "nospc" /\ ith[t].quiet /\ ~ith[t].goal =>
      \A g \in Grps : read_inode_bitmap(igrp[g]).bits = Bits

\* Creates, frees and the lazy zeroing of tables leave each inode to one owner,
\* with its contents, the counts right, and no create refused without need.
InodesExact == InodesOwnedOnce /\ InodesKept /\ InodeCountsSettle /\ NoSpaceRightly
=============================================================================
