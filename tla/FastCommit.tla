----------------------------- MODULE FastCommit -----------------------------
(***************************************************************************)
(* Fast commits: between two full journal commits an fsync writes only the *)
(* tags of what changed.  Handlers track directory entries, inodes and     *)
(* block ranges in two queues (MAIN, and STAGING while a commit runs); a   *)
(* fast commit turns MAIN into tags closed by a tail; recovery takes the   *)
(* last full commit and replays the tags up to the last valid tail.        *)
(*                                                                         *)
(* A file system is a record: dent, the inode behind each name (0: none);  *)
(* ino, the link count and block map of each inode; bb, the block bitmap.  *)
(* jbd2 is not part of this repository: its locking of updates, its phases *)
(* and the two calls of the cleanup callback are modelled from their use.  *)
(* Blocks freed by a transaction come back only when it has committed.     *)
(***************************************************************************)
EXTENDS Integers, Sequences, FiniteSets, SequencesExt, FiniteSetsExt

CONSTANTS FcNames,    \* names in the one directory
          FcInodes,   \* inode numbers, positive
          FcLast,     \* last logical block of a file
          FcPblks,    \* physical blocks, positive
          FcOps,      \* bound on handlers run
          FcTids      \* bound on transactions

VARIABLES live,       \* the file system in memory
          disk,       \* the last full commit: [tid, fs]
          flog,       \* the fast commit area: [tid, tags]
          track,      \* the queues and the per-inode fields
          inel,       \* [on, tid]: fast commit ineligible
          jnl,        \* [tid, running, phase, snap]: the journal
          unfree,     \* blocks freed and not yet released: {<<block, tid>>}
          promised,   \* what the last successful commit covered
          missed,     \* transactions with changes that were not tracked
          fcops       \* handlers run so far

fcVars == <<live, disk, flog, track, inel, jnl, unfree, promised, missed, fcops>>

FLblks == 0..FcLast
NoMap == [l \in FLblks |-> 0]
NoInode == [nlink |-> 0, map |-> NoMap]
NoRange == [lo |-> 0, len |-> 0]
NoQueues == [dq |-> [main |-> <<>>, staging |-> <<>>],
             iq |-> [main |-> {}, staging |-> {}],
             sync |-> [i \in FcInodes |-> 0],
             range |-> [i \in FcInodes |-> NoRange]]

EmptyFs == [dent |-> [n \in FcNames |-> 0], ino |-> [i \in FcInodes |-> NoInode], bb |-> {}]

BlocksOf(fs, i) == {fs.ino[i].map[l] : l \in FLblks} \ {0}
Alive(fs) == {i \in FcInodes : fs.ino[i].nlink > 0}

-----------------------------------------------------------------------------
(* Tracking.  t is the value of track; every function takes the handle's   *)
(* transaction id.                                                         *)

Queue == IF jnl.phase = "idle" THEN "main" ELSE "staging"

(* The first tracking in a transaction resets the range. *)
track_template(t, i, tid) ==
  IF t.sync[i] = tid THEN t
  ELSE [t EXCEPT !.sync[i] = tid, !.range[i] = NoRange]

enqueue(t, i) ==
  IF i \in t.iq.main \cup t.iq.staging THEN t
  ELSE [t EXCEPT !.iq[Queue] = @ \cup {i}]

track_inode(t, i, tid) ==
  IF inel.on THEN t ELSE enqueue(track_template(t, i, tid), i)

HigherOf(a, b) == IF a > b THEN a ELSE b
LowerOf(a, b) == IF a < b THEN a ELSE b

(* Every block tracked since the last commit stays inside the one range    *)
(* the inode has.                                                          *)
grow_range(r, lo, hi) ==
  IF r.len > 0
  THEN LET first == LowerOf(r.lo, lo)
       IN  [lo |-> first, len |-> HigherOf(r.lo + r.len - 1, hi) - first + 1]
  ELSE [lo |-> lo, len |-> hi - lo + 1]

track_range(t, i, lo, hi, tid) ==
  IF inel.on THEN t
  ELSE LET u == track_template(t, i, tid)
       IN  enqueue([u EXCEPT !.range[i] = grow_range(@, lo, hi)], i)

track_dentry(t, op, name, i, tid) ==
  IF inel.on THEN t
  ELSE LET u == track_template(t, i, tid)
       IN  [u EXCEPT !.dq[Queue] = Append(@, [op |-> op, name |-> name, ino |-> i])]

(* An evicted inode leaves the queues and takes its CREAT record with it.  *)
fc_del(t, i) ==
  LET Keep(q) == SelectSeq(q, LAMBDA u : ~(u.op = "CREAT" /\ u.ino = i))
  IN  [t EXCEPT !.iq = [k \in DOMAIN @ |-> @[k] \ {i}],
                !.dq = [k \in DOMAIN @ |-> Keep(@[k])]]

mark_ineligible(tid) ==
  [on |-> TRUE, tid |-> IF ~inel.on \/ tid > inel.tid THEN tid ELSE inel.tid]

cleanup_queues_all(t, full, tid) ==
  [t EXCEPT !.range = [i \in FcInodes |-> IF i \in t.iq.main THEN NoRange ELSE @[i]],
            !.iq = [main |-> t.iq.staging, staging |-> {}],
            !.dq = [main |-> t.dq.staging, staging |-> <<>>]]

(* After a commit MAIN is done with; what a later transaction changed in   *)
(* the meantime is queued again, and STAGING takes the place of MAIN.      *)
cleanup_queues(t, full, tid) ==
  LET again == {i \in t.iq.main : full /\ tid < t.sync[i]}
  IN  [t EXCEPT !.range = [i \in FcInodes |-> IF i \in t.iq.main /\ tid >= t.sync[i]
                                              THEN NoRange ELSE @[i]],
                !.iq = [main |-> t.iq.staging \cup again, staging |-> {}],
                !.dq = [main |-> t.dq.staging, staging |-> <<>>]]

cleanup_ineligible(tid) == IF tid >= inel.tid THEN [on |-> FALSE, tid |-> 0] ELSE inel

-----------------------------------------------------------------------------
(* Handlers.  Each runs inside one journal handle, in transaction jnl.tid. *)

(* The last link and the last reference are gone: the blocks and the inode *)
(* are freed, and the inode leaves the queues.                             *)
Evicted(fs, i) == [fs EXCEPT !.ino[i] = NoInode, !.bb = @ \ BlocksOf(fs, i)]

Drop(fs, i) ==
  LET less == [fs EXCEPT !.ino[i].nlink = @ - 1]
  IN  IF less.ino[i].nlink = 0 THEN Evicted(less, i) ELSE less

Forgotten(t, fs, i) == IF fs.ino[i].nlink = 1 THEN fc_del(t, i) ELSE t

\* The tracking functions return at once while the file system is ineligible.
\* When that is due to a transaction whose commit is under way, the end of
\* that commit makes it eligible again, and the running transaction lacks
\* what it did not track.
Untracked == jnl.phase # "idle" /\ inel.on /\ inel.tid < jnl.tid

Handler(fs, t) ==
  /\ fcops < FcOps
  /\ fcops' = fcops + 1
  /\ live' = fs
  /\ track' = t
  /\ jnl' = [jnl EXCEPT !.running = TRUE]
  /\ unfree' = unfree \cup {<<p, jnl.tid>> : p \in live.bb \ fs.bb}
  /\ missed' = IF Untracked THEN missed \cup {jnl.tid} ELSE missed
  /\ UNCHANGED <<disk, flog, promised>>

create(n) ==
  /\ live.dent[n] = 0
  /\ Alive(live) # FcInodes
  /\ LET i == Min(FcInodes \ Alive(live))
     IN  Handler([live EXCEPT !.dent[n] = i, !.ino[i] = [NoInode EXCEPT !.nlink = 1]],
                 track_dentry(track_inode(track, i, jnl.tid), "CREAT", n, i, jnl.tid))
  /\ UNCHANGED inel

link(n, new) ==
  /\ live.dent[n] # 0 /\ live.dent[new] = 0
  /\ LET i == live.dent[n]
     IN  Handler([live EXCEPT !.dent[new] = i, !.ino[i].nlink = @ + 1],
                 track_dentry(track_inode(track, i, jnl.tid), "LINK", new, i, jnl.tid))
  /\ UNCHANGED inel

unlink(n) ==
  /\ live.dent[n] # 0
  /\ LET i == live.dent[n]
         t == track_dentry(track_inode(track, i, jnl.tid), "UNLINK", n, i, jnl.tid)
     IN  Handler(Drop([live EXCEPT !.dent[n] = 0], i), Forgotten(t, live, i))
  /\ UNCHANGED inel

(* An overwritten target is unlinked, then the new name linked and the old *)
(* one unlinked.                                                           *)
rename_tags(t, n, new, i, tid) ==
  LET over == live.dent[new]
      t1 == track_inode(t, i, tid)
      t2 == IF over = 0 THEN t1 ELSE track_dentry(t1, "UNLINK", new, over, tid)
      t3 == track_dentry(t2, "LINK", new, i, tid)
      t4 == track_dentry(t3, "UNLINK", n, i, tid)
  IN  IF over = 0 THEN t4 ELSE Forgotten(track_inode(t4, over, tid), live, over)

rename(n, new) ==
  /\ live.dent[n] \notin {0, live.dent[new]}
  /\ LET i == live.dent[n]
         moved == [live EXCEPT !.dent[new] = i, !.dent[n] = 0]
         over == live.dent[new]
     IN  Handler(IF over = 0 THEN moved ELSE Drop(moved, over),
                 rename_tags(track, n, new, i, jnl.tid))
  /\ UNCHANGED inel

(* A block is allocated for a hole. *)
FreeBlocks == FcPblks \ (live.bb \cup {u[1] : u \in unfree})

write_block(i, l) ==
  /\ i \in Alive(live) /\ live.ino[i].map[l] = 0
  /\ FreeBlocks # {}
  /\ LET p == Min(FreeBlocks)
     IN  Handler([live EXCEPT !.ino[i].map[l] = p, !.bb = @ \cup {p}],
                 track_range(track_inode(track, i, jnl.tid), i, l, l, jnl.tid))
  /\ UNCHANGED inel

(* Punching a hole or truncating: blocks lo..hi go, and are tracked. *)
punch(i, lo, hi) ==
  /\ i \in Alive(live)
  /\ \E l \in lo..hi : live.ino[i].map[l] # 0
  /\ LET gone == {live.ino[i].map[l] : l \in lo..hi} \ {0}
     IN  Handler([live EXCEPT !.ino[i].map = [l \in FLblks |-> IF l \in lo..hi THEN 0 ELSE @[l]],
                              !.bb = @ \ gone],
                 track_inode(track_range(track, i, lo, hi, jnl.tid), i, jnl.tid))
  /\ UNCHANGED inel

(* An operation fast commits have no tag for (an attribute, a resize...).  *)
unsupported ==
  /\ inel' = mark_ineligible(jnl.tid)
  /\ Handler(live, track)

(* Memory pressure evicts an inode that is still linked; one that was      *)
(* queued makes the file system ineligible.  With no running transaction   *)
(* the recorded id stays what it was.                                      *)
reclaim(i) ==
  /\ i \in Alive(live)
  /\ fcops < FcOps /\ fcops' = fcops + 1
  /\ i \in track.iq.main \cup track.iq.staging
  /\ inel' = IF jnl.running THEN mark_ineligible(jnl.tid) ELSE [inel EXCEPT !.on = TRUE]
  /\ track' = fc_del(track, i)
  /\ UNCHANGED <<live, disk, flog, jnl, unfree, promised, missed>>

-----------------------------------------------------------------------------
(* Committing. *)

write_inode(i) == <<[tag |-> "INODE", ino |-> i, nlink |-> live.ino[i].nlink]>>

write_inode_data(t, i) ==
  [k \in 1..t.range[i].len |->
     LET l == t.range[i].lo + k - 1
         p == live.ino[i].map[l]
     IN  IF p = 0 THEN [tag |-> "DEL_RANGE", ino |-> i, lblk |-> l]
         ELSE [tag |-> "ADD_RANGE", ino |-> i, lblk |-> l, pblk |-> p]]

dentry_tlv(u) == <<[tag |-> u.op, name |-> u.name, ino |-> u.ino]>>

CreatedIn(q) == {q[k].ino : k \in {j \in DOMAIN q : q[j].op = "CREAT"}}

(* Directory updates in the order they were made; a CREAT is preceded by   *)
(* its inode and its blocks.                                               *)
commit_dentry_updates(t) ==
  FlattenSeq([k \in DOMAIN t.dq.main |->
     LET u == t.dq.main[k]
     IN  IF u.op = "CREAT"
         THEN write_inode(u.ino) \o write_inode_data(t, u.ino) \o dentry_tlv(u)
         ELSE dentry_tlv(u)])

(* The range of an inode is written once, with its CREAT if it has one.    *)
commit_inodes(t) ==
  LET order == SetToSortSeq(t.iq.main, <)
      data(i) == IF i \in CreatedIn(t.dq.main) THEN <<>> ELSE write_inode_data(t, i)
  IN  FlattenSeq([k \in DOMAIN order |-> data(order[k]) \o write_inode(order[k])])

TailTag == <<[tag |-> "TAIL"]>>
perform_commit(t) == commit_dentry_updates(t) \o commit_inodes(t)

WrittenOut(t) ==
  [t EXCEPT !.range = [i \in FcInodes |-> IF i \in t.iq.main \cup CreatedIn(t.dq.main)
                                          THEN [@[i] EXCEPT !.len = 0] ELSE @[i]]]

(* An fsync with nothing new to write only adds a tail: left out, as a     *)
(* bound on the log.                                                       *)
Fresh == \/ track.dq.main # <<>> \/ track.iq.main # {}
         \/ promised # live

(* The area is written from its start after a full commit. *)
Area == IF flog.tid = jnl.tid THEN flog.tags ELSE <<>>

CanCommit == jnl.phase = "idle" /\ jnl.running

fc_commit ==
  /\ CanCommit /\ Fresh /\ ~inel.on
  /\ flog' = [tid |-> jnl.tid, tags |-> Area \o perform_commit(track) \o TailTag]
  /\ track' = cleanup_queues(WrittenOut(track), FALSE, 0)
  /\ promised' = live
  /\ UNCHANGED <<live, disk, inel, jnl, unfree, missed, fcops>>

(* The full commit takes the transaction as it is and opens the next.      *)
FullStart(t) ==
  /\ jnl.tid < FcTids
  /\ jnl' = [tid |-> jnl.tid + 1, running |-> FALSE, phase |-> "writing", snap |-> live]
  /\ track' = t

(* A fast commit that fails, or finds the file system ineligible, cleans   *)
(* the queues up and falls back; its tags have no tail.                    *)
fallback ==
  /\ CanCommit
  /\ IF inel.on
     THEN /\ FullStart(cleanup_queues(track, FALSE, jnl.tid))
          /\ UNCHANGED flog
     ELSE /\ FullStart(cleanup_queues(WrittenOut(track), FALSE, jnl.tid))
          /\ flog' = [tid |-> jnl.tid, tags |-> Area \o perform_commit(track)]
  /\ inel' = cleanup_ineligible(jnl.tid)
  /\ UNCHANGED <<live, disk, unfree, promised, missed, fcops>>

(* The journal's own thread starts a full commit. *)
full_commit ==
  /\ CanCommit
  /\ FullStart(track)
  /\ UNCHANGED <<live, disk, flog, inel, unfree, promised, missed, fcops>>

full_durable ==
  /\ jnl.phase = "writing"
  /\ jnl' = [jnl EXCEPT !.phase = "written"]
  /\ disk' = [tid |-> jnl.tid - 1, fs |-> jnl.snap]
  /\ promised' = jnl.snap
  /\ UNCHANGED <<live, flog, track, inel, unfree, missed, fcops>>

full_cleanup ==
  /\ jnl.phase = "written"
  /\ jnl' = [jnl EXCEPT !.phase = "idle", !.snap = EmptyFs]
  /\ track' = cleanup_queues(track, TRUE, jnl.tid - 1)
  /\ inel' = cleanup_ineligible(jnl.tid - 1)
  /\ unfree' = {u \in unfree : u[2] >= jnl.tid}
  /\ UNCHANGED <<live, disk, flog, promised, missed, fcops>>

-----------------------------------------------------------------------------
(* Recovery.  r is [fs, mod, err]: the file system, the inodes recorded as *)
(* modified, and whether a handler returned an error.                      *)

(* Tags count up to the last tail, and only in the area of the transaction *)
(* after the last full commit.                                             *)
replay_scan ==
  IF flog.tid # disk.tid + 1 THEN <<>>
  ELSE LET tails == {k \in DOMAIN flog.tags : flog.tags[k].tag = "TAIL"}
       IN  IF tails = {} THEN <<>> ELSE SubSeq(flog.tags, 1, Max(tails))

(* A name that leads to another inode is left alone, and the link count is *)
(* dropped all the same.                                                   *)
replay_unlink(r, g) ==
  IF r.fs.ino[g.ino].nlink = 0 \/ r.fs.dent[g.name] = 0 THEN r
  ELSE LET fs == IF r.fs.dent[g.name] = g.ino
                 THEN [r.fs EXCEPT !.dent[g.name] = 0] ELSE r.fs
       IN  [r EXCEPT !.fs = Drop(fs, g.ino)]

link_internal(fs, g) ==
  IF fs.dent[g.name] # 0 THEN fs
  ELSE [fs EXCEPT !.dent[g.name] = g.ino, !.ino[g.ino].nlink = @ + 1]

replay_link(r, g) ==
  IF r.fs.ino[g.ino].nlink = 0 THEN r ELSE [r EXCEPT !.fs = link_internal(r.fs, g)]

replay_create(r, g) ==
  IF r.fs.ino[g.ino].nlink = 0 THEN [r EXCEPT !.err = TRUE]
  ELSE [r EXCEPT !.fs = [link_internal(r.fs, g) EXCEPT !.ino[g.ino].nlink = 1]]

(* The blocks leave the bitmap until the end of the replay; everything but *)
(* the block map is copied.                                                *)
replay_inode(r, g) ==
  LET bb == IF r.fs.ino[g.ino].nlink > 0 THEN r.fs.bb \ BlocksOf(r.fs, g.ino) ELSE r.fs.bb
  IN  [r EXCEPT !.fs.bb = bb, !.fs.ino[g.ino].nlink = g.nlink,
                !.mod = @ \cup {g.ino}, !.err = @ \/ g.nlink = 0]

replay_add_range(r, g) ==
  IF r.fs.ino[g.ino].nlink = 0 THEN r
  ELSE [r EXCEPT !.fs.bb = @ \ ({r.fs.ino[g.ino].map[g.lblk]} \ {g.pblk}),
                 !.fs.ino[g.ino].map[g.lblk] = g.pblk,
                 !.mod = @ \cup {g.ino}]

replay_del_range(r, g) ==
  IF r.fs.ino[g.ino].nlink = 0 THEN r
  ELSE [r EXCEPT !.fs.bb = @ \ {r.fs.ino[g.ino].map[g.lblk]},
                 !.fs.ino[g.ino].map[g.lblk] = 0,
                 !.mod = @ \cup {g.ino}]

replay(r, g) ==
  IF r.err THEN r
  ELSE CASE g.tag = "LINK" -> replay_link(r, g)
         [] g.tag = "UNLINK" -> replay_unlink(r, g)
         [] g.tag = "ADD_RANGE" -> replay_add_range(r, g)
         [] g.tag = "CREAT" -> replay_create(r, g)
         [] g.tag = "DEL_RANGE" -> replay_del_range(r, g)
         [] g.tag = "INODE" -> replay_inode(r, g)
         [] OTHER -> r

set_bitmaps(r) ==
  [r.fs EXCEPT !.bb = @ \cup UNION {BlocksOf(r.fs, i) : i \in r.mod \cap Alive(r.fs)}]

ReplayOn(fs, tags) == FoldLeft(replay, [fs |-> fs, mod |-> {}, err |-> FALSE], tags)

Recover(fs, tags) == LET r == ReplayOn(fs, tags) IN [fs |-> set_bitmaps(r), err |-> r.err]

Same(fs, gs) == /\ fs.dent = gs.dent
                /\ Alive(fs) = Alive(gs)
                /\ \A i \in Alive(fs) : fs.ino[i] = gs.ino[i]

-----------------------------------------------------------------------------
(* One file with one block is there from the start. *)
FirstFs ==
  LET i == Min(FcInodes)  p == Min(FcPblks)  n == CHOOSE m \in FcNames : TRUE
  IN  [dent |-> [EmptyFs.dent EXCEPT ![n] = i],
       ino |-> [EmptyFs.ino EXCEPT ![i] = [nlink |-> 1, map |-> [NoMap EXCEPT ![0] = p]]],
       bb |-> {p}]

FcInit ==
  /\ live = FirstFs
  /\ disk = [tid |-> 1, fs |-> FirstFs]
  /\ flog = [tid |-> 0, tags |-> <<>>]
  /\ track = NoQueues
  /\ inel = [on |-> FALSE, tid |-> 0]
  /\ jnl = [tid |-> 2, running |-> FALSE, phase |-> "idle", snap |-> EmptyFs]
  /\ unfree = {}
  /\ promised = FirstFs
  /\ missed = {}
  /\ fcops = 0

Handlers ==
  \/ \E n \in FcNames : create(n) \/ unlink(n)
  \/ \E n, m \in FcNames : link(n, m) \/ rename(n, m)
  \/ \E i \in FcInodes, l \in FLblks : write_block(i, l)
  \/ \E i \in FcInodes, lo, hi \in FLblks : lo <= hi /\ punch(i, lo, hi)
  \/ unsupported

Commits == fc_commit \/ fallback \/ full_commit \/ full_durable \/ full_cleanup

FcNext == Handlers \/ (\E i \in FcInodes : reclaim(i)) \/ Commits

FcSpec == FcInit /\ [][FcNext]_fcVars

-----------------------------------------------------------------------------
FastOfMissed == flog.tid = disk.tid + 1 /\ flog.tid \in missed

(* What the last commit that returned success covered is what recovery     *)
(* brings back, names, link counts and block maps, whether that commit was *)
(* a fast one, a full one, or a fast one on top of a full one that ran     *)
(* while files were changing; unless the fast one is of a transaction that *)
(* made changes while an ineligible one was being committed.               *)
FsyncDurable ==
  LET r == Recover(disk.fs, replay_scan)
  IN  ~FastOfMissed => ~r.err /\ Same(r.fs, promised)

(* After the replay the block bitmap has exactly the blocks that files     *)
(* map: none handed out twice, none leaked, although every tag clears the  *)
(* blocks of its inode and only the last step sets them again.             *)
ReplayedBitmap ==
  LET fs == Recover(disk.fs, replay_scan).fs
  IN  ~FastOfMissed => fs.bb = UNION {BlocksOf(fs, i) : i \in Alive(fs)}

(* Whether a replay cut short by a crash after any number of tags, and run *)
(* again from the first tag, ends where an uninterrupted one ends.  It     *)
(* need not: an unlink of a name that the first replay gave to another     *)
(* inode drops a link all the same (replay_unlink).                        *)
ReplayTwice ==
  LET tags == replay_scan
  IN  \A k \in 1..Len(tags) :
        Same(Recover(ReplayOn(disk.fs, SubSeq(tags, 1, k)).fs, tags).fs, promised)

\* What fsync promised survives, and replay leaves bitmaps that cover it.
FsyncKept == FsyncDurable /\ ReplayedBitmap
=============================================================================
