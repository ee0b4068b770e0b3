--------------------------- MODULE FriendVersion ---------------------------
(***************************************************************************)
(* A child and its friend file across crashes.  The friend holds one bit   *)
(* per block: set when the child has a copy of its own.  Both files carry  *)
(* a version attribute.  The child's is raised before the first write that *)
(* changes the friend; the friend follows when the child has been closed   *)
(* and is clean.  At an open the friend is rebuilt from the child's        *)
(* extents if the two versions differ.                                     *)
(*                                                                         *)
(* Attributes and extents reach the disk with a commit of the journal;     *)
(* data pages (the bits are the friend's data) whenever writeback likes:   *)
(* nothing keeps the friend's pages back until the child's version is      *)
(* committed, nor the friend's version until its bits are written.         *)
(***************************************************************************)
EXTENDS Integers

CONSTANTS
    FrBlocks,       \* blocks of the child
    MaxFrVersion    \* bound on version attributes

VARIABLES
    fr,             \* what is in memory
    disk,           \* what a crash leaves
    frpc,           \* where the running call is: "idle" between calls
    lapse           \* history, of "bits": the friend's bits are on disk and the
                    \* version raised for them is not; "version": the friend's
                    \* version is on disk and its bits are not; "torn": a crash
                    \* fell into one of these, and no rebuild has followed

frVars == <<fr, disk, frpc, lapse>>

\* data: blocks the child has pages or extents for; alloc: those with extents;
\* bits: the friend; cv, fv: the two version attributes; open: the child has
\* a scorw inode; first: i_cannot_update_child_version_cnt; sync:
\* i_can_sync_frnd; inode: the child's inode is dirty; pending: the child is
\* on pending_frnd_version_cnt_inc_list.
FrInit ==
    /\ disk = [data |-> {}, bits |-> {}, cv |-> 1, fv |-> 1]
    /\ fr = [data |-> {}, alloc |-> {}, bits |-> {}, cv |-> 1, fv |-> 1, open |-> FALSE,
             first |-> FALSE, sync |-> -1, inode |-> FALSE, pending |-> FALSE]
    /\ frpc = "idle"
    /\ lapse = {}

-----------------------------------------------------------------------------
(* scorw_prepare_child_inode: recovery of the friend.                      *)
OpenFriend ==
    /\ frpc = "idle" /\ ~fr.open
    /\ fr.first \/ fr.cv = fr.fv
    /\ fr' = [fr EXCEPT !.open = TRUE]
    /\ UNCHANGED <<disk, frpc, lapse>>

\* scorw_recover_friend_file: all bits are cleared, then those of the blocks
\* in the extent status tree (written, unwritten and delayed) are set.
RecoverFriend ==
    /\ frpc = "idle" /\ ~fr.open
    /\ ~fr.first /\ fr.cv # fr.fv
    /\ fr' = [fr EXCEPT !.bits = fr.data, !.open = TRUE]
    /\ frpc' = "rebuilt"
    /\ lapse' = lapse \ {"torn"}
    /\ UNCHANGED disk

RecoverSyncsBlocks ==
    /\ frpc = "rebuilt"
    /\ disk' = [disk EXCEPT !.bits = fr.bits]
    /\ frpc' = "synced"
    /\ UNCHANGED <<fr, lapse>>

\* The friend's version is set and its inode synced, which commits.
RecoverSetsVersion ==
    /\ frpc = "synced"
    /\ fr' = [fr EXCEPT !.fv = fr.cv]
    /\ disk' = [disk EXCEPT !.fv = fr.cv, !.cv = fr.cv, !.data = fr.alloc]
    /\ frpc' = "idle"
    /\ UNCHANGED lapse

-----------------------------------------------------------------------------
(* scorw_child_version_cnt_inc, called before a block that the child does  *)
(* not have is written or copied to it.                                    *)
VersionInc_only_once ==
    /\ frpc = "idle" /\ fr.open
    /\ fr.first \/ fr.cv < MaxFrVersion
    /\ fr' = IF fr.first \/ fr.cv > 1 THEN fr
             ELSE [fr EXCEPT !.first = TRUE, !.sync = -1, !.cv = @ + 1, !.inode = TRUE]
    /\ frpc' = "write"
    /\ UNCHANGED <<disk, lapse>>
VersionInc ==
    /\ frpc = "idle" /\ fr.open
    /\ fr.first \/ fr.cv < MaxFrVersion
    /\ fr' = IF fr.first THEN fr
             ELSE [fr EXCEPT !.first = TRUE, !.sync = -1, !.cv = @ + 1, !.inode = TRUE]
    /\ frpc' = "write"
    /\ UNCHANGED <<disk, lapse>>

\* The block is written to the child and its bit set in the friend.
WriteBlock(b) ==
    /\ frpc = "write" /\ b \notin fr.bits
    /\ fr' = [fr EXCEPT !.data = @ \cup {b}, !.bits = @ \cup {b}, !.inode = TRUE]
    /\ frpc' = "idle"
    /\ UNCHANGED <<disk, lapse>>

\* The child already has all it wants to write.
WriteNone ==
    /\ frpc = "write" /\ fr.bits = FrBlocks
    /\ frpc' = "idle"
    /\ UNCHANGED <<fr, disk, lapse>>

-----------------------------------------------------------------------------
(* Writeback and the journal.  jbd2 sets i_can_sync_frnd once the commit   *)
(* with the child's version is on disk.                                    *)
ChildWriteback ==
    /\ fr.alloc # fr.data \/ fr.inode
    /\ fr' = [fr EXCEPT !.alloc = fr.data, !.inode = FALSE]
    /\ UNCHANGED <<disk, frpc, lapse>>

Committed == [disk EXCEPT !.data = fr.alloc, !.cv = fr.cv, !.fv = fr.fv]

JournalCommit ==
    /\ Committed # disk \/ (fr.first /\ fr.sync = -1)
    /\ disk' = Committed
    /\ fr' = [fr EXCEPT !.sync = IF fr.first THEN 1 ELSE @]
    /\ lapse' = (lapse \ {"bits"})
                  \cup {l \in {"version"} : frpc = "versioned" /\ disk.bits # fr.bits}
    /\ UNCHANGED frpc

FriendWriteback ==
    /\ disk.bits # fr.bits
    /\ disk' = [disk EXCEPT !.bits = fr.bits]
    /\ lapse' = (lapse \ {"version"}) \cup {l \in {"bits"} : fr.first /\ fr.sync = -1}
    /\ UNCHANGED <<fr, frpc>>

-----------------------------------------------------------------------------
(* scorw_unprepare_child_inode, at the last close.                         *)
CloseChild_unqueued ==
    /\ frpc = "idle" /\ fr.open
    /\ fr' = [fr EXCEPT !.open = FALSE, !.pending = @ \/ (fr.first /\ fr.inode)]
    /\ UNCHANGED <<disk, frpc, lapse>>
CloseChild ==
    /\ frpc = "idle" /\ fr.open
    /\ fr' = [fr EXCEPT !.open = FALSE, !.pending = @ \/ fr.first]
    /\ UNCHANGED <<disk, frpc, lapse>>

(* scorw_process_pending_frnd_version_cnt_inc_list, by the page copy       *)
(* thread every five seconds: an open child is taken off the list, a dirty *)
(* one, or one whose version is not committed, waits for the next round.   *)
DropOpenChild ==
    /\ frpc = "idle" /\ fr.pending /\ fr.open
    /\ fr' = [fr EXCEPT !.pending = FALSE]
    /\ UNCHANGED <<disk, frpc, lapse>>

ChildClean == fr.alloc = fr.data /\ ~fr.inode

SetFriendVersion ==
    /\ frpc = "idle" /\ fr.pending /\ ~fr.open
    /\ ChildClean /\ fr.sync = 1
    /\ fr' = [fr EXCEPT !.fv = fr.cv]
    /\ frpc' = "versioned"
    /\ UNCHANGED <<disk, lapse>>

\* The same at unmount, where a dirty child is synced first.
UnmountSyncsChild ==
    /\ frpc = "idle" /\ fr.pending /\ ~fr.open
    /\ fr' = [fr EXCEPT !.alloc = fr.data, !.inode = FALSE, !.fv = fr.cv]
    /\ disk' = IF ChildClean THEN disk ELSE [disk EXCEPT !.data = fr.data, !.cv = fr.cv]
    /\ lapse' = IF ChildClean THEN lapse ELSE lapse \ {"bits"}
    /\ frpc' = "versioned"

\* write_inode_now(frnd, 1), then the flags are reset.
SyncFriend ==
    /\ frpc = "versioned"
    /\ disk' = [Committed EXCEPT !.bits = fr.bits]
    /\ fr' = [fr EXCEPT !.first = FALSE, !.sync = -1, !.pending = FALSE]
    /\ frpc' = "idle"
    /\ lapse' = lapse \cap {"torn"}

(* A crash at any moment, and the next mount.                              *)
FriendCrash ==
    /\ fr' = [data |-> disk.data, alloc |-> disk.data, bits |-> disk.bits, cv |-> disk.cv,
              fv |-> disk.fv, open |-> FALSE, first |-> FALSE, sync |-> -1,
              inode |-> FALSE, pending |-> FALSE]
    /\ frpc' = "idle"
    /\ lapse' = {l \in {"torn"} : lapse # {}}
    /\ UNCHANGED disk

FrNext ==
    \/ OpenFriend \/ RecoverFriend \/ RecoverSyncsBlocks \/ RecoverSetsVersion
    \/ VersionInc \/ (\E b \in FrBlocks : WriteBlock(b)) \/ WriteNone
    \/ ChildWriteback \/ JournalCommit \/ FriendWriteback
    \/ CloseChild \/ DropOpenChild
    \/ SetFriendVersion \/ UnmountSyncsChild \/ SyncFriend
    \/ FriendCrash

FrSpec == FrInit /\ [][FrNext]_frVars

-----------------------------------------------------------------------------
\* Whenever the child is open and between two writes, after any sequence of
\* crashes, the friend has a bit for exactly the blocks the child has: a read
\* of the child neither misses its own data nor finds a hole.
FriendExact == fr.open /\ frpc = "idle" => fr.bits = fr.data

\* What the two versions do achieve: FriendExact can fail only from a crash
\* that found the friend's bits on disk ahead of the child's version or the
\* friend's version ahead of its bits, and only until the friend is rebuilt.
VersionsTell == "torn" \notin lapse => FriendExact

\* Once raised, the child's version is remembered by an open child or by an
\* entry of the pending list until the friend has followed: the note is not
\* lost when the child is closed, opened and closed again.
NoteKept == fr.first => fr.open \/ fr.pending

\* Writeback, the journal and the page copy thread go on; nobody has to open
\* or close the child, and nothing has to crash.
FrFairness ==
    /\ WF_frVars(ChildWriteback)
    /\ WF_frVars(JournalCommit)
    /\ WF_frVars(SetFriendVersion)
    /\ WF_frVars(SyncFriend)

\* A child that is left closed does not stay on the pending list: its friend
\* follows, and the next open needs no rebuild.
FriendFollows == (<>[](~fr.open)) => <>[](~fr.pending /\ ~fr.first)
=============================================================================
