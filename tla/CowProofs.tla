------------------------------ MODULE CowProofs ------------------------------
(***************************************************************************)
(* Copy-on-write children.                                                 *)
(*                                                                         *)
(* First the friend file, which holds the copy bits on disk: for any       *)
(* number of blocks and versions it is exact after any sequence of crashes *)
(* none of which fell between two writes that reached the disk in the      *)
(* wrong order, and exact again once it has been rebuilt.                  *)
(*                                                                         *)
(* Then the invariants of CowCopy, for any number of children, writers and *)
(* blocks.  All of them rest on one fact, Locks: an uncopied block of a    *)
(* child is in the hands of at most one writer, of the barrier of the      *)
(* parent's writer, or of the page copy thread.  Most leaves there are set *)
(* and function reasoning, for Zenon; the ones with arithmetic or records  *)
(* to take apart name SMT.                                                 *)
(***************************************************************************)
EXTENDS CowCopy, FriendVersion, FiniteSetTheorems, TLAPS

-----------------------------------------------------------------------------
(* The friend file across crashes.                                         *)

FrMemory ==
    [data: SUBSET FrBlocks, alloc: SUBSET FrBlocks, bits: SUBSET FrBlocks, cv: Nat, fv: Nat,
     open: BOOLEAN, first: BOOLEAN, sync: {-1, 1}, inode: BOOLEAN, pending: BOOLEAN]

FrDisk == [data: SUBSET FrBlocks, bits: SUBSET FrBlocks, cv: Nat, fv: Nat]

FrTypeOK ==
    /\ fr \in FrMemory
    /\ disk \in FrDisk
    /\ frpc \in {"idle", "rebuilt", "synced", "write", "versioned"}
    /\ lapse \subseteq {"bits", "version", "torn"}

\* Where the running call is, and what it has established.
CallState ==
    /\ fr.pending => fr.first
    /\ frpc = "write" => fr.open /\ fr.first
    /\ frpc \in {"rebuilt", "synced"} => fr.open /\ ~fr.first /\ fr.cv # fr.fv
    /\ frpc = "synced" => disk.bits = fr.bits
    /\ frpc = "versioned" => /\ fr.pending /\ ~fr.open /\ fr.first
                             /\ fr.fv = fr.cv /\ fr.alloc = fr.data
    /\ "version" \in lapse => frpc = "versioned"
    /\ "bits" \in lapse => fr.first /\ fr.sync = -1

\* The friend's version never overtakes the child's, and lags behind it from
\* the first write until the page copy thread has brought it up.
VersionOrder ==
    /\ disk.fv <= fr.fv /\ fr.fv <= fr.cv /\ disk.fv <= disk.cv
    /\ fr.first /\ frpc # "versioned" => disk.fv < fr.cv /\ fr.fv < fr.cv
    /\ fr.sync = 1 => fr.first /\ disk.cv = fr.cv
    /\ fr.open /\ ~fr.first /\ frpc = "idle" => fr.cv = fr.fv

\* In memory: the bits are wrong only while the versions tell.
BitsInMemory ==
    "torn" \notin lapse => (fr.open \/ fr.first \/ fr.cv = fr.fv => fr.bits = fr.data)

\* Between notes, memory and disk agree: on the bits if the versions are equal,
\* on the versions and the extents if not.
Settled ==
    ~fr.first =>
        /\ fr.alloc = fr.data
        /\ fr.cv = fr.fv => "torn" \in lapse \/ disk.bits = fr.bits
        /\ fr.cv # fr.fv => disk.cv = fr.cv /\ disk.fv = fr.fv

\* Outside the two windows a crash finds the bits wrong only if it finds the
\* versions different; and versions that become equal do so with the extents.
BitsOnDisk ==
    /\ lapse = {} /\ disk.cv = disk.fv => disk.bits = disk.data
    /\ frpc = "versioned" /\ disk.fv = fr.cv => disk.cv = fr.cv /\ disk.data = fr.data

FrInv ==
    FrTypeOK /\ CallState /\ VersionOrder /\ BitsInMemory /\ Settled /\ BitsOnDisk /\ NoteKept

-----------------------------------------------------------------------------
\* The child and its friend start empty, with equal versions.
LEMMA FrInitInv == FrInit => FrInv
  BY DEF FrInit, FrInv, FrTypeOK, FrMemory, FrDisk, CallState, VersionOrder, BitsInMemory, Settled, BitsOnDisk, NoteKept

\* One step of a call, of writeback or of the journal, or a crash, keeps FrInv.
LEMMA FrStepInv == FrInv /\ [FrNext]_frVars => FrInv'
  <1> SUFFICES ASSUME FrInv, [FrNext]_frVars PROVE FrInv'
    OBVIOUS
  <1>1. CASE OpenFriend
    <2>1. FrTypeOK'
      BY <1>1 DEF FrInv, FrTypeOK, FrMemory, FrDisk, OpenFriend
    <2>2. (CallState /\ VersionOrder /\ NoteKept)'
      BY <1>1 DEF FrInv, FrTypeOK, FrMemory, FrDisk, CallState, VersionOrder, BitsInMemory,
        Settled, BitsOnDisk, NoteKept, OpenFriend
    <2>3. (BitsInMemory /\ Settled /\ BitsOnDisk)'
      BY <1>1 DEF FrInv, FrTypeOK, FrMemory, FrDisk, CallState, VersionOrder, BitsInMemory,
        Settled, BitsOnDisk, OpenFriend
    <2> QED
      BY <2>1, <2>2, <2>3 DEF FrInv
  <1>2. CASE RecoverFriend
    <2>1. FrTypeOK'
      BY <1>2 DEF FrInv, FrTypeOK, FrMemory, FrDisk, RecoverFriend
    <2>2. (CallState /\ VersionOrder /\ NoteKept)'
      BY <1>2 DEF FrInv, FrTypeOK, FrMemory, FrDisk, CallState, VersionOrder, BitsInMemory,
        Settled, BitsOnDisk, NoteKept, RecoverFriend
    <2>3. (BitsInMemory /\ Settled /\ BitsOnDisk)'
      BY <1>2 DEF FrInv, FrTypeOK, FrMemory, FrDisk, CallState, VersionOrder, BitsInMemory,
        Settled, BitsOnDisk, RecoverFriend
    <2> QED
      BY <2>1, <2>2, <2>3 DEF FrInv
  <1>3. CASE RecoverSyncsBlocks
    <2>1. FrTypeOK'
      BY <1>3 DEF FrInv, FrTypeOK, FrMemory, FrDisk, RecoverSyncsBlocks
    <2>2. (CallState /\ VersionOrder /\ NoteKept)'
      BY <1>3 DEF FrInv, FrTypeOK, FrMemory, FrDisk, CallState, VersionOrder, BitsInMemory,
        Settled, BitsOnDisk, NoteKept, RecoverSyncsBlocks
    <2>3. (BitsInMemory /\ Settled /\ BitsOnDisk)'
      BY <1>3 DEF FrInv, FrTypeOK, FrMemory, FrDisk, CallState, VersionOrder, BitsInMemory,
        Settled, BitsOnDisk, RecoverSyncsBlocks
    <2> QED
      BY <2>1, <2>2, <2>3 DEF FrInv
  <1>4. CASE RecoverSetsVersion
    <2>1. FrTypeOK'
      BY <1>4 DEF FrInv, FrTypeOK, FrMemory, FrDisk, RecoverSetsVersion
    <2>2. (CallState /\ VersionOrder /\ NoteKept)'
      BY <1>4 DEF FrInv, FrTypeOK, FrMemory, FrDisk, CallState, VersionOrder, BitsInMemory,
        Settled, BitsOnDisk, NoteKept, RecoverSetsVersion
    <2>3. (BitsInMemory /\ Settled /\ BitsOnDisk)'
      BY <1>4 DEF FrInv, FrTypeOK, FrMemory, FrDisk, CallState, VersionOrder, BitsInMemory,
        Settled, BitsOnDisk, RecoverSetsVersion
    <2> QED
      BY <2>1, <2>2, <2>3 DEF FrInv
  <1>5. CASE VersionInc
    <2>1. FrTypeOK'
      <3>1. CASE fr.first
        BY <1>5, <3>1 DEF FrInv, FrTypeOK, VersionInc
      <3>2. CASE ~fr.first
        <4>1. fr.cv + 1 \in Nat
          BY DEF FrInv, FrTypeOK, FrMemory
        <4>2. fr' = [fr EXCEPT !.first = TRUE, !.sync = -1, !.cv = fr.cv + 1, !.inode = TRUE]
          BY <1>5, <3>2 DEF VersionInc
        <4>3. fr' \in FrMemory
          BY <4>1, <4>2 DEF FrInv, FrTypeOK, FrMemory
        <4> QED
          BY <1>5, <4>3 DEF FrInv, FrTypeOK, VersionInc
      <3> QED
        BY <3>1, <3>2
    <2>2. (CallState /\ VersionOrder /\ NoteKept)'
      BY <1>5 DEF FrInv, FrTypeOK, FrMemory, FrDisk, CallState, VersionOrder, BitsInMemory,
        Settled, BitsOnDisk, NoteKept, VersionInc
    <2>3. (BitsInMemory /\ Settled /\ BitsOnDisk)'
      BY <1>5 DEF FrInv, FrTypeOK, FrMemory, FrDisk, CallState, VersionOrder, BitsInMemory,
        Settled, BitsOnDisk, VersionInc
    <2> QED
      BY <2>1, <2>2, <2>3 DEF FrInv
  <1>6. CASE \E b \in FrBlocks : WriteBlock(b)
    <2>1. FrTypeOK'
      <3>1. PICK b \in FrBlocks : WriteBlock(b)
        BY <1>6
      <3> QED
        BY <3>1 DEF FrInv, FrTypeOK, FrMemory, FrDisk, WriteBlock
    <2>2. (CallState /\ VersionOrder /\ NoteKept)'
      BY <1>6 DEF FrInv, FrTypeOK, FrMemory, FrDisk, CallState, VersionOrder, BitsInMemory,
        Settled, BitsOnDisk, NoteKept, WriteBlock
    <2>3. (BitsInMemory /\ Settled /\ BitsOnDisk)'
      BY <1>6 DEF FrInv, FrTypeOK, FrMemory, FrDisk, CallState, VersionOrder, BitsInMemory,
        Settled, BitsOnDisk, WriteBlock
    <2> QED
      BY <2>1, <2>2, <2>3 DEF FrInv
  <1>7. CASE WriteNone
    <2>1. FrTypeOK'
      BY <1>7 DEF FrInv, FrTypeOK, FrMemory, FrDisk, WriteNone
    <2>2. (CallState /\ VersionOrder /\ NoteKept)'
      BY <1>7 DEF FrInv, FrTypeOK, FrMemory, FrDisk, CallState, VersionOrder, BitsInMemory,
        Settled, BitsOnDisk, NoteKept, WriteNone
    <2>3. (BitsInMemory /\ Settled /\ BitsOnDisk)'
      BY <1>7 DEF FrInv, FrTypeOK, FrMemory, FrDisk, CallState, VersionOrder, BitsInMemory,
        Settled, BitsOnDisk, WriteNone
    <2> QED
      BY <2>1, <2>2, <2>3 DEF FrInv
  <1>8. CASE ChildWriteback
    <2>1. FrTypeOK'
      BY <1>8 DEF FrInv, FrTypeOK, FrMemory, FrDisk, ChildWriteback
    <2>2. (CallState /\ VersionOrder /\ NoteKept)'
      BY <1>8 DEF FrInv, FrTypeOK, FrMemory, FrDisk, CallState, VersionOrder, BitsInMemory,
        Settled, BitsOnDisk, NoteKept, ChildWriteback
    <2>3. (BitsInMemory /\ Settled /\ BitsOnDisk)'
      BY <1>8 DEF FrInv, FrTypeOK, FrMemory, FrDisk, CallState, VersionOrder, BitsInMemory,
        Settled, BitsOnDisk, ChildWriteback
    <2> QED
      BY <2>1, <2>2, <2>3 DEF FrInv
  <1>9. CASE JournalCommit
    <2>1. FrTypeOK'
      BY <1>9 DEF FrInv, FrTypeOK, FrMemory, FrDisk, JournalCommit, Committed
    <2>2. (CallState /\ VersionOrder /\ NoteKept)'
      BY <1>9 DEF FrInv, FrTypeOK, FrMemory, FrDisk, CallState, VersionOrder, BitsInMemory,
        Settled, BitsOnDisk, NoteKept, JournalCommit, Committed
    <2>3. (BitsInMemory /\ Settled /\ BitsOnDisk)'
      BY <1>9 DEF FrInv, FrTypeOK, FrMemory, FrDisk, CallState, VersionOrder, BitsInMemory,
        Settled, BitsOnDisk, JournalCommit, Committed
    <2> QED
      BY <2>1, <2>2, <2>3 DEF FrInv
  <1>10. CASE FriendWriteback
    <2>1. FrTypeOK'
      BY <1>10 DEF FrInv, FrTypeOK, FrMemory, FrDisk, FriendWriteback
    <2>2. (CallState /\ VersionOrder /\ NoteKept)'
      BY <1>10 DEF FrInv, FrTypeOK, FrMemory, FrDisk, CallState, VersionOrder, BitsInMemory,
        Settled, BitsOnDisk, NoteKept, FriendWriteback
    <2>3. (BitsInMemory /\ Settled /\ BitsOnDisk)'
      BY <1>10 DEF FrInv, FrTypeOK, FrMemory, FrDisk, CallState, VersionOrder, BitsInMemory,
        Settled, BitsOnDisk, FriendWriteback
    <2> QED
      BY <2>1, <2>2, <2>3 DEF FrInv
  <1>11. CASE CloseChild
    <2>1. FrTypeOK'
      BY <1>11 DEF FrInv, FrTypeOK, FrMemory, FrDisk, CloseChild
    <2>2. (CallState /\ VersionOrder /\ NoteKept)'
      BY <1>11 DEF FrInv, FrTypeOK, FrMemory, FrDisk, CallState, VersionOrder, BitsInMemory,
        Settled, BitsOnDisk, NoteKept, CloseChild
    <2>3. (BitsInMemory /\ Settled /\ BitsOnDisk)'
      BY <1>11 DEF FrInv, FrTypeOK, FrMemory, FrDisk, CallState, VersionOrder, BitsInMemory,
        Settled, BitsOnDisk, CloseChild
    <2> QED
      BY <2>1, <2>2, <2>3 DEF FrInv
  <1>12. CASE DropOpenChild
    <2>1. FrTypeOK'
      BY <1>12 DEF FrInv, FrTypeOK, FrMemory, FrDisk, DropOpenChild
    <2>2. (CallState /\ VersionOrder /\ NoteKept)'
      BY <1>12 DEF FrInv, FrTypeOK, FrMemory, FrDisk, CallState, VersionOrder, BitsInMemory,
        Settled, BitsOnDisk, NoteKept, DropOpenChild
    <2>3. (BitsInMemory /\ Settled /\ BitsOnDisk)'
      BY <1>12 DEF FrInv, FrTypeOK, FrMemory, FrDisk, CallState, VersionOrder, BitsInMemory,
        Settled, BitsOnDisk, DropOpenChild
    <2> QED
      BY <2>1, <2>2, <2>3 DEF FrInv
  <1>13. CASE SetFriendVersion
    <2>1. FrTypeOK'
      BY <1>13 DEF FrInv, FrTypeOK, FrMemory, FrDisk, SetFriendVersion, ChildClean
    <2>2. (CallState /\ VersionOrder /\ NoteKept)'
      BY <1>13 DEF FrInv, FrTypeOK, FrMemory, FrDisk, CallState, VersionOrder, BitsInMemory,
        Settled, BitsOnDisk, NoteKept, SetFriendVersion, ChildClean
    <2>3. (BitsInMemory /\ Settled /\ BitsOnDisk)'
      BY <1>13 DEF FrInv, FrTypeOK, FrMemory, FrDisk, CallState, VersionOrder, BitsInMemory,
        Settled, BitsOnDisk, SetFriendVersion, ChildClean
    <2> QED
      BY <2>1, <2>2, <2>3 DEF FrInv
  <1>14. CASE UnmountSyncsChild
    <2>1. FrTypeOK'
      BY <1>14 DEF FrInv, FrTypeOK, FrMemory, FrDisk, UnmountSyncsChild, ChildClean
    <2>2. CASE ChildClean
      <3>1. (CallState /\ VersionOrder /\ NoteKept)'
        BY <1>14, <2>2 DEF FrInv, FrTypeOK, FrMemory, FrDisk, CallState, VersionOrder, BitsInMemory,
          Settled, BitsOnDisk, NoteKept, UnmountSyncsChild
      <3>2. (BitsInMemory /\ Settled /\ BitsOnDisk)'
        BY <1>14, <2>2 DEF FrInv, FrTypeOK, FrMemory, FrDisk, CallState, VersionOrder, BitsInMemory,
          Settled, BitsOnDisk, UnmountSyncsChild
      <3> QED
        BY <2>1, <3>1, <3>2 DEF FrInv
    <2>3. CASE ~ChildClean
      <3>1. (CallState /\ VersionOrder /\ NoteKept)'
        BY <1>14, <2>3 DEF FrInv, FrTypeOK, FrMemory, FrDisk, CallState, VersionOrder, BitsInMemory,
          Settled, BitsOnDisk, NoteKept, UnmountSyncsChild
      <3>2. (BitsInMemory /\ Settled /\ BitsOnDisk)'
        BY <1>14, <2>3 DEF FrInv, FrTypeOK, FrMemory, FrDisk, CallState, VersionOrder, BitsInMemory,
          Settled, BitsOnDisk, UnmountSyncsChild
      <3> QED
        BY <2>1, <3>1, <3>2 DEF FrInv
    <2> QED
      BY <2>2, <2>3
  <1>15. CASE SyncFriend
    <2>1. FrTypeOK'
      BY <1>15 DEF FrInv, FrTypeOK, FrMemory, FrDisk, SyncFriend, Committed
    <2>2. (CallState /\ VersionOrder /\ NoteKept)'
      BY <1>15 DEF FrInv, FrTypeOK, FrMemory, FrDisk, CallState, VersionOrder, BitsInMemory,
        Settled, BitsOnDisk, NoteKept, SyncFriend, Committed
    <2>3. (BitsInMemory /\ Settled /\ BitsOnDisk)'
      BY <1>15 DEF FrInv, FrTypeOK, FrMemory, FrDisk, CallState, VersionOrder, BitsInMemory,
        Settled, BitsOnDisk, SyncFriend, Committed
    <2> QED
      BY <2>1, <2>2, <2>3 DEF FrInv
  <1>16. CASE FriendCrash
    <2>1. FrTypeOK'
      BY <1>16 DEF FrInv, FrTypeOK, FrMemory, FrDisk, FriendCrash
    <2>2. (CallState /\ VersionOrder /\ NoteKept)'
      BY <1>16 DEF FrInv, FrTypeOK, FrMemory, FrDisk, CallState, VersionOrder, BitsInMemory,
        Settled, BitsOnDisk, NoteKept, FriendCrash
    <2>3. (BitsInMemory /\ Settled /\ BitsOnDisk)'
      BY <1>16 DEF FrInv, FrTypeOK, FrMemory, FrDisk, CallState, VersionOrder, BitsInMemory,
        Settled, BitsOnDisk, FriendCrash
    <2> QED
      BY <2>1, <2>2, <2>3 DEF FrInv
  <1>17. CASE UNCHANGED frVars
    BY <1>17 DEF frVars, FrInv, FrTypeOK, FrMemory, FrDisk, CallState, VersionOrder, BitsInMemory,
      Settled, BitsOnDisk, NoteKept
  <1> QED
    BY <1>1, <1>2, <1>3, <1>4, <1>5, <1>6, <1>7, <1>8, <1>9, <1>10, <1>11, <1>12, <1>13, <1>14, <1>15, <1>16, <1>17 DEF FrNext

\* FrInv holds after any number of calls and crashes.
THEOREM FriendInvariant == FrSpec => []FrInv
  BY FrInitInv, FrStepInv, PTL DEF FrSpec

\* A child that is open has bits for exactly its own blocks, after any sequence
\* of writes, closes, syncs and crashes, unless a crash fell into one of the two
\* windows and the friend has not been rebuilt since (VersionsTell).
THEOREM VersionsTellHolds == FrSpec => []VersionsTell
  <1>1. FrInv => VersionsTell
    BY DEF FrInv, BitsInMemory, VersionsTell, FriendExact
  <1> QED
    BY <1>1, FriendInvariant, PTL

\* A raised version is never forgotten before the friend has followed
\* (NoteKept): CloseChild, DropOpenChild and the crash keep the note.
THEOREM NoteKeptHolds == FrSpec => []NoteKept
  <1>1. FrInv => NoteKept
    BY DEF FrInv
  <1> QED
    BY <1>1, FriendInvariant, PTL

-----------------------------------------------------------------------------
(* The copy-on-write path: the inductive invariant.                        *)

Contents == {"hole", "orig", "par"} \cup Writers

PageCopy == [blk: Blocks, targets: SUBSET Children, data: {"orig", "par"}]

Writing ==
    [at: {"get", "check", "copy", "write", "end"}, lo: Blocks, hi: Blocks, cur: Blocks,
     from: SUBSET PageCopy, full: SUBSET Blocks]

ParWriting == [at: {"barrier", "write", "release"}, blk: Blocks, todo: SUBSET Children]

Serving ==
    [at: {"get"}, todo: SUBSET Children] \cup
    [at: {"copy"}, todo: SUBSET Children, child: Children]

CowTypes ==
    /\ par \in [Blocks -> {"orig", "par"}]
    /\ child \in [Children -> [Blocks -> [head: Contents, rest: Contents]]]
    /\ copied \in [Children -> SUBSET Blocks]
    /\ pending \in [Children -> Int]
    /\ amap \in [Children -> [Blocks -> SUBSET {"COPYING", "COPYING_EXCL"}]]
    /\ copies \in Seq(PageCopy)
    /\ writer \in [Writers -> {Idle, [at |-> "done"]} \cup Writing]
    /\ parWriter \in {Idle, [at |-> "failed"]} \cup ParWriting
    /\ thread \in {Idle} \cup Serving
    /\ last \in [Children -> [Blocks -> Writers \cup {"nobody"}]]
    /\ spoiled \subseteq Children \X Blocks

Active(w) == writer[w] \in Writing

Unspoiled(c, b) == <<c, b>> \notin spoiled

\* The blocks a writer has taken and not yet let go, if they are not copied.
Behind(w) ==
    {b \in Blocks :
        \/ /\ writer[w].at \in {"get", "check", "copy"}
           /\ writer[w].lo <= b /\ b < writer[w].cur
        \/ /\ writer[w].at \in {"write", "end"}
           /\ writer[w].cur <= b /\ b <= writer[w].hi}

\* Where the writers, the parent's writer and the thread can be.
Positions ==
    /\ \A w \in Writers :
          /\ Active(w) => writer[w].lo <= writer[w].cur /\ writer[w].cur <= writer[w].hi
          /\ writer[w].at = "write" => writer[w].cur = writer[w].lo
          /\ writer[w].at = "copy" =>
                /\ writer[w].cur \notin copied[ChildOf[w]]
                /\ \A p \in writer[w].from :
                      p.blk = writer[w].cur /\ ChildOf[w] \in p.targets
    /\ parWriter.at = "write" => parWriter.todo = {}
    /\ thread.at \in {"get", "copy"} =>
          copies # << >> /\ thread.todo \subseteq Head(copies).targets
    /\ thread.at = "copy" => thread.child \in Head(copies).targets

\* Who holds block b of child c in the active map.
WriterHolds(w, b) ==
    \/ writer[w].at \in {"check", "copy"} /\ b = writer[w].cur
    \/ b \in Behind(w) \ copied[ChildOf[w]]

BarrierHolds(c, b) ==
    /\ parWriter.at \in {"barrier", "write", "release"}
    /\ b = BarrierBlock(parWriter.blk)
    /\ c \in parWriter.todo <=> parWriter.at = "release"

ThreadHolds(c, b) == thread.at = "copy" /\ thread.child = c /\ Head(copies).blk = b

\* A block is held by one of them at most, and the active map tells.
Locks ==
    /\ \A w \in Writers, b \in Blocks :
          WriterHolds(w, b) => amap[ChildOf[w]][b] = {"COPYING"}
    /\ \A c \in Children, b \in Blocks :
          BarrierHolds(c, b) \/ ThreadHolds(c, b) => amap[c][b] = {"COPYING_EXCL"}
    /\ \A c \in Children, b \in Blocks : ~(BarrierHolds(c, b) /\ ThreadHolds(c, b))
    /\ \A v, w \in Writers, b \in Blocks :
          ChildOf[v] = ChildOf[w] /\ WriterHolds(v, b) /\ WriterHolds(w, b) => v = w

\* The children that the thread has served have the block, or lost it.
Served ==
    thread.at \in {"get", "copy"} =>
        \A c \in Head(copies).targets :
            \/ c \in thread.todo
            \/ thread.at = "copy" /\ thread.child = c
            \/ Head(copies).blk \in copied[c]
            \/ ~Unspoiled(c, Head(copies).blk)

\* A block that was written and is not marked yet belongs to the writer that
\* will mark it.
WrittenKept ==
    \A c \in Children, b \in Blocks :
        last[c][b] # "nobody" =>
            /\ Unspoiled(c, b) => child[c][b].head = last[c][b]
            /\ b \in copied[c] \/ \E w \in Writers : /\ ChildOf[w] = c
                                                     /\ writer[w].at = "end"
                                                     /\ b \in Behind(w)

-----------------------------------------------------------------------------
(* The block of the barrier keeps its snapshot.                            *)

B0 == BarrierBlock(0)

Clean(c) == "par" \notin {child[c][B0].head, child[c][B0].rest}

\* A child has the block, or a page copy is kept for it.
Saved(c, b) == b \in copied[c] \/ CopiesFor(c, b) # {}

SnapshotSafe ==
    /\ \A c \in Children : Unspoiled(c, B0) =>
          /\ B0 \in copied[c] => Clean(c)
          /\ \A p \in CopiesFor(c, B0) : p.data # "par"
          /\ par[B0] = "par" => Saved(c, B0)
    /\ parWriter.at = "write" =>
          \A c \in Children : Unspoiled(c, parWriter.blk) => Saved(c, parWriter.blk)
    /\ \A w \in Writers : Unspoiled(ChildOf[w], B0) =>
          /\ B0 \in Behind(w) \ copied[ChildOf[w]]
                /\ (writer[w].at = "end" \/ B0 \notin writer[w].full) => Clean(ChildOf[w])
          /\ writer[w].at = "copy" /\ writer[w].cur = B0 =>
                /\ writer[w].from = {} => par[B0] # "par"
                /\ \A p \in writer[w].from : p.data # "par"

CowInv ==
    /\ CowTypes /\ Positions /\ Locks /\ Served
    /\ PendingExact /\ FoundCopyAlive /\ WrittenKept /\ SnapshotSafe

USE ZenonT(30)

-----------------------------------------------------------------------------
(* The operators the model is built from.                                  *)

\* Append adds one page copy to the list.
LEMMA CopiesAppended ==
    ASSUME NEW S, NEW s \in Seq(S), NEW x \in S
    PROVE  Append(s, x) \in Seq(S) /\ Range(Append(s, x)) = Range(s) \cup {x}
  <1> DEFINE t == Append(s, x)
  <1>1. /\ t \in Seq(S) /\ DOMAIN s = 1..Len(s) /\ DOMAIN t = 1..(Len(s) + 1)
        /\ t[Len(s) + 1] = x
        /\ \A i \in DOMAIN s : t[i] = s[i]
    BY SMTT(60)
  <1>2. Len(s) \in Nat
    BY SMTT(60)
  <1> HIDE DEF t
  <1>3. {t[i] : i \in DOMAIN t} = {s[i] : i \in DOMAIN s} \cup {x}
    BY SMTT(60), <1>1, <1>2
  <1> QED
    BY <1>1, <1>3 DEF Range, t

\* Tail takes at most the head of the list away.
LEMMA CopiesTail ==
    ASSUME NEW S, NEW s \in Seq(S), s # << >>
    PROVE  /\ Head(s) \in S /\ Head(s) \in Range(s)
           /\ Tail(s) \in Seq(S)
           /\ Range(Tail(s)) \subseteq Range(s)
           /\ Range(s) \subseteq Range(Tail(s)) \cup {Head(s)}
  <1>1. Head(s) \in S /\ Tail(s) \in Seq(S) /\ Head(s) = s[1] /\ 1 \in DOMAIN s
    BY SMTT(60)
  <1>2. Len(Tail(s)) = Len(s) - 1 /\ \A i \in 1..(Len(s) - 1) : Tail(s)[i] = s[i + 1]
    BY SMTT(60)
  <1>3. Range(Tail(s)) \subseteq Range(s)
    BY SMTT(60), <1>1, <1>2 DEF Range
  <1>4. ASSUME NEW i \in DOMAIN s PROVE s[i] \in Range(Tail(s)) \cup {Head(s)}
    <2>1. CASE i = 1
      BY <1>1, <2>1
    <2>2. CASE i # 1
      <3>1. i - 1 \in DOMAIN Tail(s) /\ Tail(s)[i - 1] = s[i]
        BY SMTT(60), <1>1, <1>2, <2>2
      <3> QED
        BY <3>1 DEF Range
    <2> QED
      BY <2>1, <2>2
  <1> QED
    BY <1>1, <1>3, <1>4 DEF Range

\* The members of a list of page copies are page copies.
LEMMA CopiesTyped ==
    ASSUME NEW S, NEW s \in Seq(S) PROVE Range(s) \subseteq S
  BY SMTT(60) DEF Range

\* What a writer's position says about its record.
LEMMA WriterFields ==
    ASSUME CowTypes, NEW w \in Writers
    PROVE  /\ ChildOf[w] \in Children
           /\ writer[w].at \in {"get", "check", "copy", "write", "end"} <=> Active(w)
           /\ Active(w) => /\ writer[w].lo \in Blocks /\ writer[w].hi \in Blocks
                           /\ writer[w].cur \in Blocks /\ writer[w].full \subseteq Blocks
                           /\ writer[w].from \subseteq PageCopy
  BY SMTT(60), CowAssumption DEF CowTypes, Active, Writing, Idle

\* The active map gives a block only to the first that asks for it, since no one
\* takes it for reading here: scorw_is_compatible_processing_type.
LEMMA GetFree ==
    ASSUME CowTypes, NEW c \in Children, NEW b \in Blocks,
           NEW type \in {"COPYING", "COPYING_EXCL"}, GetBlock(c, b, type)
    PROVE  /\ amap[c][b] = {} /\ amap'[c][b] = {type}
           /\ amap' \in [Children -> [Blocks -> SUBSET {"COPYING", "COPYING_EXCL"}]]
           /\ \A d \in Children, k \in Blocks : <<d, k>> # <<c, b>> => amap'[d][k] = amap[d][k]
  <1>1. amap[c][b] \subseteq {"COPYING", "COPYING_EXCL"}
    BY DEF CowTypes
  <1>2. "READING" \notin amap[c][b] /\ "READING" \notin {type} /\ {type} # {}
    BY <1>1
  <1>3. Compatible(amap[c][b], {type}) /\ amap' = [amap EXCEPT ![c][b] = @ \cup {type}]
    BY DEF GetBlock
  <1>4. amap[c][b] = {}
    BY <1>2, <1>3 DEF Compatible
  <1> QED
    BY <1>3, <1>4 DEF CowTypes

\* Letting a block go changes nothing for the others.
LEMMA PutFree ==
    ASSUME CowTypes, NEW c \in Children, NEW b \in Blocks,
           NEW type \in {"COPYING", "COPYING_EXCL"}, PutBlock(c, b, type)
    PROVE  /\ amap' \in [Children -> [Blocks -> SUBSET {"COPYING", "COPYING_EXCL"}]]
           /\ \A d \in Children, k \in Blocks : <<d, k>> # <<c, b>> => amap'[d][k] = amap[d][k]
  BY DEF CowTypes, PutBlock

\* A writer goes on to its next block, to the next step of its write, or is done.
LEMMA AdvanceStep ==
    ASSUME CowTypes, Positions, NEW w \in Writers, Active(w),
           NEW here \in {"get", "end"}, NEW next \in {"write", "done"}, Advance(w, here, next)
    PROVE  /\ writer' \in [Writers -> {Idle, [at |-> "done"]} \cup Writing]
           /\ \A v \in Writers : v # w => writer'[v] = writer[v]
           /\ writer[w].cur < writer[w].hi =>
                /\ writer'[w].at = here /\ writer'[w].cur = writer[w].cur + 1
                /\ writer'[w].lo = writer[w].lo /\ writer'[w].hi = writer[w].hi
                /\ writer'[w].full = writer[w].full
                /\ writer'[w] \in Writing
           /\ ~(writer[w].cur < writer[w].hi) /\ next = "done" => writer'[w] = [at |-> "done"]
           /\ ~(writer[w].cur < writer[w].hi) /\ next = "write" =>
                /\ writer'[w].at = "write" /\ writer'[w].cur = writer[w].lo
                /\ writer'[w].lo = writer[w].lo /\ writer'[w].hi = writer[w].hi
                /\ writer'[w].full = writer[w].full
                /\ writer'[w] \in Writing
  <1> DEFINE r == writer[w]
  <1>1. r \in Writing /\ r.cur \in Blocks /\ r.hi \in Blocks /\ r.lo \in Blocks
    BY DEF Active, Writing
  <1>2. CASE r.cur < r.hi
    <2>1. writer' = [writer EXCEPT ![w] = [r EXCEPT !.at = here, !.cur = r.cur + 1, !.from = {}]]
      BY <1>2 DEF Advance
    <2>2. r.cur + 1 \in Blocks
      BY SMTT(60), <1>1, <1>2, CowAssumption DEF Blocks
    <2>3. [r EXCEPT !.at = here, !.cur = r.cur + 1, !.from = {}] \in Writing
      BY <1>1, <2>2 DEF Writing
    <2> QED
      BY <1>1, <1>2, <2>1, <2>3 DEF CowTypes, Writing
  <1>3. CASE ~(r.cur < r.hi) /\ next = "done"
    BY <1>3 DEF Advance, CowTypes
  <1>4. CASE ~(r.cur < r.hi) /\ next = "write"
    <2>1. writer' = [writer EXCEPT ![w] = [r EXCEPT !.at = "write", !.cur = r.lo, !.from = {}]]
      BY <1>4 DEF Advance
    <2>2. [r EXCEPT !.at = "write", !.cur = r.lo, !.from = {}] \in Writing
      BY <1>1 DEF Writing
    <2> QED
      BY <1>1, <1>4, <2>1, <2>2 DEF CowTypes, Writing
  <1> QED
    BY <1>2, <1>3, <1>4

\* What the positions of the parent's writer and of the thread say.
LEMMA ParFields ==
    ASSUME CowTypes
    PROVE  /\ parWriter.at \in {"barrier", "write", "release"} =>
                 /\ parWriter \in ParWriting
                 /\ parWriter.blk \in Blocks /\ parWriter.todo \subseteq Children
           /\ thread.at = "get" => thread.todo \subseteq Children
           /\ thread.at = "copy" => thread.todo \subseteq Children /\ thread.child \in Children
  BY SMTT(60) DEF CowTypes, ParWriting, Serving, Idle

\* The page copy that the thread serves.
LEMMA HeadFields ==
    ASSUME CowTypes, Positions, thread.at \in {"get", "copy"}
    PROVE  /\ Head(copies) \in PageCopy /\ Head(copies).blk \in Blocks
           /\ Head(copies).targets \subseteq Children /\ Head(copies).data \in {"orig", "par"}
           /\ Head(copies) \in Range(copies)
  <1>1. copies \in Seq(PageCopy) /\ copies # << >>
    BY DEF CowTypes, Positions
  <1>2. Head(copies) \in PageCopy /\ Head(copies) \in Range(copies)
    BY <1>1, CopiesTail
  <1> QED
    BY <1>2 DEF PageCopy

-----------------------------------------------------------------------------
(* Types.                                                                  *)

\* Every step keeps the types.
LEMMA TypesStep ==
    ASSUME CowTypes, Positions, Next PROVE CowTypes'
  <1> USE CowAssumption
  <1> DEFINE Block == [head: Contents, rest: Contents]
  <1>a. \A v \in Contents : Whole(v) \in Block
    BY DEF Whole
  <1>b. {"orig", "par"} \subseteq Contents /\ Writers \subseteq Contents
    BY DEF Contents
  <1>1. ASSUME NEW w \in Writers, NEW lo \in Blocks, NEW hi \in Blocks,
               NEW headFull \in BOOLEAN, NEW tailFull \in BOOLEAN,
               StartWrite(w, lo, hi, headFull, tailFull)
        PROVE  CowTypes'
    <2>1. [at |-> "get", lo |-> lo, hi |-> hi, cur |-> lo, from |-> {},
           full |-> {b \in lo..hi : (b = lo => headFull) /\ (b = hi => tailFull)}] \in Writing
      BY SMTT(60) DEF Writing, Blocks
    <2> QED
      BY <1>1, <2>1 DEF StartWrite, CowTypes
  <1>2. ASSUME NEW w \in Writers, AcquireBlock(w) PROVE CowTypes'
    <2>1. Active(w) /\ writer[w].cur \in Blocks /\ ChildOf[w] \in Children
      BY <1>2, WriterFields DEF AcquireBlock
    <2>2. [writer[w] EXCEPT !.at = "check"] \in Writing
      BY <2>1 DEF Active, Writing
    <2> QED
      BY <1>2, <2>1, <2>2, GetFree DEF AcquireBlock, CowTypes
  <1>3. ASSUME NEW w \in Writers, CheckBlock(w) PROVE CowTypes'
    <2>1. Active(w) /\ writer[w].cur \in Blocks /\ ChildOf[w] \in Children
      BY <1>3, WriterFields DEF CheckBlock
    <2>2. CopiesFor(ChildOf[w], writer[w].cur) \subseteq PageCopy
      BY CopiesTyped DEF CopiesFor, CowTypes
    <2>3. [writer[w] EXCEPT !.at = "copy", !.from = CopiesFor(ChildOf[w], writer[w].cur)] \in Writing
      BY <2>1, <2>2 DEF Active, Writing
    <2>4. amap' \in [Children -> [Blocks -> SUBSET {"COPYING", "COPYING_EXCL"}]]
      BY <1>3, <2>1, PutFree DEF CheckBlock, CowTypes
    <2>5. writer' \in [Writers -> {Idle, [at |-> "done"]} \cup Writing]
      <3>1. CASE Advance(w, "get", "write")
        BY <2>1, <3>1, AdvanceStep
      <3>2. CASE ~Advance(w, "get", "write")
        BY <1>3, <2>3, <3>2 DEF CheckBlock, CowTypes
      <3> QED
        BY <3>1, <3>2
    <2> QED
      BY <1>3, <2>4, <2>5 DEF CheckBlock, CowTypes
  <1>4. ASSUME NEW w \in Writers, CopyBlock(w) PROVE CowTypes'
    <2>1. /\ Active(w) /\ writer[w].cur \in Blocks /\ ChildOf[w] \in Children
          /\ writer[w].from \subseteq PageCopy
      BY <1>4, WriterFields DEF CopyBlock
    <2>2. child' \in [Children -> [Blocks -> [head: Contents, rest: Contents]]]
      <3>1. CASE UNCHANGED child
        BY <3>1 DEF CowTypes
      <3>2. CASE child' = [child EXCEPT ![ChildOf[w]][writer[w].cur] = Whole(par[writer[w].cur])]
        <4>1. Whole(par[writer[w].cur]) \in Block
          BY <1>a, <1>b, <2>1 DEF CowTypes
        <4> QED
          BY <2>1, <3>2, <4>1 DEF CowTypes
      <3>3. ASSUME NEW p \in writer[w].from,
                   child' = [child EXCEPT ![ChildOf[w]][writer[w].cur] = Whole(p.data)]
            PROVE  child' \in [Children -> [Blocks -> Block]]
        <4>1. Whole(p.data) \in Block
          BY <1>a, <1>b, <2>1 DEF PageCopy
        <4> QED
          BY <2>1, <3>3, <4>1 DEF CowTypes
      <3> QED
        BY <1>4, <3>1, <3>2, <3>3 DEF CopyBlock
    <2>3. spoiled' \subseteq Children \X Blocks
      BY SMTT(60), <1>4, <2>1 DEF CopyBlock, CowTypes, Spoil
    <2>4. writer' \in [Writers -> {Idle, [at |-> "done"]} \cup Writing]
      BY <1>4, <2>1, AdvanceStep DEF CopyBlock
    <2> QED
      BY <1>4, <2>2, <2>3, <2>4 DEF CopyBlock, CowTypes
  <1>5. ASSUME NEW w \in Writers, WriteData(w) PROVE CowTypes'
    <2> DEFINE c == ChildOf[w]
               new(b) == IF b \in writer[w].full THEN Whole(w) ELSE [child[c][b] EXCEPT !.head = w]
    <2>1. Active(w) /\ c \in Children /\ writer[w].full \subseteq Blocks
      BY <1>5, WriterFields DEF WriteData
    <2>2. [writer[w] EXCEPT !.at = "end"] \in Writing
      BY <2>1 DEF Active, Writing
    <2>3. \A b \in Blocks : new(b) \in [head: Contents, rest: Contents]
      <3> SUFFICES ASSUME NEW b \in Blocks PROVE new(b) \in Block
        OBVIOUS
      <3>1. child[c][b] \in Block
        BY SMTT(60), <2>1 DEF CowTypes
      <3>2. [child[c][b] EXCEPT !.head = w] \in Block
        BY <1>b, <3>1
      <3> QED
        BY <1>a, <1>b, <3>2
    <2>4. PICK n \in writer[w].lo..(writer[w].hi + 1) :
             LET done == writer[w].lo..(n - 1)
             IN  /\ child' = [child EXCEPT ![c] =
                                 [b \in Blocks |-> IF b \in done THEN new(b) ELSE child[c][b]]]
                 /\ last' = [last EXCEPT ![c] =
                                 [b \in Blocks |-> IF b \in done THEN w ELSE last[c][b]]]
                 /\ spoiled' = spoiled \cup {<<c, b>> : b \in (writer[w].full \ done) \ copied[c]}
      BY <1>5 DEF WriteData, Spoil
    <2>5. child' \in [Children -> [Blocks -> [head: Contents, rest: Contents]]]
      <3> HIDE DEF new
      <3> QED BY SMTT(60), <2>1, <2>3, <2>4 DEF CowTypes
    <2>6. last' \in [Children -> [Blocks -> Writers \cup {"nobody"}]]
      BY <2>1, <2>4 DEF CowTypes
    <2>7. spoiled' \subseteq Children \X Blocks
      BY SMTT(60), <2>1, <2>4 DEF CowTypes
    <2> QED
      BY <1>5, <2>2, <2>5, <2>6, <2>7 DEF WriteData, CowTypes
  <1>6. ASSUME NEW w \in Writers, EndBlock(w) PROVE CowTypes'
    <2>1. Active(w) /\ writer[w].cur \in Blocks /\ ChildOf[w] \in Children
      BY <1>6, WriterFields DEF EndBlock
    <2>2. writer' \in [Writers -> {Idle, [at |-> "done"]} \cup Writing]
      BY <1>6, <2>1, AdvanceStep DEF EndBlock
    <2>3. amap' \in [Children -> [Blocks -> SUBSET {"COPYING", "COPYING_EXCL"}]]
      BY <1>6, <2>1, PutFree DEF EndBlock, CowTypes
    <2> QED
      <3>1. CASE UNCHANGED <<copied, pending, amap>>
        BY <1>6, <2>2, <3>1 DEF EndBlock, CowTypes
      <3>2. CASE /\ copied' = [copied EXCEPT ![ChildOf[w]] = @ \cup {writer[w].cur}]
                 /\ pending' = [pending EXCEPT ![ChildOf[w]] = @ - 1]
        <4>1. copied' \in [Children -> SUBSET Blocks]
          BY <2>1, <3>2 DEF CowTypes
        <4>2. pending' \in [Children -> Int]
          BY SMTT(60), <2>1, <3>2 DEF CowTypes
        <4> QED
          BY <1>6, <2>2, <2>3, <4>1, <4>2 DEF EndBlock, CowTypes
      <3> QED
        BY <1>6, <3>1, <3>2 DEF EndBlock
  <1>7. ASSUME NEW b \in Blocks, StartParWrite(b) PROVE CowTypes'
    BY <1>7 DEF StartParWrite, CowTypes, ParWriting, BarrierChildren
  <1>8. ASSUME NEW c \in Children, ReadBarrierBegin(c) PROVE CowTypes'
    <2>1. /\ parWriter \in ParWriting
          /\ BarrierBlock(parWriter.blk) \in Blocks
      BY SMTT(60), <1>8, ParFields DEF ReadBarrierBegin, BarrierBlock, Blocks
    <2> QED
      BY <1>8, <2>1, GetFree DEF ReadBarrierBegin, CowTypes, ParWriting
  <1>9. CASE ParWriteFails
    BY <1>9 DEF ParWriteFails, CowTypes
  <1>10. CASE WriteParBlocks
    <2>1. parWriter \in ParWriting /\ parWriter.blk \in Blocks
      BY <1>10, ParFields DEF WriteParBlocks
    <2>2. [blk |-> parWriter.blk, targets |-> TargetChildren(parWriter.blk),
           data |-> par[parWriter.blk]] \in PageCopy
      BY <2>1 DEF PageCopy, TargetChildren, CowTypes
    <2>3. copies' \in Seq(PageCopy)
      BY <1>10, <2>2, CopiesAppended DEF WriteParBlocks, CowTypes
    <2> QED
      BY <1>10, <2>1, <2>3 DEF WriteParBlocks, CowTypes, ParWriting
  <1>11. CASE WriteParData
    <2>1. parWriter \in ParWriting
      BY <1>11, ParFields DEF WriteParData
    <2> QED
      BY <1>11, <2>1 DEF WriteParData, CowTypes, ParWriting, BarrierChildren
  <1>12. CASE ReadBarrierEnd
    <2>1. /\ parWriter \in ParWriting /\ parWriter.todo \subseteq Children
          /\ BarrierBlock(parWriter.blk) \in Blocks
      BY SMTT(60), <1>12, ParFields DEF ReadBarrierEnd, BarrierBlock, Blocks
    <2>2. amap' \in [Children -> [Blocks -> SUBSET {"COPYING", "COPYING_EXCL"}]]
      BY <1>12, <2>1, PutFree DEF ReadBarrierEnd, CowTypes
    <2>3. parWriter' \in {Idle} \cup ParWriting
      BY <1>12, <2>1 DEF ReadBarrierEnd, ParWriting
    <2> QED
      BY <1>12, <2>2, <2>3 DEF ReadBarrierEnd, CowTypes
  <1>13. CASE ThreadSelect
    <2>1. Head(copies).targets \subseteq Children
      <3>1. Head(copies) \in PageCopy
        BY <1>13, CopiesTail DEF ThreadSelect, CowTypes
      <3> QED
        BY <3>1 DEF PageCopy
    <2> QED
      BY <1>13, <2>1 DEF ThreadSelect, CowTypes, Serving
  <1>14. ASSUME NEW c \in Children, ThreadGet(c) PROVE CowTypes'
    <2>1. thread.todo \subseteq Children /\ Head(copies).blk \in Blocks
      BY <1>14, ParFields, HeadFields DEF ThreadGet
    <2> QED
      BY <1>14, <2>1, GetFree DEF ThreadGet, CowTypes, Serving
  <1>15. CASE ThreadCopy
    <2>1. /\ thread.todo \subseteq Children /\ thread.child \in Children
          /\ Head(copies).blk \in Blocks /\ Head(copies).data \in {"orig", "par"}
      BY <1>15, ParFields, HeadFields DEF ThreadCopy
    <2>2. amap' \in [Children -> [Blocks -> SUBSET {"COPYING", "COPYING_EXCL"}]]
      BY <1>15, <2>1, PutFree DEF ThreadCopy
    <2>3. child' \in [Children -> [Blocks -> [head: Contents, rest: Contents]]]
      <3>1. CASE UNCHANGED child
        BY <3>1 DEF CowTypes
      <3>2. CASE child' = [child EXCEPT ![thread.child][Head(copies).blk] = Whole(Head(copies).data)]
        <4>1. Whole(Head(copies).data) \in Block
          BY <1>a, <1>b, <2>1
        <4> QED
          BY <2>1, <3>2, <4>1 DEF CowTypes
      <3> QED
        BY <1>15, <3>1, <3>2 DEF ThreadCopy
    <2>4. thread' \in {Idle} \cup Serving
      BY <1>15, <2>1 DEF ThreadCopy, Serving
    <2>5. copied' \in [Children -> SUBSET Blocks] /\ pending' \in [Children -> Int]
      <3>1. CASE UNCHANGED <<copied, pending>>
        BY <3>1 DEF CowTypes
      <3>2. CASE /\ copied' = [copied EXCEPT ![thread.child] = @ \cup {Head(copies).blk}]
                 /\ pending' = [pending EXCEPT ![thread.child] = @ - 1]
        <4>1. copied' \in [Children -> SUBSET Blocks]
          BY <2>1, <3>2 DEF CowTypes
        <4>2. pending' \in [Children -> Int]
          BY SMTT(60), <2>1, <3>2 DEF CowTypes
        <4> QED
          BY <4>1, <4>2
      <3> QED
        BY <1>15, <3>1, <3>2 DEF ThreadCopy
    <2>6. spoiled' \subseteq Children \X Blocks
      BY SMTT(60), <1>15, <2>1 DEF ThreadCopy, CowTypes, Spoil
    <2> QED
      BY <1>15, <2>2, <2>3, <2>4, <2>5, <2>6 DEF ThreadCopy, CowTypes
  <1>16. CASE ThreadFree
    <2>1. Tail(copies) \in Seq(PageCopy)
      BY <1>16, CopiesTail DEF ThreadFree, CowTypes, Positions
    <2> QED
      BY <1>16, <2>1 DEF ThreadFree, CowTypes
  <1> QED
    BY <1>1, <1>2, <1>3, <1>4, <1>5, <1>6, <1>7, <1>8, <1>9, <1>10, <1>11, <1>12, <1>13, <1>14,
       <1>15, <1>16 DEF Next, WriterStep, ParWriterStep, ThreadStep

-----------------------------------------------------------------------------
(* Who changes what.                                                       *)

\* Only these actions write these variables.
LEMMA Frames ==
    ASSUME Next
    PROVE  /\ UNCHANGED par \/ WriteParData
           /\ \/ UNCHANGED child
              \/ \E w \in Writers : CopyBlock(w) \/ WriteData(w)
              \/ ThreadCopy
           /\ \/ UNCHANGED <<copied, pending>>
              \/ \E w \in Writers : EndBlock(w)
              \/ ThreadCopy
           /\ \/ UNCHANGED amap
              \/ \E w \in Writers : AcquireBlock(w) \/ CheckBlock(w) \/ EndBlock(w)
              \/ \E c \in Children : ReadBarrierBegin(c) \/ ThreadGet(c)
              \/ ReadBarrierEnd \/ ThreadCopy
           /\ UNCHANGED copies \/ WriteParBlocks \/ ThreadFree
           /\ \/ UNCHANGED writer
              \/ \E w \in Writers, lo, hi \in Blocks, headFull, tailFull \in BOOLEAN :
                    StartWrite(w, lo, hi, headFull, tailFull)
              \/ \E w \in Writers : WriterStep(w)
           /\ UNCHANGED parWriter \/ (\E b \in Blocks : StartParWrite(b)) \/ ParWriterStep
           /\ UNCHANGED thread \/ ThreadStep
           /\ UNCHANGED last \/ \E w \in Writers : WriteData(w)
           /\ \/ UNCHANGED spoiled
              \/ \E w \in Writers : CopyBlock(w) \/ WriteData(w)
              \/ ThreadCopy
  <1>1. ASSUME NEW w \in Writers, NEW lo \in Blocks, NEW hi \in Blocks,
               NEW headFull \in BOOLEAN, NEW tailFull \in BOOLEAN,
               StartWrite(w, lo, hi, headFull, tailFull)
        PROVE  UNCHANGED <<par, child, copied, pending, amap, copies, parWriter, thread, last, spoiled>>
    BY <1>1 DEF StartWrite
  <1>2. ASSUME NEW w \in Writers, WriterStep(w)
        PROVE  /\ UNCHANGED <<par, copies, parWriter, thread>>
               /\ UNCHANGED child \/ CopyBlock(w) \/ WriteData(w)
               /\ UNCHANGED <<copied, pending>> \/ EndBlock(w)
               /\ UNCHANGED amap \/ AcquireBlock(w) \/ CheckBlock(w) \/ EndBlock(w)
               /\ UNCHANGED last \/ WriteData(w)
               /\ UNCHANGED spoiled \/ CopyBlock(w) \/ WriteData(w)
    BY <1>2 DEF WriterStep, AcquireBlock, CheckBlock, CopyBlock, WriteData, EndBlock
  <1>3. ASSUME NEW b \in Blocks, StartParWrite(b)
        PROVE  UNCHANGED <<par, child, copied, pending, amap, copies, writer, thread, last, spoiled>>
    BY <1>3 DEF StartParWrite
  <1>4. ASSUME ParWriterStep
        PROVE  /\ UNCHANGED <<child, copied, pending, writer, thread, last, spoiled>>
               /\ UNCHANGED par \/ WriteParData
               /\ UNCHANGED amap \/ (\E c \in Children : ReadBarrierBegin(c)) \/ ReadBarrierEnd
               /\ UNCHANGED copies \/ WriteParBlocks
    BY <1>4 DEF ParWriterStep, ReadBarrierBegin, ParWriteFails, WriteParBlocks, WriteParData,
       ReadBarrierEnd
  <1>5. ASSUME ThreadStep
        PROVE  /\ UNCHANGED <<par, writer, parWriter, last>>
               /\ UNCHANGED <<child, copied, pending, spoiled>> \/ ThreadCopy
               /\ UNCHANGED amap \/ (\E c \in Children : ThreadGet(c)) \/ ThreadCopy
               /\ UNCHANGED copies \/ ThreadFree
    BY <1>5 DEF ThreadStep, ThreadSelect, ThreadGet, ThreadCopy, ThreadFree
  <1>6. CASE \E w \in Writers, lo, hi \in Blocks, headFull, tailFull \in BOOLEAN :
                StartWrite(w, lo, hi, headFull, tailFull)
    BY <1>1, <1>6
  <1>7. CASE \E w \in Writers : WriterStep(w)
    BY <1>2, <1>7
  <1>8. CASE \E b \in Blocks : StartParWrite(b)
    BY <1>3, <1>8
  <1>9. CASE ParWriterStep
    BY <1>4, <1>9
  <1>10. CASE ThreadStep
    BY <1>5, <1>10
  <1> QED
    BY <1>6, <1>7, <1>8, <1>9, <1>10 DEF Next

\* A writer moves only by its own steps.
LEMMA WriterMoves ==
    ASSUME CowTypes, Positions, Next, NEW w \in Writers
    PROVE  \/ writer'[w] = writer[w]
           \/ \E lo, hi \in Blocks, headFull, tailFull \in BOOLEAN :
                 StartWrite(w, lo, hi, headFull, tailFull)
           \/ WriterStep(w)
  <1>1. ASSUME NEW v \in Writers, NEW lo \in Blocks, NEW hi \in Blocks,
               NEW headFull \in BOOLEAN, NEW tailFull \in BOOLEAN,
               StartWrite(v, lo, hi, headFull, tailFull), v # w
        PROVE  writer'[w] = writer[w]
    BY <1>1 DEF StartWrite, CowTypes
  <1>2. ASSUME NEW v \in Writers, WriterStep(v), v # w
        PROVE  writer'[w] = writer[w]
    <2>1. writer[v].at \in {"get", "check", "copy", "write", "end"} => Active(v)
      BY WriterFields
    <2>2. CASE AcquireBlock(v) \/ WriteData(v)
      BY <1>2, <2>2 DEF AcquireBlock, WriteData, CowTypes
    <2>3. CASE CheckBlock(v)
      BY <1>2, <2>1, <2>3, AdvanceStep DEF CheckBlock, CowTypes
    <2>4. CASE CopyBlock(v)
      BY <1>2, <2>1, <2>4, AdvanceStep DEF CopyBlock
    <2>5. CASE EndBlock(v)
      BY <1>2, <2>1, <2>5, AdvanceStep DEF EndBlock
    <2> QED
      BY <1>2, <2>2, <2>3, <2>4, <2>5 DEF WriterStep
  <1> QED
    BY <1>1, <1>2, Frames

\* A copy bit is set by the writer that is at the block, or by the thread.
LEMMA MarkStep ==
    ASSUME CowTypes, Positions, Next, NEW c \in Children
    PROVE  /\ copied[c] \subseteq copied'[c]
           /\ \A b \in copied'[c] \ copied[c] :
                 \/ \E v \in Writers : EndBlock(v) /\ ChildOf[v] = c /\ writer[v].cur = b
                 \/ ThreadCopy /\ thread.child = c /\ Head(copies).blk = b
  <1>1. CASE UNCHANGED copied
    BY <1>1
  <1>2. ASSUME NEW v \in Writers, EndBlock(v)
        PROVE  /\ copied[c] \subseteq copied'[c]
               /\ \A b \in copied'[c] \ copied[c] : ChildOf[v] = c /\ writer[v].cur = b
    BY SMTT(60), <1>2, WriterFields DEF EndBlock, CowTypes
  <1>3. CASE ThreadCopy
    BY SMTT(60), <1>3, ParFields DEF ThreadCopy, CowTypes
  <1> QED
    BY <1>1, <1>2, <1>3, Frames

\* The head of the list stays while the thread works on it.
LEMMA HeadKept ==
    ASSUME CowTypes, Positions, Next, thread.at \in {"get", "copy"}, ~ThreadFree
    PROVE  copies' # << >> /\ Head(copies') = Head(copies)
  <1>1. copies \in Seq(PageCopy) /\ copies # << >>
    BY DEF CowTypes, Positions
  <1>2. \A x : Append(copies, x) # << >> /\ Head(Append(copies, x)) = Head(copies)
    BY SMTT(60), <1>1
  <1> QED
    BY <1>1, <1>2, Frames DEF WriteParBlocks

-----------------------------------------------------------------------------
(* The active map.                                                         *)

\* A writer that holds a block keeps it from being marked by anyone else.
LEMMA MarkedByHolder ==
    ASSUME CowTypes, Positions, Locks, Next, NEW w \in Writers, NEW b \in Blocks,
           WriterHolds(w, b), b \in copied'[ChildOf[w]] \ copied[ChildOf[w]]
    PROVE  EndBlock(w) /\ writer[w].cur = b
  <1> DEFINE c == ChildOf[w]
  <1>1. c \in Children
    BY WriterFields
  <1>2. ASSUME NEW v \in Writers, EndBlock(v), ChildOf[v] = c, writer[v].cur = b
        PROVE  v = w
    <2>1. Active(v) /\ writer[v].at = "end"
      BY <1>2, WriterFields DEF EndBlock
    <2>2. b \in Behind(v)
      BY SMTT(60), <1>2, <2>1, WriterFields DEF Behind, Positions, Blocks
    <2>3. WriterHolds(v, b)
      BY <1>2, <2>2 DEF WriterHolds
    <2> QED
      BY <1>2, <2>3 DEF Locks
  <1>3. ~(ThreadCopy /\ thread.child = c /\ Head(copies).blk = b)
    <2> SUFFICES ASSUME ThreadCopy, thread.child = c, Head(copies).blk = b PROVE FALSE
      OBVIOUS
    <2>1. ThreadHolds(c, b)
      BY DEF ThreadHolds, ThreadCopy
    <2>2. amap[c][b] = {"COPYING"} /\ amap[c][b] = {"COPYING_EXCL"}
      BY <1>1, <2>1 DEF Locks
    <2> QED
      BY <2>2
  <1> QED
    BY SMTT(60), <1>1, <1>2, <1>3, MarkStep

\* Every step keeps the positions.
LEMMA PositionsStep ==
    ASSUME CowTypes, Positions, Locks, Next, CowTypes' PROVE Positions'
  <1> DEFINE WriterAt(w) ==
                /\ Active(w) => writer[w].lo <= writer[w].cur /\ writer[w].cur <= writer[w].hi
                /\ writer[w].at = "write" => writer[w].cur = writer[w].lo
                /\ writer[w].at = "copy" =>
                      /\ writer[w].cur \notin copied[ChildOf[w]]
                      /\ \A p \in writer[w].from :
                            p.blk = writer[w].cur /\ ChildOf[w] \in p.targets
  <1>1. ASSUME NEW w \in Writers PROVE WriterAt(w)'
    <2>1. WriterAt(w)
      BY DEF Positions
    <2>2. CASE writer'[w] = writer[w]
      <3>1. ASSUME writer[w].at = "copy" PROVE writer[w].cur \notin copied'[ChildOf[w]]
        <4>1. writer[w].cur \in Blocks /\ WriterHolds(w, writer[w].cur)
          BY <3>1, WriterFields DEF WriterHolds
        <4> QED
          BY <2>1, <3>1, <4>1, MarkedByHolder DEF EndBlock
      <3> QED
        BY <2>1, <2>2, <3>1 DEF Active
    <2>3. ASSUME NEW lo \in Blocks, NEW hi \in Blocks, NEW headFull \in BOOLEAN,
                 NEW tailFull \in BOOLEAN, StartWrite(w, lo, hi, headFull, tailFull)
          PROVE  WriterAt(w)'
      BY SMTT(60), <2>3 DEF StartWrite, CowTypes, Blocks
    <2>4. writer[w].at \in {"get", "check", "copy", "write", "end"} =>
             Active(w) /\ writer[w].cur \in Blocks /\ writer[w].lo \in Blocks /\ writer[w].hi \in Blocks
      BY WriterFields
    <2>5. CASE AcquireBlock(w)
      BY <2>1, <2>4, <2>5 DEF AcquireBlock, CowTypes, Active, Writing
    <2>6. CASE Advance(w, "get", "write") /\ Active(w)
      BY SMTT(60), <2>1, <2>4, <2>6, AdvanceStep DEF Active, Writing, Blocks
    <2>7. CASE CheckBlock(w) /\ ~Advance(w, "get", "write")
      <3>1. /\ writer'[w] = [writer[w] EXCEPT !.at = "copy",
                                              !.from = CopiesFor(ChildOf[w], writer[w].cur)]
            /\ writer[w].cur \notin copied[ChildOf[w]] /\ UNCHANGED copied
            /\ Active(w)
        BY <2>4, <2>7 DEF CheckBlock, CowTypes
      <3>2. /\ writer'[w].at = "copy" /\ writer'[w].cur = writer[w].cur
            /\ writer'[w].lo = writer[w].lo /\ writer'[w].hi = writer[w].hi
            /\ writer'[w].from = CopiesFor(ChildOf[w], writer[w].cur)
        BY <3>1 DEF Active, Writing
      <3> QED
        BY <2>1, <3>1, <3>2 DEF CopiesFor
    <2>8. CASE WriteData(w)
      BY <2>1, <2>4, <2>8 DEF WriteData, CowTypes, Active, Writing
    <2>9. CASE EndBlock(w)
      BY SMTT(60), <2>1, <2>4, <2>9, AdvanceStep DEF EndBlock, Active, Writing, Blocks
    <2> QED
      BY <2>2, <2>3, <2>4, <2>5, <2>6, <2>7, <2>8, <2>9, WriterMoves DEF WriterStep, CheckBlock, CopyBlock
  <1>2. (parWriter.at = "write" => parWriter.todo = {})'
    <2>1. CASE UNCHANGED parWriter
      BY <2>1 DEF Positions
    <2>2. ASSUME NEW b \in Blocks, StartParWrite(b) PROVE parWriter'.at # "write"
      BY <2>2 DEF StartParWrite
    <2>3. CASE ParWriterStep
      <3>1. ASSUME NEW c \in Children, ReadBarrierBegin(c) PROVE parWriter'.at = "barrier"
        BY <3>1, ParFields DEF ReadBarrierBegin, ParWriting
      <3>2. CASE ParWriteFails
        BY <3>2 DEF ParWriteFails
      <3>3. CASE WriteParBlocks
        BY <3>3, ParFields DEF WriteParBlocks, ParWriting
      <3>4. CASE WriteParData
        BY <3>4, ParFields DEF WriteParData, ParWriting
      <3>5. CASE ReadBarrierEnd
        BY SMTT(60), <3>5, ParFields DEF ReadBarrierEnd, ParWriting, Idle
      <3> QED
        BY <2>3, <3>1, <3>2, <3>3, <3>4, <3>5 DEF ParWriterStep
    <2> QED
      BY <2>1, <2>2, <2>3, Frames
  <1>3. /\ (thread.at \in {"get", "copy"} =>
              copies # << >> /\ thread.todo \subseteq Head(copies).targets)'
        /\ (thread.at = "copy" => thread.child \in Head(copies).targets)'
    <2>1. CASE UNCHANGED thread
      <3>1. ~ThreadFree
        BY SMTT(60), <2>1 DEF ThreadFree, Idle
      <3> QED
        BY <2>1, <3>1, HeadKept DEF Positions
    <2>2. CASE ThreadSelect
      BY <2>2 DEF ThreadSelect
    <2>3. ASSUME NEW c \in Children, ThreadGet(c)
          PROVE  /\ thread' = [at |-> "copy", todo |-> thread.todo \ {c}, child |-> c]
                 /\ UNCHANGED copies /\ copies # << >>
                 /\ c \in Head(copies).targets /\ thread.todo \subseteq Head(copies).targets
      BY <2>3 DEF ThreadGet, Positions
    <2>4. CASE ThreadCopy
      BY <2>4 DEF ThreadCopy, Positions
    <2>5. CASE ThreadFree
      BY <2>5 DEF ThreadFree, Idle
    <2> QED
      BY SMTT(60), <2>1, <2>2, <2>3, <2>4, <2>5, Frames DEF ThreadStep
  <1> QED
    BY <1>1, <1>2, <1>3 DEF Positions

\* A writer comes to hold a block only by taking it.
LEMMA WriterTakes ==
    ASSUME CowTypes, Positions, Next, CowTypes', NEW w \in Writers, NEW b \in Blocks,
           WriterHolds(w, b)'
    PROVE  WriterHolds(w, b) \/ (AcquireBlock(w) /\ b = writer[w].cur)
  <1> DEFINE c == ChildOf[w]
  <1>1. c \in Children /\ copied[c] \subseteq copied'[c]
    BY WriterFields, MarkStep
  <1>2. writer[w].at \in {"get", "check", "copy", "write", "end"} =>
           /\ Active(w) /\ writer[w] \in Writing
           /\ writer[w].cur \in Blocks /\ writer[w].lo \in Blocks /\ writer[w].hi \in Blocks
           /\ writer[w].lo <= writer[w].cur /\ writer[w].cur <= writer[w].hi
    BY WriterFields DEF Positions, Active
  <1>3. CASE writer'[w] = writer[w]
    BY <1>1, <1>3 DEF WriterHolds, Behind
  <1>4. ASSUME NEW lo \in Blocks, NEW hi \in Blocks, NEW headFull \in BOOLEAN,
               NEW tailFull \in BOOLEAN, StartWrite(w, lo, hi, headFull, tailFull)
        PROVE  FALSE
    <2>1. writer'[w].at = "get" /\ writer'[w].cur = lo /\ writer'[w].lo = lo
      BY <1>4 DEF StartWrite, CowTypes
    <2> QED
      BY SMTT(60), <2>1 DEF WriterHolds, Behind, Blocks
  <1>5. CASE AcquireBlock(w)
    <2>1. /\ writer'[w].at = "check" /\ writer[w].at = "get" /\ UNCHANGED copied
          /\ writer'[w].cur = writer[w].cur /\ writer'[w].lo = writer[w].lo
      BY <1>2, <1>5 DEF AcquireBlock, CowTypes, Writing
    <2> QED
      BY <1>5, <2>1 DEF WriterHolds, Behind
  <1>6. CASE Advance(w, "get", "write") /\ writer[w].at \in {"check", "copy"}
    <2>1. CASE writer[w].cur < writer[w].hi
      <3>1. /\ writer'[w].at = "get" /\ writer'[w].cur = writer[w].cur + 1
            /\ writer'[w].lo = writer[w].lo
        BY <1>2, <1>6, <2>1, AdvanceStep
      <3>2. writer[w].lo <= b /\ b <= writer[w].cur /\ b \notin copied[c]
        BY SMTT(60), <1>1, <1>2, <1>6, <3>1 DEF WriterHolds, Behind, Blocks
      <3> QED
        BY SMTT(60), <1>2, <1>6, <3>2 DEF WriterHolds, Behind, Blocks
    <2>2. CASE ~(writer[w].cur < writer[w].hi)
      <3>1. /\ writer'[w].at = "write" /\ writer'[w].cur = writer[w].lo
            /\ writer'[w].hi = writer[w].hi
        BY <1>2, <1>6, <2>2, AdvanceStep
      <3>2. writer[w].lo <= b /\ b <= writer[w].cur /\ b \notin copied[c]
        BY SMTT(60), <1>1, <1>2, <1>6, <2>2, <3>1 DEF WriterHolds, Behind, Blocks
      <3> QED
        BY SMTT(60), <1>2, <1>6, <3>2 DEF WriterHolds, Behind, Blocks
    <2> QED
      BY <2>1, <2>2
  <1>7. CASE CheckBlock(w) /\ ~Advance(w, "get", "write")
    <2>1. /\ writer'[w].at = "copy" /\ writer[w].at = "check" /\ UNCHANGED copied
          /\ writer'[w].cur = writer[w].cur /\ writer'[w].lo = writer[w].lo
      BY SMTT(60), <1>2, <1>7 DEF CheckBlock, CowTypes, Writing
    <2> QED
      BY <2>1 DEF WriterHolds, Behind
  <1>8. CASE WriteData(w)
    <2>1. /\ writer'[w].at = "end" /\ writer[w].at = "write" /\ UNCHANGED copied
          /\ writer'[w].cur = writer[w].cur /\ writer'[w].hi = writer[w].hi
      BY <1>2, <1>8 DEF WriteData, CowTypes, Writing
    <2> QED
      BY <2>1 DEF WriterHolds, Behind
  <1>9. CASE EndBlock(w)
    <2>1. writer[w].at = "end" /\ Active(w) /\ Advance(w, "end", "done")
      BY <1>2, <1>9 DEF EndBlock
    <2>2. CASE writer[w].cur < writer[w].hi
      <3>1. /\ writer'[w].at = "end" /\ writer'[w].cur = writer[w].cur + 1
            /\ writer'[w].hi = writer[w].hi
        BY <2>1, <2>2, AdvanceStep
      <3> QED
        BY SMTT(60), <1>1, <1>2, <2>1, <3>1 DEF WriterHolds, Behind, Blocks
    <2>3. CASE ~(writer[w].cur < writer[w].hi)
      <3>1. writer'[w].at = "done"
        BY SMTT(60), <2>1, <2>3, AdvanceStep
      <3> QED
        BY <3>1 DEF WriterHolds, Behind
    <2> QED
      BY <2>2, <2>3
  <1> QED
    BY <1>3, <1>4, <1>5, <1>6, <1>7, <1>8, <1>9, WriterMoves DEF WriterStep, CheckBlock, CopyBlock

\* The barrier comes to hold a block only by taking it.
LEMMA BarrierTakes ==
    ASSUME CowTypes, Positions, Next, NEW c \in Children, NEW b \in Blocks, BarrierHolds(c, b)'
    PROVE  BarrierHolds(c, b) \/ (ReadBarrierBegin(c) /\ b = BarrierBlock(parWriter.blk))
  <1>1. CASE UNCHANGED parWriter
    BY <1>1 DEF BarrierHolds
  <1>2. ASSUME NEW k \in Blocks, StartParWrite(k) PROVE FALSE
    BY <1>2 DEF StartParWrite, BarrierHolds, BarrierChildren
  <1>3. ASSUME NEW d \in Children, ReadBarrierBegin(d)
        PROVE  BarrierHolds(c, b) \/ (d = c /\ b = BarrierBlock(parWriter.blk))
    <2>1. /\ parWriter.at = "barrier" /\ parWriter'.at = "barrier"
          /\ parWriter'.blk = parWriter.blk /\ parWriter'.todo = parWriter.todo \ {d}
      BY <1>3, ParFields DEF ReadBarrierBegin, ParWriting
    <2> QED
      BY <2>1 DEF BarrierHolds
  <1>4. CASE ParWriteFails
    BY <1>4 DEF ParWriteFails, BarrierHolds
  <1>5. CASE WriteParBlocks
    <2>1. /\ parWriter.at = "barrier" /\ parWriter.todo = {} /\ parWriter'.at = "write"
          /\ parWriter'.blk = parWriter.blk /\ parWriter'.todo = parWriter.todo
      BY <1>5, ParFields DEF WriteParBlocks, ParWriting
    <2> QED
      BY <2>1 DEF BarrierHolds
  <1>6. CASE WriteParData
    <2>1. /\ parWriter.at = "write" /\ parWriter.todo = {} /\ parWriter'.at = "release"
          /\ parWriter'.blk = parWriter.blk
      BY <1>6, ParFields DEF WriteParData, ParWriting, Positions
    <2> QED
      BY <2>1 DEF BarrierHolds
  <1>7. CASE ReadBarrierEnd
    <2>1. CASE parWriter' = Idle
      BY <2>1 DEF BarrierHolds, Idle
    <2>2. ASSUME NEW d \in parWriter.todo, parWriter' = [parWriter EXCEPT !.todo = @ \ {d}]
          PROVE  BarrierHolds(c, b)
      <3>1. /\ parWriter.at = "release" /\ parWriter'.at = "release"
            /\ parWriter'.blk = parWriter.blk /\ parWriter'.todo = parWriter.todo \ {d}
        BY <1>7, <2>2, ParFields DEF ReadBarrierEnd, ParWriting
      <3> QED
        BY <3>1 DEF BarrierHolds
    <2> QED
      BY <1>7, <2>1, <2>2 DEF ReadBarrierEnd
  <1> QED
    BY <1>1, <1>2, <1>3, <1>4, <1>5, <1>6, <1>7, Frames DEF ParWriterStep

\* The thread comes to hold a block only by taking it.
LEMMA ThreadTakes ==
    ASSUME CowTypes, Positions, Next, NEW c \in Children, NEW b \in Blocks, ThreadHolds(c, b)'
    PROVE  ThreadHolds(c, b) \/ (ThreadGet(c) /\ b = Head(copies).blk)
  <1>1. CASE UNCHANGED thread
    <2>1. thread.at = "copy" /\ ~ThreadFree
      BY <1>1 DEF ThreadHolds, ThreadFree
    <2>2. Head(copies') = Head(copies)
      BY <2>1, HeadKept
    <2> QED
      BY <1>1, <2>2 DEF ThreadHolds
  <1>2. ASSUME NEW d \in Children, ThreadGet(d) PROVE d = c /\ b = Head(copies).blk
    BY <1>2 DEF ThreadGet, ThreadHolds
  <1>3. ~(ThreadSelect \/ ThreadCopy \/ ThreadFree)
    BY SMTT(60) DEF ThreadSelect, ThreadCopy, ThreadFree, ThreadHolds, Idle
  <1> QED
    BY <1>1, <1>2, <1>3, Frames DEF ThreadStep

\* The active map changes where a block is taken that was free, and where it is
\* let go by whoever holds it.
LEMMA AmapStep ==
    ASSUME CowTypes, Positions, Next, CowTypes', NEW c \in Children, NEW b \in Blocks,
           amap'[c][b] # amap[c][b]
    PROVE  \/ amap[c][b] = {}
           \/ \E v \in Writers : ChildOf[v] = c /\ WriterHolds(v, b) /\ ~WriterHolds(v, b)'
           \/ BarrierHolds(c, b) /\ ~BarrierHolds(c, b)'
           \/ ThreadHolds(c, b) /\ ~ThreadHolds(c, b)'
  <1> DEFINE Get(d, k) == \E type \in {"COPYING", "COPYING_EXCL"} : GetBlock(d, k, type)
             Put(d, k) == \E type \in {"COPYING", "COPYING_EXCL"} : PutBlock(d, k, type)
  <1>1. ASSUME NEW d \in Children, NEW k \in Blocks, Get(d, k) PROVE amap[c][b] = {}
    BY SMTT(60), <1>1, GetFree
  <1>2. ASSUME NEW d \in Children, NEW k \in Blocks, Put(d, k) PROVE d = c /\ k = b
    BY <1>2, PutFree
  <1>3. ASSUME NEW v \in Writers, AcquireBlock(v) PROVE amap[c][b] = {}
    BY <1>1, <1>3, WriterFields DEF AcquireBlock
  <1>4. ASSUME NEW v \in Writers, CheckBlock(v)
        PROVE  ChildOf[v] = c /\ WriterHolds(v, b) /\ ~WriterHolds(v, b)'
    <2>1. /\ writer[v].at = "check" /\ Active(v) /\ ChildOf[v] \in Children
          /\ writer[v].cur \in Blocks
      BY <1>4, WriterFields DEF CheckBlock
    <2>2. /\ PutBlock(ChildOf[v], writer[v].cur, "COPYING") /\ Advance(v, "get", "write")
          /\ writer[v].cur \in copied[ChildOf[v]] /\ UNCHANGED copied
      BY <1>4 DEF CheckBlock
    <2>3. ChildOf[v] = c /\ writer[v].cur = b
      BY <1>2, <2>1, <2>2
    <2>4. writer'[v].at \in {"get", "write"}
      BY <2>1, <2>2, AdvanceStep
    <2> QED
      BY <2>1, <2>2, <2>3, <2>4 DEF WriterHolds
  <1>5. ASSUME NEW v \in Writers, EndBlock(v)
        PROVE  ChildOf[v] = c /\ WriterHolds(v, b) /\ ~WriterHolds(v, b)'
    <2>1. /\ writer[v].at = "end" /\ Active(v) /\ ChildOf[v] \in Children
          /\ writer[v].cur \in Blocks /\ writer[v].hi \in Blocks /\ writer[v].cur <= writer[v].hi
      BY <1>5, WriterFields DEF EndBlock, Positions
    <2>2. /\ PutBlock(ChildOf[v], writer[v].cur, "COPYING") /\ Advance(v, "end", "done")
          /\ writer[v].cur \notin copied[ChildOf[v]]
          /\ copied' = [copied EXCEPT ![ChildOf[v]] = @ \cup {writer[v].cur}]
      BY <1>5 DEF EndBlock
    <2>3. ChildOf[v] = c /\ writer[v].cur = b
      BY <1>2, <2>1, <2>2
    <2>4. writer'[v].at \in {"end", "done"}
      BY SMTT(60), <2>1, <2>2, AdvanceStep
    <2>5. b \in copied'[c]
      BY <2>2, <2>3 DEF CowTypes
    <2>6. b \in Behind(v)
      BY SMTT(60), <2>1, <2>3 DEF Behind, Blocks
    <2> QED
      BY <2>1, <2>2, <2>3, <2>4, <2>5, <2>6 DEF WriterHolds
  <1>6. \A k : BarrierBlock(k) \in Blocks
    BY SMTT(60), CowAssumption DEF BarrierBlock, Blocks
  <1>7. ASSUME NEW d \in Children, ReadBarrierBegin(d) PROVE amap[c][b] = {}
    BY <1>1, <1>6, <1>7 DEF ReadBarrierBegin
  <1>8. ASSUME ReadBarrierEnd PROVE BarrierHolds(c, b) /\ ~BarrierHolds(c, b)'
    <2>1. parWriter.at = "release" /\ parWriter \in ParWriting /\ parWriter.todo \subseteq Children
      BY <1>8, ParFields DEF ReadBarrierEnd
    <2>2. PICK d \in parWriter.todo : /\ PutBlock(d, BarrierBlock(parWriter.blk), "COPYING_EXCL")
                                      /\ parWriter' = [parWriter EXCEPT !.todo = @ \ {d}]
      BY <1>8 DEF ReadBarrierEnd
    <2>3. d = c /\ BarrierBlock(parWriter.blk) = b
      BY SMTT(60), <1>2, <1>6, <2>1, <2>2
    <2>4. parWriter'.at = "release" /\ c \notin parWriter'.todo
      BY <2>1, <2>2, <2>3 DEF ParWriting
    <2> QED
      BY <2>1, <2>2, <2>3, <2>4 DEF BarrierHolds
  <1>9. ASSUME NEW d \in Children, ThreadGet(d) PROVE amap[c][b] = {}
    BY <1>1, <1>9, HeadFields DEF ThreadGet
  <1>10. ASSUME ThreadCopy PROVE ThreadHolds(c, b) /\ ~ThreadHolds(c, b)'
    <2>1. /\ thread.at = "copy" /\ thread.child \in Children /\ Head(copies).blk \in Blocks
          /\ PutBlock(thread.child, Head(copies).blk, "COPYING_EXCL") /\ thread'.at = "get"
      BY <1>10, HeadFields, ParFields DEF ThreadCopy
    <2> QED
      BY <1>2, <2>1 DEF ThreadHolds
  <1> QED
    BY <1>3, <1>4, <1>5, <1>7, <1>8, <1>9, <1>10, Frames

\* A block stays with whoever holds it until it is let go, and nobody else takes
\* it before.
LEMMA LocksStep ==
    ASSUME CowTypes, Positions, Locks, Next, CowTypes' PROVE Locks'
  <1>0. \A w \in Writers : ChildOf[w] \in Children
    BY WriterFields
  <1>b. \A k : BarrierBlock(k) \in Blocks
    BY SMTT(60), CowAssumption DEF BarrierBlock, Blocks
  <1>1. ASSUME NEW w \in Writers, NEW b \in Blocks, WriterHolds(w, b)'
        PROVE  amap'[ChildOf[w]][b] = {"COPYING"}
    <2>1. CASE AcquireBlock(w) /\ b = writer[w].cur
      BY <1>0, <2>1, GetFree DEF AcquireBlock
    <2>2. CASE WriterHolds(w, b)
      <3>1. amap[ChildOf[w]][b] = {"COPYING"}
        BY <2>2 DEF Locks
      <3>2. ~BarrierHolds(ChildOf[w], b) /\ ~ThreadHolds(ChildOf[w], b)
        BY <1>0, <3>1 DEF Locks
      <3>3. \A v \in Writers : ChildOf[v] = ChildOf[w] /\ WriterHolds(v, b) => v = w
        BY <2>2 DEF Locks
      <3> QED
        BY <1>0, <1>1, <3>1, <3>2, <3>3, AmapStep
    <2> QED
      BY <1>1, <2>1, <2>2, WriterTakes
  <1>2. ASSUME NEW c \in Children, NEW b \in Blocks, BarrierHolds(c, b)'
        PROVE  amap'[c][b] = {"COPYING_EXCL"}
    <2>1. CASE ReadBarrierBegin(c) /\ b = BarrierBlock(parWriter.blk)
      BY <2>1, GetFree DEF ReadBarrierBegin
    <2>2. CASE BarrierHolds(c, b)
      <3>1. amap[c][b] = {"COPYING_EXCL"} /\ ~ThreadHolds(c, b)
        BY <2>2 DEF Locks
      <3>2. \A v \in Writers : ChildOf[v] = c => ~WriterHolds(v, b)
        BY <3>1 DEF Locks
      <3> QED
        BY <1>2, <3>1, <3>2, AmapStep
    <2> QED
      BY <1>2, <2>1, <2>2, BarrierTakes
  <1>3. ASSUME NEW c \in Children, NEW b \in Blocks, ThreadHolds(c, b)'
        PROVE  amap'[c][b] = {"COPYING_EXCL"}
    <2>1. CASE ThreadGet(c) /\ b = Head(copies).blk
      BY <2>1, GetFree DEF ThreadGet
    <2>2. CASE ThreadHolds(c, b)
      <3>1. amap[c][b] = {"COPYING_EXCL"} /\ ~BarrierHolds(c, b)
        BY <2>2 DEF Locks
      <3>2. \A v \in Writers : ChildOf[v] = c => ~WriterHolds(v, b)
        BY <3>1 DEF Locks
      <3> QED
        BY <1>3, <3>1, <3>2, AmapStep
    <2> QED
      BY <1>3, <2>1, <2>2, ThreadTakes
  <1>4. ASSUME NEW c \in Children, NEW b \in Blocks, BarrierHolds(c, b)', ThreadHolds(c, b)'
        PROVE  FALSE
    <2>1. ReadBarrierBegin(c) /\ b = BarrierBlock(parWriter.blk) => amap[c][b] = {} /\ UNCHANGED thread
      BY SMTT(60), GetFree DEF ReadBarrierBegin
    <2>2. ThreadGet(c) /\ b = Head(copies).blk =>
             amap[c][b] = {} /\ thread.at = "get" /\ thread'.at = "copy"
      BY SMTT(60), GetFree DEF ThreadGet
    <2>3. BarrierHolds(c, b) \/ ThreadHolds(c, b) => amap[c][b] # {}
      BY DEF Locks
    <2>4. ~(BarrierHolds(c, b) /\ ThreadHolds(c, b))
      BY DEF Locks
    <2> QED
      BY <1>4, <2>1, <2>2, <2>3, <2>4, BarrierTakes, ThreadTakes
  <1>5. ASSUME NEW v \in Writers, NEW w \in Writers, NEW b \in Blocks, ChildOf[v] = ChildOf[w],
               WriterHolds(v, b)', WriterHolds(w, b)'
        PROVE  v = w
    <2>1. ASSUME NEW x \in Writers, AcquireBlock(x), b = writer[x].cur
          PROVE  /\ amap[ChildOf[x]][b] = {} /\ writer[x].at = "get" /\ writer'[x].at = "check"
                 /\ \A y \in Writers : y # x => writer'[y] = writer[y]
      <3>1. amap[ChildOf[x]][b] = {} /\ writer[x].at = "get" /\ writer[x] \in Writing
        BY <1>0, <2>1, GetFree, WriterFields DEF AcquireBlock, Active
      <3> QED
        BY <2>1, <3>1 DEF AcquireBlock, CowTypes, Writing
    <2>2. \A x \in Writers : WriterHolds(x, b) => amap[ChildOf[x]][b] # {}
      BY DEF Locks
    <2>3. WriterHolds(v, b) /\ WriterHolds(w, b) => v = w
      BY <1>5 DEF Locks
    <2>4. CASE WriterHolds(v, b)
      BY <1>5, <2>1, <2>2, <2>3, <2>4, WriterTakes
    <2>5. CASE WriterHolds(w, b)
      BY <1>5, <2>1, <2>2, <2>3, <2>5, WriterTakes
    <2>6. CASE AcquireBlock(v) /\ b = writer[v].cur /\ AcquireBlock(w) /\ b = writer[w].cur
      BY <2>1, <2>6
    <2> QED
      BY <1>5, <2>4, <2>5, <2>6, WriterTakes
  <1> QED
    BY <1>1, <1>2, <1>3, <1>4, <1>5 DEF Locks

-----------------------------------------------------------------------------
(* Page copies, counts and found copies.                                   *)

\* Nothing that failed is forgotten.
LEMMA SpoiledStep ==
    ASSUME Next PROVE spoiled \subseteq spoiled'
  BY Frames DEF CopyBlock, WriteData, ThreadCopy, Spoil

\* The thread leaves a child only when it has the block, or its copy failed.
LEMMA ServedStep ==
    ASSUME CowTypes, Positions, Served, Next PROVE Served'
  <1> SUFFICES ASSUME (thread.at \in {"get", "copy"})', NEW c \in Head(copies').targets
               PROVE  (\/ c \in thread.todo
                       \/ thread.at = "copy" /\ thread.child = c
                       \/ Head(copies).blk \in copied[c]
                       \/ ~Unspoiled(c, Head(copies).blk))'
    BY DEF Served
  <1>1. CASE UNCHANGED thread
    <2>1. thread.at \in {"get", "copy"} /\ ~ThreadFree
      BY SMTT(60), <1>1 DEF ThreadFree, Idle
    <2>2. Head(copies') = Head(copies) /\ Head(copies).targets \subseteq Children
      BY <2>1, HeadKept, HeadFields
    <2>3. copied[c] \subseteq copied'[c]
      BY <2>2, MarkStep
    <2>4. \/ c \in thread.todo
          \/ thread.at = "copy" /\ thread.child = c
          \/ Head(copies).blk \in copied[c]
          \/ ~Unspoiled(c, Head(copies).blk)
      BY <2>1, <2>2 DEF Served
    <2> QED
      BY <1>1, <2>2, <2>3, <2>4, SpoiledStep DEF Unspoiled
  <1>2. CASE ThreadSelect
    BY <1>2 DEF ThreadSelect
  <1>3. ASSUME NEW d \in Children, ThreadGet(d)
        PROVE  (\/ c \in thread.todo
                \/ thread.at = "copy" /\ thread.child = c
                \/ Head(copies).blk \in copied[c]
                \/ ~Unspoiled(c, Head(copies).blk))'
    BY <1>3 DEF ThreadGet, Served, Unspoiled
  <1>4. CASE ThreadCopy
    <2>1. /\ thread.at = "copy" /\ UNCHANGED copies /\ thread'.todo = thread.todo
          /\ Head(copies).targets \subseteq Children /\ Head(copies).blk \in Blocks
          /\ thread.child \in Children
      BY <1>4, HeadFields, ParFields DEF ThreadCopy
    <2>2. copied[c] \subseteq copied'[c]
      BY <2>1, MarkStep
    <2>3. \/ c \in thread.todo
          \/ thread.child = c
          \/ Head(copies).blk \in copied[c]
          \/ ~Unspoiled(c, Head(copies).blk)
      BY <2>1 DEF Served
    <2>4. ASSUME thread.child = c
          PROVE  Head(copies).blk \in copied'[c] \/ <<c, Head(copies).blk>> \in spoiled'
      BY SMTT(60), <1>4, <2>1, <2>4 DEF ThreadCopy, Spoil, CowTypes
    <2> QED
      BY <2>1, <2>2, <2>3, <2>4, SpoiledStep DEF Unspoiled
  <1>5. ~ThreadFree
    BY SMTT(60) DEF ThreadFree, Idle
  <1> QED
    BY <1>1, <1>2, <1>3, <1>4, <1>5, Frames DEF ThreadStep

\* The blocks of a child that are copied are finitely many.
LEMMA CopiedFinite ==
    ASSUME CowTypes, NEW c \in Children
    PROVE  IsFiniteSet(copied[c]) /\ Cardinality(copied[c]) \in 0..NumBlocks
  <1>1. NumBlocks - 1 \in Int /\ 0 \in Int /\ ~(0 > NumBlocks - 1)
    BY SMTT(60), CowAssumption
  <1>2. IsFiniteSet(Blocks) /\ Cardinality(Blocks) = NumBlocks - 1 - 0 + 1
    BY <1>1, FS_Interval DEF Blocks
  <1>3. copied[c] \in SUBSET Blocks
    BY DEF CowTypes
  <1>4. IsFiniteSet(copied[c]) /\ Cardinality(copied[c]) <= Cardinality(Blocks)
    BY <1>2, <1>3, FS_Subset
  <1> QED
    BY SMTT(60), <1>2, <1>4, FS_CardinalityType, CowAssumption

\* A block is counted off where its copy bit is set, and only there.
LEMMA PendingStep ==
    ASSUME CowTypes, Positions, PendingExact, Next PROVE PendingExact'
  <1>1. ASSUME NEW d \in Children, NEW b \in Blocks, b \notin copied[d],
               copied' = [copied EXCEPT ![d] = @ \cup {b}],
               pending' = [pending EXCEPT ![d] = @ - 1]
        PROVE  PendingExact'
    <2> SUFFICES ASSUME NEW c \in Children
                 PROVE  pending'[c] = NumBlocks - Cardinality(copied'[c])
      BY DEF PendingExact
    <2>1. IsFiniteSet(copied[c]) /\ Cardinality(copied[c]) \in Int
      BY SMTT(60), CopiedFinite
    <2>2. pending[c] = NumBlocks - Cardinality(copied[c])
      BY DEF PendingExact
    <2>3. CASE c = d
      <3>1. copied'[c] = copied[c] \cup {b} /\ pending'[c] = pending[c] - 1
        BY <1>1, <2>3 DEF CowTypes
      <3>2. Cardinality(copied[c] \cup {b}) = Cardinality(copied[c]) + 1
        BY <1>1, <2>1, <2>3, FS_AddElement
      <3> QED
        BY SMTT(60), <2>1, <2>2, <3>1, <3>2, CowAssumption
    <2>4. CASE c # d
      BY <1>1, <2>2, <2>4 DEF CowTypes
    <2> QED
      BY <2>3, <2>4
  <1>2. CASE UNCHANGED <<copied, pending>>
    BY <1>2 DEF PendingExact
  <1>3. ASSUME NEW w \in Writers, EndBlock(w) PROVE PendingExact'
    BY <1>1, <1>2, <1>3, WriterFields DEF EndBlock
  <1>4. CASE ThreadCopy
    BY <1>1, <1>2, <1>4, HeadFields, ParFields DEF ThreadCopy
  <1> QED
    BY <1>2, <1>3, <1>4, Frames

\* A writer that is about to copy has just looked for a page copy, or had before.
LEMMA ToCopy ==
    ASSUME CowTypes, Positions, Next, NEW w \in Writers, writer'[w].at = "copy"
    PROVE  \/ writer'[w] = writer[w]
           \/ /\ CheckBlock(w) /\ writer'[w].cur = writer[w].cur
              /\ writer'[w].from = CopiesFor(ChildOf[w], writer[w].cur)
              /\ writer[w].cur \notin copied[ChildOf[w]] /\ UNCHANGED <<copies, par, copied>>
  <1>1. writer[w].at \in {"get", "check", "copy", "write", "end"} =>
           Active(w) /\ writer[w] \in Writing
    BY WriterFields DEF Active
  <1>2. ASSUME NEW lo \in Blocks, NEW hi \in Blocks, NEW headFull \in BOOLEAN,
               NEW tailFull \in BOOLEAN, StartWrite(w, lo, hi, headFull, tailFull)
        PROVE  FALSE
    BY <1>2 DEF StartWrite, CowTypes
  <1>3. ~AcquireBlock(w) /\ ~WriteData(w)
    BY SMTT(60), <1>1 DEF AcquireBlock, WriteData, CowTypes, Writing
  <1>4. ~(Active(w) /\ (Advance(w, "get", "write") \/ Advance(w, "end", "done")))
    BY SMTT(60), AdvanceStep
  <1>5. ~CopyBlock(w) /\ ~EndBlock(w)
    BY <1>1, <1>4 DEF CopyBlock, EndBlock
  <1>6. ASSUME CheckBlock(w)
        PROVE  /\ writer'[w].cur = writer[w].cur
               /\ writer'[w].from = CopiesFor(ChildOf[w], writer[w].cur)
               /\ writer[w].cur \notin copied[ChildOf[w]] /\ UNCHANGED <<copies, par, copied>>
    <2>1. /\ writer[w].cur \notin copied[ChildOf[w]] /\ UNCHANGED <<copies, par, copied>>
          /\ writer' = [writer EXCEPT ![w].at = "copy",
                                      ![w].from = CopiesFor(ChildOf[w], writer[w].cur)]
          /\ writer[w] \in Writing
      BY <1>1, <1>4, <1>6 DEF CheckBlock
    <2> QED
      BY <2>1 DEF CowTypes, Writing
  <1> QED
    BY <1>2, <1>3, <1>5, <1>6, WriterMoves DEF WriterStep

\* A page copy leaves the list only when every child it is for was served.
LEMMA CopiesStep ==
    ASSUME CowTypes, Positions, Served, Next, NEW p \in Range(copies) \ Range(copies'),
           NEW c \in p.targets
    PROVE  p.blk \in copied[c] \/ ~Unspoiled(c, p.blk)
  <1>1. copies \in Seq(PageCopy)
    BY DEF CowTypes
  <1>2. UNCHANGED copies \/ WriteParBlocks => Range(copies) \subseteq Range(copies')
    <2>1. CASE UNCHANGED copies
      BY <2>1
    <2>2. CASE WriteParBlocks
      <3> DEFINE b == parWriter.blk
                 x == [blk |-> b, targets |-> TargetChildren(b), data |-> par[b]]
      <3>1. b \in Blocks /\ par[b] \in {"orig", "par"} /\ TargetChildren(b) \subseteq Children
        BY <2>2, ParFields DEF WriteParBlocks, TargetChildren, CowTypes
      <3>2. x \in PageCopy
        BY <3>1 DEF PageCopy
      <3>3. Range(Append(copies, x)) = Range(copies) \cup {x}
        BY SMTT(60), <1>1, <3>2, CopiesAppended
      <3> QED
        BY <2>2, <3>3 DEF WriteParBlocks
    <2> QED
      BY <2>1, <2>2
  <1>3. thread.at = "get" /\ thread.todo = {} /\ copies' = Tail(copies)
    BY <1>2, Frames DEF ThreadFree
  <1>4. copies # << >>
    BY <1>3 DEF Positions
  <1>5. p = Head(copies)
    BY <1>1, <1>3, <1>4, CopiesTail
  <1> QED
    BY <1>3, <1>5 DEF Served

\* The page copy a writer found outlives its copy.
LEMMA FoundStep ==
    ASSUME CowTypes, Positions, Served, FoundCopyAlive, Next PROVE FoundCopyAlive'
  <1> SUFFICES ASSUME NEW w \in Writers, writer'[w].at = "copy",
                      <<ChildOf[w], writer'[w].cur>> \notin spoiled', NEW p \in writer'[w].from
               PROVE  p \in Range(copies')
    BY DEF FoundCopyAlive
  <1>1. CASE writer'[w] = writer[w]
    <2>1. /\ p \in Range(copies) /\ p.blk = writer[w].cur /\ ChildOf[w] \in p.targets
          /\ writer[w].cur \notin copied[ChildOf[w]] /\ Unspoiled(ChildOf[w], writer[w].cur)
      BY <1>1, SpoiledStep DEF FoundCopyAlive, Positions, Unspoiled
    <2> QED
      BY <2>1, CopiesStep
  <1>2. CASE writer'[w].from = CopiesFor(ChildOf[w], writer[w].cur) /\ UNCHANGED copies
    BY <1>2 DEF CopiesFor
  <1> QED
    BY <1>1, <1>2, ToCopy

-----------------------------------------------------------------------------
(* What was written stays.                                                 *)

\* What a writer makes of block b of its child c.
Overwritten(v, c, b) ==
    IF b \in writer[v].full THEN Whole(v) ELSE [child[c][b] EXCEPT !.head = v]

\* The contents of a child's block change by a writer's copy, by a write, or by
\* the thread's copy of a block that is not copied.
LEMMA ChildStep ==
    ASSUME CowTypes, Positions, Next, NEW c \in Children, NEW b \in Blocks
    PROVE  \/ child'[c][b] = child[c][b] /\ last'[c][b] = last[c][b]
           \/ \E v \in Writers :
                 /\ CopyBlock(v) /\ ChildOf[v] = c /\ writer[v].cur = b
                 /\ last'[c][b] = last[c][b]
                 /\ \/ writer[v].from = {} /\ child'[c][b] = Whole(par[b])
                    \/ \E p \in writer[v].from : child'[c][b] = Whole(p.data)
           \/ \E v \in Writers :
                 /\ WriteData(v) /\ ChildOf[v] = c /\ last'[c][b] = v
                 /\ writer[v].lo <= b /\ b <= writer[v].hi
                 /\ child'[c][b] = Overwritten(v, c, b)
           \/ /\ ThreadCopy /\ thread.child = c /\ Head(copies).blk = b
              /\ b \notin copied[c] /\ last'[c][b] = last[c][b]
              /\ child'[c][b] = Whole(Head(copies).data)
  <1>1. CASE UNCHANGED <<child, last>>
    BY <1>1
  <1>2. ASSUME NEW v \in Writers, CopyBlock(v)
        PROVE  \/ child'[c][b] = child[c][b] /\ last'[c][b] = last[c][b]
               \/ /\ ChildOf[v] = c /\ writer[v].cur = b
                  /\ last'[c][b] = last[c][b]
                  /\ \/ writer[v].from = {} /\ child'[c][b] = Whole(par[b])
                     \/ \E p \in writer[v].from : child'[c][b] = Whole(p.data)
    <2>1. ChildOf[v] \in Children /\ writer[v].cur \in Blocks /\ UNCHANGED last
      BY <1>2, WriterFields DEF CopyBlock
    <2>2. ASSUME NEW x, child' = [child EXCEPT ![ChildOf[v]][writer[v].cur] = x]
          PROVE  IF ChildOf[v] = c /\ writer[v].cur = b THEN child'[c][b] = x
                 ELSE child'[c][b] = child[c][b]
      BY <2>1, <2>2 DEF CowTypes
    <2>3. CASE UNCHANGED child
      BY <2>1, <2>3
    <2>4. CASE /\ writer[v].from = {}
               /\ child' = [child EXCEPT ![ChildOf[v]][writer[v].cur] = Whole(par[writer[v].cur])]
      BY <2>1, <2>2, <2>4
    <2>5. ASSUME NEW p \in writer[v].from,
                 child' = [child EXCEPT ![ChildOf[v]][writer[v].cur] = Whole(p.data)]
          PROVE  \/ child'[c][b] = child[c][b]
                 \/ ChildOf[v] = c /\ writer[v].cur = b /\ child'[c][b] = Whole(p.data)
      BY <2>2, <2>5
    <2> QED
      BY <1>2, <2>1, <2>3, <2>4, <2>5 DEF CopyBlock
  <1>3. ASSUME NEW v \in Writers, WriteData(v)
        PROVE  \/ child'[c][b] = child[c][b] /\ last'[c][b] = last[c][b]
               \/ /\ ChildOf[v] = c /\ last'[c][b] = v
                  /\ writer[v].lo <= b /\ b <= writer[v].hi
                  /\ child'[c][b] = Overwritten(v, c, b)
    <2> DEFINE d == ChildOf[v]
               new(k) == IF k \in writer[v].full THEN Whole(v) ELSE [child[d][k] EXCEPT !.head = v]
    <2>1. d \in Children /\ writer[v].lo \in Blocks /\ writer[v].hi \in Blocks
      BY <1>3, WriterFields DEF WriteData
    <2>2. PICK n \in writer[v].lo..(writer[v].hi + 1) :
             LET done == writer[v].lo..(n - 1)
             IN  /\ child' = [child EXCEPT ![d] =
                                 [k \in Blocks |-> IF k \in done THEN new(k) ELSE child[d][k]]]
                 /\ last' = [last EXCEPT ![d] =
                                 [k \in Blocks |-> IF k \in done THEN v ELSE last[d][k]]]
      BY <1>3 DEF WriteData
    <2> HIDE DEF new
    <2>3. IF d = c /\ b \in writer[v].lo..(n - 1)
          THEN child'[c][b] = new(b) /\ last'[c][b] = v
          ELSE child'[c][b] = child[c][b] /\ last'[c][b] = last[c][b]
      BY <2>1, <2>2 DEF CowTypes
    <2>4. b \in writer[v].lo..(n - 1) => writer[v].lo <= b /\ b <= writer[v].hi
      BY SMTT(60), <2>1, <2>2 DEF Blocks
    <2> QED
      BY <2>3, <2>4 DEF new, Overwritten
  <1>4. CASE ThreadCopy
    <2>1. thread.child \in Children /\ Head(copies).blk \in Blocks /\ UNCHANGED last
      BY <1>4, ParFields, HeadFields DEF ThreadCopy
    <2>2. CASE UNCHANGED child
      BY <2>1, <2>2
    <2>3. CASE /\ Head(copies).blk \notin copied[thread.child]
               /\ child' = [child EXCEPT ![thread.child][Head(copies).blk] = Whole(Head(copies).data)]
      BY <1>4, <2>1, <2>3 DEF CowTypes
    <2> QED
      BY <1>4, <2>2, <2>3 DEF ThreadCopy
  <1>5. UNCHANGED child => UNCHANGED last \/ \E v \in Writers : WriteData(v)
    BY Frames
  <1> QED
    BY <1>1, <1>2, <1>3, <1>4, <1>5, Frames

\* A writer that has written a block keeps it until its copy bit is set.
LEMMA EndKeeps ==
    ASSUME CowTypes, Positions, Next, CowTypes', NEW w \in Writers, NEW b \in Blocks,
           writer[w].at = "end", b \in Behind(w)
    PROVE  b \in copied'[ChildOf[w]] \/ (writer'[w].at = "end" /\ b \in Behind(w)')
  <1>1. /\ Active(w) /\ ChildOf[w] \in Children
        /\ writer[w].cur \in Blocks /\ writer[w].hi \in Blocks
        /\ writer[w].cur <= b /\ b <= writer[w].hi
    BY WriterFields DEF Behind
  <1>2. CASE writer'[w] = writer[w]
    BY <1>1, <1>2 DEF Behind
  <1>3. CASE EndBlock(w)
    <2>1. writer[w].cur \in copied'[ChildOf[w]] /\ Advance(w, "end", "done")
      BY SMTT(60), <1>1, <1>3 DEF EndBlock, CowTypes
    <2>2. CASE b # writer[w].cur
      <3>1. writer[w].cur < writer[w].hi /\ writer[w].cur + 1 <= b
        BY SMTT(60), <1>1, <2>2 DEF Blocks
      <3>2. /\ writer'[w].at = "end" /\ writer'[w].cur = writer[w].cur + 1
            /\ writer'[w].hi = writer[w].hi
        BY <1>1, <2>1, <3>1, AdvanceStep
      <3> QED
        BY <1>1, <3>1, <3>2 DEF Behind
    <2> QED
      BY <2>1, <2>2
  <1>4. /\ ~(AcquireBlock(w) \/ CheckBlock(w) \/ CopyBlock(w) \/ WriteData(w))
        /\ writer[w] # Idle
    BY SMTT(60) DEF AcquireBlock, CheckBlock, CopyBlock, WriteData, Idle
  <1> QED
    BY <1>2, <1>3, <1>4, WriterMoves DEF WriterStep, StartWrite

\* Nobody copies over a block that was written: until its bit is set the writer
\* holds it.
LEMMA WrittenStep ==
    ASSUME CowTypes, Positions, Locks, WrittenKept, Next, CowTypes' PROVE WrittenKept'
  <1> SUFFICES ASSUME NEW c \in Children, NEW b \in Blocks, last'[c][b] # "nobody"
               PROVE  /\ Unspoiled(c, b)' => child'[c][b].head = last'[c][b]
                      /\ \/ b \in copied'[c]
                         \/ \E w \in Writers : /\ ChildOf[w] = c
                                               /\ writer'[w].at = "end"
                                               /\ b \in Behind(w)'
    BY DEF WrittenKept
  <1> DEFINE Owned == \E w \in Writers : ChildOf[w] = c /\ writer[w].at = "end" /\ b \in Behind(w)
  <1>1. last'[c][b] = last[c][b] => /\ Unspoiled(c, b) => child[c][b].head = last[c][b]
                                    /\ b \in copied[c] \/ Owned
    BY DEF WrittenKept
  <1>2. last'[c][b] = last[c][b] =>
           \/ b \in copied'[c]
           \/ \E w \in Writers : ChildOf[w] = c /\ writer'[w].at = "end" /\ b \in Behind(w)'
    BY <1>1, MarkStep, EndKeeps
  <1>3. CASE child'[c][b] = child[c][b] /\ last'[c][b] = last[c][b]
    BY <1>1, <1>2, <1>3, SpoiledStep DEF Unspoiled
  <1>4. \A w \in Writers : ChildOf[w] = c /\ b \in Behind(w) \ copied[c] => WriterHolds(w, b)
    BY DEF WriterHolds
  <1>5. ASSUME NEW v \in Writers, CopyBlock(v), ChildOf[v] = c, writer[v].cur = b,
               last'[c][b] = last[c][b]
        PROVE  FALSE
    <2>1. writer[v].at = "copy" /\ b \notin copied[c] /\ WriterHolds(v, b)
      BY <1>5 DEF CopyBlock, Positions, WriterHolds
    <2>2. PICK w \in Writers : ChildOf[w] = c /\ writer[w].at = "end" /\ b \in Behind(w)
      BY <1>1, <1>5, <2>1
    <2>3. v = w
      BY <1>4, <1>5, <2>1, <2>2 DEF Locks
    <2> QED
      BY <2>1, <2>2, <2>3
  <1>6. ASSUME NEW v \in Writers, WriteData(v), ChildOf[v] = c, last'[c][b] = v,
               writer[v].lo <= b, b <= writer[v].hi,
               child'[c][b] = Overwritten(v, c, b)
        PROVE  child'[c][b].head = v /\ writer'[v].at = "end" /\ b \in Behind(v)'
    <2>1. writer[v] \in Writing /\ writer[v].at = "write" /\ writer[v].cur = writer[v].lo
      BY <1>6, WriterFields DEF WriteData, Positions, Active
    <2>2. /\ writer'[v].at = "end" /\ writer'[v].cur = writer[v].cur
          /\ writer'[v].hi = writer[v].hi
      BY <1>6, <2>1 DEF WriteData, CowTypes, Writing
    <2>3. child[c][b] \in [head: Contents, rest: Contents]
      BY SMTT(60) DEF CowTypes
    <2>4. child'[c][b].head = v
      BY SMTT(60), <1>6, <2>3 DEF Overwritten, Whole
    <2> QED
      BY <1>6, <2>1, <2>2, <2>4 DEF Behind
  <1>7. ASSUME ThreadCopy, thread.child = c, Head(copies).blk = b, b \notin copied[c],
               last'[c][b] = last[c][b]
        PROVE  FALSE
    <2>1. PICK w \in Writers : ChildOf[w] = c /\ writer[w].at = "end" /\ b \in Behind(w)
      BY <1>1, <1>7
    <2>2. amap[c][b] = {"COPYING"}
      BY SMTT(60), <1>4, <1>7, <2>1 DEF Locks
    <2>3. amap[c][b] = {"COPYING_EXCL"}
      BY <1>7 DEF Locks, ThreadHolds, ThreadCopy
    <2> QED
      BY <2>2, <2>3
  <1> QED
    BY SMTT(60), <1>3, <1>5, <1>6, <1>7, ChildStep

-----------------------------------------------------------------------------
(* The snapshot of the barrier's block.                                    *)

\* A block that a child has or that is kept for it stays so.
LEMMA SavedStep ==
    ASSUME CowTypes, Positions, Served, Next, NEW c \in Children, NEW b \in Blocks,
           Saved(c, b), Unspoiled(c, b)
    PROVE  Saved(c, b)'
  <1>1. CASE b \in copied[c]
    BY <1>1, MarkStep DEF Saved
  <1>2. CASE b \notin copied[c]
    <2>1. PICK p \in Range(copies) : p.blk = b /\ c \in p.targets
      BY <1>2 DEF Saved, CopiesFor
    <2>2. p \in Range(copies')
      BY <1>2, <2>1, CopiesStep
    <2> QED
      BY <2>1, <2>2 DEF Saved, CopiesFor
  <1> QED
    BY <1>1, <1>2

\* A page copy that is new is the one that the parent's writer has made.
LEMMA NewCopy ==
    ASSUME CowTypes, Positions, Next, NEW p \in Range(copies') \ Range(copies)
    PROVE  /\ WriteParBlocks
           /\ p = [blk |-> parWriter.blk, targets |-> TargetChildren(parWriter.blk),
                   data |-> par[parWriter.blk]]
  <1> DEFINE b == parWriter.blk
             x == [blk |-> b, targets |-> TargetChildren(b), data |-> par[b]]
  <1>1. copies \in Seq(PageCopy)
    BY DEF CowTypes
  <1>2. ~ThreadFree
    <2> SUFFICES ASSUME ThreadFree PROVE FALSE
      OBVIOUS
    <2>1. copies # << >> /\ copies' = Tail(copies)
      BY DEF ThreadFree, Positions
    <2> QED
      BY <1>1, <2>1, CopiesTail
  <1>3. WriteParBlocks
    BY <1>2, Frames
  <1>4. b \in Blocks /\ par[b] \in {"orig", "par"} /\ TargetChildren(b) \subseteq Children
    BY <1>3, ParFields DEF WriteParBlocks, TargetChildren, CowTypes
  <1>5. x \in PageCopy
    BY <1>4 DEF PageCopy
  <1>6. Range(Append(copies, x)) = Range(copies) \cup {x}
    BY SMTT(60), <1>1, <1>5, CopiesAppended
  <1> QED
    BY <1>3, <1>6 DEF WriteParBlocks

\* The saved contents that the thread has for a child.
LEMMA HeadForChild ==
    ASSUME CowTypes, Positions, thread.at = "copy"
    PROVE  Head(copies) \in CopiesFor(thread.child, Head(copies).blk)
  BY HeadFields DEF Positions, CopiesFor

\* What is clean stays clean.
LEMMA CleanStep ==
    ASSUME CowTypes, Positions, SnapshotSafe, Next, NEW c \in Children, Unspoiled(c, B0), Clean(c)
    PROVE  Clean(c)'
  <1>1. B0 \in Blocks
    BY SMTT(60), CowAssumption DEF B0, BarrierBlock, Blocks
  <1>2. \A x : x # "par" => "par" \notin {Whole(x).head, Whole(x).rest}
    BY DEF Whole
  <1>3. ASSUME NEW x, x # "par", child'[c][B0] = Whole(x) PROVE Clean(c)'
    BY <1>2, <1>3 DEF Clean, B0
  <1>4. CASE child'[c][B0] = child[c][B0]
    BY <1>4 DEF Clean, B0
  <1>5. ASSUME NEW v \in Writers, CopyBlock(v), ChildOf[v] = c, writer[v].cur = B0,
               \/ writer[v].from = {} /\ child'[c][B0] = Whole(par[B0])
               \/ \E p \in writer[v].from : child'[c][B0] = Whole(p.data)
        PROVE  Clean(c)'
    <2>1. /\ writer[v].from = {} => par[B0] # "par"
          /\ \A p \in writer[v].from : p.data # "par"
      BY <1>5 DEF SnapshotSafe, CopyBlock
    <2> QED
      BY <1>3, <1>5, <2>1
  <1>6. ASSUME NEW v \in Writers,
               child'[c][B0] = Overwritten(v, c, B0)
        PROVE  Clean(c)'
    <2>1. v # "par" /\ child[c][B0] \in [head: Contents, rest: Contents]
      BY SMTT(60), <1>1, CowAssumption DEF CowTypes
    <2>2. CASE child'[c][B0] = Whole(v)
      BY <1>3, <2>1, <2>2
    <2>3. CASE child'[c][B0] = [child[c][B0] EXCEPT !.head = v]
      <3>1. child'[c][B0].head = v /\ child'[c][B0].rest = child[c][B0].rest
        BY <2>1, <2>3
      <3> QED
        BY <2>1, <3>1 DEF Clean, B0
    <2> QED
      BY <1>6, <2>2, <2>3 DEF Overwritten
  <1>7. ASSUME ThreadCopy, thread.child = c, Head(copies).blk = B0,
               child'[c][B0] = Whole(Head(copies).data)
        PROVE  Clean(c)'
    <2>1. Head(copies) \in CopiesFor(c, B0)
      BY <1>7, HeadForChild DEF ThreadCopy
    <2>2. Head(copies).data # "par"
      BY <2>1 DEF SnapshotSafe
    <2> QED
      BY <1>3, <1>7, <2>2
  <1>8. ASSUME NEW b \in Blocks
        PROVE  \/ child'[c][b] = child[c][b]
               \/ \E v \in Writers :
                     /\ CopyBlock(v) /\ ChildOf[v] = c /\ writer[v].cur = b
                     /\ \/ writer[v].from = {} /\ child'[c][b] = Whole(par[b])
                        \/ \E p \in writer[v].from : child'[c][b] = Whole(p.data)
               \/ \E v \in Writers : child'[c][b] = Overwritten(v, c, b)
               \/ /\ ThreadCopy /\ thread.child = c /\ Head(copies).blk = b
                  /\ child'[c][b] = Whole(Head(copies).data)
    BY <1>8, ChildStep, SMTT(60)
  <1>9. \/ child'[c][B0] = child[c][B0]
        \/ \E v \in Writers :
              /\ CopyBlock(v) /\ ChildOf[v] = c /\ writer[v].cur = B0
              /\ \/ writer[v].from = {} /\ child'[c][B0] = Whole(par[B0])
                 \/ \E p \in writer[v].from : child'[c][B0] = Whole(p.data)
        \/ \E v \in Writers : child'[c][B0] = Overwritten(v, c, B0)
        \/ /\ ThreadCopy /\ thread.child = c /\ Head(copies).blk = B0
           /\ child'[c][B0] = Whole(Head(copies).data)
    BY <1>1, <1>8, Zenon
  <1> QED
    BY <1>4, <1>5, <1>6, <1>7, <1>9, Zenon

\* A block gets behind a writer when the writer has found it copied, leaves it to
\* be overwritten whole, or has copied it.
LEMMA BehindStep ==
    ASSUME CowTypes, Positions, Next, CowTypes', NEW w \in Writers, NEW b \in Behind(w)'
    PROVE  /\ writer'[w].full = writer[w].full
           /\ \/ /\ b \in Behind(w)
                 /\ writer'[w].at = "end" => writer[w].at = "end" \/ WriteData(w)
              \/ /\ CheckBlock(w) /\ b = writer[w].cur /\ writer'[w].at # "end"
                 /\ b \in copied[ChildOf[w]] \/ b \in writer[w].full
              \/ /\ CopyBlock(w) /\ b = writer[w].cur /\ writer'[w].at # "end"
  <1>1. b \in Blocks
    BY DEF Behind
  <1>2. writer[w].at \in {"get", "check", "copy", "write", "end"} =>
           /\ Active(w) /\ writer[w] \in Writing
           /\ writer[w].cur \in Blocks /\ writer[w].lo \in Blocks /\ writer[w].hi \in Blocks
           /\ writer[w].lo <= writer[w].cur /\ writer[w].cur <= writer[w].hi
    BY WriterFields DEF Positions, Active
  <1>3. CASE writer'[w] = writer[w]
    BY <1>3 DEF Behind
  <1>4. ASSUME NEW lo \in Blocks, NEW hi \in Blocks, NEW headFull \in BOOLEAN,
               NEW tailFull \in BOOLEAN, StartWrite(w, lo, hi, headFull, tailFull)
        PROVE  FALSE
    <2>1. writer'[w].at = "get" /\ writer'[w].cur = lo /\ writer'[w].lo = lo
      BY <1>4 DEF StartWrite, CowTypes
    <2> QED
      BY SMTT(60), <2>1 DEF Behind, Blocks
  <1>5. CASE AcquireBlock(w)
    <2>1. /\ writer'[w].at = "check" /\ writer[w].at = "get" /\ writer'[w].full = writer[w].full
          /\ writer'[w].cur = writer[w].cur /\ writer'[w].lo = writer[w].lo
      BY <1>2, <1>5 DEF AcquireBlock, CowTypes, Writing
    <2> QED
      BY <2>1 DEF Behind
  <1>6. CASE Advance(w, "get", "write") /\ writer[w].at \in {"check", "copy"}
    <2>1. /\ writer'[w].full = writer[w].full /\ writer'[w].at # "end"
          /\ writer[w].lo <= b /\ b <= writer[w].cur
      <3>1. CASE writer[w].cur < writer[w].hi
        <4>1. /\ writer'[w].at = "get" /\ writer'[w].cur = writer[w].cur + 1
              /\ writer'[w].lo = writer[w].lo /\ writer'[w].full = writer[w].full
          BY <1>2, <1>6, <3>1, AdvanceStep
        <4> QED
          BY SMTT(60), <1>1, <1>2, <1>6, <4>1 DEF Behind, Blocks
      <3>2. CASE ~(writer[w].cur < writer[w].hi)
        <4>1. /\ writer'[w].at = "write" /\ writer'[w].cur = writer[w].lo
              /\ writer'[w].hi = writer[w].hi /\ writer'[w].full = writer[w].full
          BY <1>2, <1>6, <3>2, AdvanceStep
        <4> QED
          BY SMTT(60), <1>1, <1>2, <1>6, <3>2, <4>1 DEF Behind, Blocks
      <3> QED
        BY <3>1, <3>2
    <2>2. b # writer[w].cur => b \in Behind(w)
      BY SMTT(60), <1>1, <1>2, <1>6, <2>1 DEF Behind, Blocks
    <2>3. CheckBlock(w) => writer[w].cur \in copied[ChildOf[w]] \/ writer[w].cur \in writer[w].full
      <3>1. writer'[w].at # "copy"
        BY <1>2, <1>6, AdvanceStep
      <3> QED
        BY SMTT(60), <1>2, <3>1 DEF CheckBlock, CowTypes, Writing
    <2>4. CheckBlock(w) \/ CopyBlock(w) \/ ~WriterStep(w)
      BY <1>6 DEF WriterStep, AcquireBlock, WriteData, EndBlock
    <2>5. writer'[w] # writer[w]
      BY <1>2, <1>6, AdvanceStep
    <2> QED
      BY <1>4, <2>1, <2>2, <2>3, <2>4, <2>5, WriterMoves
  <1>7. CASE CheckBlock(w) /\ ~Advance(w, "get", "write")
    <2>1. /\ writer'[w].at = "copy" /\ writer[w].at = "check" /\ writer'[w].full = writer[w].full
          /\ writer'[w].cur = writer[w].cur /\ writer'[w].lo = writer[w].lo
      BY SMTT(60), <1>2, <1>7 DEF CheckBlock, CowTypes, Writing
    <2> QED
      BY <2>1 DEF Behind
  <1>8. CASE WriteData(w)
    <2>1. /\ writer'[w].at = "end" /\ writer[w].at = "write" /\ writer'[w].full = writer[w].full
          /\ writer'[w].cur = writer[w].cur /\ writer'[w].hi = writer[w].hi
      BY <1>2, <1>8 DEF WriteData, CowTypes, Writing
    <2> QED
      BY <1>8, <2>1 DEF Behind
  <1>9. CASE EndBlock(w)
    <2>1. writer[w].at = "end" /\ Active(w) /\ Advance(w, "end", "done")
      BY <1>2, <1>9 DEF EndBlock
    <2>2. CASE writer[w].cur < writer[w].hi
      <3>1. /\ writer'[w].at = "end" /\ writer'[w].cur = writer[w].cur + 1
            /\ writer'[w].hi = writer[w].hi /\ writer'[w].full = writer[w].full
        BY <2>1, <2>2, AdvanceStep
      <3> QED
        BY SMTT(60), <1>1, <1>2, <2>1, <3>1 DEF Behind, Blocks
    <2>3. CASE ~(writer[w].cur < writer[w].hi)
      <3>1. writer'[w].at = "done"
        BY SMTT(60), <2>1, <2>3, AdvanceStep
      <3> QED
        BY <3>1 DEF Behind
    <2> QED
      BY <2>2, <2>3
  <1> QED
    BY <1>3, <1>4, <1>5, <1>6, <1>7, <1>8, <1>9, WriterMoves DEF WriterStep, CheckBlock, CopyBlock

\* A child that the block was saved for still has its snapshot, or can find it.
LEMMA KeptStep ==
    ASSUME CowTypes, Positions, Served, SnapshotSafe, Next, NEW c \in Children, Unspoiled(c, B0)'
    PROVE  (/\ B0 \in copied[c] => Clean(c)
            /\ \A p \in CopiesFor(c, B0) : p.data # "par"
            /\ par[B0] = "par" => Saved(c, B0))'
  <1>1. B0 \in Blocks
    BY SMTT(60), CowAssumption DEF B0, BarrierBlock, Blocks
  <1>2. Unspoiled(c, B0)
    BY SpoiledStep DEF Unspoiled, B0
  <1>3. /\ B0 \in copied[c] => Clean(c)
        /\ \A p \in CopiesFor(c, B0) : p.data # "par"
        /\ par[B0] = "par" => Saved(c, B0)
    BY <1>2 DEF SnapshotSafe
  <1>4. ASSUME B0 \in copied'[c] PROVE Clean(c)'
    <2>1. CASE Clean(c)
      BY <1>2, <2>1, CleanStep
    <2>2. ASSUME NEW v \in Writers, EndBlock(v), ChildOf[v] = c, writer[v].cur = B0,
                 B0 \notin copied[c]
          PROVE  Clean(c)
      <3>1. writer[v].at = "end" /\ Active(v) /\ writer[v].hi \in Blocks /\ B0 <= writer[v].hi
        BY <2>2, WriterFields DEF EndBlock, Positions
      <3>2. B0 \in Behind(v) \ copied[ChildOf[v]]
        BY SMTT(60), <1>1, <2>2, <3>1 DEF Behind, Blocks
      <3> QED
        BY <1>2, <2>2, <3>1, <3>2 DEF SnapshotSafe
    <2>3. ASSUME ThreadCopy, thread.child = c, Head(copies).blk = B0, B0 \notin copied[c]
          PROVE  Clean(c)'
      <3>1. Head(copies) \in CopiesFor(c, B0)
        BY <2>3, HeadForChild DEF ThreadCopy
      <3>2. Head(copies).data # "par"
        BY <1>3, <3>1
      <3>3. child' = [child EXCEPT ![c][B0] = Whole(Head(copies).data)]
        BY <1>4, <2>3 DEF ThreadCopy
      <3>4. child'[c][B0] = Whole(Head(copies).data)
        BY <1>1, <3>3 DEF CowTypes
      <3> QED
        BY SMTT(60), <3>2, <3>4 DEF Clean, Whole, B0
    <2> QED
      BY SMTT(60), <1>3, <1>4, <2>1, <2>2, <2>3, MarkStep
  <1>5. ASSUME NEW p \in CopiesFor(c, B0)' PROVE p.data # "par"
    <2>1. p \in Range(copies') /\ p.blk = B0 /\ c \in p.targets
      BY DEF CopiesFor, B0
    <2>2. CASE p \in Range(copies)
      BY <1>3, <2>1, <2>2 DEF CopiesFor
    <2>3. CASE p \notin Range(copies)
      <3>1. p.blk = parWriter.blk /\ p.targets = TargetChildren(parWriter.blk)
            /\ p.data = par[parWriter.blk]
        BY SMTT(60), <2>1, <2>3, NewCopy
      <3>2. c \in TargetChildren(B0) /\ p.data = par[B0]
        BY <2>1, <3>1
      <3> QED
        BY <1>3, <3>2 DEF TargetChildren, Saved
    <2> QED
      BY <2>2, <2>3
  <1>6. ASSUME par'[B0] = "par" PROVE Saved(c, B0)'
    <2>1. CASE par[B0] = "par"
      BY <1>1, <1>2, <1>3, <2>1, SavedStep DEF B0, Saved, CopiesFor
    <2>2. CASE par[B0] # "par"
      <3>1. WriteParData
        BY <1>6, <2>2, Frames
      <3>2. parWriter.at = "write" /\ parWriter.blk = B0
        BY SMTT(60), <1>6, <2>2, <3>1 DEF WriteParData, CowTypes
      <3>3. Saved(c, B0)
        BY <1>2, <3>2 DEF SnapshotSafe
      <3> QED
        BY <1>1, <1>2, <3>3, SavedStep DEF B0, Saved, CopiesFor
    <2> QED
      BY <2>1, <2>2
  <1> QED
    BY <1>4, <1>5, <1>6 DEF B0

\* When the parent's block is about to be overwritten every child has it or has a
\* page copy of it.
LEMMA ParStep ==
    ASSUME CowTypes, Positions, Served, SnapshotSafe, Next, parWriter'.at = "write",
           NEW c \in Children, Unspoiled(c, parWriter.blk)'
    PROVE  Saved(c, parWriter.blk)'
  <1> DEFINE b == parWriter.blk
  <1>1. CASE UNCHANGED parWriter
    <2>1. b \in Blocks /\ Unspoiled(c, b) /\ Saved(c, b)
      BY <1>1, SpoiledStep, ParFields DEF SnapshotSafe, Unspoiled
    <2>2. \A k \in Blocks : Saved(c, k) /\ Unspoiled(c, k) =>
             k \in copied'[c] \/ \E p \in Range(copies') : p.blk = k /\ c \in p.targets
      BY SavedStep DEF Saved, CopiesFor
    <2> QED
      BY <1>1, <2>1, <2>2 DEF Saved, CopiesFor
  <1>2. CASE WriteParBlocks
    <2> DEFINE x == [blk |-> b, targets |-> TargetChildren(b), data |-> par[b]]
    <2>1. /\ b \in Blocks /\ parWriter'.blk = b /\ UNCHANGED copied
          /\ par[b] \in {"orig", "par"} /\ TargetChildren(b) \subseteq Children
      BY <1>2, ParFields DEF WriteParBlocks, ParWriting, TargetChildren, CowTypes
    <2>2. x \in PageCopy
      BY <2>1 DEF PageCopy
    <2>3. Range(Append(copies, x)) = Range(copies) \cup {x} /\ copies \in Seq(PageCopy)
      BY SMTT(60), <2>2, CopiesAppended DEF CowTypes
    <2>4. CASE c \in TargetChildren(b)
      <3>1. x \in Range(copies')
        BY <1>2, <2>3, <2>4 DEF WriteParBlocks
      <3> QED
        BY SMTT(60), <2>1, <2>4, <3>1 DEF Saved, CopiesFor
    <2>5. CASE b \in copied[c]
      BY <2>1, <2>5 DEF Saved
    <2>6. ASSUME NEW p \in CopiesFor(c, b) PROVE p \in Range(copies')
      BY <1>2, <2>3, <2>6 DEF WriteParBlocks, CopiesFor
    <2>7. CASE CopiesFor(c, b) # {}
      BY <2>1, <2>6, <2>7 DEF Saved, CopiesFor
    <2> QED
      BY <2>4, <2>5, <2>7 DEF TargetChildren
  <1>3. ASSUME NEW k \in Blocks, StartParWrite(k) PROVE FALSE
    BY <1>3 DEF StartParWrite
  <1>4. ASSUME NEW d \in Children, ReadBarrierBegin(d) PROVE FALSE
    BY <1>4, ParFields DEF ReadBarrierBegin, ParWriting
  <1>5. ~ParWriteFails
    BY SMTT(60) DEF ParWriteFails
  <1>6. ~WriteParData
    BY ParFields DEF WriteParData, ParWriting
  <1>7. ~ReadBarrierEnd
    BY SMTT(60), ParFields DEF ReadBarrierEnd, ParWriting, Idle
  <1> QED
    BY <1>1, <1>2, <1>3, <1>4, <1>5, <1>6, <1>7, Frames DEF ParWriterStep

\* A writer that has the block behind it left nothing of the parent's write in it,
\* and one that is about to copy it will not.
LEMMA WriterCleanStep ==
    ASSUME CowTypes, Positions, Locks, Served, SnapshotSafe, Next, CowTypes',
           NEW w \in Writers, Unspoiled(ChildOf[w], B0)'
    PROVE  (/\ B0 \in Behind(w) \ copied[ChildOf[w]]
                  /\ (writer[w].at = "end" \/ B0 \notin writer[w].full) => Clean(ChildOf[w])
            /\ writer[w].at = "copy" /\ writer[w].cur = B0 =>
                  /\ writer[w].from = {} => par[B0] # "par"
                  /\ \A p \in writer[w].from : p.data # "par")'
  <1> DEFINE c == ChildOf[w]
  <1>1. B0 \in Blocks /\ c \in Children
    BY SMTT(60), CowAssumption, WriterFields DEF B0, BarrierBlock, Blocks
  <1>2. Unspoiled(c, B0)
    BY SpoiledStep DEF Unspoiled, B0
  <1>3. /\ B0 \in Behind(w) \ copied[c] /\ (writer[w].at = "end" \/ B0 \notin writer[w].full) => Clean(c)
        /\ writer[w].at = "copy" /\ writer[w].cur = B0 =>
              /\ writer[w].from = {} => par[B0] # "par"
              /\ \A p \in writer[w].from : p.data # "par"
    BY <1>2 DEF SnapshotSafe
  <1>4. ASSUME B0 \in Behind(w)', B0 \notin copied'[c], writer'[w].at = "end" \/ B0 \notin writer'[w].full
        PROVE  Clean(c)'
    <2>1. B0 \notin copied[c]
      BY <1>1, <1>4, MarkStep
    <2>2. Clean(c) => Clean(c)'
      BY <1>1, <1>2, CleanStep
    <2>3. CASE WriteData(w)
      <3>1. /\ writer[w].at = "write" /\ writer[w].cur = writer[w].lo
            /\ writer[w].lo \in Blocks /\ writer[w].hi \in Blocks
        BY <2>3, WriterFields DEF WriteData, Positions
      <3>2. B0 \in Behind(w)
        BY <1>4, <2>3, BehindStep DEF CheckBlock, CopyBlock, WriteData
      <3>3. CASE B0 \notin writer[w].full
        BY <1>3, <2>1, <2>2, <3>2, <3>3
      <3>4. CASE B0 \in writer[w].full
        <4>1. writer[w].lo <= B0 /\ B0 <= writer[w].hi
          BY <3>1, <3>2 DEF Behind
        <4>2. child'[c][B0] = Whole(w)
          <5> DEFINE new(k) == Overwritten(w, c, k)
          <5>1. PICK n \in writer[w].lo..(writer[w].hi + 1) :
                   LET done == writer[w].lo..(n - 1)
                   IN  /\ child' = [child EXCEPT ![c] =
                                       [k \in Blocks |-> IF k \in done THEN new(k) ELSE child[c][k]]]
                       /\ spoiled' = spoiled \cup {<<c, k>> : k \in (writer[w].full \ done) \ copied[c]}
            BY <2>3 DEF WriteData, Spoil, Overwritten
          <5>2. B0 \in writer[w].lo..(n - 1)
            BY <2>1, <3>4, <5>1 DEF Unspoiled, B0
          <5>3. new(B0) = Whole(w)
            BY <3>4 DEF Overwritten
          <5> HIDE DEF new
          <5> QED
            BY <1>1, <5>1, <5>2, <5>3 DEF CowTypes
        <4> QED
          BY SMTT(60), <4>2, CowAssumption DEF Clean, Whole, B0
      <3> QED
        BY <3>3, <3>4
    <2>4. CASE CopyBlock(w) /\ B0 = writer[w].cur
      <3>1. writer[w].at = "copy" /\ (writer[w].from = {} => par[B0] # "par")
            /\ \A p \in writer[w].from : p.data # "par"
        BY <1>3, <2>4 DEF CopyBlock
      <3>2. ASSUME NEW x, x # "par", child' = [child EXCEPT ![c][B0] = Whole(x)] PROVE Clean(c)'
        <4>1. child'[c][B0] = Whole(x)
          BY <1>1, <3>2 DEF CowTypes
        <4> QED
          BY SMTT(60), <3>2, <4>1 DEF Clean, Whole, B0
      <3>3. ~Spoil({<<c, B0>>})
        BY DEF Spoil, Unspoiled, B0
      <3> QED
        BY <2>4, <3>1, <3>2, <3>3 DEF CopyBlock
    <2>5. CASE /\ ~WriteData(w) /\ B0 \in Behind(w) /\ writer'[w].full = writer[w].full
               /\ writer'[w].at = "end" => writer[w].at = "end"
      BY <1>3, <1>4, <2>1, <2>2, <2>5
    <2> QED
      BY <1>4, <2>1, <2>3, <2>4, <2>5, BehindStep
  <1>5. ASSUME writer'[w].at = "copy", writer'[w].cur = B0
        PROVE  /\ writer'[w].from = {} => par'[B0] # "par"
               /\ \A p \in writer'[w].from : p.data # "par"
    <2>1. CASE writer'[w] = writer[w]
      <3>1. WriterHolds(w, B0)
        BY <1>5, <2>1 DEF WriterHolds
      <3>2. amap[c][B0] = {"COPYING"}
        BY <1>1, <3>1 DEF Locks
      <3>3. ~WriteParData
        <4> SUFFICES ASSUME WriteParData PROVE FALSE
          OBVIOUS
        <4>1. BarrierHolds(c, B0)
          BY DEF WriteParData, BarrierHolds, Positions, B0, BarrierBlock
        <4>2. amap[c][B0] = {"COPYING_EXCL"}
          BY <1>1, <4>1 DEF Locks
        <4> QED
          BY <3>2, <4>2
      <3>4. UNCHANGED par
        BY <3>3, Frames
      <3> QED
        BY <1>3, <1>5, <2>1, <3>4
    <2>2. CASE /\ writer'[w].cur = writer[w].cur
               /\ writer'[w].from = CopiesFor(ChildOf[w], writer[w].cur)
               /\ writer[w].cur \notin copied[ChildOf[w]] /\ UNCHANGED <<copies, par, copied>>
      BY <1>1, <1>2, <1>5, <2>2 DEF SnapshotSafe, Saved
    <2> QED
      BY <1>5, <2>1, <2>2, ToCopy
  <1> QED
    BY <1>4, <1>5 DEF B0

\* Every step keeps the snapshot of the barrier's block.
LEMMA SnapshotStep ==
    ASSUME CowTypes, Positions, Locks, Served, SnapshotSafe, Next, CowTypes'
    PROVE  SnapshotSafe'
  <1>1. \A c \in Children : Unspoiled(c, B0)' =>
           (/\ B0 \in copied[c] => Clean(c)
            /\ \A p \in CopiesFor(c, B0) : p.data # "par"
            /\ par[B0] = "par" => Saved(c, B0))'
    BY KeptStep
  <1>2. parWriter'.at = "write" =>
           \A c \in Children : Unspoiled(c, parWriter.blk)' => Saved(c, parWriter.blk)'
    BY ParStep
  <1>3. \A w \in Writers : Unspoiled(ChildOf[w], B0)' =>
           (/\ B0 \in Behind(w) \ copied[ChildOf[w]]
                  /\ (writer[w].at = "end" \/ B0 \notin writer[w].full) => Clean(ChildOf[w])
            /\ writer[w].at = "copy" /\ writer[w].cur = B0 =>
                  /\ writer[w].from = {} => par[B0] # "par"
                  /\ \A p \in writer[w].from : p.data # "par")'
    BY WriterCleanStep
  <1> QED
    BY <1>1, <1>2, <1>3 DEF SnapshotSafe

-----------------------------------------------------------------------------
(* The theorems.                                                           *)

\* The first state: nothing is copied, nobody holds a block.
LEMMA InitInv ==
    ASSUME Init PROVE CowInv
  <1> USE CowAssumption
  <1>1. CowTypes
    <2>1. << >> \in Seq(PageCopy)
      BY SMTT(60)
    <2>2. Whole("hole") \in [head: Contents, rest: Contents]
      BY DEF Whole, Contents
    <2> QED
      BY SMTT(60), <2>1, <2>2 DEF Init, CowTypes
  <1>2. \A w \in Writers : writer[w] = Idle /\ writer[w].at = "idle" /\ Behind(w) = {}
    BY DEF Init, Idle, Behind
  <1>3. Positions
    BY <1>1, <1>2, WriterFields DEF Positions, Init, Idle
  <1>4. Locks
    BY <1>2 DEF Locks, Init, Idle, WriterHolds, BarrierHolds, ThreadHolds
  <1>5. Served /\ FoundCopyAlive
    BY <1>2 DEF Served, FoundCopyAlive, Init, Idle
  <1>6. PendingExact
    <2>1. Cardinality({}) = 0
      BY FS_EmptySet
    <2> QED
      BY SMTT(60), <2>1 DEF PendingExact, Init
  <1>7. WrittenKept
    BY DEF WrittenKept, Init
  <1>8. SnapshotSafe
    <2>1. B0 \in Blocks
      BY SMTT(60) DEF B0, BarrierBlock, Blocks
    <2>2. \A c \in Children : CopiesFor(c, B0) = {} /\ B0 \notin copied[c]
      BY SMTT(60) DEF CopiesFor, Range, Init
    <2> QED
      BY <1>2, <2>1, <2>2 DEF SnapshotSafe, Init, Idle
  <1> QED
    BY <1>1, <1>3, <1>4, <1>5, <1>6, <1>7, <1>8 DEF CowInv

\* The inductive invariant holds in every state that the child writers, the
\* parent's writer and the page copy thread reach.
THEOREM CowInvariant == Spec => []CowInv
  <1>1. Init => CowInv
    BY InitInv
  <1>2. CowInv /\ [Next]_vars => CowInv'
    <2>1. ASSUME CowInv, Next PROVE CowInv'
      <3>1. CowTypes /\ Positions /\ Locks /\ Served /\ PendingExact /\ FoundCopyAlive
            /\ WrittenKept /\ SnapshotSafe
        BY <2>1 DEF CowInv
      <3>2. CowTypes'
        BY <2>1, <3>1, TypesStep
      <3>3. Positions' /\ Locks' /\ Served'
        BY <2>1, <3>1, <3>2, PositionsStep, LocksStep, ServedStep
      <3>4. PendingExact' /\ FoundCopyAlive'
        BY <2>1, <3>1, PendingStep, FoundStep
      <3>5. WrittenKept' /\ SnapshotSafe'
        BY <2>1, <3>1, <3>2, WrittenStep, SnapshotStep
      <3> QED
        BY <3>2, <3>3, <3>4, <3>5 DEF CowInv
    <2>2. ASSUME CowInv, UNCHANGED vars PROVE CowInv'
      <3>1. CowTypes' /\ PendingExact'
        BY <2>2 DEF CowInv, vars, CowTypes, PendingExact
      <3>2. Positions' /\ Served'
        BY <2>2 DEF CowInv, vars, Positions, Served, Active, Unspoiled
      <3>3. Locks'
        BY SMTT(60), <2>2 DEF CowInv, vars, Locks, Behind, WriterHolds, BarrierHolds, ThreadHolds
      <3>4. FoundCopyAlive' /\ WrittenKept'
        BY <2>2 DEF CowInv, vars, FoundCopyAlive, WrittenKept, Unspoiled, Behind
      <3>5. SnapshotSafe'
        BY <2>2 DEF CowInv, vars, SnapshotSafe, Clean, Saved, CopiesFor, Unspoiled, Behind
      <3> QED
        BY <3>1, <3>2, <3>3, <3>4, <3>5 DEF CowInv
    <2> QED
      BY <2>1, <2>2
  <1> QED
    BY <1>1, <1>2, PTL DEF Spec

\* The variables have their types: no count of blocks to copy goes below zero, and
\* the active map holds nothing but the two kinds of copiers.
THEOREM CowTypeOKHolds == Spec => []CowTypeOK
  <1>1. CowInv => CowTypeOK
    <2> SUFFICES ASSUME CowInv PROVE CowTypeOK
      OBVIOUS
    <2>1. CowTypes /\ PendingExact
      BY DEF CowInv
    <2>2. pending \in [Children -> 0..NumBlocks]
      <3>1. \A c \in Children : pending[c] \in 0..NumBlocks
        <4> TAKE c \in Children
        <4>1. Cardinality(copied[c]) \in 0..NumBlocks /\ NumBlocks \in Nat
          BY <2>1, CopiedFinite, CowAssumption
        <4> QED
          BY SMTT(60), <2>1, <4>1 DEF PendingExact
      <3> QED
        BY <2>1, <3>1 DEF CowTypes
    <2>3. Range(copies) \subseteq PageCopy
      BY <2>1, CopiesTyped DEF CowTypes
    <2> QED
      BY <2>1, <2>2, <2>3 DEF CowTypes, CowTypeOK, PageCopy
  <1> QED
    BY <1>1, CowInvariant, PTL

\* i_pending_copy_pages is the number of blocks still to copy, for any number of
\* writers and children: each block is counted off once, whoever copies it.
THEOREM PendingExactHolds == Spec => []PendingExact
  <1>1. CowInv => PendingExact
    BY DEF CowInv
  <1> QED
    BY <1>1, CowInvariant, PTL

\* No page copy is freed under a writer that found it.
THEOREM FoundCopyAliveHolds == Spec => []FoundCopyAlive
  <1>1. CowInv => FoundCopyAlive
    BY DEF CowInv
  <1> QED
    BY <1>1, CowInvariant, PTL

\* What a child's writer wrote is replaced neither by a page copy nor by another
\* writer's copy of the old block.
THEOREM ChildWriteKeptHolds == Spec => []ChildWriteKept
  <1>1. CowInv => ChildWriteKept
    BY DEF CowInv, CowTypes, WrittenKept, ChildWriteKept, Unspoiled
  <1> QED
    BY <1>1, CowInvariant, PTL

\* What the parent's writer writes to the block of the barrier never gets into
\* what is kept for a child whose copy of the old block did not fail.
THEOREM SnapshotKeptHolds == Spec => []SnapshotKept
  <1>1. CowInv => SnapshotKept
    <2> SUFFICES ASSUME CowInv, NEW c \in Children, <<c, B0>> \notin spoiled
                 PROVE  FromSnapshot(c, B0)
      BY DEF SnapshotKept, BarrierBlock, B0
    <2>1. /\ B0 \in copied[c] => Clean(c)
          /\ \A p \in CopiesFor(c, B0) : p.data # "par"
          /\ par[B0] = "par" => Saved(c, B0)
      BY DEF CowInv, SnapshotSafe, Unspoiled
    <2>2. \A x : x # "par" => "par" \notin {Whole(x).head, Whole(x).rest}
      BY DEF Whole
    <2>3. CASE B0 \in copied[c]
      BY <2>1, <2>3 DEF FromSnapshot, KeptFor, Clean
    <2>4. CASE B0 \notin copied[c] /\ CopiesFor(c, B0) # {}
      <3>1. KeptFor(c, B0) = Whole((CHOOSE p \in CopiesFor(c, B0) : TRUE).data)
        BY <2>4 DEF KeptFor
      <3>2. (CHOOSE p \in CopiesFor(c, B0) : TRUE) \in CopiesFor(c, B0)
        BY <2>4
      <3> QED
        BY <2>1, <2>2, <3>1, <3>2 DEF FromSnapshot
    <2>5. CASE B0 \notin copied[c] /\ CopiesFor(c, B0) = {}
      BY <2>1, <2>2, <2>5 DEF FromSnapshot, KeptFor, Saved
    <2> QED
      BY <2>3, <2>4, <2>5
  <1> QED
    BY <1>1, CowInvariant, PTL
=============================================================================
