------------------------------ MODULE HtreeDir ------------------------------
(***************************************************************************)
(* A hashed directory: entries packed in blocks, an index of blocks keyed  *)
(* by the hash of the names, and a reader that walks it in hash order      *)
(* across calls while names come and go between them (a call holds the     *)
(* directory's lock, the scan does not).                                   *)
(*                                                                         *)
(* Names hash to a pair (major, minor); majors are even, and the lowest    *)
(* bit of an index key says that the block continues the hash of the one   *)
(* before it.  Lengths are in units of a directory record.  Blocks are     *)
(* numbered from 1; block 1 is the first of the directory and the root of  *)
(* its index.  A free record has the name DxFree.                          *)
(***************************************************************************)
EXTENDS Integers, Sequences, FiniteSets, SequencesExt, FiniteSetsExt

CONSTANTS DxNames,     \* names that may be created
          DxHash,      \* name -> <<major, minor>>
          DxLen,       \* name -> length of its record
          DxBlock,     \* length of a block
          DotLen,      \* length of the records of . and ..
          DxLimit,     \* entries of an index block
          DxLevels,    \* ext4_dir_htree_level
          DxStarts,    \* the names a directory has at the start, in the order added
          DxChanges,   \* bound on names added and removed then
          DxFree       \* the name of a free record

VARIABLES hdir,        \* [index, levels, blk]: blk[b] = [de, dx]
          names,       \* the names added and not removed
          reader,      \* an open directory stream
          changes

dxVars == <<hdir, names, reader, changes>>

Dots == "dots"
Need(n) == IF n = Dots THEN DotLen ELSE IF n = DxFree THEN 0 ELSE DxLen[n]
Major(n) == DxHash[n][1]
Leaf(de) == [de |-> de, dx |-> <<>>]
Node(dx) == [de |-> <<>>, dx |-> dx]
Used(de) == SelectSeq(de, LAMBDA r : r.n # DxFree)
Empty == <<[n |-> DxFree, len |-> DxBlock]>>

-----------------------------------------------------------------------------
(* Records of a block. *)

(* The last record takes what is left of the block. *)
Stretch(de) ==
  IF de = <<>> THEN Empty
  ELSE LET before == FoldLeft(LAMBDA a, r : a + r.len, 0, Front(de))
       IN  Front(de) \o <<[Last(de) EXCEPT !.len = DxBlock - before]>>

Packed(de) == Stretch([k \in 1..Len(de) |-> [de[k] EXCEPT !.len = Need(de[k].n)]])

(* The first record with room for the name, or 0. *)
find_dest_de(de, n) ==
  SelectInSeq(de, LAMBDA r : r.len - Need(r.n) >= Need(n))

insert_dentry(de, k, n) ==
  IF de[k].n = DxFree THEN ReplaceAt(de, k, [n |-> n, len |-> de[k].len])
  ELSE LET keep == Need(de[k].n)
       IN  InsertAt(ReplaceAt(de, k, [de[k] EXCEPT !.len = keep]), k + 1,
                    [n |-> n, len |-> de[k].len - keep])

(* A record is given to the one before it; the first is marked free. *)
generic_delete_entry(de, k) ==
  IF k = 1 THEN ReplaceAt(de, 1, [de[1] EXCEPT !.n = DxFree])
  ELSE RemoveAt(ReplaceAt(de, k - 1, [de[k - 1] EXCEPT !.len = @ + de[k].len]), k)

-----------------------------------------------------------------------------
(* The index.  A path is the block and the position in it, root first. *)

At(dx, hash) == Max({1} \cup {k \in 2..Len(dx) : dx[k].h <= hash})

dx_probe(d, hash) ==
  LET fr[l \in 1..(d.levels + 1)] ==
        LET b == IF l = 1 THEN 1 ELSE d.blk[fr[l - 1].b].dx[fr[l - 1].at].b
        IN  [b |-> b, at |-> At(d.blk[b].dx, hash)]
  IN  fr

Entry(d, fr, l) == d.blk[fr[l].b].dx[fr[l].at]
LeafOf(d, fr) == Entry(d, fr, Len(fr)).b
HASH_NB_ALWAYS == 1

(* The path of the next leaf and the key it starts with; an empty path     *)
(* when there is none or a search for hash need not go on.                 *)
htree_next_block(d, fr, hash) ==
  LET more == {l \in DOMAIN fr : fr[l].at < Len(d.blk[fr[l].b].dx)}
      p == Max(more)
      key == d.blk[fr[p].b].dx[fr[p].at + 1].h
      next[l \in DOMAIN fr] ==
        IF l < p THEN fr[l]
        ELSE IF l = p THEN [fr[l] EXCEPT !.at = @ + 1]
        ELSE [b |-> d.blk[next[l - 1].b].dx[next[l - 1].at].b, at |-> 1]
  IN  IF more = {} THEN [path |-> <<>>, key |-> -1]
      ELSE IF hash # HASH_NB_ALWAYS /\ key - (key % 2) # hash
           THEN [path |-> <<>>, key |-> key]
      ELSE [path |-> [l \in DOMAIN fr |-> next[l]], key |-> key]

Has(de, n) == \E k \in 1..Len(de) : de[k].n = n

RECURSIVE dx_search(_, _, _)
dx_search(d, fr, n) ==
  IF fr = <<>> THEN 0
  ELSE IF Has(d.blk[LeafOf(d, fr)].de, n) THEN LeafOf(d, fr)
  ELSE dx_search(d, htree_next_block(d, fr, Major(n)).path, n)

(* The block the name is in, or 0. *)
dx_find_entry(d, n) ==
  IF ~d.index THEN (IF Has(d.blk[1].de, n) THEN 1 ELSE 0)
  ELSE dx_search(d, dx_probe(d, Major(n)), n)

-----------------------------------------------------------------------------
(* Adding a name. *)

dx_insert_block_keeps_bit(d, b, at, h, new) ==
  [d EXCEPT !.blk[b].dx = InsertAt(@, at + 1, [h |-> h - (h % 2), b |-> new])]

dx_insert_block(d, b, at, h, new) ==
  [d EXCEPT !.blk[b].dx = InsertAt(@, at + 1, [h |-> h, b |-> new])]

(* The records of a block in the order of their hashes. *)
Map(de) == SortSeq(Used(de), LAMBDA r, s : Major(r.n) < Major(s.n))

(* From the top, records up to half a block; by count if all would move. *)
SplitPoint(map) ==
  LET top(i) == FoldLeft(LAMBDA a, r : a + r.len, 0, SubSeq(map, i + 1, Len(map)))
      stop == {i \in 1..Len(map) : top(i) + map[i].len \div 2 > DxBlock \div 2}
  IN  IF stop = {} THEN Len(map) \div 2 ELSE Max(stop)

(* The leaf at the end of the path divided; the name goes to one half,     *)
(* after the last record there.                                            *)
do_split(d, fr, n) ==
  LET leaf == LeafOf(d, fr)
      map == Map(d.blk[leaf].de)
      split == SplitPoint(map)
      hash2 == Major(map[split + 1].n)
      continued == IF split > 0 /\ Major(map[split].n) = hash2 THEN 1 ELSE 0
      stays == SelectSeq(Used(d.blk[leaf].de),
                 LAMBDA r : \E k \in 1..split : map[k].n = r.n)
      new == Len(d.blk) + 1
      d1 == [d EXCEPT !.blk = Append([@ EXCEPT ![leaf] = Leaf(Packed(stays))],
                                     Leaf(Packed(SubSeq(map, split + 1, Len(map)))))]
      d2 == dx_insert_block(d1, fr[Len(fr)].b, fr[Len(fr)].at, hash2 + continued, new)
      dest == IF Major(n) >= hash2 THEN new ELSE leaf
  IN  [d2 EXCEPT !.blk[dest].de = insert_dentry(@, Len(@), n)]

(* The first block becomes the root, its records the first leaf. *)
make_indexed_dir(d, n) ==
  LET leaf == Stretch(Tail(d.blk[1].de))
  IN  do_split([index |-> TRUE, levels |-> 0,
                blk |-> <<Node(<<[h |-> 0, b |-> 2]>>), Leaf(leaf)>>],
               <<[b |-> 1, at |-> 1]>>, n)

Full(d, b) == Len(d.blk[b].dx) = DxLimit

(* The lowest full index block with room above it is halved. *)
SplitIndex(d, fr, l) ==
  LET b == fr[l].b
      dx == d.blk[b].dx
      half == Len(dx) \div 2
      new == Len(d.blk) + 1
      d1 == [d EXCEPT !.blk = Append([@ EXCEPT ![b].dx = SubSeq(dx, 1, half)],
                                     Node(SubSeq(dx, half + 1, Len(dx))))]
  IN  dx_insert_block(d1, fr[l - 1].b, fr[l - 1].at, dx[half + 1].h, new)

(* The root's entries move to a new block below it. *)
AddLevel(d) ==
  LET new == Len(d.blk) + 1
  IN  [d EXCEPT !.levels = @ + 1,
                !.blk = Append([@ EXCEPT ![1].dx = <<[h |-> 0, b |-> new]>>],
                               Node(d.blk[1].dx))]

(* The directory with the name added; unchanged when the index is full.    *)
(* Splitting the index in more than one place starts over.                 *)
RECURSIVE dx_add_entry(_, _)
dx_add_entry(d, n) ==
  LET fr == dx_probe(d, Major(n))
      leaf == LeafOf(d, fr)
      room == find_dest_de(d.blk[leaf].de, n)
      low == Len(fr)
      open == {l \in 1..low : ~Full(d, fr[l].b)}
      above == {l \in 2..low : l - 1 \in open /\ \A k \in l..low : k \notin open}
  IN  IF room # 0 THEN [d EXCEPT !.blk[leaf].de = insert_dentry(@, room, n)]
      ELSE IF low \in open THEN do_split(d, fr, n)
      ELSE IF above # {} THEN dx_add_entry(SplitIndex(d, fr, Max(above)), n)
      ELSE IF low = DxLevels THEN d
      ELSE dx_add_entry(AddLevel(d), n)

add_entry(d, n) ==
  IF d.index THEN dx_add_entry(d, n)
  ELSE LET k == find_dest_de(d.blk[1].de, n)
       IN  IF k # 0 THEN [d EXCEPT !.blk[1].de = insert_dentry(@, k, n)]
           ELSE make_indexed_dir(d, n)

delete_entry(d, n) ==
  LET b == dx_find_entry(d, n)
      k == SelectInSeq(d.blk[b].de, LAMBDA r : r.n = n)
  IN  [d EXCEPT !.blk[b].de = generic_delete_entry(@, k)]

-----------------------------------------------------------------------------
(* Reading. *)

AtOrAfter(n, h, m) == Major(n) > h \/ (Major(n) = h /\ DxHash[n][2] >= m)

htree_dirblock_to_tree(de, h, m) ==
  {n \in DxNames : Has(de, n) /\ AtOrAfter(n, h, m)}

EOF_HASH == -1

(* The names found from (h, m) on, whole runs of one hash at a time, and   *)
(* the hash to go on from.  The records of . and .. count when they are    *)
(* below the starting point.                                               *)
RECURSIVE fill_from(_, _, _, _, _)
fill_from(d, fr, h, m, found) ==
  LET now == found \cup htree_dirblock_to_tree(d.blk[LeafOf(d, fr)].de, h, m)
      next == htree_next_block(d, fr, HASH_NB_ALWAYS)
  IN  IF next.path = <<>> \/ ((now # {} \/ h <= 2) /\ next.key % 2 = 0)
      THEN [names |-> now, next |-> next.key]
      ELSE fill_from(d, next.path, h, m, now)

htree_fill_tree(d, h, m) ==
  IF ~d.index THEN [names |-> htree_dirblock_to_tree(d.blk[1].de, h, m), next |-> EOF_HASH]
  ELSE fill_from(d, dx_probe(d, h), h, m, {})

Before(n, k) == Major(n) < Major(k) \/ (Major(n) = Major(k) /\ DxHash[n][2] < DxHash[k][2])

Closed == [open |-> FALSE, h |-> 0, m |-> 0, tree |-> <<>>, extra |-> FALSE, next |-> 0,
           stale |-> FALSE, got |-> {}, twice |-> {}, must |-> {}, gone |-> {}, eof |-> FALSE]

Emitted(r, n) ==
  [r EXCEPT !.got = @ \cup {n}, !.twice = IF n \in r.got THEN @ \cup {n} ELSE @,
            !.tree = Tail(@)]

(* readdir, the rest of a call: k more names fit the caller's buffer.      *)
(* extra says that the buffer filled up within a node of the tree, which   *)
(* is then finished whether or not the directory has changed since.        *)
RECURSIVE dx_readdir(_, _, _)
dx_readdir(r, d, k) ==
  IF r.extra
  THEN IF k = 0 THEN r
       ELSE LET n == Head(r.tree)
                r1 == Emitted(r, n)
                same == r1.tree # <<>> /\ ~Before(n, Head(r1.tree))
            IN  dx_readdir(
                  IF same THEN r1
                  ELSE IF r1.tree # <<>>
                  THEN [r1 EXCEPT !.extra = FALSE, !.h = Major(Head(r1.tree)),
                                  !.m = DxHash[Head(r1.tree)][2]]
                  ELSE [r1 EXCEPT !.extra = FALSE, !.h = r.next, !.m = 0,
                                  !.eof = (r.next = EOF_HASH)],
                  d, k - 1)
  ELSE IF r.eof THEN r
  ELSE IF r.tree # <<>> /\ ~r.stale THEN dx_readdir([r EXCEPT !.extra = TRUE], d, k)
  ELSE LET filled(f) == [r EXCEPT !.stale = FALSE, !.next = f.next,
                                  !.tree = SetToSortSeq(f.names, Before)]
           goOn(r1) == IF r1.tree # <<>> THEN dx_readdir([r1 EXCEPT !.extra = TRUE], d, k)
                       ELSE IF r1.next = EOF_HASH THEN [r1 EXCEPT !.eof = TRUE]
                       ELSE dx_readdir([r1 EXCEPT !.h = r1.next, !.m = 0], d, k)
       IN  goOn(filled(htree_fill_tree(d, r.h, r.m)))

-----------------------------------------------------------------------------
(* A rename within the directory: the entry of the old name is looked up,  *)
(* the new name is added, which may split the block and move the entry,    *)
(* and what is then at the place looked up is removed if it is still that  *)
(* entry; if not the old name is looked up again.                          *)
OffsetOf(de, k) == FoldLeft(LAMBDA a, r : a + r.len, 0, SubSeq(de, 1, k - 1))
RecordAt(de, off) == LET at == {k \in 1..Len(de) : OffsetOf(de, k) = off}
                     IN  IF at = {} THEN 0 ELSE Max(at)

rename_delete(d, b, off, o) ==
  LET k == RecordAt(d.blk[b].de, off)
  IN  IF k # 0 /\ d.blk[b].de[k].n = o
      THEN [d EXCEPT !.blk[b].de = generic_delete_entry(@, k)]
      ELSE delete_entry(d, o)

NewDir == [index |-> FALSE, levels |-> 0, blk |-> <<Leaf(<<[n |-> Dots, len |-> DxBlock]>>)>>]

DxInit ==
  /\ \E s \in DxStarts : hdir = FoldLeft(add_entry, NewDir, s) /\ names = ToSet(s)
  /\ reader = Closed
  /\ changes = 0

Change == changes < DxChanges /\ changes' = changes + 1

MarkStale(r) == IF r.open THEN [r EXCEPT !.stale = TRUE] ELSE r

DxAdd(n) ==
  /\ Change
  /\ n \notin names
  /\ LET d == add_entry(hdir, n)
     IN  /\ d # hdir
         /\ hdir' = d
         /\ names' = names \cup {n}
         /\ reader' = MarkStale(reader)

DxDelete(n) ==
  /\ Change
  /\ dx_find_entry(hdir, n) # 0
  /\ hdir' = delete_entry(hdir, n)
  /\ names' = names \ {n}
  /\ reader' = LET r == MarkStale(reader)
               IN  IF r.open THEN [r EXCEPT !.must = @ \ {n}, !.gone = @ \cup {n}] ELSE r

(* Explored with no stream open: to a stream it is an addition and a       *)
(* removal.                                                                *)
DxRename(o, n) ==
  /\ Change /\ ~reader.open
  /\ o \in names /\ n \notin names
  /\ LET b == dx_find_entry(hdir, o)
         off == OffsetOf(hdir.blk[b].de, SelectInSeq(hdir.blk[b].de, LAMBDA r : r.n = o))
         d == add_entry(hdir, n)
     IN  d # hdir /\ hdir' = rename_delete(d, b, off, o)
  /\ names' = (names \cup {n}) \ {o}
  /\ UNCHANGED reader

OpenDir ==
  /\ ~reader.open
  /\ reader' = [Closed EXCEPT !.open = TRUE, !.must = names]
  /\ UNCHANGED <<hdir, names, changes>>

ReadDir(k) ==
  /\ reader.open /\ ~reader.eof
  /\ reader' = dx_readdir(reader, hdir, k)
  /\ UNCHANGED <<hdir, names, changes>>

DxNext ==
  \/ \E n \in DxNames : DxAdd(n) \/ DxDelete(n) \/ \E o \in DxNames : DxRename(o, n)
  \/ OpenDir
  \/ \E k \in 1..2 : ReadDir(k)

DxSpec == DxInit /\ [][DxNext]_dxVars

-----------------------------------------------------------------------------
(* After any sequence of splits, of leaves and of index blocks, and of     *)
(* deletions that leave holes: the search by hash finds exactly the names  *)
(* that were added and not removed, hashes that collide and continue in    *)
(* the next block included.                                                *)
LookupFinds == \A n \in DxNames : (dx_find_entry(hdir, n) # 0) = (n \in names)

(* do_split hands the record at the end of a half to the insertion without *)
(* looking for room: still, in every block the records add up to the block *)
(* and each is as long as its name needs.                                  *)
RecordsFit ==
  \A b \in 1..Len(hdir.blk) :
    LET de == hdir.blk[b].de
    IN  de # <<>> => /\ FoldLeft(LAMBDA a, r : a + r.len, 0, de) = DxBlock
                     /\ \A k \in 1..Len(de) : de[k].len >= Need(de[k].n) /\ de[k].len > 0

(* A directory stream, read in pieces while others add and remove names    *)
(* and blocks split behind and ahead of it, returns no name twice unless   *)
(* it was removed meanwhile, and at its end has returned every name that   *)
(* was there all the time.                                                 *)
ReadOnce == /\ reader.twice \subseteq reader.gone
            /\ reader.eof => reader.must \subseteq reader.got

\* A lookup finds exactly the names that are there, through splits, collisions
\* and continued hashes, and a reader of the directory meets each name once.
DirectoryExact == LookupFinds /\ RecordsFit /\ ReadOnce
=============================================================================
