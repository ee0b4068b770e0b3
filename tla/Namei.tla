------------------------------- MODULE Namei --------------------------------
(***************************************************************************)
(* The operations on names: create, mkdir, link, unlink, rmdir, rename     *)
(* with replacement, whiteout or exchange, and the link counts, ".."       *)
(* entries and orphan records they must keep in step, adding an entry      *)
(* failing half-way included.  The VFS holds the locks of the directories  *)
(* and inodes involved, so an operation is one step; the VFS also keeps a  *)
(* directory from being moved below itself.                                *)
(***************************************************************************)
EXTENDS Integers, FiniteSets, FiniteSetsExt

CONSTANTS NmInodes,    \* inode numbers; 1 is the root
          NmNames,     \* file names
          LINK_MAX,    \* EXT4_LINK_MAX
          DirNlink,    \* the dir_nlink feature
          NmOps        \* bound on operations

VARIABLES ino,         \* inode -> [type, nlink, up, dx]; up is ".."
          ents,        \* <<directory, name>> -> inode, where there is one
          orph,        \* inodes recorded as orphans
          nmops

nmVars == <<ino, ents, orph, nmops>>

Root == 1
FreeInode == [type |-> "free", nlink |-> 0, up |-> 0, dx |-> FALSE]
IsDir(i) == ino[i].type = "dir"
Dirs == {d \in NmInodes : IsDir(d) /\ ino[d].nlink > 0}
Free(d, n) == <<d, n>> \notin DOMAIN ents
Unused == {i \in NmInodes : ino[i].type = "free"}

With(e, d, n, i) == [k \in DOMAIN e \cup {<<d, n>>} |-> IF k = <<d, n>> THEN i ELSE e[k]]
Less(e, d, n) == [k \in DOMAIN e \ {<<d, n>>} |-> e[k]]

NmStep == nmops < NmOps /\ nmops' = nmops + 1

-----------------------------------------------------------------------------
(* Link counts.  A directory with too many subdirectories has the count 1  *)
(* for good.                                                               *)

inc_count(t, i) ==
  LET n == t[i].nlink + 1
  IN  [t EXCEPT ![i].nlink = IF t[i].dx /\ (n > LINK_MAX \/ n = 2) THEN 1 ELSE n]

dec_count(t, i) ==
  IF t[i].type # "dir" \/ t[i].nlink > 2 THEN [t EXCEPT ![i].nlink = @ - 1] ELSE t

DIR_LINK_MAX(d) == ino[d].nlink >= LINK_MAX /\ ~(DirNlink /\ ino[d].dx)

empty_dir(i) == \A n \in NmNames : Free(i, n)

-----------------------------------------------------------------------------
(* Create and mknod; without room for the entry the new inode is an orphan. *)
add_nondir(d, n, i, room) ==
  IF room
  THEN /\ ents' = With(ents, d, n, i)
       /\ ino' = [ino EXCEPT ![i] = [FreeInode EXCEPT !.type = "file", !.nlink = 1]]
       /\ UNCHANGED orph
  ELSE /\ ino' = [ino EXCEPT ![i] = [FreeInode EXCEPT !.type = "file"]]
       /\ orph' = orph \cup {i}
       /\ UNCHANGED ents

nm_create(d, n, room) ==
  /\ NmStep /\ d \in Dirs /\ Free(d, n) /\ Unused # {}
  /\ add_nondir(d, n, Min(Unused), room)

(* dx: whether the directory will be indexed when it grows. *)
mkdir(d, n, room, dx) ==
  /\ NmStep /\ d \in Dirs /\ Free(d, n) /\ Unused # {} /\ ~DIR_LINK_MAX(d)
  /\ LET i == Min(Unused)
         new == [ino EXCEPT ![i] = [type |-> "dir", nlink |-> IF room THEN 2 ELSE 0, up |-> d, dx |-> dx]]
     IN  IF room THEN /\ ino' = inc_count(new, d)
                      /\ ents' = With(ents, d, n, i)
                      /\ UNCHANGED orph
         ELSE ino' = new /\ orph' = orph \cup {i} /\ UNCHANGED ents

(* Without room for the entry the count is taken back. *)
nm_link(i, d, n) ==
  /\ NmStep /\ d \in Dirs /\ Free(d, n)
  /\ ino[i].type = "file" /\ ino[i].nlink \in 1..(LINK_MAX - 1)
  /\ ino' = inc_count(ino, i)
  /\ ents' = With(ents, d, n, i)
  /\ UNCHANGED orph

nm_unlink(d, n) ==
  /\ NmStep /\ d \in Dirs /\ ~Free(d, n) /\ ~IsDir(ents[d, n])
  /\ LET i == ents[d, n]
         t == [ino EXCEPT ![i].nlink = @ - 1]
     IN  /\ ino' = t
         /\ ents' = Less(ents, d, n)
         /\ orph' = IF t[i].nlink = 0 THEN orph \cup {i} ELSE orph

rmdir(d, n) ==
  /\ NmStep /\ d \in Dirs /\ ~Free(d, n) /\ IsDir(ents[d, n])
  /\ LET i == ents[d, n]
     IN  /\ empty_dir(i)
         /\ ino' = dec_count([ino EXCEPT ![i].nlink = 0], d)
         /\ ents' = Less(ents, d, n)
         /\ orph' = orph \cup {i}

(* The last reference to an inode without a name goes. *)
nm_evict(i) ==
  /\ ino[i].type # "free" /\ ino[i].nlink = 0
  /\ ino' = [ino EXCEPT ![i] = FreeInode]
  /\ orph' = orph \ {i}
  /\ UNCHANGED <<ents, nmops>>

-----------------------------------------------------------------------------
(* Rename. *)

Ancestors(d) ==
  LET up[k \in 0..Cardinality(NmInodes)] ==
        IF k = 0 THEN d ELSE IF up[k - 1] = Root THEN Root ELSE ino[up[k - 1]].up
  IN  {up[k] : k \in 0..Cardinality(NmInodes)}

(* What the VFS lets through. *)
MayMove(d, n, e) ==
  /\ d \in Dirs /\ e \in Dirs /\ ~Free(d, n)
  /\ IsDir(ents[d, n]) => ents[d, n] \notin Ancestors(e)

(* What a replaced inode loses: its name; a directory all its links. *)
Replaced(t, j) ==
  IF t[j].type = "dir" THEN [t EXCEPT ![j].nlink = 0] ELSE dec_count(t, j)

rename_dir_finish(t, i, e) == [t EXCEPT ![i].up = e]

(* The entries after a failed rename: the whiteout w is taken out of d/n.  *)
resetent(d, n, w) == LET e == With(ents, d, n, w) IN With(e, d, n, ents[d, n])

(* d/n becomes e/m.  With a whiteout d/n is left naming a new inode, which *)
(* is an orphan when the rename fails after that.                          *)
nm_rename(d, n, e, m, whiteout, room) ==
  /\ NmStep /\ MayMove(d, n, e) /\ <<d, n>> # <<e, m>>
  /\ LET i == ents[d, n]
         j == IF Free(e, m) THEN 0 ELSE ents[e, m]
         w == Min(Unused)
         new == [FreeInode EXCEPT !.type = "file", !.nlink = 1]
         fails == \/ IsDir(i) /\ j # 0 /\ ~empty_dir(j)
                  \/ IsDir(i) /\ j = 0 /\ d # e /\ DIR_LINK_MAX(e)
                  \/ j = 0 /\ ~room
         e1 == With(ents, e, m, i)
         t1 == IF j = 0 THEN ino ELSE Replaced(ino, j)
         t2 == IF ~IsDir(i) THEN t1
               ELSE IF j # 0 THEN dec_count(t1, d)
               ELSE inc_count(dec_count(t1, d), e)
         t3 == IF IsDir(i) /\ d # e THEN rename_dir_finish(t2, i, e) ELSE t2
     IN  /\ i # j /\ j \notin Ancestors(d)
         /\ j # 0 => IsDir(i) = IsDir(j)
         /\ whiteout => Unused # {}
         /\ IF ~fails
            THEN /\ ents' = IF whiteout THEN With(e1, d, n, w) ELSE Less(e1, d, n)
                 /\ ino' = IF whiteout THEN [t3 EXCEPT ![w] = new] ELSE t3
                 /\ orph' = IF j # 0 /\ t3[j].nlink = 0 THEN orph \cup {j} ELSE orph
            ELSE /\ ents' = IF whiteout THEN resetent(d, n, w) ELSE ents
                 /\ ino' = IF whiteout THEN [ino EXCEPT ![w] = [new EXCEPT !.nlink = 0]] ELSE ino
                 /\ orph' = IF whiteout THEN orph \cup {w} ELSE orph

update_dir_count_never(t, d, delta) == t
update_dir_count(t, d, delta) ==
  IF delta = 0 THEN t ELSE IF delta < 0 THEN dec_count(t, d) ELSE inc_count(t, d)

cross_rename(d, n, e, m) ==
  /\ NmStep /\ MayMove(d, n, e) /\ MayMove(e, m, d) /\ <<d, n>> # <<e, m>>
  /\ LET i == ents[d, n]
         j == ents[e, m]
         delta == IF d = e \/ IsDir(i) = IsDir(j) THEN 0 ELSE IF IsDir(i) THEN -1 ELSE 1
         t1 == IF IsDir(i) /\ d # e THEN rename_dir_finish(ino, i, e) ELSE ino
         t2 == IF IsDir(j) /\ d # e THEN rename_dir_finish(t1, j, d) ELSE t1
     IN  /\ i # j
         /\ ~(delta > 0 /\ DIR_LINK_MAX(d)) /\ ~(delta < 0 /\ DIR_LINK_MAX(e))
         /\ ents' = [ents EXCEPT ![d, n] = j, ![e, m] = i]
         /\ ino' = update_dir_count(update_dir_count(t2, d, delta), e, -delta)
  /\ UNCHANGED orph

-----------------------------------------------------------------------------
NmInit ==
  /\ \E dx \in BOOLEAN :
       ino = [i \in NmInodes |-> IF i = Root THEN [type |-> "dir", nlink |-> 2, up |-> Root, dx |-> dx]
                                 ELSE FreeInode]
  /\ ents = [k \in {} |-> 0]
  /\ orph = {}
  /\ nmops = 0

NmNext ==
  \/ \E d \in NmInodes, n \in NmNames :
       \/ \E room \in BOOLEAN : nm_create(d, n, room)
       \/ \E room, dx \in BOOLEAN : mkdir(d, n, room, dx)
       \/ \E i \in NmInodes : nm_link(i, d, n)
       \/ nm_unlink(d, n) \/ rmdir(d, n)
       \/ \E e \in NmInodes, m \in NmNames :
            \/ \E whiteout, room \in BOOLEAN : nm_rename(d, n, e, m, whiteout, room)
            \/ cross_rename(d, n, e, m)
  \/ \E i \in NmInodes : nm_evict(i)

NmSpec == NmInit /\ [][NmNext]_nmVars

-----------------------------------------------------------------------------
NamesOf(i) == {k \in DOMAIN ents : ents[k] = i}
Subdirs(d) == {n \in NmNames : ~Free(d, n) /\ IsDir(ents[d, n])}

(* Through renames between directories, exchanges of a directory with a    *)
(* file and counts at their limit: a file's link count is the number of    *)
(* its names, a directory's is two and one for every subdirectory, unless  *)
(* it once had too many and stays at 1.                                    *)
LinksCounted ==
  \A i \in NmInodes : ino[i].nlink > 0 =>
    IF IsDir(i) THEN ino[i].nlink = 1 \/ ino[i].nlink = 2 + Cardinality(Subdirs(i))
    ELSE ino[i].nlink = Cardinality(NamesOf(i))

(* The directories stay a tree: each but the root has one name, its ".."   *)
(* is the directory that name is in, and the root is above them all.       *)
DirsFormTree ==
  \A i \in Dirs \ {Root} :
    /\ \E n \in NmNames : NamesOf(i) = {<<ino[i].up, n>>}
    /\ Root \in Ancestors(i)

(* An operation that fails or replaces something forgets no inode: one     *)
(* without a name, and only such a one, is recorded as an orphan, and      *)
(* every name leads to an inode that is alive.                             *)
NoneForgotten ==
  /\ \A i \in NmInodes : (i \in orph) = (ino[i].type # "free" /\ NamesOf(i) = {} /\ i # Root)
  /\ \A k \in DOMAIN ents : ino[ents[k]].nlink > 0 /\ k[1] \in Dirs

\* Links are counted, directories form a tree, and no failed rename loses a
\* name.
LinksExact == LinksCounted /\ DirsFormTree /\ NoneForgotten
=============================================================================
