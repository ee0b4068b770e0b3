------------------------------- MODULE Orphan -------------------------------
(***************************************************************************)
(* Orphans: inodes that a crash must not leak.  An inode without a name    *)
(* that is still open, one whose truncation spans several transactions and *)
(* one being extended by a direct write are recorded on disk, in a slot of *)
(* the orphan file or, when that is full, in a list threaded from the      *)
(* superblock through the inodes; the next mount deletes or truncates what *)
(* it finds there.                                                         *)
(*                                                                         *)
(* md is the metadata in the journal's running transaction, com what the   *)
(* last commit wrote; a commit waits for the handles that are open.  The   *)
(* slots of the orphan file are claimed without a lock, so its search and  *)
(* its compare-and-swap are steps of their own.                            *)
(***************************************************************************)
EXTENDS Integers, Sequences, FiniteSets, SequencesExt

CONSTANTS OrInodes,   \* inode numbers, 1..n
          OrBlocks,   \* blocks of the orphan file, where there is one
          PerBlock,   \* inodes_per_ob
          OrSize,     \* largest file, in blocks
          MaxLoops,   \* rounds of a block before the list is used: 3
          OrCalls,    \* bound on operations started
          OrCrashes   \* bound on crashes

VARIABLES md, com,    \* [last, ino, slot]: running and committed metadata
          orlist,     \* s_orphan: the inodes listed in memory
          where,      \* i_orphan_idx + 1 of inodes in the orphan file, or 0
          obfree,     \* ob_free_entries of each block; empty without the feature
          orop,       \* what is under way on each inode
          oropen,     \* "open", "closed", or "linkable": open and made without a name
          mount,      \* "up", or the pass of orphan_cleanup
          orcalls, orcrash

orVars == <<md, com, orlist, where, obfree, orop, oropen, mount, orcalls, orcrash>>

OfSlots == 1..(OrBlocks * PerBlock)
BlockOf(s) == (s - 1) \div PerBlock + 1
SlotsIn(b) == {s \in OfSlots : BlockOf(s) = b}

Idle == [ph |-> "idle", then |-> "", to |-> 0, s |-> 0, loops |-> 0]

IsOpen(i) == oropen[i] # "closed"

(* A handle is open between these steps; the journal cannot commit. *)
InHandle(i) == orop[i].ph \in {"find", "scan", "swap", "listed", "zero", "count"}

Goto(i, ph) ==
  orop' = [orop EXCEPT ![i] = IF ph = "idle" THEN Idle ELSE [@ EXCEPT !.ph = ph]]

-----------------------------------------------------------------------------
(* orphan_add, in a handle: the inode's operation continues at "then".     *)

IsOrphan(i) == where[i] # 0 \/ i \in Range(orlist)

AddPhase(i) == IF IsOrphan(i) THEN "listed" ELSE "find"

(* A block with a free entry, its count taken down; or the list. *)
file_add_reserve(i) ==
  /\ orop[i].ph = "find"
  /\ \E b \in DOMAIN obfree :
       /\ obfree[b] > 0
       /\ obfree' = [obfree EXCEPT ![b] = @ - 1]
       /\ orop' = [orop EXCEPT ![i].ph = "scan", ![i].s = (b - 1) * PerBlock + 1]
  /\ UNCHANGED <<md, com, orlist, where, oropen, mount, orcalls, orcrash>>

(* The head of the list on disk, unless an earlier error left the inode on *)
(* it already.                                                             *)
Linked(m, i) ==
  IF m.ino[i].next # 0 THEN m
  ELSE [m EXCEPT !.ino[i].next = m.last, !.last = i]

list_add(i) ==
  /\ orop[i].ph = "find"
  /\ \A b \in DOMAIN obfree : obfree[b] = 0
  /\ md' = Linked(md, i)
  /\ orlist' = <<i>> \o orlist
  /\ Goto(i, "listed")
  /\ UNCHANGED <<com, where, obfree, oropen, mount, orcalls, orcrash>>

NextSlot(s) == IF s + 1 \in SlotsIn(BlockOf(s)) THEN s + 1
               ELSE (BlockOf(s) - 1) * PerBlock + 1

file_add_scan(i) ==
  /\ orop[i].ph = "scan"
  /\ IF md.slot[orop[i].s] = 0 THEN Goto(i, "swap")
     ELSE LET n == NextSlot(orop[i].s)
          IN  orop' = [orop EXCEPT ![i].s = n,
                          ![i].loops = IF n > orop[i].s \/ @ = MaxLoops + 1 THEN @ ELSE @ + 1]
  /\ UNCHANGED <<md, com, orlist, where, obfree, oropen, mount, orcalls, orcrash>>

(* Another adder was quicker: look on, or after four rounds use the list.  *)
file_add_swap(i) ==
  /\ orop[i].ph = "swap"
  /\ LET s == orop[i].s
         lost == md.slot[s] # 0
         giveup == lost /\ orop[i].loops > MaxLoops
     IN  /\ md' = IF ~lost THEN [md EXCEPT !.slot[s] = i]
                  ELSE IF giveup THEN Linked(md, i) ELSE md
         /\ where' = IF lost THEN where ELSE [where EXCEPT ![i] = s]
         /\ orlist' = IF giveup THEN <<i>> \o orlist ELSE orlist
         /\ obfree' = IF giveup THEN [obfree EXCEPT ![BlockOf(s)] = @ + 1] ELSE obfree
         /\ Goto(i, IF lost /\ ~giveup THEN "scan" ELSE "listed")
  /\ UNCHANGED <<com, oropen, mount, orcalls, orcrash>>

-----------------------------------------------------------------------------
(* orphan_del. *)

Unlinked(m, i) ==
  LET at == SelectInSeq(orlist, LAMBDA k : k = i)
      m1 == IF at = 1 THEN [m EXCEPT !.last = m.ino[i].next]
            ELSE [m EXCEPT !.ino[orlist[at - 1]].next = m.ino[i].next]
  IN  [m1 EXCEPT !.ino[i].next = 0]

Without(i) == SelectSeq(orlist, LAMBDA k : k # i)

(* With a handle, from the list: the caller's step includes it. *)
list_del(m, i) ==
  /\ orlist' = Without(i)
  /\ md' = IF i \in Range(orlist) THEN Unlinked(m, i) ELSE m

(* From the file: the entry is cleared first and counted free after.       *)
file_del(i) ==
  /\ orop[i].ph = "zero"
  /\ md' = [md EXCEPT !.slot[where[i]] = 0]
  /\ Goto(i, "count")
  /\ UNCHANGED <<com, orlist, where, obfree, oropen, mount, orcalls, orcrash>>

file_del_count(i) ==
  /\ orop[i].ph = "count"
  /\ obfree' = [obfree EXCEPT ![BlockOf(where[i])] = @ + 1]
  /\ where' = [where EXCEPT ![i] = 0]
  /\ Goto(i, orop[i].then)
  /\ UNCHANGED <<md, com, orlist, oropen, mount, orcalls, orcrash>>

(* The end of an operation that deletes its orphan record: m is the        *)
(* metadata it leaves, after the phase that follows.                       *)
EndWithDel(i, m, after) ==
  IF where[i] # 0
  THEN /\ md' = m
       /\ orop' = [orop EXCEPT ![i].ph = "zero", ![i].then = after]
       /\ UNCHANGED orlist
  ELSE /\ list_del(m, i)
       /\ Goto(i, after)

-----------------------------------------------------------------------------
(* The operations. *)

Start(i) ==
  /\ mount = "up" /\ orop[i].ph = "idle"
  /\ orcalls < OrCalls /\ orcalls' = orcalls + 1

StartAdd(i, then, to) ==
  orop' = [orop EXCEPT ![i] = [Idle EXCEPT !.ph = AddPhase(i), !.then = then, !.to = to]]

unlink_last(i) ==
  /\ Start(i)
  /\ md.ino[i].alloc /\ md.ino[i].nlink = 1
  /\ md' = [md EXCEPT !.ino[i].nlink = 0]
  /\ StartAdd(i, "idle", 0)
  /\ UNCHANGED <<com, orlist, where, obfree, oropen, mount, orcrash>>

tmpfile(i) ==
  /\ Start(i)
  /\ ~md.ino[i].alloc
  /\ md' = [md EXCEPT !.ino[i] = [alloc |-> TRUE, nlink |-> 0, next |-> 0, size |-> 0, blk |-> 0]]
  /\ oropen' = [oropen EXCEPT ![i] = "linkable"]
  /\ StartAdd(i, "idle", 0)
  /\ UNCHANGED <<com, orlist, where, obfree, mount, orcrash>>

(* A nameless file is given a name. *)
link(i) ==
  /\ Start(i)
  /\ md.ino[i].alloc /\ md.ino[i].nlink = 0 /\ oropen[i] = "linkable"
  /\ EndWithDel(i, [md EXCEPT !.ino[i].nlink = 1], "idle")
  /\ oropen' = [oropen EXCEPT ![i] = "open"]
  /\ UNCHANGED <<com, where, obfree, mount, orcrash>>

setattr_unlisted(i, size) ==
  /\ Start(i)
  /\ md.ino[i].alloc /\ IsOpen(i) /\ size < md.ino[i].size
  /\ orop' = [orop EXCEPT ![i] = [Idle EXCEPT !.ph = "listed", !.then = "shrink", !.to = size]]
  /\ UNCHANGED <<md, com, orlist, where, obfree, oropen, mount, orcrash>>

(* setattr, first handle: record the orphan, then the new size. *)
setattr(i, size) ==
  /\ Start(i)
  /\ md.ino[i].alloc /\ IsOpen(i) /\ size < md.ino[i].size
  /\ StartAdd(i, "shrink", size)
  /\ UNCHANGED <<md, com, orlist, where, obfree, oropen, mount, orcrash>>

(* Extending direct write, first handle. *)
dio_extend(i, size) ==
  /\ Start(i)
  /\ md.ino[i].alloc /\ IsOpen(i) /\ size > md.ino[i].size
  /\ StartAdd(i, "dio", size)
  /\ UNCHANGED <<md, com, orlist, where, obfree, oropen, mount, orcrash>>

close(i) ==
  /\ mount = "up" /\ IsOpen(i) /\ orop[i].ph = "idle"
  /\ oropen' = [oropen EXCEPT ![i] = "closed"]
  /\ UNCHANGED <<md, com, orlist, where, obfree, orop, mount, orcalls, orcrash>>

(* The last reference to a nameless inode goes: size 0, then truncate.     *)
evict(i) ==
  /\ mount = "up" /\ orop[i].ph = "idle" /\ ~IsOpen(i)
  /\ md.ino[i].alloc /\ md.ino[i].nlink = 0
  /\ md' = [md EXCEPT !.ino[i].size = 0]
  /\ StartAdd(i, "evict", 0)
  /\ UNCHANGED <<com, orlist, where, obfree, oropen, mount, orcalls, orcrash>>

(* What the handle does once the orphan is recorded, up to its end. *)
listed(i) ==
  /\ orop[i].ph = "listed"
  /\ md' = IF orop[i].then = "shrink" THEN [md EXCEPT !.ino[i].size = orop[i].to] ELSE md
  /\ Goto(i, CASE orop[i].then \in {"shrink", "evict"} -> "cut"
               [] OTHER -> orop[i].then)
  /\ UNCHANGED <<com, orlist, where, obfree, oropen, mount, orcalls, orcrash>>

(* truncate: block by block, each one may be in a transaction of its own.  *)
cut(i) ==
  /\ orop[i].ph = "cut"
  /\ md.ino[i].blk > md.ino[i].size
  /\ md' = [md EXCEPT !.ino[i].blk = @ - 1]
  /\ UNCHANGED <<com, orlist, where, obfree, orop, oropen, mount, orcalls, orcrash>>

cut_done(i) ==
  /\ orop[i].ph = "cut"
  /\ md.ino[i].blk <= md.ino[i].size
  /\ IF orop[i].then = "evict" THEN Goto(i, "gone") /\ UNCHANGED <<md, orlist>>
     ELSE IF md.ino[i].nlink > 0 THEN EndWithDel(i, md, "idle")
     ELSE Goto(i, "idle") /\ UNCHANGED <<md, orlist>>
  /\ UNCHANGED <<com, where, obfree, oropen, mount, orcalls, orcrash>>

(* evict, same handle as the end of the truncation: the record goes, and   *)
(* the inode with it.                                                      *)
Freed(i) == [alloc |-> FALSE, nlink |-> 0, next |-> 0, size |-> 0, blk |-> 0]

evict_del(i) ==
  /\ orop[i].ph = "gone"
  /\ IF where[i] # 0
     THEN /\ md' = [md EXCEPT !.slot[where[i]] = 0, !.ino[i] = Freed(i)]
          /\ orop' = [orop EXCEPT ![i].ph = "count", ![i].then = "idle"]
          /\ UNCHANGED orlist
     ELSE /\ orlist' = Without(i)
          /\ md' = [Unlinked(md, i) EXCEPT !.ino[i] = Freed(i)]
          /\ Goto(i, "idle")
  /\ UNCHANGED <<com, where, obfree, oropen, mount, orcalls, orcrash>>

dio_blocks(i) ==
  /\ orop[i].ph = "dio"
  /\ md' = [md EXCEPT !.ino[i].blk = orop[i].to]
  /\ Goto(i, "dio_end")
  /\ UNCHANGED <<com, orlist, where, obfree, oropen, mount, orcalls, orcrash>>

handle_inode_extension(i) ==
  /\ orop[i].ph = "dio_end"
  /\ LET m == [md EXCEPT !.ino[i].size = orop[i].to]
     IN  IF md.ino[i].nlink > 0 THEN EndWithDel(i, m, "idle")
         ELSE md' = m /\ Goto(i, "idle") /\ UNCHANGED orlist
  /\ UNCHANGED <<com, where, obfree, oropen, mount, orcalls, orcrash>>

(* The write failed: what it allocated is truncated away. *)
extension_cleanup(i) ==
  /\ orop[i].ph = "dio_end"
  /\ orop' = [orop EXCEPT ![i].ph = "cut", ![i].then = "idle"]
  /\ UNCHANGED <<md, com, orlist, where, obfree, oropen, mount, orcalls, orcrash>>

(* The direct write wrote nothing (the page cache could not be emptied)    *)
(* and is left to a buffered write: the record is taken back, if the inode *)
(* is on the list.                                                         *)
dio_falls_back(i) ==
  /\ orop[i].ph = "dio"
  /\ orop' = [orop EXCEPT ![i] = [Idle EXCEPT !.then = IF where[i] # 0 THEN "fell back" ELSE ""]]
  /\ IF i \in Range(orlist) /\ md.ino[i].nlink > 0 THEN list_del(md, i)
     ELSE UNCHANGED <<md, orlist>>
  /\ UNCHANGED <<com, where, obfree, oropen, mount, orcalls, orcrash>>

-----------------------------------------------------------------------------
(* The journal, crashes and the next mount. *)

commit ==
  /\ \A i \in OrInodes : ~InHandle(i)
  /\ com # md
  /\ com' = md
  /\ UNCHANGED <<md, orlist, where, obfree, orop, oropen, mount, orcalls, orcrash>>

ZeroesIn(m, b) == Cardinality({s \in SlotsIn(b) : m.slot[s] = 0})

crash ==
  /\ orcrash < OrCrashes /\ orcrash' = orcrash + 1
  /\ md' = com
  /\ orlist' = <<>>
  /\ where' = [i \in OrInodes |-> 0]
  /\ obfree' = [b \in DOMAIN obfree |-> ZeroesIn(com, b)]
  /\ orop' = [i \in OrInodes |-> Idle]
  /\ oropen' = [i \in OrInodes |-> "closed"]
  /\ mount' = "list"
  /\ UNCHANGED <<com, orcalls>>

(* process_orphan: truncate to the size recorded, or delete. *)
Processed(m, i) ==
  IF m.ino[i].nlink > 0
  THEN [m EXCEPT !.ino[i].blk = IF @ > m.ino[i].size THEN m.ino[i].size ELSE @,
                 !.ino[i].next = 0]
  ELSE [m EXCEPT !.ino[i] = Freed(i)]

(* One inode of the list; one that is not allocated ends the walk. *)
cleanup_list ==
  /\ mount = "list" /\ md.last # 0
  /\ LET i == md.last
     IN  md' = IF ~md.ino[i].alloc THEN [md EXCEPT !.last = 0]
               ELSE [Processed(md, i) EXCEPT !.last = md.ino[i].next]
  /\ UNCHANGED <<com, orlist, where, obfree, orop, oropen, mount, orcalls, orcrash>>

cleanup_list_ends ==
  /\ mount = "list" /\ md.last = 0
  /\ mount' = "file"
  /\ UNCHANGED <<md, com, orlist, where, obfree, orop, oropen, orcalls, orcrash>>

(* One entry of the orphan file. *)
cleanup_file ==
  /\ mount = "file"
  /\ LET todo == {s \in OfSlots : md.slot[s] # 0 /\ md.ino[md.slot[s]].alloc}
     IN  IF todo = {} THEN mount' = "up" /\ UNCHANGED <<md, obfree>>
         ELSE LET s == CHOOSE k \in todo : \A l \in todo : k <= l
              IN  /\ md' = [Processed(md, md.slot[s]) EXCEPT !.slot[s] = 0]
                  /\ obfree' = [obfree EXCEPT ![BlockOf(s)] = @ + 1]
                  /\ UNCHANGED mount
  /\ UNCHANGED <<com, orlist, where, orop, oropen, orcalls, orcrash>>

-----------------------------------------------------------------------------
FirstMd == [last |-> 0, slot |-> [s \in OfSlots |-> 0],
            ino |-> [i \in OrInodes |->
                       [alloc |-> TRUE, nlink |-> 1, next |-> 0, size |-> 1, blk |-> 1]]]

OrInit ==
  /\ md = FirstMd /\ com = FirstMd
  /\ orlist = <<>>
  /\ where = [i \in OrInodes |-> 0]
  /\ \E blocks \in {0, OrBlocks} : obfree = [b \in 1..blocks |-> PerBlock]
  /\ orop = [i \in OrInodes |-> Idle]
  /\ oropen = [i \in OrInodes |-> "open"]
  /\ mount = "up"
  /\ orcalls = 0 /\ orcrash = 0

OrSteps(i) ==
  \/ file_add_reserve(i) \/ list_add(i) \/ file_add_scan(i) \/ file_add_swap(i)
  \/ file_del(i) \/ file_del_count(i)
  \/ unlink_last(i) \/ tmpfile(i) \/ link(i) \/ close(i) \/ evict(i)
  \/ listed(i) \/ cut(i) \/ cut_done(i) \/ evict_del(i)
  \/ dio_blocks(i) \/ handle_inode_extension(i) \/ extension_cleanup(i) \/ dio_falls_back(i)
  \/ \E size \in 0..OrSize : setattr(i, size) \/ dio_extend(i, size)

OrNext ==
  \/ \E i \in OrInodes : OrSteps(i)
  \/ commit \/ crash \/ cleanup_list \/ cleanup_list_ends \/ cleanup_file

OrSpec == OrInit /\ [][OrNext]_orVars

-----------------------------------------------------------------------------
(* The inodes reached from the superblock; a walk longer than the number   *)
(* of inodes has met a cycle.                                              *)
Walk(m) ==
  LET w[n \in 0..Cardinality(OrInodes)] ==
        IF n = 0 THEN m.last
        ELSE IF w[n - 1] = 0 THEN 0 ELSE m.ino[w[n - 1]].next
  IN  w

OnDisk(m) == {Walk(m)[n] : n \in 0..Cardinality(OrInodes)} \cup Range(m.slot)

Unfinished(m) ==
  {i \in OrInodes : m.ino[i].alloc /\ (m.ino[i].nlink = 0 \/ m.ino[i].blk > m.ino[i].size)}

(* Whatever the last commit holds when the machine stops: every inode in   *)
(* it that has no name, or has blocks beyond its size, is recorded as an   *)
(* orphan in that same commit, so that the next mount can find it.         *)
OrphanCovers == Unfinished(com) \subseteq OnDisk(com)

Quiet == /\ mount = "up" /\ \A i \in OrInodes : orop[i].ph = "idle"
         /\ \A i \in OrInodes : md.ino[i].alloc => md.ino[i].nlink > 0

(* Mounted, nothing under way and every inode named: no block lies beyond  *)
(* a file's size and no orphan record is left, in the list on disk or in   *)
(* memory or in the file.  Only an extending direct write that fell back   *)
(* to the page cache leaves its slot in use.                               *)
OrphanSettled ==
  Quiet =>
    /\ Unfinished(md) = {} /\ md.last = 0 /\ orlist = <<>>
    /\ \A s \in OfSlots : md.slot[s] # 0 => orop[md.slot[s]].then = "fell back"

(* The adders race for slots without a lock, yet a slot holds the inode    *)
(* that believes it is there; and the empty slots of a block are exactly   *)
(* those counted free, those promised to adders still searching and those  *)
(* a deleter has cleared and not yet counted, so a search always ends.     *)
SlotsCounted ==
  /\ \A i \in OrInodes : where[i] # 0 /\ orop[i].ph # "count" => md.slot[where[i]] = i
  /\ \A b \in DOMAIN obfree :
       ZeroesIn(md, b) = obfree[b]
         + Cardinality({i \in OrInodes : orop[i].ph \in {"scan", "swap"} /\ BlockOf(orop[i].s) = b})
         + Cardinality({i \in OrInodes : orop[i].ph = "count" /\ BlockOf(where[i]) = b})

(* While mounted the list on disk is the list in memory. *)
ListMirrored ==
  mount = "up" =>
    \A n \in 0..Cardinality(OrInodes) :
      Walk(md)[n] = IF n < Len(orlist) THEN orlist[n + 1] ELSE 0

\* Every unfinished inode is recorded for the next mount, no finished one stays
\* recorded, and list, slots and counters agree in memory and on disk.
OrphansExact == OrphanCovers /\ OrphanSettled /\ SlotsCounted /\ ListMirrored
=============================================================================
