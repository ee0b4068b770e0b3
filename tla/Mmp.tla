-------------------------------- MODULE Mmp ---------------------------------
(***************************************************************************)
(* Multiple mount protection: the nodes that share a device keep each      *)
(* other from mounting it at the same time through one block.  A mount     *)
(* reads the block, waits, writes a sequence number of its own, waits and  *)
(* looks whether it is still there; a mounted node writes the block again  *)
(* and again.  Time passes in steps for all nodes at once; a write takes   *)
(* up to Late and a sleep up to Over longer than it should.  A write of a  *)
(* mounted node may fail, and the node goes on.                            *)
(*                                                                         *)
(* Nodes are 1, 2, ...; the random number a mount of node n writes is one  *)
(* of 10n and 10n + 1, never equal to another node's or to a number of a   *)
(* mounted node, which are 1..SEQ_MAX.                                     *)
(***************************************************************************)
EXTENDS Integers, FiniteSetsExt

CONSTANTS MpNodes, UPDATE_INTERVAL, MIN_CHECK, MAX_CHECK, SEQ_MAX, Late, Over,
          MpMounts     \* bound on mounts

VARIABLES mblk,        \* the block: [seq, node, check]
          mnode,       \* node -> its mount or kmmpd thread
          mounts,
          mseen        \* history: "clean" when a mount found the block clean
                       \* while another had found it so and not yet written;
                       \* "write" when a write of a mounted node failed

mpVars == <<mblk, mnode, mounts, mseen>>

SEQ_CLEAN == -1
SEQ_FSCK == -2
CHECK_MULT == 2

DownNode == [st |-> "down", seq |-> 0, buf |-> 0, t |-> 0, wt |-> 0, age |-> 0, check |-> 0]

(* States of a mounted node. *)
IsUp(n) == mnode[n].st \in {"update", "writing", "sleep", "leaving"}
MpTo(n, f) == mnode' = [mnode EXCEPT ![n] = f]

(* The states in which a node does nothing until its time has come. *)
TimedOut(n, st) == mnode[n].st = st /\ mnode[n].t = 0
Waits(n) == mnode[n].st \in {"down", "hung"} \/ mnode[n].t > 0

Wrote(n, seq) ==
  mblk' = [seq |-> seq, node |-> n, check |-> mnode[n].check]

-----------------------------------------------------------------------------
(* ext4_multi_mount_protect. *)

WaitTime(check) == Min({check * 2 + 1, check + 60})

(* What the wait of a mount is for: it is longer than a mounted node takes *)
(* from one write of the block to the next.                                *)
ASSUME MpAssumption ==
  /\ MpNodes \subseteq Nat \ {0}
  /\ {UPDATE_INTERVAL, MIN_CHECK, MAX_CHECK, Late, Over} \subseteq Nat
  /\ SEQ_MAX \in 1..9
  /\ WaitTime(Max({UPDATE_INTERVAL, MIN_CHECK})) > UPDATE_INTERVAL + Over + Late

(* A node that has found the block clean and not yet written its number. *)
Skips(k) == mnode[k].st = "own" /\ mnode[k].wt = 0

mmp_read(n) ==
  /\ mnode[n].st = "down" /\ mounts < MpMounts /\ mounts' = mounts + 1
  /\ mblk.seq # SEQ_FSCK
  /\ mseen' = IF mblk.seq = SEQ_CLEAN /\ \E k \in MpNodes : Skips(k)
              THEN mseen \cup {"clean"} ELSE mseen
  /\ LET check == Max({UPDATE_INTERVAL, MIN_CHECK, mblk.check})
         m == [DownNode EXCEPT !.seq = mblk.seq, !.check = mblk.check, !.buf = mblk.node]
     IN  IF mblk.seq = SEQ_CLEAN
         THEN \E d \in 0..Late : MpTo(n, [m EXCEPT !.st = "own", !.t = d])
         ELSE MpTo(n, [m EXCEPT !.st = "first", !.t = WaitTime(check), !.wt = WaitTime(check)])
  /\ UNCHANGED mblk

Refused(n) == mblk.seq # mnode[n].seq

mmp_first_check(n) ==
  /\ TimedOut(n, "first")
  /\ IF Refused(n) THEN MpTo(n, DownNode)
     ELSE \E d \in 0..Late : MpTo(n, [mnode[n] EXCEPT !.st = "own", !.t = d, !.check = mblk.check])
  /\ UNCHANGED <<mblk, mounts, mseen>>

(* The number of its own reaches the disk; the rest of the block is as it  *)
(* was read.                                                               *)
mmp_write_seq(n) ==
  /\ TimedOut(n, "own")
  /\ LET seq == 10 * n + (IF mblk.seq = 10 * n THEN 1 ELSE 0)
     IN  /\ mblk' = [seq |-> seq, node |-> mnode[n].buf, check |-> mnode[n].check]
         /\ MpTo(n, [mnode[n] EXCEPT !.st = "second", !.t = mnode[n].wt, !.seq = seq])
  /\ UNCHANGED <<mounts, mseen>>

mmp_second_check_skipped(n) ==
  /\ TimedOut(n, "second")
  /\ MpTo(n, [DownNode EXCEPT !.st = "update", !.check = Max({CHECK_MULT * UPDATE_INTERVAL, MIN_CHECK})])
  /\ UNCHANGED <<mblk, mounts, mseen>>

mmp_second_check(n) ==
  /\ TimedOut(n, "second")
  /\ IF Refused(n) THEN MpTo(n, DownNode)
     ELSE MpTo(n, [DownNode EXCEPT !.st = "update",
                                   !.check = Max({CHECK_MULT * UPDATE_INTERVAL, MIN_CHECK})])
  /\ UNCHANGED <<mblk, mounts, mseen>>

-----------------------------------------------------------------------------
(* kmmpd. *)

kmmpd_write(n) ==
  /\ TimedOut(n, "update")
  /\ \E d \in 0..Late :
       MpTo(n, [mnode[n] EXCEPT !.st = "writing", !.seq = (@ % SEQ_MAX) + 1, !.t = d, !.age = 0])
  /\ UNCHANGED <<mblk, mounts, mseen>>

SleepRest(n) ==
  LET rest == UPDATE_INTERVAL - mnode[n].age
  IN  \E o \in 0..Over : MpTo(n, [mnode[n] EXCEPT !.st = "sleep", !.t = IF rest > 0 THEN rest + o ELSE 0])

(* A failed write is reported now and then; the loop goes on. *)
kmmpd_written(n) ==
  /\ TimedOut(n, "writing")
  /\ \/ Wrote(n, mnode[n].seq) /\ UNCHANGED mseen
     \/ mseen' = mseen \cup {"write"} /\ UNCHANGED mblk
  /\ SleepRest(n)
  /\ UNCHANGED mounts

(* Too long since the write: is the block as it was left? *)
kmmpd_check(n) ==
  /\ TimedOut(n, "sleep")
  /\ LET m == mnode[n]
         lost == m.age > m.check /\ (mblk.seq # m.seq \/ mblk.node # n)
     IN  MpTo(n, IF lost THEN [DownNode EXCEPT !.st = "hung"]
                 ELSE [m EXCEPT !.st = "update",
                                !.check = Max({Min({CHECK_MULT * m.age, MAX_CHECK}), MIN_CHECK})])
  /\ UNCHANGED <<mblk, mounts, mseen>>

(* Unmount, a remount read-only or a forced shutdown. *)
stop_mmpd(n) ==
  /\ mnode[n].st \in {"sleep", "hung"}
  /\ \E d \in 0..Late :
       MpTo(n, IF mnode[n].st = "hung" THEN DownNode ELSE [mnode[n] EXCEPT !.st = "leaving", !.t = d])
  /\ UNCHANGED <<mblk, mounts, mseen>>

kmmpd_clean(n) ==
  /\ TimedOut(n, "leaving")
  /\ Wrote(n, SEQ_CLEAN)
  /\ MpTo(n, DownNode)
  /\ UNCHANGED <<mounts, mseen>>

(* A node crashes, or its mount is interrupted or cannot read or write the *)
(* block; a write on its way is lost.                                      *)
mp_crash(n) ==
  /\ mnode[n].st \notin {"down", "hung"}
  /\ MpTo(n, DownNode)
  /\ UNCHANGED <<mblk, mounts, mseen>>

(* e2fsck marks the block while it runs. *)
fsck ==
  /\ \A n \in MpNodes : mnode[n].st = "down"
  /\ \/ mblk.seq # SEQ_FSCK /\ mblk' = [mblk EXCEPT !.seq = SEQ_FSCK]
     \/ mblk.seq = SEQ_FSCK /\ mblk' = [mblk EXCEPT !.seq = SEQ_CLEAN]
  /\ UNCHANGED <<mnode, mounts, mseen>>

(* A unit of time passes, with nothing due. *)
tick ==
  /\ \A n \in MpNodes : Waits(n)
  /\ \E n \in MpNodes : mnode[n].t > 0
  /\ mnode' = [n \in MpNodes |->
                 IF mnode[n].t = 0 THEN mnode[n]
                 ELSE [mnode[n] EXCEPT !.t = @ - 1,
                                       !.age = IF mnode[n].st \in {"writing", "sleep"} THEN @ + 1 ELSE @]]
  /\ UNCHANGED <<mblk, mounts, mseen>>

-----------------------------------------------------------------------------
MpInit ==
  /\ mblk \in [seq : {SEQ_CLEAN, 1}, node : {0}, check : {0}]
  /\ mnode = [n \in MpNodes |-> DownNode]
  /\ mounts = 0
  /\ mseen = {}

MpNext ==
  \/ \E n \in MpNodes :
       \/ mmp_read(n) \/ mmp_first_check(n) \/ mmp_write_seq(n) \/ mmp_second_check(n)
       \/ kmmpd_write(n) \/ kmmpd_written(n) \/ kmmpd_check(n) \/ stop_mmpd(n) \/ kmmpd_clean(n)
       \/ mp_crash(n)
  \/ fsck
  \/ tick

MpSpec == MpInit /\ [][MpNext]_mpVars

-----------------------------------------------------------------------------
(* "Protect the filesystem from being mounted more than once"              *)
(* (ext4_multi_mount_protect, mmp.c:270): no two nodes have the file       *)
(* system mounted at the same time.                                        *)
MountedOnce == \A m, n \in MpNodes : IsUp(m) /\ IsUp(n) => m = n

(* What the waits achieve: no two nodes have the file system mounted,      *)
(* whatever the nodes' steps, crashes and delays within the bounds are,    *)
(* unless two mounts skipped the wait together or the block was not        *)
(* written for a mounted node.                                             *)
WaitsExclude == mseen = {} => MountedOnce

=============================================================================
