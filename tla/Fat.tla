-------------------------------- MODULE Fat --------------------------------
(***************************************************************************)
(* Cluster chains of the FAT32 file system: fs/fat32_inode.c over the      *)
(* geometry of include/fs/fat32_disk.h.  One task works on the files of    *)
(* the root directory.  A call is cut wherever it writes a sector, since   *)
(* the machine may stop there; after a stop the disk is mounted again.     *)
(* The data bytes of a file matter only for cluster_alloc(), which takes a *)
(* first byte of zero for a free cluster.                                  *)
(***************************************************************************)
EXTENDS Integers, Sequences, FiniteSets, SequencesExt

CONSTANTS
  Files,         \* the files of the root directory
  SecPerClus,    \* sectors per cluster
  BytsPerSec,    \* bytes per sector
  DataSecs,      \* sectors of the data region
  Images,        \* the disks that may be mounted first
  ParentOff,     \* file -> the slot of its short entry in the root directory
  SizeMax,       \* bound of the model: the size of a file
  CrashMax       \* bound of the model: how often the machine stops

VARIABLES
  fat,       \* the FAT: cluster -> next cluster, FREE_MASK or EOC
  zero,      \* cluster -> its first byte is 0
  info,      \* the FSInfo sector: Free_Count and Nxt_Free
  backup,    \* the FSInfo backup sector
  dirent,    \* file -> the cluster, size and attribute of its short entry
  sb,        \* fat32_sb_info: free_count and nxt_free
  inode,     \* file -> the inode in memory
  op,        \* the call in progress
  crashes,
  cut,       \* history: the files whose truncation was begun
  halted     \* a panic or a failed ASSERT

diskVars == <<fat, zero, info, backup, dirent>>
vars == <<diskVars, sb, inode, op, crashes, cut, halted>>

-----------------------------------------------------------------------------
(* Geometry *)

CLUSTER_SIZE == SecPerClus * BytsPerSec
FAT_CLUSTER_MAX == DataSecs \div SecPerClus + 1
Clusters == 2 .. FAT_CLUSTER_MAX
RootClus == 2

FREE_MASK == 0

EOC == 268435455
ISEOF(c) == c >= 268435448

\* Sector N - 2 of the data region on, from its first sector.
FirstSectorofCluster(N) == (N - 2) * SecPerClus
LOGISTIC_C_NUM(off) == off \div CLUSTER_SIZE
LOGISTIC_S_NUM(off) == (off % CLUSTER_SIZE) \div BytsPerSec
LOGISTIC_S_OFFSET(off) == (off % CLUSTER_SIZE) % BytsPerSec

MinOf(a, b) == IF a <= b THEN a ELSE b

-----------------------------------------------------------------------------
(* Chains *)

\* The ASSERT of fat32_next_cluster().
NextAsserts(c) == 2 <= c /\ c < FAT_CLUSTER_MAX

\* The clusters that are met from c on, up to one that has no next.
Chain(f, c) ==
  LET walk[k \in 0 .. FAT_CLUSTER_MAX] ==
        IF k = 0 THEN <<c>>
        ELSE LET s == walk[k - 1]
             IN  IF NextAsserts(Last(s)) /\ ~ISEOF(f[Last(s)]) THEN Append(s, f[Last(s)])
                 ELSE s
  IN  IF ISEOF(c) THEN <<>> ELSE walk[FAT_CLUSTER_MAX]

\* fat32_fat_travel(ip, 0) counts the clusters; it fails at a cluster whose
\* next one must not be asked for.
TravelAsserts(f, c) == \A k \in DOMAIN Chain(f, c) : NextAsserts(Chain(f, c)[k])
CountOf(f, c) == Len(Chain(f, c))
EndOf(f, c) == Last(Chain(f, c))

\* fat32_fat_travel(ip, num), num # 0: the num'th cluster, or the last one.
fat_travel(f, c, num) == Chain(f, c)[MinOf(num, CountOf(f, c))]
TravelFails(f, c, num) ==
  \E k \in 1 .. MinOf(num - 1, CountOf(f, c)) : ~NextAsserts(Chain(f, c)[k])

-----------------------------------------------------------------------------
(* Mounting and loading *)

Idle == [at |-> "idle", file |-> CHOOSE f \in Files : TRUE,
         off |-> 0, n |-> 0, tot |-> 0, iter |-> 0, new |-> 0]

\* fat32_inode_lock() on a slot of the table that is not valid; d is the entry.
Loaded(f, d) ==
  [start |-> d.start, size |-> d.size, attr |-> d.attr,
   cnt |-> IF d.start # 0 THEN CountOf(f, d.start) ELSE 0,
   end |-> IF d.start # 0 THEN EndOf(f, d.start) ELSE 0]

LoadPanics(f, d) ==
  \/ d.start = RootClus
  \/ d.start # 0 /\ ~TravelAsserts(f, d.start)
  \/ d.attr = 0

\* fat32_fs_mount() and the load of every inode there is.
Inodes == [x \in Files |-> Loaded(fat, dirent[x])]
MountPanics ==
  \/ ~TravelAsserts(fat, RootClus)
  \/ \E x \in Files : dirent[x].attr # 0 /\ LoadPanics(fat, dirent[x])

Init ==
  /\ \E image \in Images :
       /\ fat = image.fat /\ zero = image.zero /\ dirent = image.dirent
       /\ info = image.info /\ backup = image.info
  /\ sb = info /\ inode = Inodes /\ halted = MountPanics
  /\ op = Idle
  /\ crashes = 0
  /\ cut = {}

\* The machine stops, whatever it was doing, and is started again.
Crash ==
  /\ crashes < CrashMax
  /\ crashes' = crashes + 1
  /\ op' = Idle
  /\ sb' = info /\ inode' = Inodes /\ halted' = MountPanics
  /\ UNCHANGED <<diskVars, cut>>

-----------------------------------------------------------------------------
(* fat32_cluster_alloc() *)

\* fat32_fat_alloc(): the number of the entry is counted from 3, the entries
\* themselves are read from the first one.
fat_alloc ==
  LET Hit == {s \in 0 .. FAT_CLUSTER_MAX - 3 : fat[s] = FREE_MASK}
  IN  IF Hit = {} THEN 0 ELSE 3 + CHOOSE s \in Hit : \A t \in Hit : s <= t

Marked(mark) == [fat EXCEPT ![mark] = EOC]
Counted(mark) == [free |-> sb.free - 1, next |-> mark + 1]

\* Up to the write of the FAT.  A cluster is marked as the end of a chain;
\* the number returned is nxt_free, whichever cluster was marked.
AllocMark ==
  LET hit == zero[sb.next] /\ sb.next < FAT_CLUSTER_MAX - 1
      mark == IF hit THEN sb.next ELSE fat_alloc
  IN  /\ op.at = "alloc"
      /\ IF sb.free = 0 \/ mark = 0
         THEN /\ halted' = TRUE
              /\ UNCHANGED <<fat, sb, op>>
         ELSE /\ fat' = Marked(mark)
              /\ sb' = Counted(mark)
              /\ op' = [op EXCEPT !.at = "info", !.new = sb.next]
              /\ UNCHANGED halted
      /\ UNCHANGED <<zero, info, backup, dirent, inode, crashes, cut>>

\* Mutant: FSInfo is left as it was mounted.
AllocInfo_skipped ==
  /\ op.at = "info"
  /\ op' = [op EXCEPT !.at = "backup"]
  /\ UNCHANGED <<diskVars, sb, inode, crashes, cut, halted>>

AllocInfo ==
  /\ op.at = "info"
  /\ info' = sb
  /\ op' = [op EXCEPT !.at = "backup"]
  /\ UNCHANGED <<fat, zero, backup, dirent, sb, inode, crashes, cut, halted>>

AllocBackup ==
  /\ op.at = "backup"
  /\ backup' = sb
  /\ op' = [op EXCEPT !.at = "zero"]
  /\ UNCHANGED <<fat, zero, info, dirent, sb, inode, crashes, cut, halted>>

AllocZero ==
  /\ op.at = "zero"
  /\ zero' = [zero EXCEPT ![op.new] = TRUE]
  /\ op' = [op EXCEPT !.at = "link"]
  /\ UNCHANGED <<fat, info, backup, dirent, sb, inode, crashes, cut, halted>>

-----------------------------------------------------------------------------
(* fat32_inode_write() *)

\* fat32_inode_update() of an inode that is not the root.
Updated(f, ip) ==
  dirent' = [dirent EXCEPT ![f] = [start |-> ip.start, size |-> ip.size, attr |-> ip.attr]]

\* Up to its first write.  off + n beyond the data region, or off beyond the
\* end, returns -1.
inode_write(f, off, n) ==
  LET ip == inode[f]
      num == LOGISTIC_C_NUM(off) + 1
  IN  /\ op.at = "idle" /\ ip.attr # 0
      /\ off <= ip.size /\ off + n <= DataSecs * BytsPerSec
      /\ off + n <= SizeMax
      /\ halted' = TravelFails(fat, ip.start, num)
      /\ op' = [at |-> IF num > ip.cnt THEN "alloc" ELSE "data",
                file |-> f, off |-> off, n |-> n, tot |-> 0,
                iter |-> fat_travel(fat, ip.start, num), new |-> 0]
      /\ UNCHANGED <<diskVars, sb, inode, crashes, cut>>

\* Mutant: the inode keeps its old end.
Grown_end == [inode EXCEPT ![op.file].cnt = @ + 1]

Linked == [fat EXCEPT ![op.iter] = op.new]
Grown == [inode EXCEPT ![op.file].cnt = @ + 1, ![op.file].end = op.new]

\* The new cluster becomes the next of the one the task is at.
WriteLink ==
  /\ op.at = "link"
  /\ fat' = Linked
  /\ inode' = Grown
  /\ op' = [op EXCEPT !.at = "data", !.iter = op.new]
  /\ UNCHANGED <<zero, info, backup, dirent, sb, crashes, cut, halted>>

\* The sectors of one cluster, which keep the bytes they have, and the way
\* to the next cluster.
WriteData ==
  LET pos == (op.off + op.tot) % CLUSTER_SIZE
      tot == op.tot + MinOf(CLUSTER_SIZE - pos, op.n - op.tot)
      go == ~ISEOF(op.iter) /\ op.tot < op.n
      next == fat[op.iter]
  IN  /\ op.at = "data"
      /\ IF ~go \/ tot = op.n
         THEN /\ op' = [op EXCEPT !.at = "update", !.tot = IF go THEN tot ELSE @]
              /\ UNCHANGED halted
         ELSE IF ~NextAsserts(op.iter)
         THEN /\ halted' = TRUE
              /\ UNCHANGED op
         ELSE /\ op' = [op EXCEPT !.at = IF ISEOF(next) THEN "alloc" ELSE "data",
                                  !.tot = tot, !.iter = IF ISEOF(next) THEN @ ELSE next]
              /\ UNCHANGED halted
      /\ UNCHANGED <<diskVars, sb, inode, crashes, cut>>

WriteUpdate ==
  LET f == op.file
      ip == [inode[f] EXCEPT !.size = IF op.off + op.n > @ THEN op.off + op.tot ELSE @]
  IN  /\ op.at = "update"
      /\ inode' = [inode EXCEPT ![f] = ip]
      /\ Updated(f, ip)
      /\ op' = Idle
      /\ UNCHANGED <<fat, zero, info, backup, sb, crashes, cut, halted>>

-----------------------------------------------------------------------------
(* fat32_inode_put() of a file without links: fat32_inode_trunc() *)

inode_put(f) ==
  /\ op.at = "idle" /\ inode[f].attr # 0
  /\ op' = [Idle EXCEPT !.at = "trunc", !.file = f, !.iter = inode[f].start]
  /\ cut' = cut \cup {f}
  /\ UNCHANGED <<diskVars, sb, inode, crashes, halted>>

\* The clusters become ends of chains; none becomes free.
TruncCut ==
  /\ op.at = "trunc" /\ ~ISEOF(op.iter)
  /\ IF NextAsserts(op.iter)
     THEN /\ fat' = [fat EXCEPT ![op.iter] = EOC]
          /\ op' = [op EXCEPT !.iter = fat[op.iter]]
          /\ UNCHANGED halted
     ELSE /\ halted' = TRUE
          /\ UNCHANGED <<fat, op>>
  /\ UNCHANGED <<zero, info, backup, dirent, sb, inode, crashes, cut>>

\* fat32_inode_delete(), for a name with one long entry: it writes the slots
\* in the root directory back as they are.
TruncDelete ==
  /\ op.at = "trunc" /\ ISEOF(op.iter)
  /\ IF ParentOff[op.file] > 0 /\ ParentOff[op.file] - 1 > 0
     THEN /\ op' = [op EXCEPT !.at = "cut"]
          /\ UNCHANGED halted
     ELSE /\ halted' = TRUE
          /\ UNCHANGED op
  /\ UNCHANGED <<diskVars, sb, inode, crashes, cut>>

TruncUpdate ==
  LET ip == [inode[op.file] EXCEPT !.start = 0, !.end = 0, !.cnt = 0, !.size = 0]
  IN  /\ op.at = "cut"
      /\ inode' = [inode EXCEPT ![op.file] = ip]
      /\ Updated(op.file, ip)
      /\ op' = [op EXCEPT !.at = "drop"]
      /\ UNCHANGED <<fat, zero, info, backup, sb, crashes, cut, halted>>

\* The second update of fat32_inode_put(), with no attribute left.
PutUpdate ==
  LET ip == [inode[op.file] EXCEPT !.attr = 0]
  IN  /\ op.at = "drop"
      /\ inode' = [inode EXCEPT ![op.file] = ip]
      /\ Updated(op.file, ip)
      /\ op' = Idle
      /\ UNCHANGED <<fat, zero, info, backup, sb, crashes, cut, halted>>

Step ==
  \/ \E f \in Files : inode_put(f)
  \/ \E f \in Files : \E off \in 0 .. inode[f].size, n \in 0 .. SizeMax : inode_write(f, off, n)
  \/ AllocMark \/ AllocInfo \/ AllocBackup \/ AllocZero
  \/ WriteLink \/ WriteData \/ WriteUpdate
  \/ TruncCut \/ TruncDelete \/ TruncUpdate \/ PutUpdate

Next == ~halted /\ (Step \/ Crash)

Spec == Init /\ [][Next]_vars

-----------------------------------------------------------------------------
(* fat32_inode_read() *)

\* Mutant: the offset in the sector is not reset after the first sector.
NextPiece_off(r, m) ==
  LET turn == r.s + 1 = SecPerClus
  IN  [iter |-> IF turn /\ r.tot + m < r.n THEN fat[r.iter] ELSE r.iter,
       s |-> IF turn THEN 0 ELSE r.s + 1, so |-> r.so, tot |-> r.tot + m, n |-> r.n,
       out |-> Append(r.out, <<FirstSectorofCluster(r.iter) + r.s, r.so, m>>)]

\* One round of the inner loop: m bytes of sector s of the cluster.
NextPiece(r, m) ==
  LET turn == r.s + 1 = SecPerClus
  IN  [iter |-> IF turn /\ r.tot + m < r.n THEN fat[r.iter] ELSE r.iter,
       s |-> IF turn THEN 0 ELSE r.s + 1, so |-> 0, tot |-> r.tot + m, n |-> r.n,
       out |-> Append(r.out, <<FirstSectorofCluster(r.iter) + r.s, r.so, m>>)]

\* The pieces <<sector, offset, length>> that are copied, in order.
inode_read(ip, off, n) ==
  LET len == IF off > ip.size THEN 0 ELSE MinOf(n, ip.size - off)
      round[k \in 0 .. SizeMax] ==
        IF k = 0
        THEN [iter |-> fat_travel(fat, ip.start, LOGISTIC_C_NUM(off) + 1),
              s |-> LOGISTIC_S_NUM(off), so |-> LOGISTIC_S_OFFSET(off), tot |-> 0,
              n |-> len, out |-> <<>>]
        ELSE LET r == round[k - 1]
             IN  IF ISEOF(r.iter) \/ r.tot >= r.n THEN r
                 ELSE NextPiece(r, MinOf(BytsPerSec - r.so, r.n - r.tot))
  IN  round[SizeMax].out

-----------------------------------------------------------------------------
(* Properties *)

Info == [free : Nat, next : Nat]

\* Variables have their types.
TypeOK ==
  /\ fat \in [0 .. FAT_CLUSTER_MAX -> (0 .. FAT_CLUSTER_MAX) \cup {268435454, 268435455}]
  /\ zero \in [Clusters -> BOOLEAN]
  /\ info \in Info /\ backup \in Info /\ sb \in Info
  /\ \A f \in Files : dirent[f].start \in Nat /\ inode[f].start \in Nat
  /\ crashes \in 0 .. CrashMax /\ halted \in BOOLEAN

\* The clusters of a file, as the entry on the disk has it; a file whose
\* chain is being cut has the rest in hand.
Held(f) ==
  IF dirent[f].start = 0 THEN {}
  ELSE Range(Chain(fat, dirent[f].start)) \cup
       IF op.at = "trunc" /\ op.file = f /\ ~ISEOF(op.iter) THEN Range(Chain(fat, op.iter))
       ELSE {}

\* No cluster is in two files, or in a file and in the root directory, at any
\* point of a write or truncation at which the machine may stop, or later:
\* fat32_cluster_alloc() marks, writes FSInfo and clears before the cluster is
\* linked, so a cluster handed out again after a restart is in no chain.
ChainsDisjoint ==
  /\ \A f, g \in Files : f # g => Held(f) \cap Held(g) = {}
  /\ \A f \in Files : Held(f) \cap Range(Chain(fat, RootClus)) = {}

\* Every chain on the disk ends with an end mark, whenever the machine stops:
\* it never runs into a free entry or in a circle.
ChainsEnd ==
  \A f \in Files :
    dirent[f].start # 0 =>
      /\ TravelAsserts(fat, dirent[f].start)
      /\ CountOf(fat, dirent[f].start) = Cardinality(Range(Chain(fat, dirent[f].start)))

\* The size in an entry never exceeds the clusters linked to it, wherever a
\* write stops, since fat32_inode_update() comes last.  (A truncation that
\* stops half way leaves the old size over a chain that is cut.)
SizeCovered ==
  \A f \in Files :
    dirent[f].start # 0 /\ f \notin cut =>
      dirent[f].size <= CountOf(fat, dirent[f].start) * CLUSTER_SIZE

\* Between calls the inode knows its chain: cluster_cnt and cluster_end are
\* those a travel over the FAT gives.
InodeKnowsChain ==
  op.at = "idle" =>
    \A f \in Files : inode[f].start # 0 =>
      /\ inode[f].cnt = CountOf(fat, inode[f].start)
      /\ inode[f].end = EndOf(fat, inode[f].start)

\* The free count on the disk is at most too large by the clusters marked
\* before a stop, and never too small.
FreeCountNear ==
  LET free == Cardinality({c \in Clusters : fat[c] = FREE_MASK})
  IN  info.free \in free .. free + crashes + (IF op.at = "info" THEN 1 ELSE 0)

\* fat32_inode_read() copies exactly the bytes from off on, each from its
\* place in the chain, for every offset and length, also after a restart (of
\* files whose truncation did not stop half way).
ReadExact ==
  op.at = "idle" =>
    \A f \in Files : \A off \in 0 .. inode[f].size + 1, n \in 0 .. SizeMax :
      LET ip == inode[f]
          len == IF off > ip.size THEN 0 ELSE MinOf(n, ip.size - off)
          ch == Chain(fat, ip.start)
          Place(b) == <<(ch[b \div CLUSTER_SIZE + 1] - 2) * SecPerClus
                          + ((b \div BytsPerSec) % SecPerClus), b % BytsPerSec>>
      IN  ip.start # 0 /\ (f \in cut => crashes = 0) =>
            FoldLeft(LAMBDA s, p : s \o [i \in 1 .. p[3] |-> <<p[1], p[2] + i - 1>>],
                     <<>>, inode_read(ip, off, n))
              = [i \in 1 .. len |-> Place(off + i - 1)]

\* The number cluster_alloc() returns is that of the free cluster it took
\* (its last comment): a cluster that is in no chain.
AllocUnused ==
  [][op.at = "alloc" /\ op'.at = "info" =>
       /\ \A f \in Files : op'.new \notin Held(f)
       /\ op'.new \notin Range(Chain(fat, RootClus))]_vars

\* FAT[0] and FAT[1] are reserved (fat32_disk.h): no call changes them.
ReservedKept == [][fat'[0] = fat[0] /\ fat'[1] = fat[1]]_vars

\* A disk whose files are sound is read without a failed ASSERT, whichever of
\* the clusters up to "the last cluster", FAT_CLUSTER_MAX, they use.
SoundImageMounts ==
  (\A f \in Files : Last(Chain(fat, dirent[f].start)) \in Clusters) => ~halted
=============================================================================
