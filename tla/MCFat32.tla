------------------------------ MODULE MCFat32 ------------------------------
(* The FAT32 file system for TLC.  `part' tells four instances apart: Fat  *)
(* with small clusters and a machine that stops, Fat with clusters of two  *)
(* sectors for reads, Dir with many names, and Dir with removals and the   *)
(* calls of the kernel.                                                    *)
EXTENDS Integers, Sequences, FiniteSets, SequencesExt

CONSTANTS f1, f2

VARIABLES
  part,
  fat, zero, info, backup, dirent, sb, inode, op, crashes, cut, halted,
  dir, where, dirHalted

fatVars == <<fat, zero, info, backup, dirent, sb, inode, op, crashes, cut, halted>>
dirVars == <<dir, where, dirHalted>>

-----------------------------------------------------------------------------
(* Disks: clusters 0 and 1 reserved, 2 the root directory *)

Files == {f1, f2}
Slots == [f \in Files |-> IF f = f1 THEN 3 ELSE 5]
EOC == 268435455

\* A disk with clusters up to max, the given chains and the right free count.
Disk(max, root, chain, size, hint) ==
  LET Used == Range(root) \cup UNION {Range(chain[f]) : f \in Files}
      NextIn(s, c) == LET i == CHOOSE k \in DOMAIN s : s[k] = c
                      IN  IF i = Len(s) THEN EOC ELSE s[i + 1]
  IN  [fat |-> [c \in 0 .. max |->
                  IF c < 2 THEN EOC - 1 + c
                  ELSE IF c \in Range(root) THEN NextIn(root, c)
                  ELSE IF c \in Used
                  THEN NextIn(chain[CHOOSE f \in Files : c \in Range(chain[f])], c)
                  ELSE 0],
       zero |-> [c \in 2 .. max |-> c \notin Used],
       info |-> [free |-> Cardinality((2 .. max) \ Used), next |-> hint],
       dirent |-> [f \in Files |-> [start |-> chain[f][1], size |-> size[f], attr |-> 32]]]

\* Made without removals: what is used comes before the hint.
Fresh(max, cluster) ==
  {Disk(max, <<2>>, [f \in Files |-> IF f = f1 THEN <<3>> ELSE <<4, 5>>],
        [f \in Files |-> IF f = f1 THEN a ELSE cluster + 1], 6) : a \in 0 .. 1}

\* The files are in pieces, in an order of their own.
Mixed(max, cluster) ==
  Disk(max, <<2, 4>>, [f \in Files |-> IF f = f1 THEN <<5, 3, 6>> ELSE <<7>>],
       [f \in Files |-> IF f = f1 THEN 2 * cluster + 1 ELSE 1], 8)

C == INSTANCE Fat
       WITH SecPerClus <- 1, BytsPerSec <- 1, DataSecs <- 10, SizeMax <- 3, CrashMax <- 1,
            ParentOff <- Slots, Images <- Fresh(11, 1)
R == INSTANCE Fat
       WITH SecPerClus <- 2, BytsPerSec <- 2, DataSecs <- 28, SizeMax <- 10, CrashMax <- 0,
            ParentOff <- Slots, Images <- Fresh(15, 4) \cup {Mixed(15, 4)}

-----------------------------------------------------------------------------
(* Names, in ASCII, and the short entries another system gives them *)

na == <<97, 98>>                                        \* ab
nb == <<98, 99, 46, 99>>                                \* bc.c
nc == <<99, 97, 116, 97, 108, 111, 103, 117, 101>>      \* catalogue
nd == <<100, 97, 116, 97, 46, 116, 120, 116>>           \* data.txt
ne == <<101, 46, 99, 99>>                               \* e.cc
nU == <<66, 73, 78>>                                    \* BIN

ManyNames == {na, nb, nc, nd, ne, nU}
Filled(s) == s \o [k \in 1 .. 11 - Len(s) |-> 32]
Upper(c) == IF c \in 97 .. 122 THEN c - 32 ELSE c
AliasOf ==
  [n \in ManyNames |->
     Filled(IF n = nU THEN n ELSE <<Upper(n[1]), Upper(n[2]), 126, 49>>)]

L == INSTANCE Dir
       WITH Names <- ManyNames, Alias <- AliasOf, ShortOnly <- {nU}, FCB_PER_BLOCK <- 4,
            LFN <- 4, CAPACITY <- 30, SlotMax <- 20, Removes <- FALSE, Calls <- {},
            Garbage <- {0, 88}, halted <- dirHalted
K == INSTANCE Dir
       WITH Names <- {na, nc}, Alias <- AliasOf, ShortOnly <- {}, FCB_PER_BLOCK <- 3,
            LFN <- 4, CAPACITY <- 30, SlotMax <- 9, Removes <- TRUE,
            Calls <- {"create", "delete", "link"}, Garbage <- {88}, halted <- dirHalted

-----------------------------------------------------------------------------
MCInit ==
  \/ part = "crash" /\ C!Init /\ L!Init
  \/ part = "read" /\ R!Init /\ L!Init
  \/ part = "names" /\ C!Init /\ dirent[f1].size = 0 /\ L!Init
  \/ part = "calls" /\ C!Init /\ dirent[f1].size = 0 /\ K!Init

MCNext ==
  /\ UNCHANGED part
  /\ \/ part = "crash" /\ C!Next /\ UNCHANGED dirVars
     \/ part = "read" /\ R!Next /\ UNCHANGED dirVars
     \/ part = "names" /\ L!Next /\ UNCHANGED fatVars
     \/ part = "calls" /\ K!Next /\ UNCHANGED fatVars

MCSpec == MCInit /\ [][MCNext]_<<part, fatVars, dirVars>>
-----------------------------------------------------------------------------
(* Properties, whose parts are stated and explained in Fat and Dir *)

\* Wherever a write or a truncation stops, chains share no cluster and end with
\* an end mark, linked clusters cover the size in the entry, and the free count
\* is off by one cluster for a stop at most.
DiskSound ==
  part = "crash" =>
    C!TypeOK /\ C!ChainsDisjoint /\ C!ChainsEnd /\ C!SizeCovered /\ C!FreeCountNear

\* Between calls cluster_cnt and cluster_end of an inode are those of its chain.
InodeKnowsChain == (part = "crash" => C!InodeKnowsChain) /\ (part = "read" => R!InodeKnowsChain)

\* fat32_inode_read() copies the bytes asked for, each from its place.
ReadExact == (part = "crash" => C!ReadExact) /\ (part = "read" => R!ReadExact)

\* The three that go through a directory agree with the names that are there:
\* dirlookup() finds each at its own slot, getdents() lists them in their order,
\* isdirempty() says whether there are any, also between removed ones.
NamesExact ==
  /\ part = "names" => L!LookupExact /\ L!ListsAll /\ L!EmptyExact
  /\ part = "calls" => K!TypeOK /\ K!EmptyExact

\* The slots fcb_init() makes for a name are read back as that name, and
\* insert_offset() gives them a place that is free and that a lookup reaches.
InsertFits == (part = "names" => L!FcbRoundTrip) /\ (part = "calls" => K!InsertFits)

\* A call of the kernel for one name leaves the slots of others alone.
OthersUntouched == [][part = "calls" => K!KeepsOthers]_<<part, fatVars, dirVars>>
=============================================================================
