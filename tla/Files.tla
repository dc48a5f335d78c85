------------------------------- MODULE Files -------------------------------
(***************************************************************************)
(* Open files of 404OS: the table of fs/ops.c, the descriptors of a task   *)
(* (fs/fd.c), and reading and writing in fs/fat32_file.c down to the size  *)
(* an inode has in memory.  No system call opens files yet, so those who   *)
(* call are external: they get an inode by name, allocate a file, put it   *)
(* in _ofile and take it out again.  A step goes from sleep to sleep.      *)
(***************************************************************************)
EXTENDS Naturals, FiniteSets

CONSTANTS
  NFILE,     \* the files of the table
  NOFILE,    \* the descriptors of a task
  Procs,
  Writers,   \* the tasks that open for writing
  Forks,     \* do tasks fork?
  Loads,     \* does a caller lock an inode before it opens it?
  Inodes,
  SizeMax,   \* bound of the model: sizes
  CallMax,   \* bound of the model: bytes a call asks for
  NONE

ASSUME FilesAssumption ==
  /\ NFILE \in Nat \ {0} /\ NOFILE \in Nat \ {0} /\ SizeMax \in Nat /\ CallMax \in Nat
  /\ Writers \subseteq Procs /\ Forks \in BOOLEAN /\ Loads \in BOOLEAN
  /\ IsFiniteSet(Procs) /\ Inodes # {} /\ NONE \notin 1 .. NFILE

VARIABLES
  ftable,   \* _ftable.file
  ofile,    \* task -> descriptor -> file, or NONE
  inode,    \* inode -> what the table of inodes has of it
  disk,     \* inode -> its size on the disk
  op,       \* task -> the call it sleeps in
  done      \* history: inode -> where the bytes end that were written

vars == <<ftable, ofile, inode, disk, op, done>>

F == 1 .. NFILE
FD == 1 .. NOFILE
Idle == [at |-> "idle", f |-> 1, off |-> 0, n |-> 0, asked |-> 0, size |-> 0]

\* flags is 0 for O_RDONLY, 1 for O_WRONLY, 2 for O_RDWR.
File == [count : Nat, inode : Inodes, pos : Nat, flags : {0, 1, 2}]

\* Where a call sleeps: before the inode is loaded or in its transfer.
Op == [at : {"idle", "rlock", "wlock", "read", "write"}, f : F, off : Nat, n : Nat,
       asked : Nat, size : Nat]

\* A slot of the table of inodes keeps the size of the inode it had before.
Init ==
  /\ ftable \in [F -> {[count |-> 0, inode |-> i, pos |-> 0, flags |-> 0] :
                        i \in {CHOOSE j \in Inodes : TRUE}}]
  /\ ofile = [p \in Procs |-> [d \in FD |-> NONE]]
  /\ \E stale \in 0 .. SizeMax :
       inode = [i \in Inodes |-> [ref |-> 0, valid |-> FALSE, size |-> stale]]
  /\ disk \in [Inodes -> 0 .. SizeMax]
  /\ op = [p \in Procs |-> Idle]
  /\ done = [i \in Inodes |-> 0]

MinOf(x, y) == IF x <= y THEN x ELSE y
MaxOf(x, y) == IF x <= y THEN y ELSE x

F_READABLE(f) == ftable[f].flags # 1
F_WRITEABLE(f) == ftable[f].flags > 0

-----------------------------------------------------------------------------
(* Files and descriptors *)

\* Mutant: a file that is open is given out again.
filealloc_any == F

\* The files filealloc() may return: the first that is free.
filealloc == {f \in F : ftable[f].count = 0 /\ \A g \in 1 .. f - 1 : ftable[g].count # 0}

Loaded(i) == [inode[i] EXCEPT !.valid = TRUE, !.size = IF inode[i].valid THEN @ ELSE disk[i]]

open(p, d, i, flags) ==
  /\ op[p].at = "idle" /\ ofile[p][d] = NONE
  /\ flags > 0 => p \in Writers
  /\ \E f \in filealloc :
       /\ ftable' = [ftable EXCEPT ![f] = [count |-> 1, inode |-> i, pos |-> 0, flags |-> flags]]
       /\ ofile' = [ofile EXCEPT ![p][d] = f]
  /\ LET ip == IF Loads THEN Loaded(i) ELSE inode[i]
     IN  inode' = [inode EXCEPT ![i] = [ip EXCEPT !.ref = @ + 1]]
  /\ UNCHANGED <<disk, op, done>>

\* argfd() for a descriptor in range.
argfd(p, d) == {ofile[p][d]} \ {NONE}

dup(p, d, e) ==
  /\ op[p].at = "idle" /\ ofile[p][e] = NONE
  /\ \E f \in argfd(p, d) :
       /\ ftable[f].count >= 1
       /\ ftable' = [ftable EXCEPT ![f].count = @ + 1]
       /\ ofile' = [ofile EXCEPT ![p][e] = f]
  /\ UNCHANGED <<inode, disk, op, done>>

\* Mutant: the inode is given back at every close.
Puts_always(f) == TRUE

\* Does this close give the inode back?
Puts(f) == ftable[f].count = 1

\* Without other references the slot may be recycled, and is not valid then.
close(p, d) ==
  /\ op[p].at = "idle"
  /\ \E f \in argfd(p, d) :
       LET i == ftable[f].inode
           ref == inode[i].ref - 1
       IN  /\ ftable[f].count >= 1
           /\ ftable' = [ftable EXCEPT ![f].count = @ - 1]
           /\ IF ~Puts(f) THEN UNCHANGED inode
              ELSE \E keeps \in {TRUE, ref # 0} :
                     inode' = [inode EXCEPT ![i].ref = ref, ![i].valid = @ /\ keeps]
  /\ ofile' = [ofile EXCEPT ![p][d] = NONE]
  /\ UNCHANGED <<disk, op, done>>

\* copy_process(), into a task that has not run: descriptors are copied, and
\* the counts of the files are not.
fork(p, q) ==
  /\ Forks /\ p # q
  /\ op[p].at = "idle" /\ op[q].at = "idle"
  /\ \A d \in FD : ofile[q][d] = NONE
  /\ ofile' = [ofile EXCEPT ![q] = ofile[p]]
  /\ UNCHANGED <<ftable, inode, disk, op, done>>

-----------------------------------------------------------------------------
(* fat32_fileread() and fat32_filewrite() *)

\* What fat32_inode_read() takes of n bytes at off.
Clamp(n, off, size) == IF off > size THEN 0 ELSE MinOf(n, size - off)

\* inode_read() or inode_write() begins, at f_pos and with the size as it is.
Enter(p, f, at, n, asked, ip) ==
  LET off == ftable[f].pos IN
  op' = [op EXCEPT ![p] = [at |-> at, f |-> f, off |-> off, asked |-> asked, size |-> ip.size,
                           n |-> IF at = "read" THEN Clamp(n, off, ip.size) ELSE n]]

fileread(p, d, n) ==
  /\ op[p].at = "idle"
  /\ \E f \in argfd(p, d) :
       LET ip == inode[ftable[f].inode] IN
       /\ F_READABLE(f)
       /\ IF ip.valid
          THEN Enter(p, f, "read", MinOf(n, ip.size), n, ip)
          ELSE op' = [op EXCEPT ![p] = [Idle EXCEPT !.at = "rlock", !.f = f, !.asked = n,
                                                    !.n = MinOf(n, ip.size)]]
  /\ UNCHANGED <<ftable, ofile, inode, disk, done>>

\* An offset beyond the end is refused.
filewrite(p, d, n) ==
  /\ op[p].at = "idle" /\ n > 0
  /\ \E f \in argfd(p, d) :
       LET ip == inode[ftable[f].inode] IN
       /\ F_WRITEABLE(f)
       /\ ftable[f].pos + n <= SizeMax
       /\ IF ip.valid
          THEN ftable[f].pos <= ip.size /\ Enter(p, f, "write", n, n, ip)
          ELSE op' = [op EXCEPT ![p] = [Idle EXCEPT !.at = "wlock", !.f = f, !.asked = n, !.n = n]]
  /\ UNCHANGED <<ftable, ofile, inode, disk, done>>

\* inode_lock() has loaded the inode.  Nothing was read or written before
\* that, so a write at f_pos is not refused.
Locked(p) ==
  LET f == op[p].f
      i == ftable[f].inode
      ip == Loaded(i)
  IN  /\ inode' = [inode EXCEPT ![i] = ip]
      /\ \/ op[p].at = "rlock" /\ Enter(p, f, "read", op[p].n, op[p].asked, ip)
         \/ op[p].at = "wlock" /\ Enter(p, f, "write", op[p].n, op[p].n, ip)
      /\ UNCHANGED <<ftable, ofile, disk, done>>

Moved(f, r) == [ftable EXCEPT ![f].pos = @ + r]

ReadEnd(p) ==
  /\ op[p].at = "read"
  /\ ftable' = Moved(op[p].f, op[p].n)
  /\ op' = [op EXCEPT ![p] = Idle]
  /\ UNCHANGED <<ofile, inode, disk, done>>

\* Mutant: the size is always where the write ended.
NewSize_end(o, size) == o.off + o.n

\* i_size at the end of inode_write(), compared with the size at its start.
NewSize(o, size) == IF o.off + o.n > o.size THEN o.off + o.n ELSE size

WriteEnd(p) ==
  LET o == op[p]
      i == ftable[o.f].inode
      size == NewSize(o, inode[i].size)
  IN  /\ o.at = "write"
      /\ inode' = [inode EXCEPT ![i].size = size]
      /\ disk' = [disk EXCEPT ![i] = size]
      /\ done' = [done EXCEPT ![i] = MaxOf(@, o.off + o.n)]
      /\ ftable' = Moved(o.f, o.n)
      /\ op' = [op EXCEPT ![p] = Idle]
      /\ UNCHANGED ofile

Use(p, d) ==
  \/ \E i \in Inodes, flags \in {0, 1, 2} : open(p, d, i, flags)
  \/ \E e \in FD : dup(p, d, e)
  \/ close(p, d)
  \/ \E n \in 0 .. CallMax : fileread(p, d, n) \/ filewrite(p, d, n)

Next ==
  \/ \E p \in Procs, d \in FD : Use(p, d)
  \/ \E p \in Procs : Locked(p) \/ ReadEnd(p) \/ WriteEnd(p)
  \/ \E p, q \in Procs : fork(p, q)

Spec == Init /\ [][Next]_vars

-----------------------------------------------------------------------------
(* Properties *)

\* Variables have their types.
TypeOK ==
  /\ ftable \in [F -> File]
  /\ ofile \in [Procs -> [FD -> F \cup {NONE}]]
  /\ inode \in [Inodes -> [ref : Nat, valid : BOOLEAN, size : Nat]]
  /\ disk \in [Inodes -> Nat]
  /\ op \in [Procs -> Op]
  /\ done \in [Inodes -> Nat]

Users(f) == {u \in Procs \X FD : ofile[u[1]][u[2]] = f}

\* f_count is the number of descriptors of a file, through open, dup and close.
CountExact == \A f \in F : ftable[f].count = Cardinality(Users(f))

\* Every open file has one reference to its inode, however often it was
\* duplicated, and generic_fileclose() gives it back with the last descriptor.
InodeRefs ==
  \A i \in Inodes :
    inode[i].ref = Cardinality({f \in F : ftable[f].count > 0 /\ ftable[f].inode = i})

\* A read or write that slept goes on at f_pos: no other call on the file came
\* in between and moved it.
ReadFromPos == \A p \in Procs : op[p].at \in {"read", "write"} => ftable[op[p].f].pos = op[p].off

\* fileread() reads n bytes from f_pos on (its comment), as far as the file goes.
ReadWhole ==
  \A p \in Procs :
    op[p].at = "read" => op[p].n = Clamp(op[p].asked, op[p].off, op[p].size)

\* What was written stays in the file: its size, in memory and on the disk,
\* covers every write that has returned, as the lock that inode_lock() is said
\* to take would make sure.
WrittenKept ==
  \A i \in Inodes : disk[i] >= done[i] /\ (inode[i].valid => inode[i].size >= done[i])

\* A read or write that sleeps works as if it did not: it goes on at f_pos, it
\* reads as far as asked and as the file goes, and what it wrote stays.
CallsWhole == TypeOK /\ ReadFromPos /\ ReadWhole /\ WrittenKept

\* generic_fileclose() closes a file when its count is down to 0 (its comment):
\* no descriptor is left then.
FilesOpen == \A p \in Procs, d \in FD : ofile[p][d] # NONE => ftable[ofile[p][d]].count > 0
=============================================================================
