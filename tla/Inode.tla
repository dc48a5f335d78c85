------------------------------- MODULE Inode -------------------------------
(***************************************************************************)
(* The table of inodes of fs/fat32_inode.c and the tasks that walk paths   *)
(* through it: inode_namex() and find_inode() of fs/ops.c and the part of  *)
(* do_execve() that works on a file.  The tree on the disk does not change *)
(* (no system call changes it).  A step goes from one sleep in bread() to  *)
(* the next.  A path is its first element and the names skepelem() takes   *)
(* from it.  Slot 0 is the root inode, which is not in the table.          *)
(***************************************************************************)
EXTENDS Naturals, Sequences, FiniteSets

CONSTANTS
  NENTRY,    \* slots of the table
  Procs,     \* the tasks
  Finders,   \* those that call find_inode() and keep what it returns
  Root,      \* the inode number of the root
  Files,     \* those of the plain files
  Dirs,      \* those of the directories
  Names,     \* the names in use, as sequences of letters
  Child,     \* <<directory, name>> -> inode number, or NONE
  Up,        \* inode number -> that of its directory
  NameOf,    \* inode number -> its name
  Paths,     \* the paths tasks use
  NONE

Inos == Files \cup Dirs

VARIABLES
  table,    \* slot -> inode
  task,     \* task -> where it is in a walk, and its current directory
  fd,       \* task -> the slot a descriptor of it refers to, or NONE
  want,     \* history: task -> the inode number the path stands for, or NONE
  ret,      \* history: task -> what inode_namex() returned
  halted    \* "no space" or another panic

vars == <<table, task, fd, want, ret, halted>>

Slots == 0 .. NENTRY

\* struct inode, with what is read from the disk: kind.
Inode == [ino : Inos, ref : Nat, valid : BOOLEAN, kind : {"dir", "file", "none"},
          parent : Slots, fname : Seq({"/"} \cup UNION {{n[i] : i \in DOMAIN n} : n \in Names})]

\* pc is where a task sleeps: in inode_lock(), before and after the fields
\* are filled in, in dirlookup(), or in the inode_read() of execve().
Task == [pc : {"idle", "load", "travel", "look", "read", "got"}, at : Slots,
         rest : Seq(Names), up : BOOLEAN, call : {"execve", "find_inode"},
         cwd : Slots, old : Slots]

\* inode_table_init(), root_inode_init(), and Init() whose directory every
\* task inherits.
Init ==
  /\ table = [s \in Slots |->
                IF s = 0
                THEN [ino |-> Root, ref |-> 1, valid |-> TRUE, kind |-> "dir",
                      parent |-> 0, fname |-> <<"/">>]
                ELSE [ino |-> Root, ref |-> 0, valid |-> FALSE, kind |-> "none",
                      parent |-> 0, fname |-> <<>>]]
  /\ task = [p \in Procs |-> [pc |-> "idle", at |-> 0, rest |-> <<>>, up |-> FALSE,
                              call |-> "execve", cwd |-> 0, old |-> 0]]
  /\ fd = [p \in Procs |-> NONE]
  /\ want = [p \in Procs |-> NONE]
  /\ ret = [p \in Procs |-> NONE]
  /\ halted = FALSE

-----------------------------------------------------------------------------
(* The table *)

dup(T, s) == [T EXCEPT ![s].ref = @ + 1]

\* Every inode in use has a link, so nothing is deleted here.
put(T, s) == [T EXCEPT ![s].ref = @ - 1]

\* Mutant: a free slot that had the inode is not looked for, nor one in use.
Hits_none(T, ino) == {}

Hits(T, ino) == {s \in 1 .. NENTRY : T[s].ref > 0 /\ T[s].ino = ino}

Free(T) == {s \in 1 .. NENTRY : T[s].ref = 0}

First(S) == {s \in S : \A t \in S : s <= t}

\* strncpy() of strlen() characters leaves the rest of the old name.
Named(old, name) == name \o SubSeq(old, Len(name) + 1, Len(old))

\* Mutant: a recycled slot stays valid.
Fresh_valid(T, s, ino, name) ==
  [ino |-> ino, ref |-> 1, valid |-> T[s].valid, kind |-> T[s].kind,
   parent |-> T[s].parent, fname |-> Named(T[s].fname, name)]

Fresh(T, s, ino, name) ==
  [ino |-> ino, ref |-> 1, valid |-> FALSE, kind |-> T[s].kind,
   parent |-> T[s].parent, fname |-> Named(T[s].fname, name)]

\* The slots inode_get() may return, and the table with s returned.
Gettable(T, ino) == IF Hits(T, ino) # {} THEN First(Hits(T, ino)) ELSE First(Free(T))

inode_get(T, s, ino, name) ==
  IF s \in Hits(T, ino) THEN dup(T, s) ELSE [T EXCEPT ![s] = Fresh(T, s, ino, name)]

-----------------------------------------------------------------------------
(* inode_namex() *)

Kind(ino) == IF ino \in Dirs THEN "dir" ELSE "file"

Go(p, T, t) ==
  /\ table' = T
  /\ task' = [task EXCEPT ![p] = t]

\* NULL is returned.  find_inode() then leaves _cwd as it has set it.
Stop(p, T, t) ==
  /\ Go(p, T, [t EXCEPT !.pc = "idle", !.at = 0, !.rest = <<>>])
  /\ ret' = [ret EXCEPT ![p] = NONE]

\* The inode t.at is returned, to execve() or find_inode().
Found(p, T, t) ==
  /\ Go(p, T, [t EXCEPT !.pc = IF t.call = "find_inode" THEN "got"
                               ELSE IF T[t.at].valid THEN "read" ELSE "load",
                        !.rest = <<>>, !.cwd = t.old])
  /\ ret' = [ret EXCEPT ![p] = T[t.at].ino]

\* The loop, after inode_lock() of t.at.
Locked(p, T, t) ==
  \/ /\ T[t.at].kind # "dir"
     /\ Stop(p, put(T, t.at), t)
  \/ /\ T[t.at].kind = "dir"
     /\ t.up /\ Len(t.rest) = 1
     /\ Found(p, T, t)
  \/ /\ T[t.at].kind = "dir"
     /\ ~(t.up /\ Len(t.rest) = 1)
     /\ Go(p, T, [t EXCEPT !.pc = "look"])
     /\ UNCHANGED ret

\* The loop, from its start.
Walk(p, T, t) ==
  \/ t.rest # <<>> /\ T[t.at].valid /\ Locked(p, T, t)
  \/ t.rest # <<>> /\ ~T[t.at].valid /\ Go(p, T, [t EXCEPT !.pc = "load"]) /\ UNCHANGED ret
  \/ t.rest = <<>> /\ t.up /\ Stop(p, put(T, t.at), t)
  \/ t.rest = <<>> /\ ~t.up /\ Found(p, T, t)

\* strncmp(path, "..", 2) compares first characters only.
Start(first, cwd) ==
  IF first = "/" THEN 0 ELSE IF first \in {".", ".."} THEN table[cwd].parent ELSE cwd

\* What a path means.
Resolve(d, names) ==
  LET at[k \in 0 .. Len(names)] ==
        IF k = 0 THEN d
        ELSE LET b == at[k - 1] IN IF b \in Dirs THEN Child[b, names[k]] ELSE NONE
  IN  at[Len(names)]

Meant(path, up, cwd) ==
  LET ino == table[cwd].ino
      d == IF path.first = "/" THEN Root ELSE IF path.first = ".." THEN Up[ino] ELSE ino
      n == Len(path.names)
      dirIno == Resolve(d, SubSeq(path.names, 1, n - 1))
  IN  IF ~up THEN Resolve(d, path.names)
      ELSE IF n > 0 /\ dirIno \in Dirs THEN dirIno ELSE NONE

inode_namex(p, path, up, call, cwd) ==
  LET s == Start(path.first, cwd) IN
  /\ task[p].pc = "idle"
  /\ want' = [want EXCEPT ![p] = Meant(path, up, cwd)]
  /\ Walk(p, dup(table, s),
          [pc |-> "idle", at |-> s, rest |-> path.names, up |-> up, call |-> call,
           cwd |-> cwd, old |-> task[p].cwd])
  /\ UNCHANGED <<fd, halted>>

execve(p, path) == inode_namex(p, path, FALSE, "execve", task[p].cwd)

find_inode(p, path, up) ==
  /\ p \in Finders
  /\ \/ inode_namex(p, path, up, "find_inode", task[p].cwd)
     \/ path.first # "/" /\ fd[p] # NONE /\ inode_namex(p, path, up, "find_inode", fd[p])

\* inode_lock(), first when the directory entry is there, then at its end.
lock_entry(p) ==
  LET s == task[p].at IN
  /\ task[p].pc = "load"
  /\ Go(p, [table EXCEPT ![s].kind = Kind(table[s].ino)], [task[p] EXCEPT !.pc = "travel"])
  /\ UNCHANGED <<fd, want, ret, halted>>

\* Mutant: the last task to load an inode waits for the others that do.
lock_end_waits(p) ==
  LET s == task[p].at
      T == [table EXCEPT ![s].valid = TRUE]
  IN  /\ task[p].pc = "travel"
      /\ \A q \in Procs \ {p} : task[q].pc = "travel" => task[q].at # s
      /\ \/ task[p].rest # <<>> /\ Locked(p, T, task[p])
         \/ task[p].rest = <<>> /\ Go(p, T, [task[p] EXCEPT !.pc = "read"]) /\ UNCHANGED ret
      /\ UNCHANGED <<fd, want, halted>>

lock_end(p) ==
  LET s == task[p].at
      T == [table EXCEPT ![s].valid = TRUE]
  IN  /\ task[p].pc = "travel"
      /\ \/ task[p].rest # <<>> /\ Locked(p, T, task[p])
         \/ task[p].rest = <<>> /\ Go(p, T, [task[p] EXCEPT !.pc = "read"]) /\ UNCHANGED ret
      /\ UNCHANGED <<fd, want, halted>>

Rest(rest) == Tail(rest)

\* dirlookup() has read the directory; the loop goes on from there.
dirlookup(p) ==
  LET t == task[p]
      name == Head(t.rest)
      ino == Child[table[t.at].ino, name]
      panics == Gettable(table, ino) = {}
  IN  /\ t.pc = "look"
      /\ \/ /\ ino = NONE
            /\ Stop(p, put(table, t.at), t)
            /\ UNCHANGED halted
         \/ /\ ino # NONE
            /\ \E s \in Gettable(table, ino) :
                 LET T == [inode_get(table, s, ino, name) EXCEPT ![s].parent = t.at]
                 IN  Walk(p, put(T, t.at), [t EXCEPT !.at = s, !.rest = Rest(t.rest)])
            /\ UNCHANGED halted
         \/ /\ ino # NONE /\ panics
            /\ halted' = TRUE
            /\ UNCHANGED <<table, task, ret>>
      /\ UNCHANGED <<fd, want>>

\* Mutant: an image that cannot be loaded leaves its inode behind.
execve_end_leaks(p) ==
  /\ task[p].pc = "read"
  /\ \E T \in {table, put(table, task[p].at)} : Go(p, T, [task[p] EXCEPT !.pc = "idle", !.at = 0])
  /\ UNCHANGED <<fd, want, ret, halted>>

\* The image is loaded, or one of the checks has led to "bad".
execve_end(p) ==
  /\ task[p].pc = "read"
  /\ Go(p, put(table, task[p].at), [task[p] EXCEPT !.pc = "idle", !.at = 0])
  /\ UNCHANGED <<fd, want, ret, halted>>

\* The caller of find_inode() keeps the inode in a descriptor or drops it, and
\* closes a descriptor.
keep(p) ==
  /\ task[p].pc = "got" /\ fd[p] = NONE
  /\ fd' = [fd EXCEPT ![p] = task[p].at]
  /\ Go(p, table, [task[p] EXCEPT !.pc = "idle", !.at = 0])
  /\ UNCHANGED <<want, ret, halted>>

drop(p) ==
  /\ task[p].pc = "got"
  /\ Go(p, put(table, task[p].at), [task[p] EXCEPT !.pc = "idle", !.at = 0])
  /\ UNCHANGED <<fd, want, ret, halted>>

close(p) ==
  /\ task[p].pc = "idle" /\ fd[p] # NONE
  /\ table' = put(table, fd[p])
  /\ fd' = [fd EXCEPT ![p] = NONE]
  /\ UNCHANGED <<task, want, ret, halted>>

\* What a task does once it is in the kernel.
Run(p) == lock_entry(p) \/ lock_end(p) \/ dirlookup(p) \/ execve_end(p) \/ keep(p) \/ drop(p)

Call(p) ==
  \/ \E path \in Paths : execve(p, path) \/ \E up \in BOOLEAN : find_inode(p, path, up)
  \/ close(p)

Next == ~halted /\ \E p \in Procs : Call(p) \/ Run(p)

Spec == Init /\ [][Next]_vars

\* The disk answers and the scheduler gives every task its turn.
FairSpec == Spec /\ \A p \in Procs : WF_vars(~halted /\ Run(p))

-----------------------------------------------------------------------------
(* Properties *)

\* Variables have their types.
TypeOK ==
  /\ table \in [Slots -> Inode]
  /\ task \in [Procs -> Task]
  /\ fd \in [Procs -> Slots \cup {NONE}]
  /\ want \in [Procs -> Inos \cup {NONE}]
  /\ ret \in [Procs -> Inos \cup {NONE}]
  /\ halted \in BOOLEAN

\* Who holds a reference to a slot.
Holders(tk, f, s) ==
  {<<p, "walk">> : p \in {q \in Procs : tk[q].pc # "idle" /\ tk[q].at = s}}
    \cup {<<p, "fd">> : p \in {q \in Procs : f[q] = s}}

\* ref is the number of references: every way out of inode_namex(),
\* dirlookup() and execve() gives back what it took, no more and no less.
\* The root has one for the current directory Init() took.
RefsExact ==
  \A s \in Slots :
    table[s].ref = Cardinality(Holders(task, fd, s)) + IF s = 0 THEN 1 ELSE 0

\* An inode is in one slot at most, whoever asks for it while another task
\* sleeps in the middle of getting or loading it.
SlotsDistinct ==
  \A s, t \in Slots : table[s].ref > 0 /\ table[t].ref > 0 /\ s # t => table[s].ino # table[t].ino

\* A task that sleeps in an inode wakes up in the same inode: valid data are
\* those of its own directory entry, however often the slot was recycled.
ValidRight ==
  \A s \in Slots :
    table[s].ref > 0 /\ table[s].valid => table[s].kind = Kind(table[s].ino)

\* inode_namex() returns the inode the path stands for, or NULL when there is
\* none, although every lookup on the way may sleep.
ResolvesRight == \A p \in Procs : task[p].pc \in {"idle", "read", "got"} => ret[p] = want[p]

\* inode_get() never runs out of slots: a walk needs two, and a descriptor one.
NeverFull == ~halted

\* Every execve() comes back from its walk, unless the table runs full.
ExecReturns == \A p \in Procs : task[p].pc # "idle" ~> task[p].pc = "idle" \/ halted

\* fname is the name of the file: inode_get() copies "the name of the
\* file/directory" to it (comment).
NameRight == \A s \in 1 .. NENTRY : table[s].ref > 0 => table[s].fname = NameOf[table[s].ino]

\* get_absolute_path() goes up by parent to a name that begins with a slash.
get_absolute_path(s) ==
  LET up[k \in 0 .. NENTRY + 1] == IF k = 0 THEN s ELSE table[up[k - 1]].parent
      n == CHOOSE k \in 0 .. NENTRY + 1 :
             /\ k = NENTRY + 1 \/ up[k] = 0
             /\ \A j \in 0 .. k - 1 : up[j] # 0
  IN  [k \in 1 .. n |-> table[up[n - k]].fname]

PathOf(ino) ==
  LET up[k \in 0 .. Cardinality(Inos)] == IF k = 0 THEN ino ELSE Up[up[k - 1]]
      n == CHOOSE k \in 0 .. Cardinality(Inos) :
             up[k] = Root /\ \A j \in 0 .. k - 1 : up[j] # Root
  IN  [k \in 1 .. n |-> NameOf[up[n - k]]]

\* It finds "the absolute path of the inode file ip points to" (comment), for
\* the inode of a descriptor.
AbsoluteRight ==
  \A p \in Procs :
    fd[p] # NONE => get_absolute_path(fd[p]) = PathOf(table[fd[p]].ino)

\* A relative path is "relative to the current path" (comment of find_inode()),
\* which no call changes: all tasks stay in the root.
CwdKept == \A p \in Procs : task[p].pc = "idle" => task[p].cwd = 0
=============================================================================
