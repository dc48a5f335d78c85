------------------------------ MODULE MCFiles ------------------------------
(* Open files and inodes for TLC.  `part' tells four instances apart: open *)
(* files of a writer and a reader, open files of tasks that fork, paths in *)
(* execve(), and paths in find_inode().                                    *)
EXTENDS Files, Sequences

VARIABLES
  part,
  kftable, kofile, kinode, kdisk, kop, kdone,   \* open files of tasks that fork
  table, task, fd, want, ret, halted            \* the table of inodes

forkVars == <<kftable, kofile, kinode, kdisk, kop, kdone>>
inodeVars == <<table, task, fd, want, ret, halted>>

K == INSTANCE Files
       WITH Forks <- TRUE, Loads <- FALSE, Writers <- {}, SizeMax <- 1, CallMax <- 1,
            ftable <- kftable, ofile <- kofile, inode <- kinode, disk <- kdisk,
            op <- kop, done <- kdone

-----------------------------------------------------------------------------
(* A tree: /a/b/c and /f, with c and f plain files *)

na == <<"a">>
nb == <<"b">>
nc == <<"c">>
nf == <<"f">>
AllNames == {na, nb, nc, nf}
AllInodes == {"/", "A", "B", "C", "F"}

Tree ==
  [x \in {"/", "A", "B"} \X AllNames |->
     CASE x = <<"/", na>> -> "A" [] x = <<"A", nb>> -> "B" [] x = <<"B", nc>> -> "C"
       [] x = <<"/", nf>> -> "F" [] OTHER -> NONE]
UpOf == [x \in AllInodes |-> CASE x = "B" -> "A" [] x = "C" -> "B" [] OTHER -> "/"]
CalledOf ==
  [x \in AllInodes |->
     CASE x = "A" -> na [] x = "B" -> nb [] x = "C" -> nc [] x = "F" -> nf [] OTHER -> <<"/">>]

Path(first, names) == [first |-> first, names |-> names]
ExecPaths ==
  {Path("/", <<na, nb, nc>>), Path("name", <<nf, na>>), Path("/", <<nf>>), Path("name", <<na, nf>>)}
FindPaths == {Path("/", <<na>>), Path("name", <<nb>>)}

E == INSTANCE Inode
       WITH NENTRY <- 2, Finders <- {}, Root <- "/", Files <- {"C", "F"},
            Dirs <- {"/", "A", "B"}, Names <- AllNames, Child <- Tree, Up <- UpOf,
            NameOf <- CalledOf, Paths <- ExecPaths
D == INSTANCE Inode
       WITH NENTRY <- 3, Finders <- Procs, Root <- "/", Files <- {"C", "F"},
            Dirs <- {"/", "A", "B"}, Names <- AllNames, Child <- Tree, Up <- UpOf,
            NameOf <- CalledOf, Paths <- FindPaths

-----------------------------------------------------------------------------
(* The parts that do not run stay in an initial state. *)

MCInit ==
  /\ part \in {"files", "forks", "exec", "find"}
  /\ Init /\ K!Init
  /\ part # "files" => \A i \in Inodes : disk[i] = 0 /\ inode[i].size = 0
  /\ part # "forks" => \A i \in Inodes : kdisk[i] = 0 /\ kinode[i].size = 0
  /\ IF part = "exec" THEN E!Init ELSE D!Init

MCNext ==
  /\ UNCHANGED part
  /\ \/ part = "files" /\ Next /\ UNCHANGED <<forkVars, inodeVars>>
     \/ part = "forks" /\ K!Next /\ UNCHANGED <<vars, inodeVars>>
     \/ part = "exec" /\ E!Next /\ UNCHANGED <<vars, forkVars>>
     \/ part = "find" /\ D!Next /\ UNCHANGED <<vars, forkVars>>

\* The disk answers and the scheduler gives every task its turn.
MCSpec ==
  /\ MCInit /\ [][MCNext]_<<part, vars, forkVars, inodeVars>>
  /\ \A p \in Procs : WF_inodeVars(part = "exec" /\ ~halted /\ E!Run(p))

-----------------------------------------------------------------------------
(* Properties, whose parts are stated and explained in Files and Inode *)

\* ref counts the references to an inode exactly: those of open files, also
\* after fork() copied the descriptors, and those of walks, on every way out.
RefsExact ==
  /\ part = "forks" => K!InodeRefs
  /\ part = "exec" => E!TypeOK /\ E!RefsExact
  /\ part = "find" => D!RefsExact

\* A walk that sleeps in every lookup ends at the inode the path stands for,
\* and the data it finds valid there are those of that inode.
ResolvesRight ==
  /\ part = "exec" => E!ResolvesRight /\ E!ValidRight
  /\ part = "find" => D!ResolvesRight

\* An inode is in one slot at most, whoever asks for it while another task
\* sleeps, so that a slot for each that tasks can hold is enough.
SlotsDistinct == part = "find" => D!SlotsDistinct /\ D!NeverFull

\* Every execve() comes back from its walk, unless the table runs full.
ExecReturns ==
  \A p \in Procs :
    part = "exec" /\ task[p].pc # "idle" ~> task[p].pc = "idle" \/ halted
=============================================================================
