----------------------------- MODULE FilesProofs -----------------------------
(***************************************************************************)
(* For any number of tasks, descriptors, files and inodes: the counts of   *)
(* files and the references of inodes are exact, and reads and writes that *)
(* sleep are whole.                                                        *)
(***************************************************************************)
EXTENDS Files, FiniteSetTheorems, TLAPS

INode == [ref : Nat, valid : BOOLEAN, size : Nat]

\* The open files of an inode.
Opens(i) == {f \in F : ftable[f].count > 0 /\ ftable[f].inode = i}

LEMMA OpensFinite == \A i : IsFiniteSet(Opens(i))
<1>1. IsFiniteSet(F)
  BY FS_Interval, FilesAssumption DEF F
<1>2. \A i : Opens(i) \in SUBSET F
  BY DEF Opens
<1> QED
  BY <1>1, <1>2, FS_Subset

LEMMA UsersFinite == \A f : IsFiniteSet(Users(f))
<1>1. IsFiniteSet(Procs \X FD)
  <2>1. IsFiniteSet(FD) /\ IsFiniteSet(Procs)
    BY FS_Interval, FilesAssumption DEF FD
  <2> QED
    BY <2>1, FS_Product
<1>2. \A f : Users(f) \in SUBSET (Procs \X FD)
  BY DEF Users
<1> QED
  BY <1>1, <1>2, FS_Subset

-----------------------------------------------------------------------------
(* Types *)

LEMMA InitTypes == Init => TypeOK
<1> SUFFICES ASSUME Init PROVE TypeOK
  OBVIOUS
<1>1. (CHOOSE j \in Inodes : TRUE) \in Inodes
  BY FilesAssumption
<1>2. ftable \in [F -> File]
  BY <1>1 DEF Init, File
<1>3. inode \in [Inodes -> INode]
  BY FilesAssumption DEF Init, INode
<1>4. disk \in [Inodes -> Nat]
  BY FilesAssumption DEF Init
<1>5. op \in [Procs -> Op]
  BY FilesAssumption DEF Init, Idle, Op, F
<1> QED
  BY <1>2, <1>3, <1>4, <1>5 DEF Init, TypeOK, INode

\* A call begins at the position of its file.
LEMMA EnterTypes ==
  ASSUME TypeOK, NEW p \in Procs, NEW f \in F, NEW at \in {"read", "write"},
         NEW n \in Nat, NEW asked \in Nat, NEW ip \in INode, Enter(p, f, at, n, asked, ip)
  PROVE  op' \in [Procs -> Op]
<1>1. ftable[f].pos \in Nat /\ ip.size \in Nat
  BY DEF TypeOK, File, INode
<1>2. Clamp(n, ftable[f].pos, ip.size) \in Nat
  BY <1>1 DEF Clamp, MinOf
<1> DEFINE o == [at |-> at, f |-> f, off |-> ftable[f].pos, asked |-> asked, size |-> ip.size,
                 n |-> IF at = "read" THEN Clamp(n, ftable[f].pos, ip.size) ELSE n]
<1>3. o \in Op
  BY <1>1, <1>2 DEF Op
<1>4. op' = [op EXCEPT ![p] = o]
  BY DEF Enter
<1> QED
  BY <1>3, <1>4 DEF TypeOK

LEMMA LoadedIs ==
  ASSUME TypeOK, NEW i \in Inodes
  PROVE  Loaded(i) \in INode /\ Loaded(i).ref = inode[i].ref
BY Zenon DEF TypeOK, Loaded, INode

LEMMA openTypes ==
  ASSUME TypeOK, NEW p \in Procs, NEW d \in FD, NEW i \in Inodes, NEW flags \in {0, 1, 2},
         open(p, d, i, flags)
  PROVE  /\ TypeOK'
         /\ \E f \in filealloc :
              /\ ftable' = [ftable EXCEPT ![f] = [count |-> 1, inode |-> i, pos |-> 0, flags |-> flags]]
              /\ ofile' = [ofile EXCEPT ![p][d] = f]
         /\ \A j \in Inodes : inode'[j].ref = IF j = i THEN inode[i].ref + 1 ELSE inode[j].ref
<1> DEFINE ip == IF Loads THEN Loaded(i) ELSE inode[i]
<1>1. ip \in INode /\ ip.ref = inode[i].ref
  BY LoadedIs DEF TypeOK, INode
<1>2. inode' = [inode EXCEPT ![i] = [ip EXCEPT !.ref = @ + 1]]
  BY DEF open
<1> HIDE DEF ip
<1>3. [ip EXCEPT !.ref = @ + 1] \in INode /\ [ip EXCEPT !.ref = @ + 1].ref = inode[i].ref + 1
  BY <1>1 DEF INode
<1>4. /\ inode' \in [Inodes -> INode]
      /\ \A j \in Inodes : inode'[j].ref = IF j = i THEN inode[i].ref + 1 ELSE inode[j].ref
  BY <1>2, <1>3 DEF TypeOK, INode
<1>5. PICK f \in filealloc :
        /\ ftable' = [ftable EXCEPT ![f] = [count |-> 1, inode |-> i, pos |-> 0, flags |-> flags]]
        /\ ofile' = [ofile EXCEPT ![p][d] = f]
  BY Zenon DEF open
<1>6. f \in F
  BY DEF filealloc
<1>7. ftable' \in [F -> File]
  BY <1>5, <1>6 DEF TypeOK, File
<1>8. ofile' \in [Procs -> [FD -> F \cup {NONE}]]
  BY <1>5, <1>6 DEF TypeOK
<1>9. disk' = disk /\ op' = op /\ done' = done
  BY DEF open
<1> QED
  BY <1>4, <1>5, <1>7, <1>8, <1>9, Zenon DEF TypeOK, INode

\* A descriptor that is in use has a file.
LEMMA argfdIs ==
  ASSUME TypeOK, NEW p \in Procs, NEW d \in FD
  PROVE  \A f \in argfd(p, d) : f \in F /\ ofile[p][d] = f
<1>1. ofile[p][d] \in F \cup {NONE}
  BY DEF TypeOK
<1> QED
  BY <1>1 DEF argfd

LEMMA CountTypes ==
  ASSUME NEW t \in [F -> File], NEW f \in F, NEW n \in Nat
  PROVE  /\ [t EXCEPT ![f].count = n] \in [F -> File]
         /\ [t EXCEPT ![f].count = n][f].count = n
         /\ [t EXCEPT ![f].count = n][f].inode = t[f].inode
         /\ \A g \in F : g # f => [t EXCEPT ![f].count = n][g] = t[g]
BY DEF File

LEMMA dupTypes ==
  ASSUME TypeOK, NEW p \in Procs, NEW d \in FD, NEW e \in FD, dup(p, d, e)
  PROVE  /\ TypeOK'
         /\ \E f \in F : /\ ftable[f].count >= 1
                         /\ ftable' = [ftable EXCEPT ![f].count = ftable[f].count + 1]
                         /\ ofile' = [ofile EXCEPT ![p][e] = f]
<1>1. PICK f \in argfd(p, d) :
        /\ ftable[f].count >= 1
        /\ ftable' = [ftable EXCEPT ![f].count = ftable[f].count + 1]
        /\ ofile' = [ofile EXCEPT ![p][e] = f]
  BY Zenon DEF dup
<1>2. f \in F
  BY argfdIs
<1>3. ftable \in [F -> File] /\ ftable[f].count + 1 \in Nat
  BY <1>2 DEF TypeOK, File
<1>4. ftable' \in [F -> File]
  BY <1>1, <1>2, <1>3, CountTypes
<1>5. ofile' \in [Procs -> [FD -> F \cup {NONE}]]
  BY <1>1, <1>2 DEF TypeOK
<1>6. inode' = inode /\ disk' = disk /\ op' = op /\ done' = done
  BY DEF dup
<1> QED
  BY <1>1, <1>2, <1>4, <1>5, <1>6, Zenon DEF TypeOK

\* The inode of f, after a close of f.
GivenBack(f) ==
  LET i == ftable[f].inode IN
  IF ftable[f].count # 1 THEN inode' = inode
  ELSE \E keeps \in BOOLEAN :
         inode' = [inode EXCEPT ![i].ref = inode[i].ref - 1, ![i].valid = inode[i].valid /\ keeps]

LEMMA closeTypes ==
  ASSUME TypeOK, NEW p \in Procs, NEW d \in FD, close(p, d)
  PROVE  /\ ftable' \in [F -> File] /\ ofile' \in [Procs -> [FD -> F \cup {NONE}]]
         /\ disk' = disk /\ op' = op /\ done' = done
         /\ \E f \in F : /\ ftable[f].count >= 1 /\ ofile[p][d] = f
                         /\ ftable' = [ftable EXCEPT ![f].count = ftable[f].count - 1]
                         /\ GivenBack(f)
<1>1. PICK f \in argfd(p, d) :
        /\ ftable[f].count >= 1
        /\ ftable' = [ftable EXCEPT ![f].count = ftable[f].count - 1]
        /\ GivenBack(f)
  BY Zenon DEF close, Puts, GivenBack
<1>2. f \in F /\ ofile[p][d] = f
  BY argfdIs
<1>3. ftable \in [F -> File] /\ ftable[f].count - 1 \in Nat
  BY <1>1, <1>2 DEF TypeOK, File
<1>4. ftable' \in [F -> File]
  BY <1>1, <1>2, <1>3, CountTypes
<1>5. /\ ofile' = [ofile EXCEPT ![p][d] = NONE]
      /\ disk' = disk /\ op' = op /\ done' = done
  BY DEF close
<1>6. ofile' \in [Procs -> [FD -> F \cup {NONE}]]
  BY <1>5 DEF TypeOK
<1> QED
  BY <1>1, <1>2, <1>4, <1>5, <1>6, Zenon

\* Reading, writing and fork() leave the counts and the references alone.
Quiet ==
  /\ \A f \in F : ftable'[f].count = ftable[f].count /\ ftable'[f].inode = ftable[f].inode
  /\ \A i \in Inodes : inode'[i].ref = inode[i].ref

LEMMA readTypes ==
  ASSUME TypeOK, NEW p \in Procs, NEW d \in FD, NEW n \in 0 .. CallMax, fileread(p, d, n)
  PROVE  TypeOK' /\ Quiet /\ ofile' = ofile
<1>1. ftable' = ftable /\ ofile' = ofile /\ inode' = inode /\ disk' = disk /\ done' = done
  BY DEF fileread
<1>2. PICK f \in argfd(p, d) :
        LET ip == inode[ftable[f].inode] IN
        IF ip.valid
        THEN Enter(p, f, "read", MinOf(n, ip.size), n, ip)
        ELSE op' = [op EXCEPT ![p] = [Idle EXCEPT !.at = "rlock", !.f = f, !.asked = n,
                                                  !.n = MinOf(n, ip.size)]]
  BY DEF fileread
<1>3. f \in F /\ n \in Nat
  BY argfdIs, FilesAssumption
<1>4. inode[ftable[f].inode] \in INode
  BY <1>3 DEF TypeOK, File, INode
<1> DEFINE ip == inode[ftable[f].inode]
<1>5. MinOf(n, ip.size) \in Nat
  BY <1>3, <1>4 DEF MinOf, INode
<1>6. CASE ip.valid
  <2>1. op' \in [Procs -> Op]
    BY <1>2, <1>3, <1>4, <1>5, <1>6, EnterTypes
  <2> QED
    BY <1>1, <2>1 DEF TypeOK, Quiet
<1>7. CASE ~ip.valid
  <2>1. [Idle EXCEPT !.at = "rlock", !.f = f, !.asked = n, !.n = MinOf(n, ip.size)] \in Op
    BY <1>3, <1>5, Zenon DEF Idle, Op
  <2>2. op' \in [Procs -> Op]
    BY <1>2, <1>7, <2>1 DEF TypeOK
  <2> QED
    BY <1>1, <2>2 DEF TypeOK, Quiet
<1> QED
  BY <1>6, <1>7

LEMMA writeTypes ==
  ASSUME TypeOK, NEW p \in Procs, NEW d \in FD, NEW n \in 0 .. CallMax, filewrite(p, d, n)
  PROVE  TypeOK' /\ Quiet /\ ofile' = ofile
<1>1. ftable' = ftable /\ ofile' = ofile /\ inode' = inode /\ disk' = disk /\ done' = done
  BY DEF filewrite
<1>2. PICK f \in argfd(p, d) :
        LET ip == inode[ftable[f].inode] IN
        IF ip.valid
        THEN Enter(p, f, "write", n, n, ip)
        ELSE op' = [op EXCEPT ![p] = [Idle EXCEPT !.at = "wlock", !.f = f, !.asked = n, !.n = n]]
  BY DEF filewrite
<1>3. f \in F /\ n \in Nat
  BY argfdIs, FilesAssumption
<1> DEFINE ip == inode[ftable[f].inode]
<1>4. ip \in INode
  BY <1>3 DEF TypeOK, File, INode
<1>5. CASE ip.valid
  <2>1. op' \in [Procs -> Op]
    BY <1>2, <1>3, <1>4, <1>5, EnterTypes
  <2> QED
    BY <1>1, <2>1 DEF TypeOK, Quiet
<1>6. CASE ~ip.valid
  <2>1. [Idle EXCEPT !.at = "wlock", !.f = f, !.asked = n, !.n = n] \in Op
    BY <1>3, Zenon DEF Idle, Op
  <2>2. op' \in [Procs -> Op]
    BY <1>2, <1>6, <2>1 DEF TypeOK
  <2> QED
    BY <1>1, <2>2 DEF TypeOK, Quiet
<1> QED
  BY <1>5, <1>6

LEMMA LockedTypes ==
  ASSUME TypeOK, NEW p \in Procs, Locked(p)
  PROVE  TypeOK' /\ Quiet /\ ofile' = ofile
<1> DEFINE f == op[p].f
           i == ftable[f].inode
<1>1. f \in F /\ op[p].n \in Nat /\ op[p].asked \in Nat
  BY DEF TypeOK, Op
<1>2. i \in Inodes
  BY <1>1 DEF TypeOK, File
<1>3. Loaded(i) \in INode /\ Loaded(i).ref = inode[i].ref
  BY <1>2, LoadedIs
<1>4. /\ inode' = [inode EXCEPT ![i] = Loaded(i)]
      /\ ftable' = ftable /\ ofile' = ofile /\ disk' = disk /\ done' = done
      /\ \/ Enter(p, f, "read", op[p].n, op[p].asked, Loaded(i))
         \/ Enter(p, f, "write", op[p].n, op[p].n, Loaded(i))
  BY DEF Locked
<1>5. inode' \in [Inodes -> INode] /\ \A j \in Inodes : inode'[j].ref = inode[j].ref
  BY <1>2, <1>3, <1>4 DEF TypeOK, INode
<1>6. op' \in [Procs -> Op]
  BY <1>1, <1>3, <1>4, EnterTypes
<1> QED
  BY <1>4, <1>5, <1>6 DEF TypeOK, Quiet, INode

LEMMA MovedTypes ==
  ASSUME TypeOK, NEW f \in F, NEW r \in Nat
  PROVE  /\ Moved(f, r) \in [F -> File]
         /\ \A g \in F : /\ Moved(f, r)[g].count = ftable[g].count
                         /\ Moved(f, r)[g].inode = ftable[g].inode
<1>1. ftable \in [F -> File] /\ ftable[f].pos + r \in Nat
  BY DEF TypeOK, File
<1>2. Moved(f, r) = [ftable EXCEPT ![f].pos = ftable[f].pos + r]
  BY DEF Moved
<1>3. Moved(f, r) \in [F -> File]
  BY <1>1, <1>2 DEF File
<1> QED
  BY <1>1, <1>2, <1>3 DEF File

LEMMA EndTypes ==
  ASSUME TypeOK, NEW p \in Procs, ReadEnd(p) \/ WriteEnd(p)
  PROVE  TypeOK' /\ Quiet /\ ofile' = ofile
<1> DEFINE o == op[p]
           i == ftable[o.f].inode
           size == NewSize(o, inode[i].size)
<1>1. o.f \in F /\ o.n \in Nat /\ o.off \in Nat
  BY DEF TypeOK, Op
<1>2. i \in Inodes
  BY <1>1 DEF TypeOK, File
<1>3. Idle \in Op
  BY FilesAssumption DEF Idle, Op, F
<1>4. /\ op' = [op EXCEPT ![p] = Idle] /\ ofile' = ofile /\ ftable' = Moved(o.f, o.n)
  BY DEF ReadEnd, WriteEnd
<1>5. op' \in [Procs -> Op]
  BY <1>3, <1>4 DEF TypeOK
<1>6. size \in Nat /\ MaxOf(done[i], o.off + o.n) \in Nat
  BY <1>1, <1>2 DEF NewSize, MaxOf, TypeOK
<1>7. CASE ReadEnd(p)
  <2>1. inode' = inode /\ disk' = disk /\ done' = done
    BY <1>7 DEF ReadEnd
  <2> QED
    BY <1>1, <1>4, <1>5, <2>1, MovedTypes DEF TypeOK, Quiet
<1>8. CASE WriteEnd(p)
  <2>1. /\ inode' = [inode EXCEPT ![i].size = size]
        /\ disk' = [disk EXCEPT ![i] = size]
        /\ done' = [done EXCEPT ![i] = MaxOf(done[i], o.off + o.n)]
    BY <1>8 DEF WriteEnd
  <2> HIDE DEF size
  <2>2. inode' \in [Inodes -> INode] /\ \A j \in Inodes : inode'[j].ref = inode[j].ref
    BY <1>2, <1>6, <2>1 DEF TypeOK, INode
  <2>3. disk' \in [Inodes -> Nat] /\ done' \in [Inodes -> Nat]
    BY <1>2, <1>6, <2>1 DEF TypeOK
  <2> QED
    BY <1>1, <1>4, <1>5, <2>2, <2>3, MovedTypes DEF TypeOK, Quiet, INode
<1> QED
  BY <1>7, <1>8

LEMMA forkTypes ==
  ASSUME TypeOK, NEW p \in Procs, NEW q \in Procs, fork(p, q)
  PROVE  TypeOK' /\ Quiet
BY DEF fork, TypeOK, Quiet

-----------------------------------------------------------------------------
(* References of inodes *)

RefInv == TypeOK /\ InodeRefs

LEMMA InitRefs == Init => RefInv
<1> SUFFICES ASSUME Init PROVE RefInv
  OBVIOUS
<1>1. \A i : Opens(i) = {}
  BY DEF Init, Opens
<1>2. \A i \in Inodes : inode[i].ref = 0
  BY DEF Init
<1>3. InodeRefs
  BY <1>1, <1>2, FS_EmptySet DEF InodeRefs, Opens
<1> QED
  BY <1>3, InitTypes DEF RefInv

\* The last descriptor of a file gives its reference back, the others keep it.
LEMMA closeRefs ==
  ASSUME RefInv, NEW p \in Procs, NEW d \in FD, close(p, d)
  PROVE  RefInv'
<1>1. TypeOK /\ \A j \in Inodes : inode[j].ref = Cardinality(Opens(j))
  BY DEF RefInv, InodeRefs, Opens
<1>2. PICK f \in F :
        /\ ftable[f].count >= 1
        /\ ftable' = [ftable EXCEPT ![f].count = ftable[f].count - 1]
        /\ GivenBack(f)
  BY <1>1, closeTypes, Zenon
<1>3. PICK i \in Inodes : i = ftable[f].inode /\ ftable[f].count \in Nat
  BY <1>1 DEF TypeOK, File
<1>4. /\ ftable'[f].count = ftable[f].count - 1 /\ ftable'[f].inode = i
      /\ \A g \in F : g # f => ftable'[g] = ftable[g]
  BY <1>1, <1>2, <1>3, CountTypes DEF TypeOK
<1>5. CASE ftable[f].count # 1
  <2>1. \A j \in Inodes : Opens(j)' = Opens(j)
    BY <1>2, <1>3, <1>4, <1>5 DEF Opens
  <2> QED
    BY <1>1, <1>2, <1>5, <2>1, closeTypes, Zenon DEF RefInv, InodeRefs, Opens, TypeOK, GivenBack
<1>6. CASE ftable[f].count = 1
  <2>1. Opens(i)' = Opens(i) \ {f} /\ \A j \in Inodes : j # i => Opens(j)' = Opens(j)
    BY <1>3, <1>4, <1>6 DEF Opens
  <2>2. f \in Opens(i)
    BY <1>3, <1>6 DEF Opens
  <2>3. Cardinality(Opens(i)) \in Nat /\ Cardinality(Opens(i)) # 0
    BY <2>2, OpensFinite, FS_CardinalityType, FS_EmptySet
  <2>4. Cardinality(Opens(i) \ {f}) = Cardinality(Opens(i)) - 1
    BY <2>2, OpensFinite, FS_RemoveElement, Zenon
  <2>5. PICK keeps \in BOOLEAN :
          inode' = [inode EXCEPT ![i].ref = inode[i].ref - 1, ![i].valid = inode[i].valid /\ keeps]
    BY <1>2, <1>3, <1>6 DEF GivenBack
  <2>6. inode \in [Inodes -> INode] /\ inode[i].ref - 1 \in Nat /\ (inode[i].valid /\ keeps) \in BOOLEAN
    BY <1>1, <1>3, <2>3 DEF TypeOK, INode
  <2>7. inode' \in [Inodes -> INode]
    BY <1>3, <2>5, <2>6 DEF INode
  <2>8. \A j \in Inodes : inode'[j].ref = IF j = i THEN inode[i].ref - 1 ELSE inode[j].ref
    BY <1>3, <2>5, <2>6 DEF INode
  <2>9. \A j \in Inodes : inode'[j].ref = Cardinality(Opens(j)')
    BY <1>1, <1>3, <2>1, <2>4, <2>8, Zenon
  <2>10. InodeRefs'
    BY <2>9 DEF InodeRefs, Opens
  <2> QED
    BY <1>1, <2>7, <2>10, closeTypes DEF RefInv, TypeOK, INode
<1> QED
  BY <1>5, <1>6

LEMMA openRefs ==
  ASSUME RefInv, NEW p \in Procs, NEW d \in FD, NEW i \in Inodes, NEW flags \in {0, 1, 2},
         open(p, d, i, flags)
  PROVE  RefInv'
<1>1. TypeOK /\ \A j \in Inodes : inode[j].ref = Cardinality(Opens(j))
  BY Zenon DEF RefInv, InodeRefs, Opens
<1>2. /\ TypeOK'
      /\ \A j \in Inodes : inode'[j].ref = IF j = i THEN inode[i].ref + 1 ELSE inode[j].ref
  BY <1>1, openTypes
<1>3. PICK f \in filealloc :
        ftable' = [ftable EXCEPT ![f] = [count |-> 1, inode |-> i, pos |-> 0, flags |-> flags]]
  BY <1>1, openTypes
<1>4. f \in F /\ ftable[f].count = 0
  BY DEF filealloc
<1>5. /\ ftable'[f].count = 1 /\ ftable'[f].inode = i
      /\ \A g \in F : g # f => ftable'[g] = ftable[g]
  BY <1>1, <1>3, <1>4 DEF TypeOK
<1>6. Opens(i)' = Opens(i) \cup {f} /\ \A j \in Inodes : j # i => Opens(j)' = Opens(j)
  BY <1>4, <1>5 DEF Opens
<1>7. f \notin Opens(i)
  BY <1>4 DEF Opens
<1>8. Cardinality(Opens(i) \cup {f}) = Cardinality(Opens(i)) + 1
  BY <1>7, OpensFinite, FS_AddElement, Zenon
<1>9. \A j \in Inodes : inode'[j].ref = Cardinality(Opens(j)')
  BY <1>1, <1>2, <1>6, <1>8, Zenon
<1> QED
  BY <1>2, <1>9, Zenon DEF RefInv, InodeRefs, Opens

LEMMA QuietRefs == ASSUME InodeRefs, Quiet PROVE InodeRefs'
<1>1. \A j \in Inodes : inode[j].ref = Cardinality(Opens(j))
  BY DEF InodeRefs, Opens
<1>2. \A j \in Inodes : Opens(j)' = Opens(j)
  BY DEF Quiet, Opens
<1>3. \A j \in Inodes : inode'[j].ref = Cardinality(Opens(j)')
  BY <1>1, <1>2 DEF Quiet
<1> QED
  BY <1>3 DEF InodeRefs, Opens

LEMMA dupRefs ==
  ASSUME RefInv, NEW p \in Procs, NEW d \in FD, NEW e \in FD, dup(p, d, e)
  PROVE  RefInv'
<1>1. TypeOK /\ TypeOK' /\ inode' = inode
  <2>1. TypeOK
    BY DEF RefInv
  <2> QED
    <3>1. TypeOK'
      BY <2>1, dupTypes
    <3>2. inode' = inode
      BY DEF dup
    <3> QED
      BY <2>1, <3>1, <3>2
<1>2. PICK f \in F : /\ ftable[f].count >= 1
                     /\ ftable' = [ftable EXCEPT ![f].count = ftable[f].count + 1]
  BY <1>1, dupTypes
<1>3. ftable[f].count \in Nat
  BY <1>1 DEF TypeOK, File
<1>4. /\ ftable'[f].count = ftable[f].count + 1 /\ ftable'[f].inode = ftable[f].inode
      /\ \A g \in F : g # f => ftable'[g] = ftable[g]
  BY <1>1, <1>2, <1>3, CountTypes DEF TypeOK
<1>5. \A j \in Inodes : Opens(j)' = Opens(j)
  BY <1>2, <1>3, <1>4 DEF Opens
<1>6. \A j \in Inodes : inode'[j].ref = Cardinality(Opens(j)')
  BY <1>1, <1>5 DEF RefInv, InodeRefs, Opens
<1> QED
  BY <1>1, <1>6 DEF RefInv, InodeRefs, Opens

LEMMA NextRefs == RefInv /\ [Next]_vars => RefInv'
<1> SUFFICES ASSUME RefInv, [Next]_vars PROVE RefInv'
  OBVIOUS
<1>1. TypeOK /\ InodeRefs
  BY DEF RefInv
<1>2. CASE UNCHANGED vars
  BY <1>1, <1>2 DEF RefInv, TypeOK, InodeRefs, vars
<1>3. ASSUME NEW p \in Procs, NEW d \in FD, Use(p, d) PROVE RefInv'
  <2>1. ASSUME NEW n \in 0 .. CallMax, fileread(p, d, n) \/ filewrite(p, d, n) PROVE RefInv'
    BY <1>1, <2>1, readTypes, writeTypes, QuietRefs DEF RefInv
  <2> QED
    BY <1>3, <2>1, openRefs, dupRefs, closeRefs DEF Use
<1>4. ASSUME NEW p \in Procs, Locked(p) \/ ReadEnd(p) \/ WriteEnd(p) PROVE RefInv'
  BY <1>1, <1>4, LockedTypes, EndTypes, QuietRefs DEF RefInv
<1>5. ASSUME NEW p \in Procs, NEW q \in Procs, fork(p, q) PROVE RefInv'
  BY <1>1, <1>5, forkTypes, QuietRefs DEF RefInv
<1> QED
  BY <1>2, <1>3, <1>4, <1>5 DEF Next

\* Type correctness: no count and no reference goes below zero, also after a
\* fork() that copied descriptors and not their counts.
THEOREM FilesTypes == Spec => []TypeOK
<1>1. RefInv => TypeOK
  BY DEF RefInv
<1> QED
  BY <1>1, InitRefs, NextRefs, PTL DEF Spec

\* An inode has as many references as it has open files, however often they
\* were duplicated, forked and closed.
THEOREM InodeRefsExact == Spec => []InodeRefs
<1>1. RefInv => InodeRefs
  BY DEF RefInv
<1> QED
  BY <1>1, InitRefs, NextRefs, PTL DEF Spec

-----------------------------------------------------------------------------
(* Counts of files, while no task forks *)

LEMMA InitCounts == Init => CountExact
<1> SUFFICES ASSUME Init PROVE CountExact
  OBVIOUS
<1>1. \A f \in F : Users(f) = {}
  BY FilesAssumption DEF Init, Users, F
<1>2. \A f \in F : ftable[f].count = 0
  BY DEF Init
<1> QED
  BY <1>1, <1>2, FS_EmptySet DEF CountExact

\* A descriptor that was free, or becomes free, changes the users of one file.
LEMMA UsersWith ==
  ASSUME TypeOK, NEW p \in Procs, NEW d \in FD, NEW f \in F, ofile[p][d] = NONE,
         ofile' = [ofile EXCEPT ![p][d] = f]
  PROVE  /\ Users(f)' = Users(f) \cup {<<p, d>>} /\ <<p, d>> \notin Users(f)
         /\ \A g \in F : g # f => Users(g)' = Users(g)
<1>1. \A q \in Procs, e \in FD : ofile'[q][e] = IF q = p /\ e = d THEN f ELSE ofile[q][e]
  BY DEF TypeOK
<1>2. NONE \notin F
  BY FilesAssumption DEF F
<1>3. \A u \in Procs \X FD :
        /\ u[1] \in Procs /\ u[2] \in FD
        /\ (u[1] = p /\ u[2] = d) <=> u = <<p, d>>
  OBVIOUS
<1>4. <<p, d>> \in Procs \X FD
  OBVIOUS
<1> QED
  BY <1>1, <1>2, <1>3, <1>4 DEF Users

LEMMA UsersWithout ==
  ASSUME TypeOK, NEW p \in Procs, NEW d \in FD, NEW f \in F, ofile[p][d] = f,
         ofile' = [ofile EXCEPT ![p][d] = NONE]
  PROVE  /\ Users(f)' = Users(f) \ {<<p, d>>} /\ <<p, d>> \in Users(f)
         /\ \A g \in F : g # f => Users(g)' = Users(g)
<1>1. \A q \in Procs, e \in FD : ofile'[q][e] = IF q = p /\ e = d THEN NONE ELSE ofile[q][e]
  BY DEF TypeOK
<1>2. NONE \notin F
  BY FilesAssumption DEF F
<1>3. \A u \in Procs \X FD :
        /\ u[1] \in Procs /\ u[2] \in FD
        /\ (u[1] = p /\ u[2] = d) <=> u = <<p, d>>
  OBVIOUS
<1>4. <<p, d>> \in Procs \X FD
  OBVIOUS
<1> QED
  BY <1>1, <1>2, <1>3, <1>4 DEF Users

LEMMA openCounts ==
  ASSUME TypeOK, CountExact, NEW p \in Procs, NEW d \in FD, NEW i \in Inodes,
         NEW flags \in {0, 1, 2}, open(p, d, i, flags)
  PROVE  CountExact'
<1>1. PICK f \in filealloc :
        /\ ftable' = [ftable EXCEPT ![f] = [count |-> 1, inode |-> i, pos |-> 0, flags |-> flags]]
        /\ ofile' = [ofile EXCEPT ![p][d] = f]
  BY openTypes
<1>2. f \in F /\ ftable[f].count = 0 /\ ofile[p][d] = NONE
  BY DEF filealloc, open
<1>3. Cardinality(Users(f)) = 0
  BY <1>2 DEF CountExact
<1>4. /\ ftable'[f].count = 1
      /\ \A g \in F : g # f => ftable'[g] = ftable[g]
  <2>1. ftable \in [F -> File]
    BY DEF TypeOK
  <2> QED
    BY <1>1, <1>2, <2>1
<1>5. /\ Users(f)' = Users(f) \cup {<<p, d>>} /\ <<p, d>> \notin Users(f)
      /\ \A g \in F : g # f => Users(g)' = Users(g)
  <2>1. ofile' = [ofile EXCEPT ![p][d] = f] /\ ofile[p][d] = NONE /\ f \in F
    BY <1>1, <1>2
  <2> QED
    BY <2>1, UsersWith, Zenon
<1>6. IsFiniteSet(Users(f))
  BY <1>2, UsersFinite
<1>7. Cardinality(Users(f) \cup {<<p, d>>}) = Cardinality(Users(f)) + 1
  BY <1>5, <1>6, FS_AddElement, Zenon
<1>8. Cardinality(Users(f)') = 1
  BY <1>3, <1>5, <1>7
<1> QED
  BY <1>4, <1>5, <1>8 DEF CountExact

LEMMA dupCounts ==
  ASSUME TypeOK, CountExact, NEW p \in Procs, NEW d \in FD, NEW e \in FD, dup(p, d, e)
  PROVE  CountExact'
<1>1. PICK f \in F : /\ ftable' = [ftable EXCEPT ![f].count = ftable[f].count + 1]
                     /\ ofile' = [ofile EXCEPT ![p][e] = f]
  BY dupTypes
<1>2. ofile[p][e] = NONE /\ ftable[f].count \in Nat
  BY DEF dup, TypeOK, File
<1>3. /\ ftable'[f].count = ftable[f].count + 1
      /\ \A g \in F : g # f => ftable'[g] = ftable[g]
  BY <1>1, <1>2, CountTypes DEF TypeOK
<1>4. /\ Users(f)' = Users(f) \cup {<<p, e>>} /\ <<p, e>> \notin Users(f)
      /\ \A g \in F : g # f => Users(g)' = Users(g)
  BY <1>1, <1>2, UsersWith, Zenon
<1>5. IsFiniteSet(Users(f))
  BY UsersFinite
<1>6. Cardinality(Users(f) \cup {<<p, e>>}) = Cardinality(Users(f)) + 1
  BY <1>4, <1>5, FS_AddElement, Zenon
<1> QED
  BY <1>3, <1>4, <1>6 DEF CountExact

LEMMA closeCounts ==
  ASSUME TypeOK, CountExact, NEW p \in Procs, NEW d \in FD, close(p, d)
  PROVE  CountExact'
<1>1. PICK f \in F : /\ ftable[f].count >= 1 /\ ofile[p][d] = f
                     /\ ftable' = [ftable EXCEPT ![f].count = ftable[f].count - 1]
                     /\ GivenBack(f)
  BY closeTypes, Zenon
<1>2. ftable[f].count \in Nat /\ ftable[f].count - 1 \in Nat
  BY <1>1 DEF TypeOK, File
<1>3. /\ ftable'[f].count = ftable[f].count - 1
      /\ \A g \in F : g # f => ftable'[g] = ftable[g]
  BY <1>1, <1>2, CountTypes DEF TypeOK
<1>4. /\ Users(f)' = Users(f) \ {<<p, d>>} /\ <<p, d>> \in Users(f)
      /\ \A g \in F : g # f => Users(g)' = Users(g)
  <2>1. ofile' = [ofile EXCEPT ![p][d] = NONE]
    BY DEF close
  <2> QED
    BY <1>1, <2>1, UsersWithout, Zenon
<1>5. IsFiniteSet(Users(f))
  BY UsersFinite
<1>6. Cardinality(Users(f) \ {<<p, d>>}) = Cardinality(Users(f)) - 1
  BY <1>4, <1>5, FS_RemoveElement, Zenon
<1> QED
  BY <1>3, <1>4, <1>6 DEF CountExact

LEMMA NextCounts ==
  ASSUME Forks = FALSE, RefInv, CountExact, [Next]_vars
  PROVE  CountExact'
<1>1. TypeOK
  BY DEF RefInv
<1>2. CASE UNCHANGED vars
  BY <1>2 DEF CountExact, Users, vars
<1>3. ASSUME Quiet, ofile' = ofile PROVE CountExact'
  BY <1>3 DEF CountExact, Users, Quiet
<1>4. ASSUME NEW p \in Procs, NEW d \in FD, Use(p, d) PROVE CountExact'
  <2>1. ASSUME NEW n \in 0 .. CallMax, fileread(p, d, n) \/ filewrite(p, d, n) PROVE CountExact'
    BY <1>1, <1>3, <2>1, readTypes, writeTypes
  <2> QED
    BY <1>1, <1>4, <2>1, openCounts, dupCounts, closeCounts DEF Use
<1>5. ASSUME NEW p \in Procs, Locked(p) \/ ReadEnd(p) \/ WriteEnd(p) PROVE CountExact'
  BY <1>1, <1>3, <1>5, LockedTypes, EndTypes
<1>6. \A p, q \in Procs : ~fork(p, q)
  BY DEF fork
<1> QED
  BY <1>2, <1>4, <1>5, <1>6 DEF Next

\* While no task forks, f_count is the number of descriptors of a file, for any
\* number of tasks that open, duplicate and close.
THEOREM CountsExact == Forks = FALSE /\ Spec => []CountExact
<1> DEFINE CountInv == Forks = FALSE /\ RefInv /\ CountExact
<1>1. Forks = FALSE /\ Init => CountInv
  BY InitRefs, InitCounts
<1>2. CountInv /\ [Next]_vars => CountInv'
  BY NextRefs, NextCounts
<1>3. CountInv => CountExact
  OBVIOUS
<1> HIDE DEF CountInv
<1> QED
  BY <1>1, <1>2, <1>3, PTL DEF Spec

-----------------------------------------------------------------------------
(* Calls that sleep, while no task forks, inodes are loaded before they are
   opened, and one task writes. *)

OneWriter == \A p, q \in Writers : p = q

\* The descriptors of a file belong to one task, and those of a file that is
\* open for writing to the writer.
Owned ==
  /\ \A p, q \in Procs, d, e \in FD : ofile[p][d] = ofile[q][e] /\ ofile[p][d] # NONE => p = q
  /\ \A p \in Procs, d \in FD :
       ofile[p][d] # NONE /\ ftable[ofile[p][d]].flags > 0 => p \in Writers

\* The inode of an open file is loaded.
OpensValid == \A f \in F : ftable[f].count > 0 => inode[ftable[f].inode].valid

\* What p remembers while it sleeps in a call still holds.
Busy(p) ==
  /\ op[p].at \in {"read", "write"}
  /\ \E d \in FD : ofile[p][d] = op[p].f
  /\ ftable[op[p].f].pos = op[p].off
  /\ op[p].at = "read" => op[p].n = Clamp(op[p].asked, op[p].off, op[p].size)
  /\ op[p].at = "write" => p \in Writers /\ op[p].size = inode[ftable[op[p].f].inode].size

Calls == \A p \in Procs : op[p].at # "idle" => Busy(p)

CallInv == Owned /\ OpensValid /\ Calls /\ WrittenKept

\* A file that has a descriptor is open.
LEMMA UsedOpen ==
  ASSUME TypeOK, CountExact, NEW p \in Procs, NEW d \in FD, NEW f \in F, ofile[p][d] = f
  PROVE  ftable[f].count > 0
<1>1. <<p, d>> \in Users(f)
  BY DEF Users
<1>2. Cardinality(Users(f)) # 0
  BY <1>1, UsersFinite, FS_EmptySet
<1>3. ftable[f].count \in Nat /\ ftable[f].count = Cardinality(Users(f))
  BY DEF TypeOK, File, CountExact
<1> QED
  BY <1>2, <1>3

\* The file of a call that sleeps is open and belongs to no other call.
LEMMA BusyFile ==
  ASSUME TypeOK, CountExact, Owned, NEW p \in Procs, Busy(p)
  PROVE  /\ op[p].f \in F /\ ftable[op[p].f].inode \in Inodes
         /\ ftable[op[p].f].count > 0
         /\ \A q \in Procs, d \in FD : ofile[q][d] = op[p].f => q = p
<1>1. op[p].f \in F /\ op[p].f # NONE
  BY FilesAssumption DEF TypeOK, Op, F
<1>2. PICK e \in FD : ofile[p][e] = op[p].f
  BY DEF Busy
<1>3. ftable[op[p].f].count > 0
  BY <1>1, <1>2, UsedOpen
<1>4. \A q \in Procs, d \in FD : ofile[q][d] = op[p].f => q = p
  BY <1>1, <1>2 DEF Owned
<1>5. ftable[op[p].f].inode \in Inodes
  BY <1>1 DEF TypeOK, File
<1> QED
  BY <1>1, <1>3, <1>4, <1>5

\* A step that leaves the file of a sleeping call alone.
LEMMA BusyStays ==
  ASSUME NEW q, Busy(q), op'[q] = op[q],
         \E d \in FD : ofile'[q][d] = op[q].f,
         ftable'[op[q].f].pos = ftable[op[q].f].pos,
         ftable'[op[q].f].inode = ftable[op[q].f].inode,
         op[q].at = "write" =>
           inode'[ftable[op[q].f].inode].size = inode[ftable[op[q].f].inode].size
  PROVE  Busy(q)'
BY DEF Busy

\* A call that begins.
LEMMA EnterBusy ==
  ASSUME TypeOK, NEW p \in Procs, NEW d \in FD, NEW f \in F, ofile[p][d] = f,
         NEW at \in {"read", "write"}, NEW n \in Nat, NEW asked \in Nat,
         at = "read" => n = MinOf(asked, inode[ftable[f].inode].size),
         at = "write" => p \in Writers,
         Enter(p, f, at, n, asked, inode[ftable[f].inode]),
         UNCHANGED <<ftable, ofile, inode>>
  PROVE  Busy(p)'
<1> DEFINE ip == inode[ftable[f].inode]
           off == ftable[f].pos
           o == [at |-> at, f |-> f, off |-> off, asked |-> asked, size |-> ip.size,
                 n |-> IF at = "read" THEN Clamp(n, off, ip.size) ELSE n]
<1>1. ip.size \in Nat /\ off \in Nat
  BY DEF TypeOK, File
<1>2. op'[p] = o
  BY DEF Enter, TypeOK
<1>3. at = "read" => Clamp(n, off, ip.size) = Clamp(asked, off, ip.size)
  <2> HIDE DEF ip, off
  <2>1. ASSUME NEW s \in Nat, NEW k \in Nat
        PROVE  Clamp(MinOf(asked, s), k, s) = Clamp(asked, k, s)
    BY DEF Clamp, MinOf
  <2>2. at = "read" => n = MinOf(asked, ip.size)
    BY DEF ip
  <2> QED
    BY <1>1, <2>1, <2>2
<1>4. o.at = at /\ o.f = f /\ o.off = off /\ o.size = ip.size /\ o.asked = asked
      /\ (at = "read" => o.n = Clamp(asked, off, ip.size))
  BY <1>3
<1> HIDE DEF o
<1> QED
  BY <1>2, <1>4 DEF Busy

LEMMA openCalls ==
  ASSUME Loads = TRUE, TypeOK, CountExact, CallInv, NEW p \in Procs, NEW d \in FD,
         NEW i \in Inodes, NEW flags \in {0, 1, 2}, open(p, d, i, flags)
  PROVE  CallInv'
<1>1. PICK f \in filealloc :
        /\ ftable' = [ftable EXCEPT ![f] = [count |-> 1, inode |-> i, pos |-> 0, flags |-> flags]]
        /\ ofile' = [ofile EXCEPT ![p][d] = f]
  BY openTypes
<1>2. f \in F /\ ftable[f].count = 0 /\ f # NONE
  BY FilesAssumption DEF filealloc, F
<1>3. /\ op[p].at = "idle" /\ ofile[p][d] = NONE /\ (flags > 0 => p \in Writers)
      /\ UNCHANGED <<disk, op, done>>
  BY DEF open
<1>4. /\ ftable'[f].count = 1 /\ ftable'[f].inode = i /\ ftable'[f].flags = flags
      /\ \A g \in F : g # f => ftable'[g] = ftable[g]
  BY <1>1, <1>2 DEF TypeOK
<1>5. \A q \in Procs, e \in FD : ofile'[q][e] = IF q = p /\ e = d THEN f ELSE ofile[q][e]
  <2>1. ofile \in [Procs -> [FD -> F \cup {NONE}]]
    BY DEF TypeOK
  <2> QED
    BY <1>1, <2>1
<1>6. \A q \in Procs, e \in FD : ofile[q][e] # f /\ ofile[q][e] \in F \cup {NONE}
  <2> SUFFICES ASSUME NEW q \in Procs, NEW e \in FD
               PROVE  ofile[q][e] # f /\ ofile[q][e] \in F \cup {NONE}
    OBVIOUS
  <2>1. ofile[q][e] = f => ftable[f].count > 0
    BY <1>2, UsedOpen
  <2> QED
    BY <1>2, <2>1 DEF TypeOK
<1>7. /\ inode'[i].valid /\ (inode[i].valid => inode'[i].size = inode[i].size)
      /\ (~inode[i].valid => inode'[i].size = disk[i])
      /\ \A j \in Inodes : j # i => inode'[j] = inode[j]
  <2>1. inode' = [inode EXCEPT ![i] = [Loaded(i) EXCEPT !.ref = @ + 1]]
    BY DEF open
  <2>2. /\ Loaded(i) \in INode /\ Loaded(i).valid
        /\ Loaded(i).size = IF inode[i].valid THEN inode[i].size ELSE disk[i]
    BY LoadedIs DEF Loaded, TypeOK, INode
  <2> DEFINE ip == [Loaded(i) EXCEPT !.ref = @ + 1]
  <2>3. ip.valid /\ ip.size = Loaded(i).size
    BY <2>2 DEF INode
  <2> HIDE DEF ip
  <2>4. inode' = [inode EXCEPT ![i] = ip]
    BY <2>1 DEF ip
  <2>5. inode'[i] = ip /\ \A j \in Inodes : j # i => inode'[j] = inode[j]
    BY <2>4 DEF TypeOK
  <2> QED
    BY <2>2, <2>3, <2>5
<1>8. Owned'
  <2>1. \A q, r \in Procs, e, k \in FD : ofile'[q][e] = ofile'[r][k] /\ ofile'[q][e] # NONE => q = r
    BY <1>5, <1>6 DEF CallInv, Owned
  <2>2. ASSUME NEW q \in Procs, NEW e \in FD, ofile'[q][e] # NONE, ftable'[ofile'[q][e]].flags > 0
        PROVE  q \in Writers
    <3>1. CASE q = p /\ e = d
      BY <1>3, <1>4, <1>5, <2>2, <3>1
    <3>2. CASE ~(q = p /\ e = d)
      <4>1. ofile'[q][e] = ofile[q][e] /\ ofile[q][e] \in F /\ ofile[q][e] # f
        BY <1>5, <1>6, <2>2, <3>2
      <4>2. ftable'[ofile[q][e]] = ftable[ofile[q][e]]
        BY <1>4, <4>1
      <4> QED
        BY <2>2, <4>1, <4>2 DEF CallInv, Owned
    <3> QED
      BY <3>1, <3>2
  <2> QED
    BY <2>1, <2>2 DEF Owned
<1>9. OpensValid'
  <2> SUFFICES ASSUME NEW g \in F, ftable'[g].count > 0 PROVE inode'[ftable'[g].inode].valid
    BY DEF OpensValid
  <2>1. CASE g = f
    BY <1>4, <1>7, <2>1
  <2>2. CASE g # f
    <3>1. ftable'[g] = ftable[g] /\ ftable[g].inode \in Inodes
      BY <1>4, <2>2 DEF TypeOK, File
    <3>2. inode[ftable[g].inode].valid
      BY <3>1 DEF CallInv, OpensValid
    <3> QED
      BY <1>7, <3>1, <3>2
  <2> QED
    BY <2>1, <2>2
<1>10. Calls'
  <2> SUFFICES ASSUME NEW q \in Procs, op[q].at # "idle" PROVE Busy(q)'
    BY <1>3 DEF Calls
  <2>1. Busy(q) /\ q # p
    BY <1>3 DEF CallInv, Calls
  <2>2. op[q].f \in F /\ ftable[op[q].f].inode \in Inodes /\ ftable[op[q].f].count > 0
    BY <2>1, BusyFile DEF CallInv
  <2>3. ftable'[op[q].f] = ftable[op[q].f]
    BY <1>2, <1>4, <2>2
  <2>4. inode[ftable[op[q].f].inode].valid
    BY <2>2 DEF CallInv, OpensValid
  <2>5. inode'[ftable[op[q].f].inode].size = inode[ftable[op[q].f].inode].size
    BY <1>7, <2>2, <2>4
  <2>6. \E e \in FD : ofile'[q][e] = op[q].f
    BY <1>5, <2>1 DEF Busy
  <2> QED
    BY <1>3, <2>1, <2>3, <2>5, <2>6, BusyStays
<1>11. WrittenKept'
  <2> SUFFICES ASSUME NEW j \in Inodes
               PROVE  disk'[j] >= done'[j] /\ (inode'[j].valid => inode'[j].size >= done'[j])
    BY DEF WrittenKept
  <2>1. disk[j] >= done[j] /\ (inode[j].valid => inode[j].size >= done[j])
    BY DEF CallInv, WrittenKept
  <2> QED
    BY <1>3, <1>7, <2>1
<1> QED
  BY <1>8, <1>9, <1>10, <1>11 DEF CallInv

LEMMA dupCalls ==
  ASSUME TypeOK, CountExact, CallInv, NEW p \in Procs, NEW d \in FD, NEW e \in FD, dup(p, d, e)
  PROVE  CallInv'
<1>1. PICK f \in argfd(p, d) :
        /\ ftable[f].count >= 1
        /\ ftable' = [ftable EXCEPT ![f].count = ftable[f].count + 1]
        /\ ofile' = [ofile EXCEPT ![p][e] = f]
  BY Zenon DEF dup
<1>2. f \in F /\ ofile[p][d] = f /\ f # NONE
  BY argfdIs, FilesAssumption DEF F
<1>3. /\ op[p].at = "idle" /\ ofile[p][e] = NONE
      /\ UNCHANGED <<inode, disk, op, done>>
  BY DEF dup
<1>4. \A g \in F : /\ ftable'[g].inode = ftable[g].inode /\ ftable'[g].pos = ftable[g].pos
                   /\ ftable'[g].flags = ftable[g].flags
                   /\ ftable'[g].count > 0 => ftable[g].count > 0
  <2>1. ftable \in [F -> File] /\ ftable[f].count > 0
    BY <1>1, <1>2 DEF TypeOK, File
  <2> QED
    BY <1>1, <1>2, <2>1 DEF File
<1>5. \A q \in Procs, k \in FD : ofile'[q][k] = IF q = p /\ k = e THEN f ELSE ofile[q][k]
  <2>1. ofile \in [Procs -> [FD -> F \cup {NONE}]]
    BY DEF TypeOK
  <2> QED
    BY <1>1, <2>1
<1>6. \A q \in Procs, k \in FD : ofile[q][k] \in F \cup {NONE}
  BY DEF TypeOK
<1>7. Owned'
  <2>1. \A q, r \in Procs, k, l \in FD : ofile'[q][k] = ofile'[r][l] /\ ofile'[q][k] # NONE => q = r
    BY <1>2, <1>5 DEF CallInv, Owned
  <2>2. \A q \in Procs, k \in FD :
          ofile'[q][k] # NONE /\ ftable'[ofile'[q][k]].flags > 0 => q \in Writers
    BY <1>2, <1>4, <1>5, <1>6, SMTT(20) DEF CallInv, Owned
  <2> QED
    BY <2>1, <2>2 DEF Owned
<1>8. OpensValid'
  BY <1>3, <1>4 DEF CallInv, OpensValid
<1>9. Calls'
  <2> SUFFICES ASSUME NEW q \in Procs, op[q].at # "idle" PROVE Busy(q)'
    BY <1>3 DEF Calls
  <2>1. Busy(q) /\ q # p
    BY <1>3 DEF CallInv, Calls
  <2>2. op[q].f \in F
    BY <2>1, BusyFile DEF CallInv
  <2>3. \E k \in FD : ofile'[q][k] = op[q].f
    BY <1>5, <2>1 DEF Busy
  <2> QED
    BY <1>3, <1>4, <2>1, <2>2, <2>3, BusyStays
<1>10. WrittenKept'
  BY <1>3 DEF CallInv, WrittenKept
<1> QED
  BY <1>7, <1>8, <1>9, <1>10 DEF CallInv

\* A slot may be recycled only when no file of the inode is open.
LEMMA closeCalls ==
  ASSUME RefInv, CountExact, CallInv, NEW p \in Procs, NEW d \in FD, close(p, d)
  PROVE  CallInv'
<1>0. TypeOK
  BY DEF RefInv
<1>1. PICK f \in argfd(p, d) :
        LET i == ftable[f].inode
            ref == inode[i].ref - 1
        IN  /\ ftable[f].count >= 1
            /\ ftable' = [ftable EXCEPT ![f].count = ftable[f].count - 1]
            /\ IF ~Puts(f) THEN UNCHANGED inode
               ELSE \E keeps \in {TRUE, ref # 0} :
                      inode' = [inode EXCEPT ![i].ref = ref, ![i].valid = @ /\ keeps]
  BY DEF close
<1>2. f \in F /\ ofile[p][d] = f /\ f # NONE
  BY <1>0, argfdIs, FilesAssumption DEF F
<1>3. /\ op[p].at = "idle" /\ ofile' = [ofile EXCEPT ![p][d] = NONE]
      /\ UNCHANGED <<disk, op, done>>
  BY DEF close
<1>4. /\ ftable'[f].count = ftable[f].count - 1
      /\ \A g \in F : /\ ftable'[g].inode = ftable[g].inode /\ ftable'[g].pos = ftable[g].pos
                      /\ ftable'[g].flags = ftable[g].flags
                      /\ ftable'[g].count > 0 => ftable[g].count > 0
  <2>1. ftable \in [F -> File] /\ ftable[f].count \in Nat
    BY <1>0, <1>2 DEF TypeOK, File
  <2>2. ftable' = [ftable EXCEPT ![f].count = ftable[f].count - 1]
    BY <1>1
  <2> QED
    BY <1>2, <2>1, <2>2 DEF File
<1>5. \A q \in Procs, e \in FD : ofile'[q][e] = IF q = p /\ e = d THEN NONE ELSE ofile[q][e]
  <2>1. ofile \in [Procs -> [FD -> F \cup {NONE}]]
    BY <1>0 DEF TypeOK
  <2> QED
    BY <1>3, <2>1
<1>6. \A q \in Procs, e \in FD : ofile[q][e] \in F \cup {NONE}
  BY <1>0 DEF TypeOK
<1> DEFINE i == ftable[f].inode
<1>7. i \in Inodes /\ ftable[f].count \in Nat
  BY <1>0, <1>2 DEF TypeOK, File
<1>8. /\ \A j \in Inodes : inode'[j].size = inode[j].size /\ (inode'[j].valid => inode[j].valid)
      /\ \A j \in Inodes : inode[j].valid /\ ~inode'[j].valid =>
           j = i /\ ftable[f].count = 1 /\ inode[i].ref = 1
  <2>1. CASE ~Puts(f)
    BY <1>1, <2>1
  <2>2. CASE Puts(f)
    <3>1. inode \in [Inodes -> INode] /\ inode[i].ref \in Nat /\ inode[i].valid \in BOOLEAN
      BY <1>0, <1>7 DEF TypeOK, INode
    <3>2. PICK keeps \in {TRUE, inode[i].ref - 1 # 0} :
            inode' = [inode EXCEPT ![i].ref = inode[i].ref - 1,
                                   ![i].valid = inode[i].valid /\ keeps]
      BY <1>1, <2>2
    <3>3. /\ inode'[i].size = inode[i].size /\ inode'[i].valid = (inode[i].valid /\ keeps)
          /\ \A j \in Inodes : j # i => inode'[j] = inode[j]
      BY <1>7, <3>1, <3>2 DEF INode
    <3>4. inode[i].valid /\ ~inode'[i].valid => inode[i].ref = 1
      <4>1. ~keeps => inode[i].ref - 1 = 0
        BY <3>2, Zenon
      <4>2. inode[i].valid /\ ~inode'[i].valid => ~keeps
        BY <3>3, Zenon
      <4>3. inode[i].ref - 1 = 0 => inode[i].ref = 1
        BY <3>1
      <4> QED
        BY <4>1, <4>2, <4>3
    <3>5. ftable[f].count = 1
      BY <2>2 DEF Puts
    <3> QED
      BY <3>3, <3>4, <3>5, Zenon
  <2> QED
    BY <2>1, <2>2
<1>9. Owned'
  <2>1. \A q, r \in Procs, k, l \in FD : ofile'[q][k] = ofile'[r][l] /\ ofile'[q][k] # NONE => q = r
    BY <1>5 DEF CallInv, Owned
  <2>2. \A q \in Procs, k \in FD :
          ofile'[q][k] # NONE /\ ftable'[ofile'[q][k]].flags > 0 => q \in Writers
    BY <1>4, <1>5, <1>6 DEF CallInv, Owned
  <2> QED
    BY <2>1, <2>2 DEF Owned
<1>10. OpensValid'
  <2> SUFFICES ASSUME NEW g \in F, ftable'[g].count > 0, ~inode'[ftable'[g].inode].valid
               PROVE  FALSE
    BY DEF OpensValid
  <2>1. ftable[g].count > 0 /\ ftable'[g].inode = ftable[g].inode /\ ftable[g].inode \in Inodes
    BY <1>0, <1>4 DEF TypeOK, File
  <2>2. inode[ftable[g].inode].valid
    BY <2>1 DEF CallInv, OpensValid
  <2>3. ftable[g].inode = i /\ ftable[f].count = 1 /\ inode[i].ref = 1
    BY <1>8, <2>1, <2>2
  <2>4. g # f
    BY <1>4, <2>3
  <2>5. g \in Opens(i) /\ f \in Opens(i)
    BY <1>2, <2>1, <2>3 DEF Opens
  <2>6. Cardinality(Opens(i)) = 1 /\ IsFiniteSet(Opens(i))
    BY <1>7, <2>3, OpensFinite, Zenon DEF RefInv, InodeRefs, Opens
  <2>7. Cardinality(Opens(i) \ {f}) = 0 /\ IsFiniteSet(Opens(i) \ {f})
    BY <2>5, <2>6, FS_RemoveElement
  <2>8. Opens(i) \ {f} = {}
    BY <2>7, FS_EmptySet
  <2> QED
    BY <2>4, <2>5, <2>8
<1>11. Calls'
  <2> SUFFICES ASSUME NEW q \in Procs, op[q].at # "idle" PROVE Busy(q)'
    BY <1>3 DEF Calls
  <2>1. Busy(q) /\ q # p
    BY <1>3 DEF CallInv, Calls
  <2>2. op[q].f \in F /\ ftable[op[q].f].inode \in Inodes
    BY <1>0, <2>1, BusyFile DEF CallInv
  <2>3. \E k \in FD : ofile'[q][k] = op[q].f
    BY <1>5, <2>1 DEF Busy
  <2>4. /\ ftable'[op[q].f].pos = ftable[op[q].f].pos
        /\ ftable'[op[q].f].inode = ftable[op[q].f].inode
        /\ inode'[ftable[op[q].f].inode].size = inode[ftable[op[q].f].inode].size
        /\ op' = op
    BY <1>3, <1>4, <1>8, <2>2
  <2> QED
    BY <2>1, <2>3, <2>4, BusyStays
<1>12. WrittenKept'
  <2> SUFFICES ASSUME NEW j \in Inodes
               PROVE  disk'[j] >= done'[j] /\ (inode'[j].valid => inode'[j].size >= done'[j])
    BY DEF WrittenKept
  <2>1. disk[j] >= done[j] /\ (inode[j].valid => inode[j].size >= done[j])
    BY DEF CallInv, WrittenKept
  <2> QED
    BY <1>3, <1>8, <2>1
<1> QED
  BY <1>9, <1>10, <1>11, <1>12 DEF CallInv

\* A call begins with the inode loaded.
LEMMA beginCalls ==
  ASSUME TypeOK, CountExact, CallInv, NEW p \in Procs, NEW d \in FD, NEW n \in 0 .. CallMax,
         fileread(p, d, n) \/ filewrite(p, d, n)
  PROVE  CallInv'
<1>1. op[p].at = "idle" /\ UNCHANGED <<ftable, ofile, inode, disk, done>>
  BY DEF fileread, filewrite
<1>2. n \in Nat
  BY FilesAssumption
<1>3. ASSUME NEW f \in argfd(p, d)
      PROVE  /\ f \in F /\ ofile[p][d] = f /\ inode[ftable[f].inode].valid
             /\ MinOf(n, inode[ftable[f].inode].size) \in Nat
             /\ F_WRITEABLE(f) => p \in Writers
  <2>1. f \in F /\ ofile[p][d] = f /\ f # NONE
    BY argfdIs, FilesAssumption DEF F
  <2>2. ftable[f].count > 0
    BY <2>1, UsedOpen
  <2>3. inode[ftable[f].inode].valid
    BY <2>1, <2>2 DEF CallInv, OpensValid
  <2>4. inode[ftable[f].inode].size \in Nat
    BY <2>1 DEF TypeOK, File
  <2>5. F_WRITEABLE(f) => p \in Writers
    BY <2>1 DEF F_WRITEABLE, CallInv, Owned
  <2> QED
    BY <1>2, <2>1, <2>3, <2>4, <2>5 DEF MinOf
<1>4. Busy(p)' /\ \A q \in Procs : q # p => op'[q] = op[q]
  <2>1. CASE fileread(p, d, n)
    <3>1. PICK f \in argfd(p, d) :
            LET ip == inode[ftable[f].inode] IN
            ip.valid => Enter(p, f, "read", MinOf(n, ip.size), n, ip)
      BY <2>1 DEF fileread
    <3>2. Enter(p, f, "read", MinOf(n, inode[ftable[f].inode].size), n, inode[ftable[f].inode])
      BY <1>3, <3>1
    <3>3. Busy(p)'
      BY <1>1, <1>2, <1>3, <3>2, EnterBusy
    <3> QED
      BY <3>2, <3>3 DEF Enter, TypeOK
  <2>2. CASE filewrite(p, d, n)
    <3>1. PICK f \in argfd(p, d) :
            LET ip == inode[ftable[f].inode] IN
            F_WRITEABLE(f) /\ (ip.valid => Enter(p, f, "write", n, n, ip))
      BY <2>2 DEF filewrite
    <3>2. Enter(p, f, "write", n, n, inode[ftable[f].inode]) /\ p \in Writers
      BY <1>3, <3>1
    <3>3. Busy(p)'
      BY <1>1, <1>2, <1>3, <3>2, EnterBusy
    <3> QED
      BY <3>2, <3>3 DEF Enter, TypeOK
  <2> QED
    BY <2>1, <2>2
<1>5. Calls'
  <2> SUFFICES ASSUME NEW q \in Procs, op'[q].at # "idle", q # p PROVE Busy(q)'
    BY <1>4 DEF Calls
  <2>1. op'[q] = op[q] /\ Busy(q)
    BY <1>4 DEF CallInv, Calls
  <2>2. \E e \in FD : ofile'[q][e] = op[q].f
    BY <1>1, <2>1 DEF Busy
  <2> QED
    BY <1>1, <2>1, <2>2, BusyStays
<1> QED
  BY <1>1, <1>5 DEF CallInv, Owned, OpensValid, WrittenKept

\* A size that grows to the end of what is written there.
LEMMA LargerSize ==
  ASSUME NEW e \in Nat, NEW c \in Nat, NEW d \in Nat, c >= d,
         NEW n, n = IF e > c THEN e ELSE c
  PROVE  n >= MaxOf(d, e)
  BY DEF MaxOf

\* A call ends: no other task sleeps in a call on its file.
LEMMA endCalls ==
  ASSUME OneWriter, TypeOK, CountExact, CallInv, NEW p \in Procs, ReadEnd(p) \/ WriteEnd(p)
  PROVE  CallInv'
<1> DEFINE o == op[p]
           i == ftable[o.f].inode
           size == NewSize(o, inode[i].size)
<1>1. /\ Busy(p) /\ op' = [op EXCEPT ![p] = Idle] /\ ofile' = ofile
      /\ ftable' = Moved(o.f, o.n)
  BY DEF ReadEnd, WriteEnd, CallInv, Calls
<1>2. /\ o.f \in F /\ i \in Inodes /\ ftable[o.f].count > 0
      /\ \A q \in Procs, d \in FD : ofile[q][d] = o.f => q = p
  BY <1>1, BusyFile DEF CallInv
<1>3. \A g \in F : /\ ftable'[g].inode = ftable[g].inode /\ ftable'[g].count = ftable[g].count
                   /\ ftable'[g].flags = ftable[g].flags
                   /\ g # o.f => ftable'[g].pos = ftable[g].pos
  <2>1. ftable \in [F -> File] /\ ftable' = [ftable EXCEPT ![o.f].pos = ftable[o.f].pos + o.n]
    BY <1>1 DEF TypeOK, Moved
  <2> QED
    BY <1>2, <2>1 DEF File
<1>4. \A q \in Procs, e \in FD : ofile[q][e] \in F \cup {NONE}
  BY DEF TypeOK
<1>5. op'[p] = Idle /\ \A q \in Procs : q # p => op'[q] = op[q]
  BY <1>1 DEF TypeOK
<1>6. Owned'
  <2>1. /\ \A q, r \in Procs, d, e \in FD : ofile[q][d] = ofile[r][e] /\ ofile[q][d] # NONE => q = r
        /\ \A q \in Procs, d \in FD :
             ofile[q][d] # NONE /\ ftable[ofile[q][d]].flags > 0 => q \in Writers
    BY DEF CallInv, Owned
  <2>2. ofile' = ofile
    BY <1>1
  <2>3. \A q \in Procs, d \in FD :
          ofile[q][d] # NONE => ftable'[ofile[q][d]].flags = ftable[ofile[q][d]].flags
    BY <1>3, <1>4
  <2> QED
    BY <2>1, <2>2, <2>3 DEF Owned
<1>7. /\ \A j \in Inodes : inode'[j].valid = inode[j].valid
      /\ inode' # inode => p \in Writers
      /\ WrittenKept'
  <2>1. CASE ReadEnd(p)
    <3>1. UNCHANGED <<inode, disk, done>>
      BY <2>1 DEF ReadEnd
    <3> QED
      BY <3>1 DEF CallInv, WrittenKept
  <2>2. CASE WriteEnd(p)
    <3>1. /\ inode' = [inode EXCEPT ![i].size = size]
          /\ disk' = [disk EXCEPT ![i] = size]
          /\ done' = [done EXCEPT ![i] = MaxOf(done[i], o.off + o.n)]
          /\ o.at = "write"
      BY <2>2 DEF WriteEnd
    <3>2. p \in Writers /\ o.size = inode[i].size
      BY <1>1, <3>1 DEF Busy
    <3>3. /\ o.off \in Nat /\ o.n \in Nat /\ inode[i].size \in Nat /\ done[i] \in Nat
      BY <1>2 DEF TypeOK, Op
    <3>4. inode[i].size >= done[i]
      <4>1. inode[i].valid
        BY <1>2 DEF CallInv, OpensValid
      <4> QED
        BY <1>2, <4>1 DEF CallInv, WrittenKept
    <3>5. size >= MaxOf(done[i], o.off + o.n)
      <4>1. size = IF o.off + o.n > inode[i].size THEN o.off + o.n ELSE inode[i].size
        BY <3>2 DEF NewSize
      <4>2. o.off + o.n \in Nat
        BY <3>3
      <4> HIDE DEF o, i, size
      <4> QED
        BY <3>3, <3>4, <4>1, <4>2, LargerSize
    <3> HIDE DEF size
    <3>6. /\ inode'[i].size = size /\ inode'[i].valid = inode[i].valid
          /\ \A j \in Inodes : j # i => inode'[j] = inode[j]
      <4>1. inode \in [Inodes -> INode]
        BY DEF TypeOK, INode
      <4> QED
        BY <1>2, <3>1, <4>1 DEF INode
    <3>7. /\ disk'[i] = size /\ done'[i] = MaxOf(done[i], o.off + o.n)
          /\ \A j \in Inodes : j # i => disk'[j] = disk[j] /\ done'[j] = done[j]
      BY <1>2, <3>1 DEF TypeOK
    <3>8. WrittenKept'
      <4> SUFFICES ASSUME NEW j \in Inodes
                   PROVE  /\ disk'[j] >= done'[j]
                          /\ inode'[j].valid => inode'[j].size >= done'[j]
        BY DEF WrittenKept
      <4>1. CASE j = i
        BY <3>5, <3>6, <3>7, <4>1
      <4>2. CASE j # i
        BY <3>6, <3>7, <4>2 DEF CallInv, WrittenKept
      <4> QED
        BY <4>1, <4>2
    <3> QED
      BY <3>2, <3>6, <3>8
  <2> QED
    BY <2>1, <2>2
<1>8. OpensValid'
  <2> SUFFICES ASSUME NEW g \in F, ftable'[g].count > 0 PROVE inode'[ftable'[g].inode].valid
    BY DEF OpensValid
  <2>1. ftable[g].inode \in Inodes
    BY DEF TypeOK, File
  <2> QED
    BY <1>3, <1>7, <2>1 DEF CallInv, OpensValid
<1>9. Calls'
  <2> SUFFICES ASSUME NEW q \in Procs, op'[q].at # "idle" PROVE Busy(q)'
    BY DEF Calls
  <2>1. q # p
    BY <1>5 DEF Idle
  <2>2. op'[q] = op[q] /\ Busy(q)
    BY <1>5, <2>1 DEF CallInv, Calls
  <2>3. op[q].f \in F /\ ftable[op[q].f].inode \in Inodes
    BY <2>2, BusyFile DEF CallInv
  <2>4. PICK d \in FD : ofile[q][d] = op[q].f
    BY <2>2 DEF Busy
  <2>5. op[q].f # o.f
    BY <1>2, <2>1, <2>4
  <2>6. op[q].at = "write" => inode' = inode
    BY <1>7, <2>1, <2>2 DEF Busy, OneWriter
  <2>7. \E e \in FD : ofile'[q][e] = op[q].f
    BY <1>1, <2>4
  <2>8. /\ ftable'[op[q].f].pos = ftable[op[q].f].pos
        /\ ftable'[op[q].f].inode = ftable[op[q].f].inode
    BY <1>3, <2>3, <2>5
  <2> QED
    BY <2>2, <2>6, <2>7, <2>8, BusyStays
<1> QED
  BY <1>6, <1>7, <1>8, <1>9 DEF CallInv

LEMMA InitCalls == Init => CallInv
<1> SUFFICES ASSUME Init PROVE CallInv
  OBVIOUS
<1>1. \A p \in Procs, d \in FD : ofile[p][d] = NONE
  BY DEF Init
<1>2. \A f \in F : ftable[f].count = 0
  BY DEF Init
<1>3. \A p \in Procs : op[p].at = "idle"
  BY DEF Init, Idle
<1>4. WrittenKept
  <2>1. \A j \in Inodes : disk[j] \in Nat /\ done[j] = 0 /\ ~inode[j].valid
    BY FilesAssumption DEF Init
  <2> QED
    BY <2>1 DEF WrittenKept
<1> QED
  BY <1>1, <1>2, <1>3, <1>4 DEF CallInv, Owned, OpensValid, Calls

LEMMA NextCalls ==
  ASSUME Forks = FALSE, Loads = TRUE, OneWriter, RefInv, CountExact, CallInv, [Next]_vars
  PROVE  CallInv'
<1>1. TypeOK
  BY DEF RefInv
<1>2. CASE UNCHANGED vars
  <2>1. UNCHANGED <<ftable, ofile, inode, disk, op, done>>
    BY <1>2 DEF vars
  <2>2. Owned' /\ OpensValid'
    BY <2>1 DEF CallInv, Owned, OpensValid
  <2>3. Calls'
    BY <2>1 DEF CallInv, Calls, Busy
  <2>4. WrittenKept'
    BY <2>1 DEF CallInv, WrittenKept
  <2> QED
    BY <2>2, <2>3, <2>4 DEF CallInv
<1>3. ASSUME NEW p \in Procs, NEW d \in FD, Use(p, d) PROVE CallInv'
  BY <1>1, <1>3, openCalls, dupCalls, closeCalls, beginCalls DEF Use
<1>4. ASSUME NEW p \in Procs, Locked(p) PROVE FALSE
  BY <1>4 DEF Locked, CallInv, Calls, Busy
<1>5. ASSUME NEW p \in Procs, ReadEnd(p) \/ WriteEnd(p) PROVE CallInv'
  BY <1>1, <1>5, endCalls
<1>6. \A p, q \in Procs : ~fork(p, q)
  BY DEF fork
<1> QED
  BY <1>2, <1>3, <1>4, <1>5, <1>6 DEF Next

\* A read or a write that sleeps in its transfer works as if it did not, for
\* any number of tasks, files and inodes: it goes on at the f_pos it saw, a read
\* takes all it was asked for that the file has, and no write that returned is
\* cut off.  It needs that no task forks, that inodes are locked before they
\* are opened, and that one task writes.
THEOREM CallsStayWhole ==
  ASSUME Forks = FALSE, Loads = TRUE, OneWriter
  PROVE  Spec => []CallsWhole
<1> DEFINE Inv == RefInv /\ CountExact /\ CallInv
<1>1. Init => Inv
  BY InitRefs, InitCounts, InitCalls
<1>2. Inv /\ [Next]_vars => Inv'
  BY NextRefs, NextCounts, NextCalls
<1>3. Inv => CallsWhole
  BY DEF RefInv, CallInv, Calls, Busy, CallsWhole, ReadFromPos, ReadWhole
<1> QED
  BY <1>1, <1>2, <1>3, PTL DEF Spec
=============================================================================
