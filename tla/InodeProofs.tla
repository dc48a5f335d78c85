---------------------------- MODULE InodeProofs -----------------------------
(***************************************************************************)
(* For every tree, every number of slots and any tasks that walk paths:    *)
(* ref counts the references to an inode, and what a slot holds valid are  *)
(* the data of its inode; with room for what tasks can hold, inode_get()   *)
(* finds a slot; tasks that only execve() never have an inode in two; and  *)
(* inode_namex() returns the inode its path stands for.                    *)
(***************************************************************************)
EXTENDS Inode, FiniteSetTheorems, SequenceTheorems, WellFoundedInduction, TLAPS

Letters == {"/"} \cup UNION {{n[i] : i \in DOMAIN n} : n \in Names}

\* What the constants are: a tree whose names are sequences of letters.
TreeOK ==
  /\ NENTRY \in Nat
  /\ IsFiniteSet(Procs)
  /\ NONE \notin Slots /\ NONE \notin Inos
  /\ Root \in Dirs
  /\ \A n \in Names : n \in Seq(Letters)
  /\ Child \in [Dirs \X Names -> Inos \cup {NONE}]
  /\ \A path \in Paths : path.names \in Seq(Names)

Tables == [Slots -> Inode]

\* Valid data are those of the inode.
TableOK(T) ==
  /\ T \in Tables
  /\ \A s \in Slots : T[s].valid = TRUE => T[s].kind = Kind(T[s].ino)

\* From table T to table U a slot in use keeps its inode and what was loaded.
Kept(T, U) ==
  \A s \in Slots :
    T[s].ref > 0 => /\ U[s].ino = T[s].ino
                    /\ T[s].kind = Kind(T[s].ino) => U[s].kind = Kind(U[s].ino)

\* Nothing but counts differ.
Same(T, U) ==
  \A s \in Slots : /\ U[s].ino = T[s].ino /\ U[s].kind = T[s].kind
                   /\ U[s].valid = T[s].valid /\ U[s].parent = T[s].parent

LEMMA SameKept ==
  ASSUME NEW T, NEW U, NEW V, Kept(T, U), Same(U, V)
  PROVE  Kept(T, V)
  BY DEF Kept, Same

LEMMA SameOK ==
  ASSUME NEW T, TableOK(T), NEW U \in Tables, Same(T, U)
  PROVE  TableOK(U) /\ Kept(T, U)
  BY DEF TableOK, Kept, Same

\* One for the slot s, none for another.
Is(x, s) == IF x = s THEN 1 ELSE 0

-----------------------------------------------------------------------------
(* The table *)

LEMMA InodeIs ==
  ASSUME NEW T \in Tables, TableOK(T), NEW s \in Slots
  PROVE  /\ T[s] \in Inode /\ T[s].ref \in Nat /\ T[s].ino \in Inos
         /\ T[s].parent \in Slots /\ T[s].valid \in BOOLEAN
         /\ T[s].valid = TRUE => T[s].kind = Kind(T[s].ino)
<1>1. T[s] \in Inode
  BY DEF TableOK, Tables
<1> QED
  BY <1>1 DEF TableOK, Inode

\* r is one that may be where the inode o was.
Follows(o, r) ==
  /\ r.valid = TRUE => r.kind = Kind(r.ino)
  /\ o.ref > 0 => /\ r.ino = o.ino
                  /\ o.kind = Kind(o.ino) => r.kind = Kind(r.ino)

\* A change of one slot.
LEMMA SlotFollows ==
  ASSUME NEW T \in Tables, TableOK(T), NEW s \in Slots, NEW U \in Tables,
         Follows(T[s], U[s]), \A x \in Slots : x # s => U[x] = T[x]
  PROVE  TableOK(U) /\ Kept(T, U)
<1>1. TableOK(U)
  BY DEF TableOK, Follows
<1>2. Kept(T, U)
  BY DEF Kept, Follows
<1> QED
  BY <1>1, <1>2

\* Another count.
LEMMA RefSet ==
  ASSUME NEW T \in Tables, NEW s \in Slots, NEW U \in Tables,
         /\ U[s].ino = T[s].ino /\ U[s].kind = T[s].kind
         /\ U[s].valid = T[s].valid /\ U[s].parent = T[s].parent,
         \A x \in Slots : x # s => U[x] = T[x]
  PROVE  Same(T, U)
  BY DEF Same

LEMMA dupIs ==
  ASSUME NEW T \in Tables, TableOK(T), NEW s \in Slots
  PROVE  /\ dup(T, s) \in Tables /\ TableOK(dup(T, s)) /\ Same(T, dup(T, s))
         /\ \A x \in Slots : dup(T, s)[x].ref = T[x].ref + Is(x, s)
<1> DEFINE n == T[s].ref + 1
           r == [T[s] EXCEPT !.ref = n]
           U == dup(T, s)
<1>1. T[s] \in Inode /\ T[s].ref \in Nat /\ \A x \in Slots : T[x].ref \in Nat
  BY InodeIs, Zenon
<1>2. n \in Nat
  BY <1>1
<1>3. U = [T EXCEPT ![s] = r]
  BY DEF dup
<1> HIDE DEF n, U
<1>4. /\ r \in Inode /\ r.ref = n /\ r.ino = T[s].ino /\ r.kind = T[s].kind
      /\ r.valid = T[s].valid /\ r.parent = T[s].parent
  BY <1>1, <1>2 DEF Inode
<1> HIDE DEF r
<1>5. U \in Tables /\ U[s] = r /\ \A x \in Slots : x # s => U[x] = T[x]
  BY <1>3, <1>4 DEF Tables
<1>6. Same(T, U)
  BY <1>4, <1>5, RefSet
<1>7. TableOK(U)
  BY <1>5, <1>6, SameOK
<1>8. \A x \in Slots : U[x].ref = T[x].ref + Is(x, s)
  BY <1>1, <1>4, <1>5 DEF n, Is
<1> QED
  BY <1>5, <1>6, <1>7, <1>8 DEF U

LEMMA putIs ==
  ASSUME NEW T \in Tables, TableOK(T), NEW s \in Slots, T[s].ref > 0
  PROVE  /\ put(T, s) \in Tables /\ TableOK(put(T, s)) /\ Same(T, put(T, s))
         /\ \A x \in Slots : put(T, s)[x].ref + Is(x, s) = T[x].ref
<1> DEFINE n == T[s].ref - 1
           r == [T[s] EXCEPT !.ref = n]
           U == put(T, s)
<1>1. T[s] \in Inode /\ T[s].ref \in Nat /\ \A x \in Slots : T[x].ref \in Nat
  BY InodeIs, Zenon
<1>2. n \in Nat
  BY <1>1
<1>3. U = [T EXCEPT ![s] = r]
  BY DEF put
<1> HIDE DEF n, U
<1>4. /\ r \in Inode /\ r.ref = n /\ r.ino = T[s].ino /\ r.kind = T[s].kind
      /\ r.valid = T[s].valid /\ r.parent = T[s].parent
  BY <1>1, <1>2 DEF Inode
<1> HIDE DEF r
<1>5. U \in Tables /\ U[s] = r /\ \A x \in Slots : x # s => U[x] = T[x]
  BY <1>3, <1>4 DEF Tables
<1>6. Same(T, U)
  BY <1>4, <1>5, RefSet
<1>7. TableOK(U)
  BY <1>5, <1>6, SameOK
<1>8. \A x \in Slots : U[x].ref + Is(x, s) = T[x].ref
  BY <1>1, <1>4, <1>5 DEF n, Is
<1> QED
  BY <1>5, <1>6, <1>7, <1>8 DEF U

LEMMA NamedIs ==
  ASSUME NEW old \in Seq(Letters), NEW name \in Seq(Letters)
  PROVE  Named(old, name) \in Seq(Letters)
<1>1. Len(name) \in Nat /\ Len(old) \in Nat
  OBVIOUS
<1>2. SubSeq(old, Len(name) + 1, Len(old)) \in Seq(Letters)
  BY <1>1
<1> QED
  BY <1>2 DEF Named

\* A recycled slot has the new inode and no valid data.
LEMMA FreshIs ==
  ASSUME TreeOK, NEW T \in Tables, TableOK(T), NEW s \in Slots, NEW ino \in Inos, NEW name \in Names
  PROVE  /\ Fresh(T, s, ino, name) \in Inode
         /\ Fresh(T, s, ino, name).ref = 1 /\ Fresh(T, s, ino, name).ino = ino
         /\ Fresh(T, s, ino, name).valid = FALSE
<1>1. T[s] \in Inode
  BY DEF TableOK, Tables
<1>2. T[s].fname \in Seq(Letters) /\ name \in Seq(Letters)
  BY <1>1 DEF Inode, Letters, TreeOK
<1>3. Named(T[s].fname, name) \in Seq(Letters)
  BY <1>2, NamedIs
<1>4. T[s].kind \in {"dir", "file", "none"} /\ T[s].parent \in Slots
  BY <1>1 DEF Inode
<1> QED
  BY <1>3, <1>4 DEF Fresh, Inode, Letters

\* inode_get() and the parent that dirlookup() gives the inode.
Looked(T, s, ino, name, at) == [inode_get(T, s, ino, name) EXCEPT ![s].parent = at]

LEMMA GettableIs ==
  ASSUME TreeOK, NEW T \in Tables, NEW ino, NEW s \in Gettable(T, ino)
  PROVE  /\ s \in 1 .. NENTRY /\ s \in Slots /\ s # 0
         /\ \/ s \in Hits(T, ino) /\ T[s].ref > 0 /\ T[s].ino = ino
            \/ s \notin Hits(T, ino) /\ T[s].ref = 0 /\ Hits(T, ino) = {}
<1>1. 1 .. NENTRY \subseteq Slots /\ 0 \notin 1 .. NENTRY
  BY DEF TreeOK, Slots
<1> QED
  BY <1>1 DEF Gettable, First, Hits, Free

\* L is T with one more reference to ino, in the slot s.
Referred(T, L, s, ino) ==
  /\ L \in Tables /\ TableOK(L) /\ Kept(T, L) /\ L[s].ref = T[s].ref + 1
  /\ L[s].ino = ino /\ \A x \in Slots : x # s => L[x] = T[x]

LEMMA LookedIs ==
  ASSUME TreeOK, NEW T \in Tables, TableOK(T), NEW ino \in Inos, NEW name \in Names,
         NEW s \in Gettable(T, ino), NEW at \in Slots
  PROVE  Referred(T, Looked(T, s, ino, name, at), s, ino)
<1> DEFINE U == Looked(T, s, ino, name, at)
<1> SUFFICES Referred(T, U, s, ino)
  OBVIOUS
<1> USE DEF Referred
<1>1. s \in Slots /\ s # 0
  BY GettableIs
<1>2. T[s] \in Inode /\ T[s].ref \in Nat /\ (T[s].valid = TRUE => T[s].kind = Kind(T[s].ino))
  BY <1>1, InodeIs, Zenon
<1>3. CASE s \in Hits(T, ino) /\ T[s].ino = ino
  <2> DEFINE n == T[s].ref + 1
             o == [T[s] EXCEPT !.ref = n]
             r == [o EXCEPT !.parent = at]
  <2>1. n \in Nat
    BY <1>2
  <2>2. U = [T EXCEPT ![s] = r]
    BY <1>1, <1>3, Zenon DEF Looked, inode_get, dup, Tables
  <2> HIDE DEF n
  <2>3. o \in Inode /\ o.ref = n /\ o.ino = ino /\ o.kind = T[s].kind /\ o.valid = T[s].valid
    BY <1>2, <1>3, <2>1 DEF Inode
  <2> HIDE DEF o
  <2>4. r \in Inode /\ r.ref = n /\ r.ino = ino /\ r.kind = T[s].kind /\ r.valid = T[s].valid
    BY <2>3 DEF Inode
  <2> HIDE DEF r, U
  <2>5. Follows(T[s], r)
    BY <1>2, <1>3, <2>4 DEF Follows
  <2>6. U \in Tables /\ U[s] = r /\ \A x \in Slots : x # s => U[x] = T[x]
    BY <1>1, <2>2, <2>4 DEF Tables
  <2>7. TableOK(U) /\ Kept(T, U)
    BY <1>1, <2>5, <2>6, SlotFollows
  <2> QED
    BY <2>4, <2>6, <2>7 DEF U, n
<1>4. CASE s \notin Hits(T, ino) /\ T[s].ref = 0
  <2> DEFINE o == Fresh(T, s, ino, name)
             r == [o EXCEPT !.parent = at]
  <2>1. o \in Inode /\ o.ref = 1 /\ o.ino = ino /\ o.valid = FALSE
    BY <1>1, FreshIs, Zenon
  <2>2. U = [T EXCEPT ![s] = r]
    BY <1>1, <1>4, Zenon DEF Looked, inode_get, Tables
  <2> HIDE DEF o
  <2>3. r \in Inode /\ r.ref = 1 /\ r.ino = ino /\ r.valid = FALSE
    BY <2>1 DEF Inode
  <2> HIDE DEF r, U
  <2>4. Follows(T[s], r)
    BY <1>4, <2>3 DEF Follows
  <2>5. U \in Tables /\ U[s] = r /\ \A x \in Slots : x # s => U[x] = T[x]
    BY <1>1, <2>2, <2>3 DEF Tables
  <2>6. TableOK(U) /\ Kept(T, U)
    BY <1>1, <2>4, <2>5, SlotFollows
  <2>7. U[s].ref = T[s].ref + 1
    BY <1>4, <2>3, <2>5
  <2> QED
    BY <2>3, <2>5, <2>6, <2>7 DEF U
<1> QED
  BY <1>3, <1>4, GettableIs

-----------------------------------------------------------------------------
(* A walk *)

At(t, s) == IF t.pc # "idle" /\ t.at = s THEN 1 ELSE 0

\* What a task that sleeps in an inode relies on.
TaskOK(T, t) ==
  /\ t.pc = "travel" => T[t.at].kind = Kind(T[t.at].ino)
  /\ t.pc = "look" => t.rest # <<>> /\ T[t.at].ino \in Dirs

Rets == [Procs -> Inos \cup {NONE}]

\* The walk t of the task p in the table T gets to u: it still has its
\* reference, or has given it back.
Walked(p, T, t, u) ==
  /\ u \in Task /\ task' = [task EXCEPT ![p] = u]
  /\ table' \in Tables /\ TableOK(table') /\ Same(T, table')
  /\ \A s \in Slots : table'[s].ref + Is(s, t.at) = T[s].ref + At(u, s)
  /\ TaskOK(table', u)
  /\ u.cwd \in {t.cwd, t.old} /\ u.old = t.old /\ u.call = t.call
  /\ u.pc = "got" => t.call = "find_inode"
  /\ u.pc # "idle" => u.at = t.at
  /\ ret' \in Rets

LEMMA SameSelf ==
  ASSUME NEW T
  PROVE  Same(T, T)
  BY DEF Same

LEMMA TaskIs ==
  ASSUME NEW t \in Task
  PROVE  /\ t.pc \in {"idle", "load", "travel", "look", "read", "got"} /\ t.at \in Slots
         /\ t.rest \in Seq(Names) /\ t.up \in BOOLEAN /\ t.call \in {"execve", "find_inode"}
         /\ t.cwd \in Slots /\ t.old \in Slots
  BY DEF Task

LEMMA StopWalked ==
  ASSUME TreeOK, NEW p \in Procs, NEW T \in Tables, TableOK(T), NEW t \in Task,
         T[t.at].ref > 0, ret \in Rets, Stop(p, put(T, t.at), t)
  PROVE  \E u : Walked(p, T, t, u)
<1> DEFINE u == [t EXCEPT !.pc = "idle", !.at = 0, !.rest = <<>>]
<1>1. t.at \in Slots
  BY TaskIs
<1>2. task' = [task EXCEPT ![p] = u] /\ table' = put(T, t.at) /\ ret' = [ret EXCEPT ![p] = NONE]
  BY DEF Stop, Go
<1>3. /\ u \in Task /\ u.pc = "idle" /\ u.cwd = t.cwd /\ u.old = t.old /\ u.call = t.call
  <2>1. 0 \in Slots
    BY DEF Slots, TreeOK
  <2>2. <<>> \in Seq(Names)
    BY EmptySeq
  <2> QED
    BY <2>1, <2>2, Zenon DEF Task
<1> HIDE DEF u
<1>4. /\ table' \in Tables /\ TableOK(table') /\ Same(T, table')
      /\ \A s \in Slots : table'[s].ref + Is(s, t.at) = T[s].ref
  BY <1>1, <1>2, putIs
<1>5. \A s \in Slots : At(u, s) = 0 /\ T[s].ref \in Nat
  BY <1>3, InodeIs, Zenon DEF At
<1>6. \A s \in Slots : table'[s].ref + Is(s, t.at) = T[s].ref + At(u, s)
  BY <1>4, <1>5
<1>7. ret' \in Rets
  BY <1>2 DEF Rets
<1>8. TaskOK(table', u)
  BY <1>3 DEF TaskOK
<1> QED
  BY <1>2, <1>3, <1>4, <1>6, <1>7, <1>8, Zenon DEF Walked

\* The walk goes on in the same inode.
LEMMA GoWalked ==
  ASSUME NEW p \in Procs, NEW T \in Tables, TableOK(T), NEW t \in Task, NEW u \in Task,
         Go(p, T, u), u.pc # "idle", u.at = t.at, TaskOK(T, u), ret' \in Rets,
         u.cwd \in {t.cwd, t.old}, u.old = t.old, u.call = t.call,
         u.pc = "got" => t.call = "find_inode"
  PROVE  Walked(p, T, t, u)
<1>1. task' = [task EXCEPT ![p] = u] /\ table' = T
  BY DEF Go
<1>2. \A s \in Slots : T[s].ref + Is(s, t.at) = T[s].ref + At(u, s)
  BY DEF Is, At
<1> QED
  BY <1>1, <1>2, SameSelf DEF Walked

LEMMA FoundWalked ==
  ASSUME NEW p \in Procs, NEW T \in Tables, TableOK(T), NEW t \in Task,
         ret \in Rets, Found(p, T, t)
  PROVE  \E u : Walked(p, T, t, u)
<1> DEFINE pc == IF t.call = "find_inode" THEN "got"
                 ELSE IF T[t.at].valid THEN "read" ELSE "load"
           u == [t EXCEPT !.pc = pc, !.rest = <<>>, !.cwd = t.old]
<1>1. Go(p, T, u) /\ ret' = [ret EXCEPT ![p] = T[t.at].ino]
  BY DEF Found
<1>2. pc \in {"got", "read", "load"} /\ (pc = "got" => t.call = "find_inode")
  OBVIOUS
<1> HIDE DEF pc
<1>3. /\ u \in Task /\ u.pc = pc /\ u.at = t.at /\ u.cwd = t.old /\ u.old = t.old
      /\ u.call = t.call
  <2>1. <<>> \in Seq(Names) /\ t.old \in Slots
    BY EmptySeq, TaskIs
  <2> QED
    BY <1>2, <2>1, Zenon DEF Task
<1> HIDE DEF u
<1>4. T[t.at].ino \in Inos
  BY TaskIs, InodeIs, Zenon
<1>5. ret' \in Rets
  BY <1>1, <1>4 DEF Rets
<1>6. TaskOK(T, u)
  BY <1>2, <1>3 DEF TaskOK
<1> QED
  BY <1>1, <1>2, <1>3, <1>5, <1>6, GoWalked, Zenon

LEMMA KindIs ==
  ASSUME NEW ino, Kind(ino) = "dir"
  PROVE  ino \in Dirs
  BY DEF Kind

LEMMA LockedWalked ==
  ASSUME TreeOK, NEW p \in Procs, NEW T \in Tables, TableOK(T), NEW t \in Task,
         T[t.at].ref > 0, T[t.at].kind = Kind(T[t.at].ino), t.rest # <<>>,
         ret \in Rets, Locked(p, T, t)
  PROVE  \E u : Walked(p, T, t, u)
<1>1. CASE Stop(p, put(T, t.at), t)
  BY <1>1, StopWalked
<1>2. CASE Found(p, T, t)
  BY <1>2, FoundWalked
<1>3. CASE T[t.at].kind = "dir" /\ Go(p, T, [t EXCEPT !.pc = "look"]) /\ UNCHANGED ret
  <2> DEFINE u == [t EXCEPT !.pc = "look"]
  <2>1. Go(p, T, u)
    BY <1>3
  <2>2. /\ u \in Task /\ u.pc = "look" /\ u.at = t.at /\ u.cwd = t.cwd /\ u.old = t.old
        /\ u.call = t.call /\ u.rest = t.rest
    BY DEF Task
  <2> HIDE DEF u
  <2>3. T[t.at].ino \in Dirs
    BY <1>3, KindIs, Zenon
  <2>4. TaskOK(T, u)
    BY <2>2, <2>3 DEF TaskOK
  <2>5. ret' \in Rets
    BY <1>3
  <2> QED
    BY <2>1, <2>2, <2>4, <2>5, GoWalked
<1> QED
  BY <1>1, <1>2, <1>3 DEF Locked

LEMMA WalkWalked ==
  ASSUME TreeOK, NEW p \in Procs, NEW T \in Tables, TableOK(T), NEW t \in Task,
         T[t.at].ref > 0, ret \in Rets, Walk(p, T, t)
  PROVE  \E u : Walked(p, T, t, u)
<1>1. CASE t.rest # <<>> /\ T[t.at].valid /\ Locked(p, T, t)
  <2>1. T[t.at].kind = Kind(T[t.at].ino)
    BY <1>1, TaskIs, InodeIs, Zenon
  <2> QED
    BY <1>1, <2>1, LockedWalked
<1>2. CASE Go(p, T, [t EXCEPT !.pc = "load"]) /\ UNCHANGED ret
  <2> DEFINE u == [t EXCEPT !.pc = "load"]
  <2>1. Go(p, T, u) /\ ret' \in Rets
    BY <1>2
  <2>2. /\ u \in Task /\ u.pc = "load" /\ u.at = t.at /\ u.cwd = t.cwd /\ u.old = t.old
        /\ u.call = t.call
    BY DEF Task
  <2> HIDE DEF u
  <2>3. TaskOK(T, u)
    BY <2>2 DEF TaskOK
  <2> QED
    BY <2>1, <2>2, <2>3, GoWalked
<1>3. CASE Stop(p, put(T, t.at), t)
  BY <1>3, StopWalked
<1>4. CASE Found(p, T, t)
  BY <1>4, FoundWalked
<1> QED
  BY <1>1, <1>2, <1>3, <1>4 DEF Walk

-----------------------------------------------------------------------------
(* References *)

Refs(T, tk, f) ==
  \A s \in Slots : T[s].ref = Cardinality(Holders(tk, f, s)) + Is(s, 0)

Others(p, tk, f, s) == Holders(tk, f, s) \ {<<p, "walk">>, <<p, "fd">>}

LEMMA HoldersFinite ==
  ASSUME TreeOK, NEW tk, NEW f, NEW s
  PROVE  IsFiniteSet(Holders(tk, f, s)) /\ Cardinality(Holders(tk, f, s)) \in Nat
<1>1. IsFiniteSet({"walk", "fd"})
  <2>1. IsFiniteSet({"walk"})
    BY FS_Singleton, Zenon
  <2>2. IsFiniteSet({"walk"} \cup {"fd"}) /\ {"walk"} \cup {"fd"} = {"walk", "fd"}
    BY <2>1, FS_AddElement
  <2> QED
    BY <2>2
<1>2. IsFiniteSet(Procs \X {"walk", "fd"})
  BY <1>1, FS_Product DEF TreeOK
<1>3. Holders(tk, f, s) \subseteq Procs \X {"walk", "fd"}
  BY DEF Holders
<1> QED
  BY <1>2, <1>3, FS_Subset, FS_CardinalityType

\* The references of p and those of the others.
LEMMA Split ==
  ASSUME TreeOK, NEW p \in Procs, NEW tk, NEW f, NEW s
  PROVE  /\ Cardinality(Others(p, tk, f, s)) \in Nat
         /\ Cardinality(Holders(tk, f, s)) =
              Cardinality(Others(p, tk, f, s)) + At(tk[p], s) + Is(f[p], s)
<1> DEFINE H == Holders(tk, f, s)
           w == <<p, "walk">>
           d == <<p, "fd">>
<1>1. IsFiniteSet(H) /\ Cardinality(H) \in Nat
  BY HoldersFinite
<1>2. w \in H <=> tk[p].pc # "idle" /\ tk[p].at = s
  BY DEF Holders
<1>3. d \in H <=> f[p] = s
  BY DEF Holders
<1>4. w # d /\ Others(p, tk, f, s) = (H \ {w}) \ {d}
  BY DEF Others
<1> HIDE DEF H, w, d
<1>5. IsFiniteSet(H \ {w}) /\ Cardinality(H \ {w}) \in Nat
      /\ Cardinality(H \ {w}) = IF w \in H THEN Cardinality(H) - 1 ELSE Cardinality(H)
  BY <1>1, FS_RemoveElement, FS_CardinalityType
<1>6. Cardinality(H) = Cardinality(H \ {w}) + At(tk[p], s)
  BY <1>1, <1>2, <1>5 DEF At
<1>7. /\ Cardinality((H \ {w}) \ {d}) \in Nat
      /\ Cardinality((H \ {w}) \ {d}) =
           IF d \in H \ {w} THEN Cardinality(H \ {w}) - 1 ELSE Cardinality(H \ {w})
  BY <1>5, FS_RemoveElement, FS_CardinalityType, Zenon
<1>8. Cardinality(H \ {w}) = Cardinality((H \ {w}) \ {d}) + Is(f[p], s)
  BY <1>3, <1>4, <1>5, <1>7 DEF Is
<1>9. At(tk[p], s) \in Nat /\ Is(f[p], s) \in Nat
  BY DEF At, Is
<1> QED
  BY <1>4, <1>5, <1>6, <1>7, <1>8, <1>9 DEF H

LEMMA OthersSame ==
  ASSUME NEW p \in Procs, NEW tk, NEW f, NEW tkn, NEW fn, NEW s,
         \A q \in Procs \ {p} : tkn[q] = tk[q] /\ fn[q] = f[q]
  PROVE  Others(p, tkn, fn, s) = Others(p, tk, f, s)
  BY DEF Others, Holders

\* A task with state t and descriptor x takes and gives references up to u and
\* v, and the counts follow.
Balanced(T, U, t, x, u, v) ==
  \A s \in Slots : U[s].ref + At(t, s) + Is(x, s) = T[s].ref + At(u, s) + Is(v, s)

LEMMA RefsStep ==
  ASSUME TreeOK, NEW p \in Procs, NEW tk, NEW f, NEW tkn, NEW fn,
         \A q \in Procs \ {p} : tkn[q] = tk[q] /\ fn[q] = f[q],
         NEW T, NEW U \in Tables, TableOK(U), Refs(T, tk, f),
         Balanced(T, U, tk[p], f[p], tkn[p], fn[p])
  PROVE  Refs(U, tkn, fn)
<1> SUFFICES ASSUME NEW s \in Slots
             PROVE  U[s].ref = Cardinality(Holders(tkn, fn, s)) + Is(s, 0)
  BY DEF Refs
<1> DEFINE n == Cardinality(Others(p, tk, f, s))
<1>1. n \in Nat /\ Cardinality(Holders(tk, f, s)) = n + At(tk[p], s) + Is(f[p], s)
  BY Split
<1>2. Cardinality(Holders(tkn, fn, s)) = n + At(tkn[p], s) + Is(fn[p], s)
  BY Split, OthersSame
<1>3. T[s].ref = Cardinality(Holders(tk, f, s)) + Is(s, 0)
  BY DEF Refs
<1>4. U[s].ref + At(tk[p], s) + Is(f[p], s) = T[s].ref + At(tkn[p], s) + Is(fn[p], s)
  BY DEF Balanced
<1>5. /\ At(tk[p], s) \in Nat /\ Is(f[p], s) \in Nat /\ At(tkn[p], s) \in Nat
      /\ Is(fn[p], s) \in Nat /\ Is(s, 0) \in Nat
  BY DEF At, Is
<1>6. U[s].ref \in Nat
  BY InodeIs, Zenon
<1> HIDE DEF n
<1> QED
  BY <1>1, <1>2, <1>3, <1>4, <1>5, <1>6

\* What is held is in use.
LEMMA HeldInUse ==
  ASSUME TreeOK, NEW T, NEW tk, NEW f, Refs(T, tk, f), NEW p \in Procs, NEW s \in Slots,
         (tk[p].pc # "idle" /\ tk[p].at = s) \/ f[p] = s
  PROVE  T[s].ref > 0
<1>1. /\ Cardinality(Others(p, tk, f, s)) \in Nat
      /\ Cardinality(Holders(tk, f, s)) =
           Cardinality(Others(p, tk, f, s)) + At(tk[p], s) + Is(f[p], s)
  BY Split
<1>2. T[s].ref = Cardinality(Holders(tk, f, s)) + Is(s, 0)
  BY DEF Refs
<1>3. /\ At(tk[p], s) \in Nat /\ Is(f[p], s) \in Nat /\ Is(s, 0) \in Nat
      /\ At(tk[p], s) + Is(f[p], s) > 0
  BY DEF At, Is
<1> QED
  BY <1>1, <1>2, <1>3

\* The root is always in use.
LEMMA RootInUse ==
  ASSUME TreeOK, NEW T, NEW tk, NEW f, Refs(T, tk, f)
  PROVE  0 \in Slots /\ T[0].ref > 0
<1>1. 0 \in Slots
  BY DEF TreeOK, Slots
<1>2. T[0].ref = Cardinality(Holders(tk, f, 0)) + 1
  BY <1>1 DEF Refs, Is
<1>3. Cardinality(Holders(tk, f, 0)) \in Nat
  BY HoldersFinite
<1> QED
  BY <1>1, <1>2, <1>3

-----------------------------------------------------------------------------
(* The steps *)

Typed ==
  /\ table \in Tables /\ task \in [Procs -> Task] /\ fd \in [Procs -> Slots \cup {NONE}]
  /\ ret \in Rets /\ halted \in BOOLEAN

\* What is only for those that call find_inode().
FindersOnly ==
  \A p \in Procs :
    task[p].call = "find_inode" \/ task[p].pc = "got" \/ fd[p] # NONE => p \in Finders

\* The inductive invariant.
WalkInv ==
  /\ Typed /\ TableOK(table) /\ Refs(table, task, fd)
  /\ \A p \in Procs : TaskOK(table, task[p])
  /\ FindersOnly

\* How the slot s may come into use: the walk of p starts in it, or it is the
\* one for an inode that dirlookup() has found.
Got(p, s) ==
  \/ p \in Finders
  \/ \E path \in Paths : s = Start(path.first, task[p].cwd)
  \/ \E d \in Dirs, n \in Names : s \in Gettable(table, Child[d, n]) /\ table'[s].ino = Child[d, n]

\* What every step of the task p does, u and v being its new state and descriptor.
Moves(p, u, v) ==
  /\ u \in Task /\ task' = [task EXCEPT ![p] = u]
  /\ v \in Slots \cup {NONE} /\ fd' = [fd EXCEPT ![p] = v]
  /\ table' \in Tables /\ TableOK(table') /\ Kept(table, table')
  /\ Balanced(table, table', task[p], fd[p], u, v)
  /\ TaskOK(table', u)
  /\ u.call = "find_inode" \/ u.pc = "got" \/ v # NONE => p \in Finders
  /\ ret' \in Rets /\ halted' \in BOOLEAN
  /\ halted' => \E ino \in Inos : Gettable(table, ino) = {}
  /\ table'[0].parent = table[0].parent
  /\ p \in Finders \/ {u.cwd, u.old} \subseteq {task[p].cwd, task[p].old}
  /\ \A s \in Slots : table[s].ref = 0 /\ table'[s].ref > 0 => Got(p, s)

Moved(p) == \E u, v : Moves(p, u, v)

LEMMA MovesKeep ==
  ASSUME TreeOK, WalkInv, NEW p \in Procs, NEW u, NEW v, Moves(p, u, v)
  PROVE  WalkInv'
<1>1. /\ u \in Task /\ task' = [task EXCEPT ![p] = u]
      /\ v \in Slots \cup {NONE} /\ fd' = [fd EXCEPT ![p] = v]
      /\ table' \in Tables /\ TableOK(table') /\ Kept(table, table')
      /\ ret' \in Rets /\ halted' \in BOOLEAN
  BY DEF Moves
<1>2. /\ task \in [Procs -> Task] /\ fd \in [Procs -> Slots \cup {NONE}]
      /\ table \in Tables /\ TableOK(table) /\ Refs(table, task, fd)
      /\ \A q \in Procs : TaskOK(table, task[q])
  BY DEF WalkInv, Typed
<1>3. /\ task'[p] = u /\ fd'[p] = v
      /\ \A q \in Procs \ {p} : task'[q] = task[q] /\ fd'[q] = fd[q]
  BY <1>1, <1>2
<1>4. Typed'
  BY <1>1, <1>2 DEF Typed
<1>5. Refs(table', task', fd')
  <2>1. Balanced(table, table', task[p], fd[p], task'[p], fd'[p])
    BY <1>3 DEF Moves
  <2> QED
    BY <1>1, <1>2, <1>3, <2>1, RefsStep, Zenon
<1>6. ASSUME NEW q \in Procs PROVE TaskOK(table', task'[q])
  <2>1. CASE q = p
    BY <1>3, <2>1 DEF Moves
  <2>2. CASE q # p
    <3>1. task'[q] = task[q] /\ task[q] \in Task /\ TaskOK(table, task[q])
      BY <1>2, <1>3, <2>2
    <3>2. task[q].at \in Slots
      BY <3>1, TaskIs
    <3>3. CASE task[q].pc # "idle"
      <4>1. table[task[q].at].ref > 0
        BY <1>2, <3>2, <3>3, HeldInUse
      <4> QED
        BY <1>1, <3>1, <3>2, <4>1 DEF TaskOK, Kept
    <3>4. CASE task[q].pc = "idle"
      BY <3>1, <3>4 DEF TaskOK
    <3> QED
      BY <3>3, <3>4
  <2> QED
    BY <2>1, <2>2
<1>7. FindersOnly'
  BY <1>3 DEF FindersOnly, WalkInv, Moves
<1> QED
  BY <1>1, <1>4, <1>5, <1>6, <1>7 DEF WalkInv

\* The walk t goes on in the table T, which p has made from the one there was.
GoesOn(p, T, t) ==
  /\ T \in Tables /\ TableOK(T) /\ Kept(table, T) /\ t \in Task
  /\ \A s \in Slots : T[s].ref + At(task[p], s) = table[s].ref + Is(s, t.at)
  /\ t.call = "find_inode" => p \in Finders
  /\ T[0].parent = table[0].parent
  /\ p \in Finders \/ {t.cwd, t.old} \subseteq {task[p].cwd, task[p].old}
  /\ \/ table[t.at].ref > 0
     \/ p \in Finders
     \/ \E path \in Paths : t.at = Start(path.first, task[p].cwd)
     \/ \E d \in Dirs, n \in Names :
          t.at \in Gettable(table, Child[d, n]) /\ T[t.at].ino = Child[d, n]

LEMMA WalkedMoves ==
  ASSUME TreeOK, WalkInv, ~halted, NEW p \in Procs, NEW T, NEW t, NEW u, GoesOn(p, T, t),
         Walked(p, T, t, u), UNCHANGED <<fd, halted>>
  PROVE  Moves(p, u, fd[p])
<1>1. /\ u \in Task /\ task' = [task EXCEPT ![p] = u]
      /\ table' \in Tables /\ TableOK(table') /\ Same(T, table') /\ ret' \in Rets
      /\ TaskOK(table', u)
      /\ u.cwd \in {t.cwd, t.old} /\ u.old = t.old /\ u.call = t.call
      /\ u.pc = "got" => t.call = "find_inode"
      /\ u.pc # "idle" => u.at = t.at
      /\ \A s \in Slots : table'[s].ref + Is(s, t.at) = T[s].ref + At(u, s)
  BY DEF Walked
<1>2. /\ fd \in [Procs -> Slots \cup {NONE}] /\ table \in Tables /\ TableOK(table)
      /\ FindersOnly
  BY DEF WalkInv, Typed
<1>3. fd[p] \in Slots \cup {NONE} /\ fd' = [fd EXCEPT ![p] = fd[p]]
  BY <1>2
<1>a. /\ T \in Tables /\ TableOK(T) /\ Kept(table, T)
      /\ \A s \in Slots : T[s].ref + At(task[p], s) = table[s].ref + Is(s, t.at)
      /\ T[0].parent = table[0].parent
  BY DEF GoesOn
<1>4. Kept(table, table')
  BY <1>1, <1>a, SameKept
<1>5. ASSUME NEW s \in Slots
      PROVE  /\ table'[s].ref + At(task[p], s) = table[s].ref + At(u, s)
             /\ table[s].ref \in Nat /\ table'[s].ref \in Nat
  <2>1. /\ table'[s].ref + Is(s, t.at) = T[s].ref + At(u, s)
        /\ T[s].ref + At(task[p], s) = table[s].ref + Is(s, t.at)
    BY <1>1, <1>a
  <2>2. table'[s].ref \in Nat /\ T[s].ref \in Nat /\ table[s].ref \in Nat
    BY <1>1, <1>2, <1>a, InodeIs, Zenon
  <2>3. At(u, s) \in Nat /\ At(task[p], s) \in Nat /\ Is(s, t.at) \in Nat
    BY DEF At, Is
  <2> QED
    BY <2>1, <2>2, <2>3
<1>6. Balanced(table, table', task[p], fd[p], u, fd[p])
  BY <1>5 DEF Balanced
<1>7. table'[0].parent = table[0].parent
  <2>1. 0 \in Slots
    BY DEF Slots, TreeOK
  <2> QED
    BY <1>1, <1>a, <2>1 DEF Same
<1>8. u.call = "find_inode" \/ u.pc = "got" \/ fd[p] # NONE => p \in Finders
  BY <1>1, <1>2 DEF FindersOnly, GoesOn
<1>9. p \in Finders \/ {u.cwd, u.old} \subseteq {task[p].cwd, task[p].old}
  BY <1>1 DEF GoesOn
<1>10. ASSUME NEW s \in Slots, table[s].ref = 0, table'[s].ref > 0
       PROVE  Got(p, s)
  <2>1. At(u, s) # 0
    <3>1. At(task[p], s) \in Nat
      BY DEF At
    <3> QED
      BY <1>5, <1>10, <3>1
  <2>2. s = t.at
    BY <1>1, <2>1 DEF At
  <2>3. table'[s].ino = T[s].ino
    BY <1>1 DEF Same
  <2> QED
    <3>1. CASE p \in Finders
      BY <3>1 DEF Got
    <3>2. CASE \E path \in Paths : s = Start(path.first, task[p].cwd)
      BY <3>2 DEF Got
    <3>3. CASE \E d \in Dirs, n \in Names :
                 s \in Gettable(table, Child[d, n]) /\ T[s].ino = Child[d, n]
      BY <2>3, <3>3 DEF Got
    <3>4. table[s].ref > 0 => Got(p, s)
      BY <1>10
    <3> QED
      BY <2>2, <3>1, <3>2, <3>3, <3>4 DEF GoesOn
<1>11. halted' \in BOOLEAN /\ ~halted'
  BY DEF WalkInv, Typed
<1> QED
  BY <1>1, <1>3, <1>4, <1>6, <1>7, <1>8, <1>9, <1>10, <1>11, Zenon DEF Moves

\* The state a task is in.
LEMMA TaskState ==
  ASSUME WalkInv, NEW p \in Procs
  PROVE  /\ table \in Tables /\ TableOK(table) /\ ret \in Rets /\ Refs(table, task, fd)
         /\ task[p] \in Task /\ task[p].at \in Slots /\ task[p].cwd \in Slots
         /\ fd[p] \in Slots \cup {NONE} /\ TaskOK(table, task[p])
         /\ task[p].call = "find_inode" \/ task[p].pc = "got" \/ fd[p] # NONE => p \in Finders
<1>1. task[p] \in Task /\ fd[p] \in Slots \cup {NONE}
  BY DEF WalkInv, Typed
<1> QED
  BY <1>1, TaskIs DEF WalkInv, Typed, FindersOnly

LEMMA StartIs ==
  ASSUME TreeOK, WalkInv, NEW first, NEW cwd \in Slots
  PROVE  Start(first, cwd) \in Slots
<1>1. 0 \in Slots /\ table[cwd].parent \in Slots
  <2>1. table \in Tables /\ TableOK(table)
    BY DEF WalkInv, Typed
  <2>2. 0 \in Slots
    BY DEF TreeOK, Slots
  <2> QED
    BY <2>1, <2>2, InodeIs, Zenon
<1> QED
  BY <1>1 DEF Start

LEMMA namexMoves ==
  ASSUME TreeOK, WalkInv, ~halted, NEW p \in Procs, NEW path \in Paths, NEW up \in BOOLEAN,
         NEW call \in {"execve", "find_inode"}, NEW cwd \in Slots,
         call = "find_inode" => p \in Finders, p \in Finders \/ cwd = task[p].cwd,
         inode_namex(p, path, up, call, cwd)
  PROVE  Moved(p)
<1> DEFINE s0 == Start(path.first, cwd)
           T == dup(table, s0)
           t == [pc |-> "idle", at |-> s0, rest |-> path.names, up |-> up, call |-> call,
                 cwd |-> cwd, old |-> task[p].cwd]
<1>1. task[p].pc = "idle" /\ Walk(p, T, t) /\ UNCHANGED <<fd, halted>>
  BY DEF inode_namex
<1>2. /\ table \in Tables /\ TableOK(table) /\ ret \in Rets /\ task[p].cwd \in Slots
  BY TaskState
<1>3. s0 \in Slots
  BY StartIs
<1>4. s0 = task[p].cwd \/ p \in Finders \/ s0 = Start(path.first, task[p].cwd)
  OBVIOUS
<1>5. path.names \in Seq(Names)
  BY DEF TreeOK
<1> HIDE DEF s0
<1>6. /\ t \in Task /\ t.at = s0 /\ t.call = call /\ t.cwd = cwd /\ t.old = task[p].cwd
  BY <1>2, <1>3, <1>5 DEF Task
<1> HIDE DEF t
<1>7. /\ T \in Tables /\ TableOK(T) /\ Same(table, T)
      /\ \A s \in Slots : T[s].ref = table[s].ref + Is(s, s0)
  BY <1>2, <1>3, dupIs
<1> HIDE DEF T
<1>8. Kept(table, T)
  BY <1>2, <1>7, SameOK
<1>9. T[t.at].ref > 0
  <2>1. table[s0].ref \in Nat /\ Is(s0, s0) = 1
    BY <1>2, <1>3, InodeIs, Zenon DEF Is
  <2> QED
    BY <1>3, <1>6, <1>7, <2>1
<1>10. PICK u : Walked(p, T, t, u)
  BY <1>1, <1>2, <1>6, <1>7, <1>9, WalkWalked
<1>11. \A s \in Slots : T[s].ref + At(task[p], s) = table[s].ref + Is(s, t.at)
  <2>1. \A s \in Slots : At(task[p], s) = 0 /\ T[s].ref \in Nat
    BY <1>1, <1>7, InodeIs, Zenon DEF At
  <2> QED
    BY <1>6, <1>7, <2>1, SMTT(20)
<1>12. T[0].parent = table[0].parent
  <2>1. 0 \in Slots
    BY DEF TreeOK, Slots
  <2> QED
    BY <1>7, <2>1 DEF Same
<1>13. p \in Finders \/ \E pa \in Paths : t.at = Start(pa.first, task[p].cwd)
  BY <1>6 DEF s0
<1>14. GoesOn(p, T, t)
  BY <1>6, <1>7, <1>8, <1>11, <1>12, <1>13 DEF GoesOn
<1> QED
  BY <1>1, <1>10, <1>14, WalkedMoves DEF Moved

LEMMA lock_entryMoves ==
  ASSUME TreeOK, WalkInv, ~halted, NEW p \in Procs, lock_entry(p)
  PROVE  Moved(p)
<1> DEFINE s == task[p].at
           u == [task[p] EXCEPT !.pc = "travel"]
           r == [table[s] EXCEPT !.kind = Kind(table[s].ino)]
<1>1. /\ task[p].pc = "load" /\ task' = [task EXCEPT ![p] = u]
      /\ table' = [table EXCEPT ![s] = r] /\ UNCHANGED <<fd, ret, halted>>
  BY DEF lock_entry, Go
<1>2. /\ table \in Tables /\ TableOK(table) /\ ret \in Rets /\ task[p] \in Task /\ s \in Slots
      /\ fd[p] \in Slots \cup {NONE} /\ (task[p].call = "find_inode" \/ fd[p] # NONE => p \in Finders)
  BY TaskState
<1>3. /\ u \in Task /\ u.pc = "travel" /\ u.at = s /\ u.call = task[p].call
      /\ u.cwd = task[p].cwd /\ u.old = task[p].old
  BY <1>2 DEF Task
<1>4. table[s] \in Inode /\ Kind(table[s].ino) \in {"dir", "file", "none"}
  BY <1>2, InodeIs, Zenon DEF Kind
<1> HIDE DEF u, s
<1>5. /\ r \in Inode /\ r.ref = table[s].ref /\ r.ino = table[s].ino /\ r.kind = Kind(r.ino)
      /\ r.parent = table[s].parent /\ r.valid = table[s].valid
  BY <1>4 DEF Inode
<1> HIDE DEF r
<1>6. table' \in Tables /\ table'[s] = r /\ \A x \in Slots : x # s => table'[x] = table[x]
  BY <1>1, <1>2, <1>5 DEF Tables
<1>7. Follows(table[s], table'[s])
  BY <1>5, <1>6 DEF Follows
<1>8. TableOK(table') /\ Kept(table, table')
  BY <1>2, <1>6, <1>7, SlotFollows
<1>9. \A x \in Slots : table'[x].ref = table[x].ref /\ table'[x].parent = table[x].parent
  BY <1>5, <1>6
<1>10. Balanced(table, table', task[p], fd[p], u, fd[p])
  BY <1>1, <1>3, <1>9 DEF Balanced, At, s
<1>11. TaskOK(table', u)
  BY <1>3, <1>5, <1>6 DEF TaskOK
<1>12. table'[0].parent = table[0].parent
  BY <1>9 DEF TreeOK, Slots
<1>13. fd' = [fd EXCEPT ![p] = fd[p]] /\ halted' \in BOOLEAN /\ ~halted' /\ ret' \in Rets
  BY <1>1 DEF WalkInv, Typed
<1>14. \A x \in Slots : ~(table[x].ref = 0 /\ table'[x].ref > 0)
  BY <1>9
<1>15. Moves(p, u, fd[p])
  BY <1>1, <1>2, <1>3, <1>6, <1>8, <1>10, <1>11, <1>12, <1>13, <1>14, Zenon DEF Moves
<1> QED
  BY <1>15 DEF Moved

\* A step that gives back the reference of the walk.
LEMMA PutMoves ==
  ASSUME TreeOK, WalkInv, ~halted, NEW p \in Procs, task[p].pc # "idle",
         Go(p, put(table, task[p].at), [task[p] EXCEPT !.pc = "idle", !.at = 0]),
         UNCHANGED <<fd, ret, halted>>
  PROVE  Moved(p)
<1> DEFINE s == task[p].at
           u == [task[p] EXCEPT !.pc = "idle", !.at = 0]
<1>1. task' = [task EXCEPT ![p] = u] /\ table' = put(table, s)
  BY DEF Go
<1>2. /\ table \in Tables /\ TableOK(table) /\ task[p] \in Task /\ s \in Slots
      /\ fd[p] \in Slots \cup {NONE} /\ Refs(table, task, fd) /\ ret \in Rets
      /\ (task[p].call = "find_inode" \/ fd[p] # NONE => p \in Finders)
  BY TaskState
<1>3. 0 \in Slots
  BY DEF TreeOK, Slots
<1>4. /\ u \in Task /\ u.pc = "idle" /\ u.call = task[p].call
      /\ u.cwd = task[p].cwd /\ u.old = task[p].old
  BY <1>2, <1>3, Zenon DEF Task
<1>5. table[s].ref > 0
  BY <1>2, HeldInUse
<1> HIDE DEF u
<1>6. /\ table' \in Tables /\ TableOK(table') /\ Same(table, table')
      /\ \A x \in Slots : table'[x].ref + Is(x, s) = table[x].ref
  BY <1>1, <1>2, <1>5, putIs
<1>7. Kept(table, table')
  BY <1>2, <1>6, SameOK
<1>8. Balanced(table, table', task[p], fd[p], u, fd[p])
  <2>1. \A x \in Slots : Is(x, s) = At(task[p], x) /\ At(u, x) = 0
    BY <1>4 DEF Is, At
  <2>2. \A x \in Slots : table'[x].ref \in Nat /\ table[x].ref \in Nat
    BY <1>2, <1>6, InodeIs, Zenon
  <2> HIDE DEF s
  <2> QED
    BY <1>6, <2>1, <2>2 DEF Balanced
<1>9. \A x \in Slots : ~(table[x].ref = 0 /\ table'[x].ref > 0)
  <2>1. \A x \in Slots : table'[x].ref \in Nat /\ Is(x, s) \in Nat
    BY <1>6, InodeIs, Zenon DEF Is
  <2> QED
    BY <1>6, <2>1
<1>10. TaskOK(table', u)
  BY <1>4 DEF TaskOK
<1>11. table'[0].parent = table[0].parent
  BY <1>3, <1>6 DEF Same
<1>12. fd' = [fd EXCEPT ![p] = fd[p]] /\ halted' \in BOOLEAN /\ ~halted' /\ ret' \in Rets
  BY DEF WalkInv, Typed
<1>13. Moves(p, u, fd[p])
  BY <1>1, <1>2, <1>4, <1>6, <1>7, <1>8, <1>9, <1>10, <1>11, <1>12, Zenon DEF Moves
<1> QED
  BY <1>13 DEF Moved

LEMMA keepMoves ==
  ASSUME TreeOK, WalkInv, ~halted, NEW p \in Procs, keep(p)
  PROVE  Moved(p)
<1> DEFINE s == task[p].at
           u == [task[p] EXCEPT !.pc = "idle", !.at = 0]
<1>1. /\ task[p].pc = "got" /\ fd[p] = NONE /\ fd' = [fd EXCEPT ![p] = s]
      /\ task' = [task EXCEPT ![p] = u] /\ table' = table /\ UNCHANGED <<ret, halted>>
  BY DEF keep, Go
<1>2. /\ table \in Tables /\ TableOK(table) /\ task[p] \in Task /\ s \in Slots
      /\ ret \in Rets /\ (task[p].pc = "got" => p \in Finders)
  BY TaskState
<1>3. 0 \in Slots /\ NONE \notin Slots
  BY DEF TreeOK, Slots
<1>4. u \in Task /\ u.pc = "idle"
  BY <1>2, <1>3, Zenon DEF Task
<1> HIDE DEF u
<1>5. Kept(table, table')
  BY <1>1, <1>2, SameSelf, SameOK
<1>6. Balanced(table, table', task[p], fd[p], u, s)
  <2>1. \A x \in Slots : At(task[p], x) = Is(s, x) /\ At(u, x) = 0 /\ Is(fd[p], x) = 0
    BY <1>1, <1>3, <1>4 DEF At, Is
  <2>2. \A x \in Slots : table[x].ref \in Nat /\ Is(s, x) \in Nat
    BY <1>2, InodeIs, Zenon DEF Is
  <2> HIDE DEF s
  <2> QED
    BY <1>1, <2>1, <2>2 DEF Balanced
<1>7. TaskOK(table', u)
  BY <1>4 DEF TaskOK
<1>8. halted' \in BOOLEAN /\ ~halted' /\ ret' \in Rets
  BY <1>1 DEF WalkInv, Typed
<1>9. \A x \in Slots : ~(table[x].ref = 0 /\ table'[x].ref > 0)
  BY <1>1
<1>10. Moves(p, u, s)
  BY <1>1, <1>2, <1>4, <1>5, <1>6, <1>7, <1>8, <1>9 DEF Moves
<1> QED
  BY <1>10 DEF Moved

LEMMA closeMoves ==
  ASSUME TreeOK, WalkInv, ~halted, NEW p \in Procs, close(p)
  PROVE  Moved(p)
<1> DEFINE s == fd[p]
<1>1. /\ s # NONE /\ table' = put(table, s) /\ fd' = [fd EXCEPT ![p] = NONE]
      /\ UNCHANGED <<task, ret, halted>>
  BY DEF close
<1>2. /\ table \in Tables /\ TableOK(table) /\ task[p] \in Task /\ s \in Slots
      /\ Refs(table, task, fd) /\ ret \in Rets /\ p \in Finders /\ TaskOK(table, task[p])
  BY <1>1, TaskState
<1>3. 0 \in Slots /\ NONE \notin Slots
  BY DEF TreeOK, Slots
<1>4. table[s].ref > 0
  BY <1>2, HeldInUse
<1>5. /\ table' \in Tables /\ TableOK(table') /\ Same(table, table')
      /\ \A x \in Slots : table'[x].ref + Is(x, s) = table[x].ref
  BY <1>1, <1>2, <1>4, putIs
<1>6. Kept(table, table')
  BY <1>2, <1>5, SameOK
<1>7. Balanced(table, table', task[p], fd[p], task[p], NONE)
  <2>1. \A x \in Slots : Is(x, s) = Is(fd[p], x) /\ Is(NONE, x) = 0
    BY <1>3 DEF Is
  <2>2. \A x \in Slots : /\ table'[x].ref \in Nat /\ table[x].ref \in Nat
                         /\ At(task[p], x) \in Nat /\ Is(x, s) \in Nat
    BY <1>2, <1>5, InodeIs, Zenon DEF At, Is
  <2> HIDE DEF s
  <2> QED
    BY <1>5, <2>1, <2>2 DEF Balanced
<1>8. \A x \in Slots : ~(table[x].ref = 0 /\ table'[x].ref > 0)
  <2>1. \A x \in Slots : table'[x].ref \in Nat /\ Is(x, s) \in Nat
    BY <1>5, InodeIs, Zenon DEF Is
  <2> QED
    BY <1>5, <2>1
<1>9. TaskOK(table', task[p])
  BY <1>2, <1>5 DEF TaskOK, Same, Task
<1>10. table'[0].parent = table[0].parent
  BY <1>3, <1>5 DEF Same
<1>11. task' = [task EXCEPT ![p] = task[p]] /\ halted' \in BOOLEAN /\ ~halted' /\ ret' \in Rets
  BY <1>1 DEF WalkInv, Typed
<1>12. Moves(p, task[p], NONE)
  BY <1>1, <1>2, <1>5, <1>6, <1>7, <1>8, <1>9, <1>10, <1>11, Zenon DEF Moves
<1> QED
  BY <1>12 DEF Moved

LEMMA lock_endMoves ==
  ASSUME TreeOK, WalkInv, ~halted, NEW p \in Procs, lock_end(p)
  PROVE  Moved(p)
<1> DEFINE t == task[p]
           s == t.at
           r == [table[s] EXCEPT !.valid = TRUE]
           T == [table EXCEPT ![s] = r]
<1>1. /\ t.pc = "travel" /\ UNCHANGED <<fd, halted>>
      /\ \/ t.rest # <<>> /\ Locked(p, T, t)
         \/ Go(p, T, [t EXCEPT !.pc = "read"]) /\ UNCHANGED ret
  BY DEF lock_end
<1>2. /\ table \in Tables /\ TableOK(table) /\ ret \in Rets /\ t \in Task /\ s \in Slots
      /\ TaskOK(table, t) /\ Refs(table, task, fd) /\ (t.call = "find_inode" => p \in Finders)
  BY TaskState
<1>3. table[s] \in Inode /\ table[s].kind = Kind(table[s].ino)
  BY <1>1, <1>2, InodeIs, Zenon DEF TaskOK
<1>4. table[s].ref > 0
  BY <1>1, <1>2, HeldInUse
<1>5. /\ r \in Inode /\ r.ref = table[s].ref /\ r.ino = table[s].ino /\ r.kind = Kind(r.ino)
      /\ r.parent = table[s].parent
  BY <1>3, Zenon DEF Inode
<1> HIDE DEF r
<1>6. T \in Tables /\ T[s] = r /\ \A x \in Slots : x # s => T[x] = table[x]
  BY <1>2, <1>5 DEF Tables
<1> HIDE DEF T
<1>7. Follows(table[s], T[s])
  BY <1>5, <1>6 DEF Follows
<1>8. TableOK(T) /\ Kept(table, T)
  BY <1>2, <1>6, <1>7, SlotFollows
<1>9. \A x \in Slots : T[x].ref = table[x].ref /\ T[x].parent = table[x].parent
  BY <1>5, <1>6
<1>10. PICK u : Walked(p, T, t, u)
  <2>1. CASE t.rest # <<>> /\ Locked(p, T, t)
    <3>1. T[t.at].ref > 0 /\ T[t.at].kind = Kind(T[t.at].ino)
      BY <1>2, <1>4, <1>5, <1>6
    <3> QED
      BY <1>2, <1>6, <1>8, <2>1, <3>1, LockedWalked
  <2>2. CASE Go(p, T, [t EXCEPT !.pc = "read"]) /\ UNCHANGED ret
    <3> DEFINE u == [t EXCEPT !.pc = "read"]
    <3>1. Go(p, T, u) /\ ret' \in Rets
      BY <1>2, <2>2
    <3>2. /\ u \in Task /\ u.pc = "read" /\ u.at = t.at /\ u.cwd = t.cwd /\ u.old = t.old
          /\ u.call = t.call
      BY <1>2 DEF Task
    <3> HIDE DEF u
    <3>3. TaskOK(T, u)
      BY <3>2 DEF TaskOK
    <3> QED
      BY <1>2, <1>6, <1>8, <3>1, <3>2, <3>3, GoWalked
  <2> QED
    BY <1>1, <2>1, <2>2
<1>11. \A x \in Slots : T[x].ref + At(task[p], x) = table[x].ref + Is(x, t.at)
  BY <1>1, <1>9 DEF At, Is
<1>12. T[0].parent = table[0].parent
  BY <1>9 DEF TreeOK, Slots
<1>13. GoesOn(p, T, t)
  BY <1>2, <1>4, <1>6, <1>8, <1>11, <1>12 DEF GoesOn
<1> QED
  BY <1>1, <1>10, <1>13, WalkedMoves DEF Moved

\* What dirlookup() works on.
LEMMA LookState ==
  ASSUME TreeOK, WalkInv, NEW p \in Procs, task[p].pc = "look"
  PROVE  /\ task[p].rest \in Seq(Names) /\ task[p].rest # <<>>
         /\ Head(task[p].rest) \in Names /\ Tail(task[p].rest) \in Seq(Names)
         /\ table[task[p].at].ino \in Dirs /\ table[task[p].at].ref > 0
         /\ Child[table[task[p].at].ino, Head(task[p].rest)] \in Inos \cup {NONE}
<1>1. /\ task[p] \in Task /\ TaskOK(table, task[p]) /\ task[p].at \in Slots
      /\ Refs(table, task, fd)
  BY TaskState
<1>2. task[p].rest \in Seq(Names) /\ task[p].rest # <<>> /\ table[task[p].at].ino \in Dirs
  BY <1>1, TaskIs DEF TaskOK
<1>3. Head(task[p].rest) \in Names /\ Tail(task[p].rest) \in Seq(Names)
  BY <1>2, HeadTailProperties
<1>4. table[task[p].at].ref > 0
  BY <1>1, HeldInUse
<1> QED
  BY <1>2, <1>3, <1>4 DEF TreeOK

\* The inode found is got, and the one of the directory given back.
NextTable(p, s, ino) ==
  put(Looked(table, s, ino, Head(task[p].rest), task[p].at), task[p].at)

\* In T the reference of p is to the slot s of the inode ino.
MovedTo(p, s, ino, T) ==
  /\ T \in Tables /\ TableOK(T) /\ Kept(table, T)
  /\ \A x \in Slots : T[x].ref + At(task[p], x) = table[x].ref + Is(x, s)
  /\ T[0].parent = table[0].parent /\ T[s].ino = ino /\ T[s].ref > 0

LEMMA NextTableIs ==
  ASSUME TreeOK, WalkInv, NEW p \in Procs, task[p].pc = "look", NEW ino \in Inos,
         NEW s \in Gettable(table, ino), NEW T, T = NextTable(p, s, ino)
  PROVE  MovedTo(p, s, ino, T)
<1> DEFINE a == task[p].at
           name == Head(task[p].rest)
           L == Looked(table, s, ino, name, a)
<1>1. name \in Names /\ table[a].ref > 0
  BY LookState
<1>2. table \in Tables /\ TableOK(table) /\ a \in Slots
  BY TaskState
<1>3. s \in Slots /\ s # 0
  BY <1>2, GettableIs
<1>4. \A x \in Slots : At(task[p], x) = Is(x, a)
  BY DEF At, Is
<1>5. T = put(L, a)
  BY DEF NextTable
<1> HIDE DEF a, name
<1>6. /\ L \in Tables /\ TableOK(L) /\ Kept(table, L) /\ L[s].ref = table[s].ref + 1
      /\ L[s].ino = ino /\ \A x \in Slots : x # s => L[x] = table[x]
  <2>1. Referred(table, L, s, ino)
    BY <1>1, <1>2, LookedIs, Zenon
  <2> HIDE DEF L
  <2> QED
    BY <2>1, Zenon DEF Referred
<1> HIDE DEF L
<1>7. \A x \in Slots : table[x].ref \in Nat
  BY <1>2, InodeIs, Zenon
<1>8. \A x \in Slots : L[x].ref = table[x].ref + Is(x, s)
  BY <1>6, <1>7 DEF Is
<1>9. L[a].ref > 0
  BY <1>1, <1>2, <1>7, <1>8 DEF Is
<1>10. /\ T \in Tables /\ TableOK(T) /\ Same(L, T)
       /\ \A x \in Slots : T[x].ref + Is(x, a) = L[x].ref
  BY <1>2, <1>5, <1>6, <1>9, putIs, SMTT(20)
<1>11. Kept(table, T)
  BY <1>6, <1>10, SameKept
<1>12. \A x \in Slots : T[x].ref + At(task[p], x) = table[x].ref + Is(x, s)
  BY <1>4, <1>8, <1>10
<1>13. T[s].ref > 0
  <2>1. T[s].ref + Is(s, a) = table[s].ref + 1 /\ table[s].ref \in Nat
    BY <1>3, <1>6, <1>7, <1>10
  <2>2. T[s].ref \in Nat
    BY <1>3, <1>10, InodeIs, Zenon
  <2>3. Is(s, a) = 0 \/ (s = a /\ Is(s, a) = 1)
    BY DEF Is
  <2> QED
    BY <1>1, <2>1, <2>2, <2>3
<1>14. T[0].parent = table[0].parent
  <2>1. 0 \in Slots
    BY DEF TreeOK, Slots
  <2>2. L[0].parent = table[0].parent
    BY <1>3, <1>6, <2>1
  <2> QED
    BY <1>10, <2>1, <2>2 DEF Same
<1>15. T[s].ino = ino
  BY <1>3, <1>6, <1>10 DEF Same
<1> QED
  BY <1>10, <1>11, <1>12, <1>13, <1>14, <1>15 DEF MovedTo

LEMMA NextName ==
  ASSUME TreeOK, WalkInv, NEW p \in Procs, task[p].pc = "look", NEW ino \in Inos,
         ino = Child[table[task[p].at].ino, Head(task[p].rest)],
         NEW s \in Gettable(table, ino), NEW t \in Task,
         t.at = s, t.call = task[p].call, t.cwd = task[p].cwd, t.old = task[p].old
  PROVE  GoesOn(p, NextTable(p, s, ino), t)
<1> DEFINE T == NextTable(p, s, ino)
<1>a. MovedTo(p, s, ino, T)
  BY NextTableIs
<1> HIDE DEF T
<1>1. /\ T \in Tables /\ TableOK(T) /\ Kept(table, T)
      /\ \A x \in Slots : T[x].ref + At(task[p], x) = table[x].ref + Is(x, s)
      /\ T[0].parent = table[0].parent /\ T[s].ino = ino
  BY <1>a DEF MovedTo
<1>2. task[p].call = "find_inode" => p \in Finders
  BY TaskState
<1>3. Head(task[p].rest) \in Names /\ table[task[p].at].ino \in Dirs
  BY LookState
<1>4. \E d \in Dirs, n \in Names : s \in Gettable(table, Child[d, n]) /\ T[s].ino = Child[d, n]
  BY <1>1, <1>3
<1>5. GoesOn(p, T, t)
  BY <1>1, <1>2, <1>4 DEF GoesOn
<1> QED
  BY <1>5 DEF T

LEMMA dirlookupMoves ==
  ASSUME TreeOK, WalkInv, ~halted, NEW p \in Procs, dirlookup(p)
  PROVE  Moved(p)
<1> DEFINE t == task[p]
           name == Head(t.rest)
           ino == Child[table[t.at].ino, name]
<1>1. t.pc = "look" /\ UNCHANGED fd
  BY DEF dirlookup
<1>2. /\ ino \in Inos \cup {NONE} /\ Tail(t.rest) \in Seq(Names) /\ table[t.at].ref > 0
  BY <1>1, LookState
<1>3. /\ table \in Tables /\ TableOK(table) /\ ret \in Rets /\ t \in Task /\ t.at \in Slots
      /\ fd[p] \in Slots \cup {NONE} /\ TaskOK(table, t)
      /\ (t.call = "find_inode" \/ fd[p] # NONE => p \in Finders)
  BY TaskState
<1>4. CASE Stop(p, put(table, t.at), t) /\ UNCHANGED halted
  <2>1. PICK u : Walked(p, table, t, u)
    BY <1>2, <1>3, <1>4, StopWalked
  <2>2. Kept(table, table)
    BY <1>3, SameSelf, SameOK
  <2>3. \A x \in Slots : table[x].ref + At(task[p], x) = table[x].ref + Is(x, t.at)
    BY <1>1 DEF At, Is
  <2>4. GoesOn(p, table, t)
    BY <1>2, <1>3, <2>2, <2>3 DEF GoesOn
  <2> QED
    BY <1>1, <1>4, <2>1, <2>4, WalkedMoves DEF Moved
<1>5. ASSUME ino # NONE, NEW s \in Gettable(table, ino), UNCHANGED halted,
             Walk(p, NextTable(p, s, ino), [t EXCEPT !.at = s, !.rest = Tail(t.rest)])
      PROVE  Moved(p)
  <2> DEFINE T == NextTable(p, s, ino)
             n == [t EXCEPT !.at = s, !.rest = Tail(t.rest)]
  <2>1. ino \in Inos
    BY <1>2, <1>5
  <2>2. s \in Slots
    BY <1>3, GettableIs
  <2>3. Walk(p, T, n)
    BY <1>5
  <2>4. n \in Task /\ n.at = s /\ n.call = t.call /\ n.cwd = t.cwd /\ n.old = t.old
    BY <1>2, <1>3, <2>2 DEF Task
  <2> HIDE DEF n
  <2>5. GoesOn(p, T, n)
    BY <1>1, <2>1, <2>4, NextName
  <2>6. T \in Tables /\ TableOK(T) /\ T[s].ref > 0
    BY <1>1, <2>1, NextTableIs DEF MovedTo
  <2> HIDE DEF T
  <2>7. PICK u : Walked(p, T, n, u)
    BY <1>3, <2>3, <2>4, <2>6, WalkWalked
  <2> QED
    BY <1>1, <1>5, <2>5, <2>7, WalkedMoves DEF Moved
<1>6. CASE ino # NONE /\ Gettable(table, ino) = {} /\ halted' = TRUE /\ UNCHANGED <<table, task, ret>>
  <2>1. ino \in Inos
    BY <1>2, <1>6
  <2>2. Kept(table, table') /\ TableOK(table') /\ table' \in Tables
    BY <1>3, <1>6, SameSelf, SameOK
  <2>3. Balanced(table, table', t, fd[p], t, fd[p])
    BY <1>6 DEF Balanced
  <2>4. TaskOK(table', t) /\ ret' \in Rets
    BY <1>3, <1>6
  <2>5. task' = [task EXCEPT ![p] = t] /\ fd' = [fd EXCEPT ![p] = fd[p]]
    BY <1>1, <1>6 DEF WalkInv, Typed
  <2>6. \A x \in Slots : ~(table[x].ref = 0 /\ table'[x].ref > 0)
    <3>1. table' = table
      BY <1>6
    <3> QED
      BY <3>1
  <2>7. t.pc # "got" /\ table'[0].parent = table[0].parent /\ halted' \in BOOLEAN
    BY <1>1, <1>6
  <2>8. \E i \in Inos : Gettable(table, i) = {}
    BY <1>6, <2>1
  <2>9. Moves(p, t, fd[p])
    BY <1>3, <2>2, <2>3, <2>4, <2>5, <2>6, <2>7, <2>8 DEF Moves
  <2> QED
    BY <2>9 DEF Moved
<1> QED
  BY <1>4, <1>5, <1>6 DEF dirlookup, Rest, NextTable, Looked

LEMMA TaskMoves ==
  ASSUME TreeOK, WalkInv, ~halted, NEW p \in Procs, Call(p) \/ Run(p)
  PROVE  Moved(p)
<1>1. /\ task[p].cwd \in Slots /\ fd[p] \in Slots \cup {NONE}
  BY TaskState
<1>2. \A path \in Paths : execve(p, path) => Moved(p)
  BY <1>1, namexMoves, Zenon DEF execve
<1>3. \A path \in Paths, up \in BOOLEAN : find_inode(p, path, up) => Moved(p)
  BY <1>1, namexMoves DEF find_inode
<1>4. CASE close(p)
  BY <1>4, closeMoves
<1>5. CASE lock_entry(p)
  BY <1>5, lock_entryMoves
<1>6. CASE lock_end(p)
  BY <1>6, lock_endMoves
<1>7. CASE dirlookup(p)
  BY <1>7, dirlookupMoves
<1>8. CASE execve_end(p)
  BY <1>8, PutMoves DEF execve_end
<1>9. CASE keep(p)
  BY <1>9, keepMoves
<1>10. CASE drop(p)
  BY <1>10, PutMoves DEF drop
<1>11. CASE Call(p)
  BY <1>2, <1>3, <1>4, <1>11 DEF Call
<1>12. CASE Run(p)
  BY <1>5, <1>6, <1>7, <1>8, <1>9, <1>10, <1>12 DEF Run
<1> QED
  BY <1>11, <1>12

LEMMA NextMoves ==
  ASSUME TreeOK, WalkInv, Next
  PROVE  ~halted /\ \E p \in Procs : Moved(p)
  BY TaskMoves DEF Next

-----------------------------------------------------------------------------
(* The theorems *)

LEMMA InitWalk ==
  ASSUME TreeOK, Init
  PROVE  WalkInv
<1>1. 0 \in Slots /\ Root \in Inos /\ NONE \notin Slots
  BY DEF TreeOK, Slots, Inos
<1>2. \A s \in Slots : table[s] \in Inode
  BY <1>1, SMTT(20) DEF Init, Inode
<1>3. table \in Tables
  BY <1>2, Zenon DEF Init, Tables
<1>4. TableOK(table)
  BY <1>3 DEF Init, TableOK, Kind, TreeOK
<1>5. \A p \in Procs : task[p] \in Task /\ task[p].pc = "idle" /\ task[p].call = "execve"
  BY <1>1, EmptySeq DEF Init, Task
<1>6. task \in [Procs -> Task]
  BY <1>5 DEF Init
<1>7. fd = [p \in Procs |-> NONE] /\ ret = [p \in Procs |-> NONE] /\ halted = FALSE
  BY DEF Init
<1>8. Typed
  BY <1>3, <1>6, <1>7, Zenon DEF Typed, Rets
<1>9. Refs(table, task, fd)
  <2> SUFFICES ASSUME NEW s \in Slots
               PROVE  table[s].ref = Cardinality(Holders(task, fd, s)) + Is(s, 0)
    BY DEF Refs
  <2>1. Holders(task, fd, s) = {}
    BY <1>1, <1>5, <1>7 DEF Holders
  <2>2. Cardinality(Holders(task, fd, s)) = 0
    BY <2>1, FS_EmptySet
  <2>3. table[s].ref = Is(s, 0)
    BY DEF Init, Is
  <2>4. Is(s, 0) \in Nat
    BY DEF Is
  <2> QED
    BY <2>2, <2>3, <2>4
<1>10. \A p \in Procs : TaskOK(table, task[p])
  BY <1>5 DEF TaskOK
<1>11. FindersOnly
  BY <1>5, <1>7 DEF FindersOnly
<1> QED
  BY <1>4, <1>8, <1>9, <1>10, <1>11 DEF WalkInv

LEMMA WalkStutter ==
  ASSUME WalkInv, UNCHANGED vars
  PROVE  WalkInv'
  BY DEF WalkInv, Typed, FindersOnly, vars

LEMMA WalkKept ==
  ASSUME TreeOK
  PROVE  Spec => []WalkInv
<1>1. Init => WalkInv
  BY InitWalk
<1>2. WalkInv /\ [Next]_vars => WalkInv'
  <2>1. ASSUME WalkInv, Next PROVE WalkInv'
    BY <2>1, NextMoves, MovesKeep DEF Moved
  <2> QED
    BY <2>1, WalkStutter
<1> QED
  BY <1>1, <1>2, PTL DEF Spec

\* In any tree, with any number of slots and any tasks that execve() or call
\* find_inode(), every way out of inode_namex(), dirlookup() and execve() gives
\* back the references it took: ref is their number.
THEOREM RefsStayExact ==
  ASSUME TreeOK
  PROVE  Spec => []RefsExact
<1>1. WalkInv => RefsExact
  BY DEF WalkInv, Refs, RefsExact, Is
<1> QED
  BY <1>1, WalkKept, PTL

\* However often a slot is recycled while others sleep in inode_lock(), what it
\* holds as valid is read from the directory entry of its own inode.
THEOREM ValidStaysRight ==
  ASSUME TreeOK
  PROVE  Spec => []ValidRight
<1>1. WalkInv => ValidRight
  BY DEF WalkInv, TableOK, ValidRight
<1> QED
  BY <1>1, WalkKept, PTL

-----------------------------------------------------------------------------
(* One slot for an inode *)

\* No directory is entered in one below it.
RootApart == \A d \in Dirs, n \in Names : Child[d, n] # Root

\* Every walk starts in the root, which is in no slot of the table.
Rooted ==
  /\ table[0].parent = 0 /\ table[0].ino = Root
  /\ \A p \in Procs : task[p].cwd = 0 /\ task[p].old = 0

\* A slot that comes into use is for an inode that no other has.
LEMMA NewSlot ==
  ASSUME TreeOK, RootApart, Finders = {}, WalkInv, Rooted, NEW p \in Procs, NEW s \in Slots,
         table[s].ref = 0, Got(p, s)
  PROVE  /\ s \in First(Free(table)) /\ table'[s].ino # Root
         /\ \A x \in 1 .. NENTRY : table[x].ref > 0 => table[x].ino # table'[s].ino
<1>1. table \in Tables /\ Refs(table, task, fd)
  BY DEF WalkInv, Typed
<1>2. s # 0
  BY <1>1, RootInUse, SMTT(20)
<1>3. \A path \in Paths : Start(path.first, task[p].cwd) = 0
  BY DEF Start, Rooted
<1>4. PICK d \in Dirs, n \in Names :
        s \in Gettable(table, Child[d, n]) /\ table'[s].ino = Child[d, n]
  BY <1>2, <1>3 DEF Got
<1>5. Hits(table, Child[d, n]) = {}
  <2>1. ~(table[s].ref > 0)
    OBVIOUS
  <2> QED
    BY <1>1, <1>4, <2>1, GettableIs
<1>6. s \in First(Free(table))
  BY <1>4, <1>5 DEF Gettable
<1>7. Child[d, n] # Root
  BY DEF RootApart
<1> QED
  BY <1>4, <1>5, <1>6, <1>7 DEF Hits

LEMMA DistinctStep ==
  ASSUME TreeOK, RootApart, Finders = {}, WalkInv, Rooted, SlotsDistinct,
         NEW p \in Procs, NEW u, NEW v, Moves(p, u, v)
  PROVE  Rooted' /\ SlotsDistinct'
<1>1. /\ table \in Tables /\ TableOK(table) /\ Refs(table, task, fd) /\ task \in [Procs -> Task]
  BY DEF WalkInv, Typed
<1>2. /\ table' \in Tables /\ TableOK(table') /\ Kept(table, table')
      /\ task' = [task EXCEPT ![p] = u] /\ {u.cwd, u.old} \subseteq {task[p].cwd, task[p].old}
      /\ table'[0].parent = table[0].parent
      /\ \A s \in Slots : table[s].ref = 0 /\ table'[s].ref > 0 => Got(p, s)
  BY DEF Moves
<1>3. \A s \in Slots : table[s].ref \in Nat
  BY <1>1, InodeIs
<1>4. 0 \in Slots /\ table[0].ref > 0
  BY <1>1, RootInUse
<1>5. \A s \in Slots : table[s].ref > 0 => table'[s].ino = table[s].ino
  BY <1>2 DEF Kept
<1>6. Rooted'
  <2>1. task'[p] = u /\ \A q \in Procs \ {p} : task'[q] = task[q]
    BY <1>1, <1>2
  <2> QED
    BY <1>2, <1>4, <1>5, <2>1 DEF Rooted
<1>7. \A s \in Slots : s = 0 \/ s \in 1 .. NENTRY
  BY DEF TreeOK, Slots
<1>8. ASSUME NEW s \in Slots, table[s].ref = 0, table'[s].ref > 0
      PROVE  /\ s \in First(Free(table))
             /\ \A x \in Slots : table[x].ref > 0 => table'[x].ino # table'[s].ino
  <2>1. Got(p, s)
    BY <1>2, <1>8
  <2>2. /\ s \in First(Free(table)) /\ table'[s].ino # Root
        /\ \A x \in 1 .. NENTRY : table[x].ref > 0 => table[x].ino # table'[s].ino
    BY <1>8, <2>1, NewSlot
  <2> QED
    BY <1>4, <1>5, <1>7, <2>2 DEF Rooted
<1>9. SlotsDistinct'
  <2> SUFFICES ASSUME NEW s \in Slots, NEW t \in Slots, s # t,
                      table'[s].ref > 0, table'[t].ref > 0
               PROVE  table'[s].ino # table'[t].ino
    BY DEF SlotsDistinct
  <2>1. CASE table[s].ref > 0 /\ table[t].ref > 0
    BY <1>5, <2>1 DEF SlotsDistinct
  <2>2. CASE table[s].ref = 0 /\ table[t].ref > 0
    BY <1>8, <2>2
  <2>3. CASE table[s].ref > 0 /\ table[t].ref = 0
    BY <1>8, <2>3
  <2>4. CASE table[s].ref = 0 /\ table[t].ref = 0
    <3>1. s \in First(Free(table)) /\ t \in First(Free(table))
      BY <1>8, <2>4
    <3>2. s <= t /\ t <= s
      BY <3>1 DEF First
    <3> QED
      BY <3>2 DEF Slots
  <2> QED
    BY <1>3, <2>1, <2>2, <2>3, <2>4
<1> QED
  BY <1>6, <1>9

\* An inode is in one slot at most when tasks only execve(), in any tree and
\* however the sleeps of their walks interleave.  find_inode(), which may leave
\* the current directory without a reference, is left out.
THEOREM SlotsStayDistinct ==
  ASSUME TreeOK, RootApart, Finders = {}
  PROVE  Spec => []SlotsDistinct
<1>1. Init => Rooted /\ SlotsDistinct
  <2> SUFFICES ASSUME Init PROVE Rooted /\ SlotsDistinct
    OBVIOUS
  <2>1. 0 \in Slots
    BY DEF TreeOK, Slots
  <2>2. Rooted
    BY <2>1 DEF Init, Rooted
  <2>3. \A s \in Slots : table[s].ref > 0 => s = 0
    BY SMTT(20) DEF Init
  <2> QED
    BY <2>2, <2>3 DEF SlotsDistinct
<1>2. WalkInv /\ Rooted /\ SlotsDistinct /\ [Next]_vars => Rooted' /\ SlotsDistinct'
  <2>1. ASSUME WalkInv, Rooted, SlotsDistinct, Next PROVE Rooted' /\ SlotsDistinct'
    BY <2>1, NextMoves, DistinctStep DEF Moved
  <2>2. ASSUME Rooted, SlotsDistinct, UNCHANGED vars PROVE Rooted' /\ SlotsDistinct'
    BY <2>2 DEF Rooted, SlotsDistinct, vars
  <2> QED
    BY <2>1, <2>2
<1> QED
  BY <1>1, <1>2, WalkKept, PTL DEF Spec

-----------------------------------------------------------------------------
(* Room in the table *)

\* A slot for every walk, for every descriptor, and for one lookup.
Roomy == Finders \subseteq Procs /\ Cardinality(Procs) + Cardinality(Finders) < NENTRY

LEMMA FirstIs ==
  ASSUME NEW S, S \subseteq Nat, S # {}
  PROVE  First(S) # {}
<1>1. PICK x \in S : \A y \in S : <<y, x>> \notin OpToRel(<, Nat)
  BY NatLessThanWellFounded, WFMin
<1>2. ASSUME NEW y \in S
      PROVE  x <= y
  <2>1. y \in Nat /\ x \in Nat
    OBVIOUS
  <2>2. y < x => <<y, x>> \in OpToRel(<, Nat)
    BY <2>1 DEF OpToRel
  <2>3. ~(y < x)
    BY <1>1, <2>2, Zenon
  <2> QED
    BY <2>1, <2>3
<1> QED
  BY <1>2 DEF First

\* Those that may hold a slot.
MayHold == (Procs \X {"walk"}) \cup (Finders \X {"fd"})

LEMMA MayHoldIs ==
  ASSUME TreeOK, Roomy
  PROVE  IsFiniteSet(MayHold) /\ Cardinality(MayHold) < NENTRY
<1> DEFINE W == Procs \X {"walk"}
           F == Finders \X {"fd"}
<1>1. IsFiniteSet(Procs) /\ IsFiniteSet(Finders)
  BY FS_Subset DEF TreeOK, Roomy
<1>2. Cardinality(Procs) \in Nat /\ Cardinality(Finders) \in Nat
  BY <1>1, FS_CardinalityType
<1>3. /\ IsFiniteSet({"walk"}) /\ Cardinality({"walk"}) = 1
      /\ IsFiniteSet({"fd"}) /\ Cardinality({"fd"}) = 1
  BY FS_Singleton, Zenon
<1>4. IsFiniteSet(W) /\ Cardinality(W) = Cardinality(Procs)
  <2>1. IsFiniteSet(W) /\ Cardinality(W) = Cardinality(Procs) * Cardinality({"walk"})
    BY <1>1, <1>3, FS_Product
  <2> QED
    BY <1>2, <1>3, <2>1
<1>5. IsFiniteSet(F) /\ Cardinality(F) = Cardinality(Finders)
  <2>1. IsFiniteSet(F) /\ Cardinality(F) = Cardinality(Finders) * Cardinality({"fd"})
    BY <1>1, <1>3, FS_Product
  <2> QED
    BY <1>2, <1>3, <2>1
<1>6. MayHold = W \cup F /\ W \cap F = {}
  BY DEF MayHold
<1> HIDE DEF W, F
<1>7. /\ IsFiniteSet(W \cup F)
      /\ Cardinality(W \cup F) = Cardinality(W) + Cardinality(F) - Cardinality(W \cap F)
  BY <1>4, <1>5, FS_Union
<1>8. Cardinality(W \cap F) = 0
  BY <1>6, FS_EmptySet
<1> QED
  BY <1>2, <1>4, <1>5, <1>6, <1>7, <1>8 DEF Roomy

LEMMA SlotFree ==
  ASSUME TreeOK, Roomy, WalkInv
  PROVE  Free(table) # {}
<1> SUFFICES ASSUME Free(table) = {} PROVE FALSE
  OBVIOUS
<1> DEFINE H(s) == Holders(task, fd, s)
           f == [s \in 1 .. NENTRY |-> CHOOSE h : h \in H(s)]
<1>1. /\ table \in Tables /\ TableOK(table) /\ Refs(table, task, fd) /\ FindersOnly
  BY DEF WalkInv, Typed
<1>2. ASSUME NEW s \in 1 .. NENTRY
      PROVE  H(s) # {}
  <2>1. s \in Slots /\ s # 0
    BY DEF Slots, TreeOK
  <2>2. table[s].ref \in Nat /\ table[s].ref # 0
    BY <1>1, <2>1, InodeIs, Zenon DEF Free
  <2>3. table[s].ref = Cardinality(H(s)) + 0
    BY <1>1, <2>1 DEF Refs, Is
  <2>4. H(s) = {} => Cardinality(H(s)) = 0
    BY FS_EmptySet
  <2> HIDE DEF H
  <2> QED
    BY <2>2, <2>3, <2>4
<1>3. \A s \in 1 .. NENTRY : f[s] \in H(s)
  BY <1>2
<1>4. \A s \in 1 .. NENTRY : H(s) \subseteq MayHold
  <2> SUFFICES ASSUME NEW s \in 1 .. NENTRY, NEW q \in Procs, fd[q] = s PROVE q \in Finders
    BY DEF Holders, MayHold
  <2>1. NONE # s
    BY DEF TreeOK, Slots
  <2> QED
    BY <1>1, <2>1 DEF FindersOnly
<1>5. \A s, t \in 1 .. NENTRY : H(s) \cap H(t) # {} => s = t
  BY DEF Holders
<1>6. f \in [1 .. NENTRY -> MayHold]
  BY <1>3, <1>4
<1> HIDE DEF f, H
<1>7. \A s, t \in 1 .. NENTRY : f[s] = f[t] => s = t
  BY <1>3, <1>5
<1>8. f \in Injection(1 .. NENTRY, MayHold)
  BY <1>6, <1>7 DEF Injection, IsInjective
<1>9. IsFiniteSet(MayHold) /\ Cardinality(MayHold) < NENTRY
  BY MayHoldIs
<1>10. Cardinality(1 .. NENTRY) <= Cardinality(MayHold)
  BY <1>8, <1>9, FS_Injection
<1>11. NENTRY \in Nat
  BY DEF TreeOK
<1>12. Cardinality(1 .. NENTRY) = NENTRY
  <2>1. Cardinality(1 .. NENTRY) = IF 1 > NENTRY THEN 0 ELSE NENTRY - 1 + 1
    BY <1>11, FS_Interval
  <2> QED
    BY <1>11, <2>1
<1>13. Cardinality(MayHold) \in Nat
  BY <1>9, FS_CardinalityType
<1> QED
  BY <1>9, <1>10, <1>11, <1>12, <1>13

LEMMA SlotGettable ==
  ASSUME TreeOK, Roomy, WalkInv, NEW ino
  PROVE  Gettable(table, ino) # {}
<1>1. Hits(table, ino) \subseteq Nat /\ Free(table) \subseteq Nat
  BY DEF Hits, Free
<1> QED
  BY <1>1, SlotFree, FirstIs DEF Gettable

\* With a slot for every task, one for every descriptor and one more, inode_get()
\* finds a slot and never panics, in any tree.
THEOREM TableNeverFull ==
  ASSUME TreeOK, Roomy
  PROVE  Spec => []NeverFull
<1>1. Init => NeverFull
  BY DEF Init, NeverFull
<1>2. WalkInv /\ NeverFull /\ [Next]_vars => NeverFull'
  <2>1. ASSUME WalkInv, Next PROVE NeverFull'
    BY <2>1, NextMoves, SlotGettable DEF Moved, Moves, NeverFull
  <2>2. ASSUME NeverFull, UNCHANGED vars PROVE NeverFull'
    BY <2>2 DEF NeverFull, vars
  <2> QED
    BY <2>1, <2>2
<1> QED
  BY <1>1, <1>2, WalkKept, PTL DEF Spec

-----------------------------------------------------------------------------
(* What a path stands for: what the recursion of Resolve computes *)

\* The inode that the name n is in the inode d.
Step(d, n) == IF d \in Dirs THEN Child[d, n] ELSE NONE

\* The inodes f that the names of a path lead to, one after the other, from d on.
Trace(f, d, names) ==
  /\ f \in [0 .. Len(names) -> Inos \cup {NONE}]
  /\ f[0] = d
  /\ \A k \in 1 .. Len(names) : f[k] = Step(f[k - 1], names[k])

LEMMA Least ==
  ASSUME NEW T \in SUBSET Nat, T # {}
  PROVE  \E x \in T : \A y \in T : x <= y
  BY FirstIs, Zenon DEF First

LEMMA StepIs ==
  ASSUME TreeOK, NEW d \in Inos \cup {NONE}, NEW n \in Names
  PROVE  Step(d, n) \in Inos \cup {NONE}
  BY DEF Step, TreeOK

LEMMA TraceExists ==
  ASSUME TreeOK, NEW d \in Inos \cup {NONE}, NEW names \in Seq(Names)
  PROVE  \E f : Trace(f, d, names)
<1> DEFINE V == Inos \cup {NONE}
           n == Len(names)
           Ok(m) == \E f \in [0 .. m -> V] :
                      f[0] = d /\ \A k \in 1 .. m : f[k] = Step(f[k - 1], names[k])
           T == {m \in 0 .. n : ~Ok(m)}
<1>1. n \in Nat /\ \A k \in 1 .. n : names[k] \in Names
  OBVIOUS
<1> HIDE DEF n
<1> SUFFICES ASSUME ~Ok(n) PROVE FALSE
  BY DEF Trace, n
<1>2. PICK m \in T : \A y \in T : m <= y
  <2> HIDE DEF Ok
  <2>1. T \in SUBSET Nat /\ n \in T
    BY <1>1
  <2> HIDE DEF T
  <2> QED
    BY <2>1, Least
<1>3. m \in 0 .. n /\ ~Ok(m)
  OBVIOUS
<1>4. Ok(0)
  <2> DEFINE f == [k \in 0 .. 0 |-> d]
  <2>1. f \in [0 .. 0 -> V] /\ f[0] = d /\ 1 .. 0 = {}
    OBVIOUS
  <2> HIDE DEF f
  <2> QED
    BY <2>1
<1>5. m # 0
  <2> HIDE DEF Ok
  <2> QED
    BY <1>3, <1>4
<1>a. m - 1 \in 0 .. n /\ ~(m <= m - 1)
  BY <1>1, <1>3, <1>5
<1>6. Ok(m - 1)
  <2> HIDE DEF Ok
  <2> QED
    BY <1>2, <1>a
<1>7. PICK f \in [0 .. m - 1 -> V] :
        f[0] = d /\ \A k \in 1 .. m - 1 : f[k] = Step(f[k - 1], names[k])
  BY <1>6
<1> DEFINE e == Step(f[m - 1], names[m])
           h == [k \in 0 .. m |-> IF k = m THEN e ELSE f[k]]
<1>8. e \in V
  BY <1>1, <1>3, <1>5, <1>7, <1>a, StepIs
<1> HIDE DEF e
<1>9. h \in [0 .. m -> V]
  BY <1>3, <1>5, <1>7, <1>8
<1>10. h[0] = d /\ h[m] = e /\ \A k \in 0 .. m - 1 : h[k] = f[k]
  BY <1>3, <1>5, <1>7
<1> HIDE DEF h
<1>11. ASSUME NEW k \in 1 .. m PROVE h[k] = Step(h[k - 1], names[k])
  <2>1. k - 1 \in 0 .. m - 1 /\ (k = m \/ (k \in 1 .. m - 1 /\ k \in 0 .. m - 1))
    BY <1>3
  <2> QED
    BY <1>7, <1>10, <2>1 DEF e
<1> QED
  BY <1>3, <1>9, <1>10, <1>11

\* What Resolve() computes.
LEMMA ResolveIs ==
  ASSUME TreeOK, NEW d \in Inos \cup {NONE}, NEW names \in Seq(Names)
  PROVE  \E f : Trace(f, d, names) /\ Resolve(d, names) = f[Len(names)]
<1> DEFINE n == Len(names)
           Body(at) == [k \in 0 .. n |->
                          IF k = 0 THEN d
                          ELSE LET b == at[k - 1]
                               IN  IF b \in Dirs THEN Child[b, names[k]] ELSE NONE]
           c == CHOOSE at : at = Body(at)
<1>1. PICK f : Trace(f, d, names)
  BY TraceExists
<1>2. n \in Nat /\ \A k \in 1 .. n : names[k] \in Names
  OBVIOUS
<1>3. f = Body(f)
  <2>1. f = [k \in 0 .. n |-> f[k]]
    BY <1>1 DEF Trace
  <2>2. ASSUME NEW k \in 0 .. n
        PROVE  f[k] = IF k = 0 THEN d
                      ELSE IF f[k - 1] \in Dirs THEN Child[f[k - 1], names[k]] ELSE NONE
    <3>1. k = 0 \/ k \in 1 .. n
      BY <1>2
    <3> QED
      BY <1>1, <3>1 DEF Trace, Step
  <2> QED
    BY <2>1, <2>2
<1>4. c = Body(c)
  BY <1>3
<1>5. Resolve(d, names) = c[n]
  BY DEF Resolve
<1> HIDE DEF c
<1>6. \A k \in 0 .. n : c[k] = IF k = 0 THEN d ELSE Step(c[k - 1], names[k])
  BY <1>4 DEF Step
<1>7. c = [k \in 0 .. n |-> c[k]]
  BY <1>4
<1> HIDE DEF n
<1>8. \A k \in 0 .. n : c[k] = f[k]
  <2> DEFINE T == {k \in 0 .. n : c[k] # f[k]}
  <2> SUFFICES ASSUME T # {} PROVE FALSE
    OBVIOUS
  <2>1. PICK m \in T : \A y \in T : m <= y
    <3>1. T \in SUBSET Nat
      BY <1>2
    <3> HIDE DEF T
    <3> QED
      BY <3>1, Least
  <2>2. m \in 0 .. n /\ c[m] # f[m]
    OBVIOUS
  <2>3. f[0] = d /\ \A k \in 1 .. n : f[k] = Step(f[k - 1], names[k])
    BY <1>1 DEF Trace, n
  <2>4. m # 0
    BY <1>2, <1>6, <2>2, <2>3
  <2>5. m - 1 \in 0 .. n /\ m \in 1 .. n
    BY <1>2, <2>2, <2>4
  <2>6. c[m - 1] = f[m - 1]
    BY <2>1, <2>5
  <2> QED
    BY <1>6, <2>2, <2>3, <2>4, <2>5, <2>6
<1> QED
  BY <1>1, <1>2, <1>5, <1>8 DEF n

\* Without a name, with one more, and from nowhere.
LEMMA ResolveEmpty ==
  ASSUME TreeOK, NEW d \in Inos \cup {NONE}
  PROVE  Resolve(d, <<>>) = d
<1> DEFINE e == <<>>
<1>1. e \in Seq(Names) /\ Len(e) = 0
  BY EmptySeq
<1> HIDE DEF e
<1>2. PICK f : Trace(f, d, e) /\ Resolve(d, e) = f[Len(e)]
  BY <1>1, ResolveIs, Zenon
<1>3. Resolve(d, e) = d
  BY <1>1, <1>2 DEF Trace
<1> QED
  BY <1>3 DEF e

LEMMA ResolveStep ==
  ASSUME TreeOK, NEW d \in Inos \cup {NONE}, NEW names \in Seq(Names), names # <<>>
  PROVE  Resolve(d, names) = Resolve(Step(d, Head(names)), Tail(names))
<1> DEFINE e == Step(d, Head(names))
           rest == Tail(names)
           n == Len(names)
<1>1. /\ n \in Nat /\ n > 0 /\ Head(names) = names[1] /\ rest \in Seq(Names) /\ Len(rest) = n - 1
      /\ Head(names) \in Names /\ \A k \in 1 .. n - 1 : rest[k] = names[k + 1]
  BY HeadTailProperties
<1>2. e \in Inos \cup {NONE}
  BY <1>1, StepIs
<1> HIDE DEF n, rest, e
<1>3. PICK f : Trace(f, d, names) /\ Resolve(d, names) = f[n]
  BY ResolveIs DEF n
<1>4. PICK g : Trace(g, e, rest) /\ Resolve(e, rest) = g[n - 1]
  BY <1>1, <1>2, ResolveIs, Zenon
<1>5. /\ f[0] = d /\ \A k \in 1 .. n : f[k] = Step(f[k - 1], names[k])
      /\ g[0] = e /\ \A k \in 1 .. n - 1 : g[k] = Step(g[k - 1], names[k + 1])
  BY <1>1, <1>3, <1>4 DEF Trace, n
<1> DEFINE T == {k \in 0 .. n - 1 : g[k] # f[k + 1]}
<1>6. T = {}
  <2> SUFFICES ASSUME T # {} PROVE FALSE
    OBVIOUS
  <2>1. PICK m \in T : \A y \in T : m <= y
    <3>1. T \in SUBSET Nat
      BY <1>1
    <3> HIDE DEF T
    <3> QED
      BY <3>1, Least
  <2>2. m \in 0 .. n - 1 /\ g[m] # f[m + 1]
    OBVIOUS
  <2>3. m # 0
    BY <1>1, <1>5, <2>2 DEF e
  <2>4. m - 1 \in 0 .. n - 1 /\ m \in 1 .. n - 1 /\ m + 1 \in 1 .. n /\ ~(m <= m - 1)
        /\ (m - 1) + 1 = m /\ (m + 1) - 1 = m
    BY <1>1, <2>2, <2>3
  <2>5. g[m - 1] = f[m]
    BY <2>1, <2>4
  <2> QED
    BY <1>5, <2>2, <2>4, <2>5
<1>7. n - 1 \in 0 .. n - 1 /\ (n - 1) + 1 = n
  BY <1>1
<1>8. g[n - 1] = f[n]
  BY <1>6, <1>7
<1> QED
  BY <1>3, <1>4, <1>8 DEF e, rest

LEMMA ResolveNone ==
  ASSUME TreeOK, NEW names \in Seq(Names)
  PROVE  Resolve(NONE, names) = NONE
<1> DEFINE n == Len(names)
<1>1. n \in Nat
  OBVIOUS
<1>2. PICK f : Trace(f, NONE, names) /\ Resolve(NONE, names) = f[n]
  BY ResolveIs
<1>3. f[0] = NONE /\ \A k \in 1 .. n : f[k] = Step(f[k - 1], names[k])
  BY <1>2 DEF Trace
<1>4. \A x : Step(NONE, x) = NONE
  BY DEF Step, TreeOK, Inos
<1> HIDE DEF n
<1> DEFINE T == {k \in 0 .. n : f[k] # NONE}
<1>5. T = {}
  <2> SUFFICES ASSUME T # {} PROVE FALSE
    OBVIOUS
  <2>1. PICK m \in T : \A y \in T : m <= y
    <3>1. T \in SUBSET Nat
      BY <1>1
    <3> HIDE DEF T
    <3> QED
      BY <3>1, Least
  <2>2. m \in 0 .. n /\ f[m] # NONE /\ m # 0
    BY <1>3
  <2>3. m - 1 \in 0 .. n /\ m \in 1 .. n /\ ~(m <= m - 1)
    BY <1>1, <2>2
  <2> QED
    BY <1>3, <1>4, <2>1, <2>2, <2>3
<1> QED
  BY <1>1, <1>2, <1>5

\* What is left to find for a walk that is in d with these names to go.
Goal(d, names, up) ==
  IF ~up THEN Resolve(d, names)
  ELSE LET e == Resolve(d, SubSeq(names, 1, Len(names) - 1))
       IN  IF Len(names) > 0 /\ e \in Dirs THEN e ELSE NONE

\* A name is looked up in a directory.
LEMMA GoalStep ==
  ASSUME TreeOK, NEW d \in Inos, NEW names \in Seq(Names), names # <<>>,
         NEW up \in BOOLEAN, up => Len(names) # 1
  PROVE  Goal(d, names, up) = Goal(Step(d, Head(names)), Tail(names), up)
<1>1. CASE ~up
  BY <1>1, ResolveStep DEF Goal
<1>2. CASE up
  <2> DEFINE n == Len(names)
             s == SubSeq(names, 1, n - 1)
             rest == Tail(names)
  <2>a. /\ n \in Nat /\ n # 0 /\ rest \in Seq(Names) /\ Len(rest) = n - 1
        /\ Head(names) = names[1] /\ \A k \in 1 .. n - 1 : rest[k] = names[k + 1]
    BY HeadTailProperties, EmptySeq
  <2>1. n > 1
    BY <1>2, <2>a
  <2>2. /\ s \in Seq(Names) /\ Len(s) = n - 1 /\ \A k \in 1 .. n - 1 : s[k] = names[k]
    BY <2>a, <2>1
  <2>3. s # <<>> /\ Head(s) = Head(names)
    <3>1. Len(s) # 0 /\ 1 \in 1 .. n - 1 /\ Head(s) = s[1]
      BY <2>a, <2>1, <2>2
    <3> QED
      BY <2>a, <2>2, <3>1, EmptySeq
  <2>4. Tail(s) = SubSeq(rest, 1, Len(rest) - 1)
    <3> DEFINE a == Tail(s)
               b == SubSeq(rest, 1, Len(rest) - 1)
    <3>1. a \in Seq(Names) /\ Len(a) = n - 2 /\ \A k \in 1 .. n - 2 : a[k] = s[k + 1]
      BY <2>a, <2>1, <2>2, <2>3, HeadTailProperties
    <3>2. b \in Seq(Names) /\ Len(b) = n - 2 /\ \A k \in 1 .. n - 2 : b[k] = rest[k]
      BY <2>a, <2>1
    <3> HIDE DEF a, b, s, rest
    <3>3. \A k \in 1 .. n - 2 : k + 1 \in 1 .. n - 1 /\ k \in 1 .. n - 1
      BY <2>a, <2>1
    <3>4. \A k \in 1 .. n - 2 : a[k] = b[k]
      BY <2>a, <2>1, <2>2, <3>1, <3>2, <3>3
    <3>5. a = b
      BY <3>1, <3>2, <3>4, SeqEqual
    <3> QED
      BY <3>5 DEF a, b
  <2>5. Resolve(d, s) = Resolve(Step(d, Head(names)), SubSeq(rest, 1, Len(rest) - 1))
    BY <2>2, <2>3, <2>4, ResolveStep, Zenon
  <2> QED
    BY <1>2, <2>a, <2>1, <2>5 DEF Goal
<1> QED
  BY <1>1, <1>2

\* A walk that ends at d: its path ends there, or cannot go on.
LEMMA GoalEnd ==
  ASSUME TreeOK, NEW d \in Inos, NEW names \in Seq(Names), NEW up \in BOOLEAN
  PROVE  /\ names = <<>> /\ up => Goal(d, names, up) = NONE
         /\ names = <<>> /\ ~up => Goal(d, names, up) = d
         /\ names # <<>> /\ d \notin Dirs => Goal(d, names, up) = NONE
         /\ up /\ Len(names) = 1 /\ d \in Dirs => Goal(d, names, up) = d
         /\ Goal(NONE, names, up) = NONE
<1> DEFINE n == Len(names)
           s == SubSeq(names, 1, n - 1)
<1>1. n \in Nat /\ (names = <<>> <=> n = 0)
  BY EmptySeq
<1>2. n > 0 => s \in Seq(Names) /\ Len(s) = n - 1
  <2> SUFFICES ASSUME n > 0 PROVE s \in Seq(Names) /\ Len(s) = n - 1
    OBVIOUS
  <2>1. n - 1 \in Int /\ \A k \in 1 .. n - 1 : names[k] \in Names
    BY <1>1
  <2>2. s \in Seq(Names) /\ Len(s) = IF 1 <= n - 1 THEN (n - 1) - 1 + 1 ELSE 0
    BY <2>1, SubSeqProperties
  <2> HIDE DEF n, s
  <2> QED
    BY <1>1, <2>2
<1>3. n = 1 => s = <<>>
  BY <1>1, <1>2, EmptySeq
<1>4. Resolve(d, <<>>) = d /\ NONE \notin Dirs
  BY ResolveEmpty DEF TreeOK, Inos
<1>5. \A q \in Seq(Names) : q # <<>> /\ d \notin Dirs => Resolve(d, q) = NONE
  <2> SUFFICES ASSUME NEW q \in Seq(Names), q # <<>>, d \notin Dirs PROVE Resolve(d, q) = NONE
    OBVIOUS
  <2>1. Step(d, Head(q)) = NONE /\ Tail(q) \in Seq(Names)
    BY HeadTailProperties DEF Step
  <2> QED
    BY <2>1, ResolveStep, ResolveNone, Zenon
<1>6. Resolve(NONE, names) = NONE /\ (n > 0 => Resolve(NONE, s) = NONE)
  BY <1>2, ResolveNone, Zenon
<1> HIDE DEF s
<1>7. Goal(d, names, up) = IF ~up THEN Resolve(d, names)
                           ELSE IF n > 0 /\ Resolve(d, s) \in Dirs THEN Resolve(d, s) ELSE NONE
  BY DEF Goal, s
<1>8. Goal(NONE, names, up) = NONE
  BY <1>4, <1>6 DEF Goal, s
<1>9. /\ names = <<>> /\ up => Goal(d, names, up) = NONE
      /\ names = <<>> /\ ~up => Goal(d, names, up) = d
  BY <1>1, <1>4, <1>7
<1>10. up /\ n = 1 /\ d \in Dirs => Goal(d, names, up) = d
  BY <1>3, <1>4, <1>7
<1>11. names # <<>> /\ d \notin Dirs => Goal(d, names, up) = NONE
  <2> SUFFICES ASSUME names # <<>>, d \notin Dirs PROVE Goal(d, names, up) = NONE
    OBVIOUS
  <2>1. CASE ~up
    BY <1>5, <1>7, <2>1
  <2>2. CASE up /\ n = 1
    BY <1>3, <1>4, <1>7, <2>2
  <2>3. CASE up /\ n # 1
    <3>1. n > 0 /\ s \in Seq(Names) /\ s # <<>>
      <4>1. n > 0 /\ n - 1 # 0
        BY <1>1, <2>3
      <4>2. s \in Seq(Names) /\ Len(s) # 0
        BY <1>2, <4>1
      <4> QED
        BY <4>1, <4>2, EmptySeq
    <3> QED
      BY <1>4, <1>5, <1>7, <2>3, <3>1
  <2> QED
    BY <2>1, <2>2, <2>3
<1> QED
  BY <1>8, <1>9, <1>10, <1>11

-----------------------------------------------------------------------------
(* Walks lead there *)

\* Paths that begin with a dot start in `parent', which is right only in the root.
DotsInRoot ==
  \A path \in Paths : path.first \in {".", ".."} => Finders = {} /\ Up[Root] = Root

\* A walk t in the table T, w being what its path stands for and r what was
\* returned: with names to go it is on its way, without it has arrived.
OnWay(T, t, w, r) ==
  IF t.rest # <<>> /\ t.pc \in {"load", "travel", "look"}
  THEN /\ w = Goal(T[t.at].ino, t.rest, t.up)
       /\ t.pc = "look" /\ t.up => Len(t.rest) # 1
  ELSE r = w

ResolveInv == \A p \in Procs : OnWay(table, task[p], want[p], ret[p])

\* What p does to its own walk, and that it leaves those of others alone.
Resolves(p) ==
  /\ OnWay(table', task'[p], want'[p], ret'[p])
  /\ \A q \in Procs : q # p => want'[q] = want[q] /\ ret'[q] = ret[q]

WantTyped == want = [p \in Procs |-> want[p]]

RetTyped == ret \in Rets /\ task \in [Procs -> Task]

LEMMA StopResolves ==
  ASSUME RetTyped, NEW p \in Procs, NEW T, NEW t \in Task, Stop(p, T, t), want'[p] = NONE,
         \A q \in Procs : q # p => want'[q] = want[q]
  PROVE  Resolves(p)
<1> DEFINE u == [t EXCEPT !.pc = "idle", !.at = 0, !.rest = <<>>]
<1>1. task' = [task EXCEPT ![p] = u] /\ ret' = [ret EXCEPT ![p] = NONE]
  BY DEF Stop, Go
<1>2. u.pc = "idle"
  BY DEF Task
<1> HIDE DEF u
<1>3. task'[p] = u /\ ret'[p] = NONE /\ \A q \in Procs : q # p => ret'[q] = ret[q]
  BY <1>1 DEF RetTyped, Rets
<1> QED
  BY <1>2, <1>3 DEF Resolves, OnWay

LEMMA FoundResolves ==
  ASSUME RetTyped, NEW p \in Procs, NEW T, NEW t \in Task, Found(p, T, t),
         want'[p] = T[t.at].ino, \A q \in Procs : q # p => want'[q] = want[q]
  PROVE  Resolves(p)
<1> DEFINE pc == IF t.call = "find_inode" THEN "got"
                 ELSE IF T[t.at].valid THEN "read" ELSE "load"
           u == [t EXCEPT !.pc = pc, !.rest = <<>>, !.cwd = t.old]
<1>1. task' = [task EXCEPT ![p] = u] /\ ret' = [ret EXCEPT ![p] = T[t.at].ino]
  BY DEF Found, Go
<1> HIDE DEF pc
<1>2. u.rest = <<>>
  BY DEF Task
<1> HIDE DEF u
<1>3. /\ task'[p] = u /\ ret'[p] = T[t.at].ino
      /\ \A q \in Procs : q # p => ret'[q] = ret[q]
  BY <1>1 DEF RetTyped, Rets
<1> QED
  BY <1>2, <1>3 DEF Resolves, OnWay

\* The walk sleeps before it goes on.
LEMMA SleepResolves ==
  ASSUME RetTyped, NEW p \in Procs, NEW T, NEW t \in Task, NEW pc \in {"load", "travel", "look"},
         Go(p, T, [t EXCEPT !.pc = pc]), UNCHANGED ret,
         IF t.rest # <<>>
         THEN /\ want'[p] = Goal(T[t.at].ino, t.rest, t.up)
              /\ pc = "look" /\ t.up => Len(t.rest) # 1
         ELSE ret[p] = want'[p],
         \A q \in Procs : q # p => want'[q] = want[q]
  PROVE  Resolves(p)
<1> DEFINE u == [t EXCEPT !.pc = pc]
<1>1. task' = [task EXCEPT ![p] = u] /\ table' = T
  BY DEF Go
<1>2. u.pc = pc /\ u.rest = t.rest /\ u.at = t.at /\ u.up = t.up
  BY DEF Task
<1> HIDE DEF u
<1>3. task'[p] = u
  BY <1>1 DEF RetTyped
<1>4. OnWay(table', task'[p], want'[p], ret'[p])
  BY <1>1, <1>2, <1>3 DEF OnWay
<1> QED
  BY <1>4 DEF Resolves

LEMMA LockedResolves ==
  ASSUME TreeOK, RetTyped, NEW p \in Procs, NEW T \in Tables, TableOK(T), NEW t \in Task,
         T[t.at].kind = Kind(T[t.at].ino), t.rest # <<>>, Locked(p, T, t),
         want'[p] = Goal(T[t.at].ino, t.rest, t.up), \A q \in Procs : q # p => want'[q] = want[q]
  PROVE  Resolves(p)
<1>1. t.at \in Slots /\ t.rest \in Seq(Names) /\ t.up \in BOOLEAN /\ T[t.at].ino \in Inos
  BY TaskIs, InodeIs, Zenon
<1>2. CASE T[t.at].kind # "dir" /\ Stop(p, put(T, t.at), t)
  <2>1. T[t.at].ino \notin Dirs
    BY <1>2 DEF Kind
  <2>2. want'[p] = NONE
    BY <1>1, <2>1, GoalEnd
  <2> QED
    BY <1>2, <2>2, StopResolves
<1>3. CASE T[t.at].kind = "dir" /\ t.up /\ Len(t.rest) = 1 /\ Found(p, T, t)
  <2>1. T[t.at].ino \in Dirs
    BY <1>3, KindIs, Zenon
  <2>2. want'[p] = T[t.at].ino
    BY <1>1, <1>3, <2>1, GoalEnd, Zenon
  <2> QED
    BY <1>3, <2>2, FoundResolves
<1>4. CASE ~(t.up /\ Len(t.rest) = 1) /\ Go(p, T, [t EXCEPT !.pc = "look"]) /\ UNCHANGED ret
  BY <1>4, SleepResolves, Zenon
<1> QED
  BY <1>2, <1>3, <1>4 DEF Locked

LEMMA WalkResolves ==
  ASSUME TreeOK, RetTyped, NEW p \in Procs, NEW T \in Tables, TableOK(T), NEW t \in Task,
         Walk(p, T, t), want'[p] = Goal(T[t.at].ino, t.rest, t.up),
         \A q \in Procs : q # p => want'[q] = want[q]
  PROVE  Resolves(p)
<1>1. t.at \in Slots /\ t.rest \in Seq(Names) /\ t.up \in BOOLEAN /\ T[t.at].ino \in Inos
  BY TaskIs, InodeIs
<1>2. CASE t.rest # <<>> /\ T[t.at].valid /\ Locked(p, T, t)
  <2>1. T[t.at].kind = Kind(T[t.at].ino)
    BY <1>1, <1>2, InodeIs
  <2> QED
    BY <1>2, <2>1, LockedResolves
<1>3. CASE t.rest # <<>> /\ Go(p, T, [t EXCEPT !.pc = "load"]) /\ UNCHANGED ret
  BY <1>3, SleepResolves, Zenon
<1>4. CASE t.rest = <<>> /\ t.up /\ Stop(p, put(T, t.at), t)
  <2>1. want'[p] = NONE
    BY <1>1, <1>4, GoalEnd
  <2> QED
    BY <1>4, <2>1, StopResolves
<1>5. CASE t.rest = <<>> /\ ~t.up /\ Found(p, T, t)
  <2>1. want'[p] = T[t.at].ino
    BY <1>1, <1>5, GoalEnd, Zenon
  <2> QED
    BY <1>5, <2>1, FoundResolves
<1> QED
  BY <1>2, <1>3, <1>4, <1>5 DEF Walk

\* Slot 0 is the root, and where tasks are that only execve().
Based ==
  /\ table[0].ino = Root /\ table[0].parent = 0
  /\ Finders = {} => \A p \in Procs : task[p].cwd = 0 /\ task[p].old = 0

LEMMA BasedStep ==
  ASSUME TreeOK, WalkInv, Based, NEW p \in Procs, NEW u, NEW v, Moves(p, u, v)
  PROVE  Based'
<1>1. /\ table \in Tables /\ Refs(table, task, fd) /\ task \in [Procs -> Task]
  BY DEF WalkInv, Typed
<1>2. /\ Kept(table, table') /\ task' = [task EXCEPT ![p] = u]
      /\ p \in Finders \/ {u.cwd, u.old} \subseteq {task[p].cwd, task[p].old}
      /\ table'[0].parent = table[0].parent
  BY DEF Moves
<1>3. 0 \in Slots /\ table[0].ref > 0
  BY <1>1, RootInUse
<1>4. table'[0].ino = table[0].ino
  BY <1>2, <1>3 DEF Kept
<1>5. task'[p] = u /\ \A q \in Procs : q # p => task'[q] = task[q]
  BY <1>1, <1>2
<1> QED
  BY <1>2, <1>4, <1>5 DEF Based

LEMMA RetTypes ==
  ASSUME WalkInv
  PROVE  RetTyped
  BY DEF WalkInv, Typed, RetTyped

\* The walk begins in the inode that the first element of the path stands for.
LEMMA namexResolves ==
  ASSUME TreeOK, DotsInRoot, WalkInv, Based, WantTyped,
         NEW p \in Procs, NEW path \in Paths, NEW up \in BOOLEAN,
         NEW call \in {"execve", "find_inode"}, NEW cwd \in Slots,
         p \in Finders \/ cwd = task[p].cwd, inode_namex(p, path, up, call, cwd)
  PROVE  Resolves(p)
<1> DEFINE s == Start(path.first, cwd)
           T == dup(table, s)
           t == [pc |-> "idle", at |-> s, rest |-> path.names, up |-> up, call |-> call,
                 cwd |-> cwd, old |-> task[p].cwd]
           d == IF path.first = "/" THEN Root
                ELSE IF path.first = ".." THEN Up[table[cwd].ino] ELSE table[cwd].ino
<1>1. Walk(p, T, t) /\ want' = [want EXCEPT ![p] = Meant(path, up, cwd)]
  BY DEF inode_namex
<1>2. table \in Tables /\ TableOK(table) /\ task[p].cwd \in Slots
  BY TaskState
<1>3. s \in Slots /\ path.names \in Seq(Names)
  BY StartIs DEF TreeOK
<1>4. table[s].ino = d
  <2>1. CASE path.first = "/"
    BY <2>1 DEF Start, Based
  <2>2. CASE path.first \in {".", ".."}
    <3>1. Finders = {} /\ Up[Root] = Root
      BY <2>2 DEF DotsInRoot
    <3>2. cwd = 0
      BY <3>1 DEF Based
    <3> QED
      BY <2>2, <3>1, <3>2 DEF Start, Based
  <2>3. CASE path.first \notin {"/", ".", ".."}
    BY <2>3 DEF Start
  <2> QED
    BY <2>1, <2>2, <2>3
<1>5. Meant(path, up, cwd) = Goal(d, path.names, up)
  BY DEF Meant, Goal
<1> HIDE DEF s, d
<1>6. t \in Task /\ t.at = s /\ t.rest = path.names /\ t.up = up
  BY <1>2, <1>3 DEF Task
<1> HIDE DEF t
<1>7. T \in Tables /\ TableOK(T) /\ T[s].ino = table[s].ino
  BY <1>2, <1>3, dupIs DEF Same
<1> HIDE DEF T
<1>8. /\ want'[p] = Goal(T[t.at].ino, t.rest, t.up)
      /\ \A q \in Procs : q # p => want'[q] = want[q]
  BY <1>1, <1>4, <1>5, <1>6, <1>7 DEF WantTyped
<1> QED
  BY <1>1, <1>6, <1>7, <1>8, RetTypes, WalkResolves

LEMMA lock_entryResolves ==
  ASSUME TreeOK, WalkInv, ResolveInv, NEW p \in Procs, lock_entry(p)
  PROVE  Resolves(p)
<1> DEFINE t == task[p]
           s == t.at
           r == [table[s] EXCEPT !.kind = Kind(table[s].ino)]
           T == [table EXCEPT ![s] = r]
<1>1. t.pc = "load" /\ Go(p, T, [t EXCEPT !.pc = "travel"]) /\ UNCHANGED <<want, ret>>
  BY DEF lock_entry
<1>2. table \in Tables /\ TableOK(table) /\ t \in Task /\ s \in Slots
  BY TaskState
<1>3. table[s] \in Inode
  BY <1>2, InodeIs, Zenon
<1>4. r.ino = table[s].ino
  BY <1>3 DEF Inode
<1> HIDE DEF r
<1>5. T[s].ino = table[s].ino
  BY <1>2, <1>4 DEF Tables
<1> HIDE DEF T
<1>6. OnWay(table, t, want[p], ret[p])
  BY DEF ResolveInv
<1>7. IF t.rest # <<>> THEN want'[p] = Goal(T[t.at].ino, t.rest, t.up) ELSE ret[p] = want'[p]
  BY <1>1, <1>5, <1>6 DEF OnWay
<1> HIDE DEF t
<1> QED
  BY <1>1, <1>2, <1>7, RetTypes, SleepResolves, Zenon

LEMMA lock_endResolves ==
  ASSUME TreeOK, WalkInv, ResolveInv, NEW p \in Procs, lock_end(p)
  PROVE  Resolves(p)
<1> DEFINE t == task[p]
           s == t.at
           r == [table[s] EXCEPT !.valid = TRUE]
           T == [table EXCEPT ![s] = r]
<1>1. /\ t.pc = "travel" /\ UNCHANGED want
      /\ \/ t.rest # <<>> /\ Locked(p, T, t)
         \/ t.rest = <<>> /\ Go(p, T, [t EXCEPT !.pc = "read"]) /\ UNCHANGED ret
  BY DEF lock_end
<1>2. table \in Tables /\ TableOK(table) /\ t \in Task /\ s \in Slots /\ TaskOK(table, t)
  BY TaskState
<1>3. table[s] \in Inode /\ table[s].kind = Kind(table[s].ino)
  BY <1>1, <1>2, InodeIs, Zenon DEF TaskOK
<1>4. r \in Inode /\ r.ino = table[s].ino /\ r.kind = Kind(r.ino)
  BY <1>3, Zenon DEF Inode
<1> HIDE DEF r
<1>5. T \in Tables /\ T[s] = r /\ \A x \in Slots : x # s => T[x] = table[x]
  BY <1>2, <1>4 DEF Tables
<1> HIDE DEF T
<1>6. TableOK(T)
  BY <1>2, <1>4, <1>5 DEF TableOK
<1>7. OnWay(table, t, want[p], ret[p])
  BY DEF ResolveInv
<1>8. CASE t.rest # <<>> /\ Locked(p, T, t)
  <2>1. want'[p] = Goal(T[t.at].ino, t.rest, t.up)
    BY <1>1, <1>4, <1>5, <1>7, <1>8 DEF OnWay
  <2>2. T[t.at].kind = Kind(T[t.at].ino)
    BY <1>4, <1>5
  <2> QED
    BY <1>1, <1>2, <1>5, <1>6, <1>8, <2>1, <2>2, RetTypes, LockedResolves
<1>9. CASE t.rest = <<>> /\ Go(p, T, [t EXCEPT !.pc = "read"]) /\ UNCHANGED ret
  <2> DEFINE u == [t EXCEPT !.pc = "read"]
  <2>1. task' = [task EXCEPT ![p] = u] /\ ret[p] = want[p]
    BY <1>7, <1>9 DEF Go, OnWay
  <2>2. u.pc = "read"
    BY <1>2 DEF Task
  <2> HIDE DEF u
  <2>3. task'[p] = u
    BY <2>1, RetTypes DEF RetTyped
  <2> QED
    BY <1>1, <1>9, <2>1, <2>2, <2>3 DEF Resolves, OnWay
<1> QED
  BY <1>1, <1>8, <1>9

LEMMA dirlookupResolves ==
  ASSUME TreeOK, WalkInv, ResolveInv, NEW p \in Procs, dirlookup(p)
  PROVE  Resolves(p)
<1> DEFINE t == task[p]
           name == Head(t.rest)
           ino == Child[table[t.at].ino, name]
<1>1. t.pc = "look" /\ UNCHANGED want
  BY DEF dirlookup
<1>2. /\ t.rest \in Seq(Names) /\ t.rest # <<>> /\ Tail(t.rest) \in Seq(Names)
      /\ ino \in Inos \cup {NONE} /\ table[t.at].ino \in Dirs
  BY <1>1, LookState
<1>3. table \in Tables /\ TableOK(table) /\ t \in Task /\ t.at \in Slots /\ t.up \in BOOLEAN
  BY TaskState, TaskIs
<1>4. want[p] = Goal(table[t.at].ino, t.rest, t.up) /\ (t.up => Len(t.rest) # 1)
  BY <1>1, <1>2 DEF ResolveInv, OnWay
<1>5. want'[p] = Goal(ino, Tail(t.rest), t.up)
  <2>1. Step(table[t.at].ino, Head(t.rest)) = ino /\ table[t.at].ino \in Inos
    BY <1>2 DEF Step, Inos
  <2> QED
    BY <1>1, <1>2, <1>3, <1>4, <2>1, GoalStep
<1>6. CASE ino = NONE /\ Stop(p, put(table, t.at), t)
  <2>1. want'[p] = NONE
    <3>1. Root \in Inos
      BY DEF TreeOK, Inos
    <3> QED
      BY <1>2, <1>3, <1>5, <1>6, <3>1, GoalEnd
  <2> QED
    BY <1>1, <1>3, <1>6, <2>1, RetTypes, StopResolves
<1>7. ASSUME ino # NONE, NEW s \in Gettable(table, ino),
             Walk(p, NextTable(p, s, ino), [t EXCEPT !.at = s, !.rest = Tail(t.rest)])
      PROVE  Resolves(p)
  <2> DEFINE T == NextTable(p, s, ino)
             n == [t EXCEPT !.at = s, !.rest = Tail(t.rest)]
  <2>1. ino \in Inos
    BY <1>2, <1>7
  <2>2. s \in Slots
    BY <1>3, GettableIs
  <2>3. Walk(p, T, n)
    BY <1>7
  <2>4. n \in Task /\ n.at = s /\ n.rest = Tail(t.rest) /\ n.up = t.up
    BY <1>2, <1>3, <2>2 DEF Task
  <2> HIDE DEF n
  <2>5. T \in Tables /\ TableOK(T) /\ T[s].ino = ino
    <3>1. MovedTo(p, s, ino, T)
      BY <1>1, <2>1, NextTableIs
    <3> HIDE DEF T
    <3> QED
      BY <3>1 DEF MovedTo
  <2> HIDE DEF T
  <2>6. want'[p] = Goal(T[n.at].ino, n.rest, n.up)
    BY <1>5, <2>4, <2>5
  <2> QED
    BY <1>1, <2>3, <2>4, <2>5, <2>6, RetTypes, WalkResolves
<1>8. CASE UNCHANGED <<table, task, ret>>
  BY <1>1, <1>8 DEF Resolves, ResolveInv
<1> QED
  BY <1>6, <1>7, <1>8 DEF dirlookup, Rest, NextTable, Looked

\* The walk was over before.
LEMMA OverResolves ==
  ASSUME WalkInv, ResolveInv, NEW p \in Procs, task[p].pc \in {"idle", "read", "got"},
         UNCHANGED <<want, ret>>, NEW u, u.pc = "idle", task' = [task EXCEPT ![p] = u]
  PROVE  Resolves(p)
<1>1. ret[p] = want[p]
  BY DEF ResolveInv, OnWay
<1>2. task'[p] = u
  BY RetTypes DEF RetTyped
<1> QED
  BY <1>1, <1>2 DEF Resolves, OnWay

LEMMA NextResolves ==
  ASSUME TreeOK, DotsInRoot, WalkInv, Based, ResolveInv, WantTyped,
         NEW p \in Procs, Call(p) \/ Run(p)
  PROVE  Resolves(p)
<1>1. task[p].cwd \in Slots /\ fd[p] \in Slots \cup {NONE} /\ task[p] \in Task
  BY TaskState
<1>2. ASSUME NEW path \in Paths, execve(p, path) PROVE Resolves(p)
  BY <1>1, <1>2, namexResolves, Zenon DEF execve
<1>3. ASSUME NEW path \in Paths, NEW up \in BOOLEAN, find_inode(p, path, up) PROVE Resolves(p)
  BY <1>1, <1>3, namexResolves DEF find_inode
<1>4. CASE close(p)
  <2>1. task' = [task EXCEPT ![p] = task[p]]
    BY <1>4, RetTypes DEF close, RetTyped
  <2> QED
    BY <1>4, <2>1, OverResolves, Zenon DEF close
<1>5. CASE execve_end(p) \/ keep(p) \/ drop(p)
  <2> DEFINE u == [task[p] EXCEPT !.pc = "idle", !.at = 0]
  <2>1. /\ task[p].pc \in {"read", "got"} /\ UNCHANGED <<want, ret>>
        /\ task' = [task EXCEPT ![p] = u]
    BY <1>5 DEF execve_end, keep, drop, Go
  <2>2. u.pc = "idle"
    BY <1>1 DEF Task
  <2> HIDE DEF u
  <2> QED
    BY <2>1, <2>2, OverResolves, Zenon
<1>6. CASE lock_entry(p)
  BY <1>6, lock_entryResolves
<1>7. CASE lock_end(p)
  BY <1>7, lock_endResolves
<1>8. CASE dirlookup(p)
  BY <1>8, dirlookupResolves
<1>9. CASE Call(p)
  BY <1>2, <1>3, <1>4, <1>9 DEF Call
<1>10. CASE Run(p)
  BY <1>5, <1>6, <1>7, <1>8, <1>10 DEF Run
<1> QED
  BY <1>9, <1>10

PathInv == WalkInv /\ Based /\ WantTyped /\ ResolveInv

LEMMA InitPaths ==
  ASSUME TreeOK, Init
  PROVE  PathInv
<1>1. 0 \in Slots
  BY DEF TreeOK, Slots
<1>2. /\ table[0].ino = Root /\ table[0].parent = 0
      /\ \A p \in Procs : task[p].pc = "idle" /\ task[p].cwd = 0 /\ task[p].old = 0
  BY <1>1 DEF Init
<1>3. want = [p \in Procs |-> NONE] /\ ret = [p \in Procs |-> NONE]
  BY DEF Init
<1>4. Based
  BY <1>2 DEF Based
<1>5. WantTyped /\ \A p \in Procs : ret[p] = want[p]
  BY <1>3 DEF WantTyped
<1>6. ResolveInv
  BY <1>2, <1>5 DEF ResolveInv, OnWay
<1> QED
  BY <1>4, <1>5, <1>6, InitWalk DEF PathInv

LEMMA WantStep ==
  ASSUME WantTyped, NEW p \in Procs, Call(p) \/ Run(p)
  PROVE  WantTyped'
<1>1. want' = want \/ \E w : want' = [want EXCEPT ![p] = w]
  BY DEF Call, Run, execve, find_inode, inode_namex, close, lock_entry, lock_end,
         dirlookup, execve_end, keep, drop
<1> QED
  BY <1>1 DEF WantTyped

\* A walk of another task is where it was: its slot is in use, so that it keeps
\* its inode.
LEMMA OtherWalks ==
  ASSUME TreeOK, PathInv, NEW p \in Procs, NEW u, NEW v, Moves(p, u, v), Resolves(p),
         NEW q \in Procs, q # p
  PROVE  OnWay(table', task'[q], want'[q], ret'[q])
<1>1. /\ task \in [Procs -> Task] /\ Refs(table, task, fd)
      /\ OnWay(table, task[q], want[q], ret[q])
  BY DEF PathInv, WalkInv, Typed, ResolveInv
<1>2. Kept(table, table') /\ task' = [task EXCEPT ![p] = u]
  BY DEF Moves
<1>3. task'[q] = task[q] /\ want'[q] = want[q] /\ ret'[q] = ret[q]
  BY <1>1, <1>2 DEF Resolves
<1>4. task[q].at \in Slots
  BY <1>1, TaskIs
<1>5. task[q].pc # "idle" => table[task[q].at].ref > 0
  BY <1>1, <1>4, HeldInUse
<1>6. task[q].pc # "idle" => table'[task[q].at].ino = table[task[q].at].ino
  BY <1>2, <1>4, <1>5 DEF Kept
<1> QED
  BY <1>1, <1>3, <1>6 DEF OnWay

LEMMA NextPaths ==
  ASSUME TreeOK, DotsInRoot, PathInv, Next
  PROVE  PathInv'
<1>1. PICK p \in Procs : Call(p) \/ Run(p)
  BY DEF Next
<1>2. WalkInv /\ ~halted
  BY DEF PathInv, Next
<1>3. PICK u, v : Moves(p, u, v)
  BY <1>1, <1>2, TaskMoves DEF Moved
<1>4. Resolves(p)
  BY <1>1, NextResolves DEF PathInv
<1>5. ResolveInv'
  <2>1. OnWay(table', task'[p], want'[p], ret'[p])
    BY <1>4 DEF Resolves
  <2>2. \A q \in Procs : q # p => OnWay(table', task'[q], want'[q], ret'[q])
    BY <1>3, <1>4, OtherWalks
  <2> QED
    BY <2>1, <2>2 DEF ResolveInv
<1>6. WalkInv' /\ Based'
  BY <1>2, <1>3, MovesKeep, BasedStep DEF PathInv
<1>7. WantTyped'
  BY <1>1, WantStep DEF PathInv
<1> QED
  BY <1>5, <1>6, <1>7 DEF PathInv

LEMMA PathStutter ==
  ASSUME PathInv, UNCHANGED vars
  PROVE  PathInv'
<1>1. WalkInv'
  BY WalkStutter DEF PathInv
<1>2. table' = table /\ task' = task /\ want' = want /\ ret' = ret
  BY DEF vars
<1> QED
  BY <1>1, <1>2 DEF PathInv, Based, WantTyped, ResolveInv

\* In any tree, with any number of slots and any tasks walking at once,
\* inode_namex() returns the inode its path stands for, or NULL when there is
\* none, although every inode_lock() and dirlookup() on the way may sleep while
\* other tasks recycle slots.  Paths that begin with a dot start in `parent',
\* which is right as long as every task is in the root.
THEOREM PathsResolveRight ==
  ASSUME TreeOK, DotsInRoot
  PROVE  Spec => []ResolvesRight
<1>1. Init => PathInv
  BY InitPaths
<1>2. PathInv /\ [Next]_vars => PathInv'
  BY NextPaths, PathStutter
<1>3. PathInv => ResolvesRight
  BY DEF PathInv, ResolveInv, OnWay, ResolvesRight
<1> QED
  BY <1>1, <1>2, <1>3, PTL DEF Spec
=============================================================================
