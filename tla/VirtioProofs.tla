---------------------------- MODULE VirtioProofs ----------------------------
(***************************************************************************)
(* Proofs about the virtio driver, for every number of descriptors,        *)
(* callers and buffers: descriptors are never lost and never shared, the   *)
(* device works only on buffers whose callers wait for it, and the hart    *)
(* never stops in the driver.                                              *)
(***************************************************************************)
EXTENDS Virtio, FiniteSetTheorems, TLAPS

-----------------------------------------------------------------------------
(* The inductive invariant: DescsAccounted says what the chains cover, and
   here every chain is the list of three that virtio_disk_rw() built. *)

PcType == {"out", "alloc", "published", "poll", "free", "sleep", "woken"}

TableType ==
  /\ free \subseteq Descs
  /\ next \in [Descs -> Descs \cup {NIL}]
  /\ pc \in [Procs -> PcType]
  /\ head \in [Procs -> Descs \cup {NIL}]

Linked(h, j, k) ==
  /\ {h, j, k} \subseteq Descs
  /\ h # j /\ h # k /\ j # k
  /\ next[h] = j /\ next[j] = k /\ next[k] = NIL

Covered == Descs = free \cup UNION {Chain(head[p]) : p \in Holders}

Lists ==
  \A p \in Holders :
    /\ \E j, k \in Descs : Linked(head[p], j, k)
    /\ Chain(head[p]) \cap free = {}

Apart == \A p, q \in Holders : p # q => Chain(head[p]) \cap Chain(head[q]) = {}

DescsInv == TableType /\ Covered /\ Lists /\ Apart

\* The provers need to know that NIL is no descriptor.
LEMMA NilApart == NIL \notin Descs
BY VirtioAssumption DEF Descs

\* The chain of a list of three is the list.
LEMMA ChainOfList ==
  ASSUME NEW h, NEW j, NEW k, Linked(h, j, k)
  PROVE  Chain(h) = {h, j, k}
BY NilApart DEF Linked, Chain

\* A list of three has three descriptors.
LEMMA ThreeDescs ==
  ASSUME NEW h, NEW j, NEW k, h # j, h # k, j # k
  PROVE  Cardinality({h, j, k}) = 3
<1>1. IsFiniteSet({}) /\ Cardinality({}) = 0
  BY FS_EmptySet
<1>2. IsFiniteSet({h}) /\ Cardinality({h}) = 1
  BY FS_Singleton, Zenon
<1>3. IsFiniteSet({h} \cup {j}) /\ Cardinality({h} \cup {j}) = 2
  BY <1>2, FS_AddElement
<1>4. Cardinality(({h} \cup {j}) \cup {k}) = 3
  BY <1>3, FS_AddElement
<1>5. ({h} \cup {j}) \cup {k} = {h, j, k}
  OBVIOUS
<1> QED
  BY <1>4, <1>5

\* DescsInv gives the property the runs check.
LEMMA InvAccounts == DescsInv => DescsAccounted
<1> SUFFICES ASSUME DescsInv PROVE DescsAccounted
  OBVIOUS
<1>1. \A p \in Holders : Cardinality(Chain(head[p])) = 3
  <2> TAKE p \in Holders
  <2>1. PICK j, k \in Descs : Linked(head[p], j, k)
    BY DEF DescsInv, Lists
  <2>2. Chain(head[p]) = {head[p], j, k}
    BY <2>1, ChainOfList
  <2>3. head[p] # j /\ head[p] # k /\ j # k
    BY <2>1 DEF Linked
  <2>4. Cardinality({head[p], j, k}) = 3
    BY <2>3, ThreeDescs, Zenon
  <2> QED
    BY <2>2, <2>4
<1> QED
  BY <1>1 DEF DescsInv, Covered, Lists, Apart, DescsAccounted

\* All descriptors are free at first.
LEMMA InitDescs == Init => DescsInv
<1> SUFFICES ASSUME Init PROVE DescsInv
  OBVIOUS
<1>1. Holders = {}
  BY DEF Init, Holders
<1> QED
  BY <1>1 DEF Init, DescsInv, TableType, PcType, Covered, Lists, Apart

\* A step that moves no descriptor and leaves each call inside or outside
\* keeps the invariant.
LEMMA SameTable ==
  ASSUME DescsInv, UNCHANGED <<free, next, head>>, Holders' = Holders,
         pc' \in [Procs -> PcType]
  PROVE  DescsInv'
<1>1. \A h : Chain(h)' = Chain(h)
  BY DEF Chain
<1>2. TableType'
  BY DEF DescsInv, TableType
<1>3. Covered'
  BY <1>1 DEF DescsInv, Covered
<1>4. Lists'
  BY <1>1 DEF DescsInv, Lists, Linked
<1>5. Apart'
  BY <1>1 DEF DescsInv, Apart
<1> QED
  BY <1>2, <1>3, <1>4, <1>5 DEF DescsInv

\* A request takes three free descriptors and links them: the chains of the
\* other calls hold no free descriptor, so they stay as they are.
LEMMA PublishKeeps ==
  ASSUME DescsInv, NEW p \in Procs, p \notin Holders,
         NEW b, NEW i \in free, NEW j \in free, NEW k \in free,
         alloc_descs(i, j, k), Publish(p, b, i, j, k),
         Holders' = Holders \cup {p}, pc' \in [Procs -> PcType]
  PROVE  DescsInv'
<1>1. /\ {i, j, k} \subseteq Descs /\ i # j /\ i # k /\ j # k
      /\ i < j /\ j < k
  BY DEF DescsInv, TableType, alloc_descs, Descs
<1>2. TableType'
  BY <1>1, Zenon DEF DescsInv, TableType, Publish, PcType
<1>3. Linked(i, j, k)'
  BY <1>1 DEF DescsInv, TableType, Publish, Linked
<1>4. head'[p] = i /\ (Chain(head[p]))' = {i, j, k}
  <2>1. head'[p] = i
    BY DEF DescsInv, TableType, Publish
  <2>2. (Chain(i))' = {i, j, k}
    BY <1>3, NilApart DEF Linked, Chain
  <2> QED
    BY <2>1, <2>2 DEF Chain
<1>5. ASSUME NEW q \in Holders
      PROVE  /\ head'[q] = head[q]
             /\ (Chain(head[q]))' = Chain(head[q])
             /\ \E m, n \in Descs : Linked(head[q], m, n)'
             /\ Chain(head[q]) \cap free = {}
  <2>1. q # p /\ head'[q] = head[q]
    BY DEF Holders, DescsInv, TableType, Publish
  <2>2. PICK m, n \in Descs : Linked(head[q], m, n)
    BY DEF DescsInv, Lists
  <2>3. Chain(head[q]) = {head[q], m, n}
    BY <2>2, ChainOfList
  <2>4. Chain(head[q]) \cap free = {}
    BY DEF DescsInv, Lists
  <2>5. /\ head[q] \notin {i, j, k} /\ m \notin {i, j, k} /\ n \notin {i, j, k}
    BY <2>3, <2>4
  <2>6. \A x \in Descs \ {i, j, k} : next'[x] = next[x]
    BY DEF DescsInv, TableType, Publish
  <2>7. Linked(head[q], m, n)'
    BY <2>1, <2>2, <2>5, <2>6 DEF Linked
  <2>8. (Chain(head[q]))' = {head[q], m, n}
    BY <2>1, <2>7, NilApart DEF Linked, Chain
  <2> QED
    BY <2>1, <2>3, <2>4, <2>7, <2>8
<1>6. free' = free \ {i, j, k}
  BY DEF Publish
<1>7. Covered'
  <2>1. UNION {(Chain(head[q]))' : q \in Holders'}
          = {i, j, k} \cup UNION {Chain(head[q]) : q \in Holders}
    BY <1>4, <1>5
  <2>2. Descs = free \cup UNION {Chain(head[q]) : q \in Holders}
    BY DEF DescsInv, Covered
  <2>3. Descs = free' \cup UNION {(Chain(head[q]))' : q \in Holders'}
    BY <1>1, <1>6, <2>1, <2>2
  <2> QED
    BY <2>3 DEF Covered
<1>8. Lists'
  <2>1. ASSUME NEW q \in Holders'
        PROVE  /\ \E m, n \in Descs : Linked(head[q], m, n)'
               /\ (Chain(head[q]))' \cap free' = {}
    <3>1. CASE q = p
      BY <3>1, <1>1, <1>3, <1>4, <1>6 DEF Linked
    <3>2. CASE q # p
      BY <3>2, <1>5, <1>6
    <3> QED
      BY <3>1, <3>2
  <2> QED
    BY <2>1 DEF Lists
<1>9. Apart'
  <2>1. ASSUME NEW q \in Holders', NEW r \in Holders', q # r
        PROVE  (Chain(head[q]))' \cap (Chain(head[r]))' = {}
    <3>1. CASE q = p
      BY <2>1, <3>1, <1>4, <1>5
    <3>2. CASE r = p
      BY <2>1, <3>2, <1>4, <1>5
    <3>3. CASE q # p /\ r # p
      BY <2>1, <3>3, <1>5 DEF DescsInv, Apart
    <3> QED
      BY <3>1, <3>2, <3>3
  <2> QED
    BY <2>1 DEF Apart
<1> QED
  BY <1>2, <1>7, <1>8, <1>9 DEF DescsInv

\* free_chain() gives back the three descriptors of its caller, none of which
\* was free, and touches no other chain.
LEMMA FreeKeeps ==
  ASSUME DescsInv, NEW p \in Procs, p \in Holders, free_chain(p),
         Holders' = Holders \ {p}, pc' \in [Procs -> PcType]
  PROVE  DescsInv' /\ hart' = hart
<1> DEFINE C == Chain(head[p])
<1>1. C \cap free = {} /\ C \subseteq Descs
  BY DEF DescsInv, Lists, Covered
<1>2. /\ free' = free \cup C
      /\ next' = [x \in Descs |-> IF x \in C THEN NIL ELSE next[x]]
      /\ head' = [head EXCEPT ![p] = NIL]
      /\ hart' = hart
  BY <1>1 DEF free_chain
<1> HIDE DEF C
<1>3. TableType'
  BY <1>1, <1>2 DEF DescsInv, TableType, PcType
<1>4. ASSUME NEW q \in Holders, q # p
      PROVE  /\ head'[q] = head[q]
             /\ (Chain(head[q]))' = Chain(head[q])
             /\ \E m, n \in Descs : Linked(head[q], m, n)'
             /\ Chain(head[q]) \cap free' = {}
  <2>1. head'[q] = head[q]
    BY <1>2, <1>4 DEF Holders, DescsInv, TableType
  <2>2. PICK m, n \in Descs : Linked(head[q], m, n)
    BY DEF DescsInv, Lists
  <2>3. Chain(head[q]) = {head[q], m, n}
    BY <2>2, ChainOfList
  <2>4. Chain(head[q]) \cap C = {}
    BY <1>4 DEF DescsInv, Apart, C
  <2>5. Chain(head[q]) \cap free' = {}
    BY <1>2, <2>4 DEF DescsInv, Lists
  <2>6. Linked(head[q], m, n)'
    BY <1>2, <2>1, <2>2, <2>3, <2>4 DEF Linked
  <2>7. (Chain(head[q]))' = {head[q], m, n}
    BY <2>1, <2>6, NilApart DEF Linked, Chain
  <2> QED
    BY <2>1, <2>3, <2>5, <2>6, <2>7
<1>5. Covered'
  <2>1. UNION {(Chain(head[q]))' : q \in Holders'}
          = UNION {Chain(head[q]) : q \in Holders \ {p}}
    BY <1>4
  <2>2. Descs = free \cup UNION {Chain(head[q]) : q \in Holders}
    BY DEF DescsInv, Covered
  <2>3. UNION {Chain(head[q]) : q \in Holders}
          = C \cup UNION {Chain(head[q]) : q \in Holders \ {p}}
    BY DEF C
  <2>4. Descs = free' \cup UNION {(Chain(head[q]))' : q \in Holders'}
    BY <1>2, <2>1, <2>2, <2>3
  <2> QED
    BY <2>4 DEF Covered
<1>6. Lists'
  BY <1>4 DEF Lists
<1>7. Apart'
  BY <1>4 DEF DescsInv, Apart
<1> QED
  BY <1>2, <1>3, <1>5, <1>6, <1>7 DEF DescsInv

-----------------------------------------------------------------------------
\* Every step keeps the invariant.  Only a request takes descriptors and only
\* the end of a call gives them back.
LEMMA NextDescs == DescsInv /\ [Next]_vars => DescsInv'
<1> SUFFICES ASSUME DescsInv, [Next]_vars PROVE DescsInv'
  OBVIOUS
<1> USE VirtioAssumption
<1>0. pc \in [Procs -> PcType]
  BY DEF DescsInv, TableType
<1>1. ASSUME NEW why, Stuck(why) PROVE DescsInv'
  BY <1>0, <1>1, SameTable DEF Stuck, table, caller, Holders
<1>2. ASSUME NEW p \in Procs, NEW b \in BufsOf[p], SysRequest(p, b) PROVE DescsInv'
  <2>1. CASE lock \/ NoDescs
    BY <1>1, <1>2, <2>1, Zenon DEF SysRequest
  <2>2. CASE ~lock /\ ~NoDescs
    <3>1. PICK i, j, k \in free : alloc_descs(i, j, k) /\ Publish(p, b, i, j, k)
      BY <1>2, <2>2 DEF SysRequest
    <3>2. pc[p] = "out" /\ pc' = [pc EXCEPT ![p] = "sleep"]
      BY <1>2, <2>2 DEF SysRequest
    <3>3. p \notin Holders /\ Holders' = Holders \cup {p} /\ pc' \in [Procs -> PcType]
      BY <1>0, <3>2 DEF Holders, PcType
    <3> QED
      BY <3>1, <3>3, PublishKeeps
  <2> QED
    BY <2>1, <2>2
<1>3. ASSUME NEW p \in Procs, SysResume(p) PROVE DescsInv'
  <2>0. pc[p] = "woken"
    BY <1>3 DEF SysResume
  <2>1. CASE disk[buf[p]]
    <3>1. pc' = [pc EXCEPT ![p] = "sleep"] /\ UNCHANGED <<free, next, head>>
      BY <1>3, <2>1 DEF SysResume, table
    <3>2. Holders' = Holders /\ pc' \in [Procs -> PcType]
      BY <1>0, <2>0, <3>1 DEF Holders, PcType
    <3> QED
      BY <3>1, <3>2, SameTable
  <2>2. CASE ~disk[buf[p]] /\ lock
    BY <1>1, <1>3, <2>2 DEF SysResume
  <2>3. CASE ~disk[buf[p]] /\ ~lock
    <3>1. free_chain(p) /\ pc' = [pc EXCEPT ![p] = "out"]
      BY <1>3, <2>3 DEF SysResume
    <3>2. /\ p \in Holders /\ Holders' = Holders \ {p}
          /\ pc' \in [Procs -> PcType]
      BY <1>0, <2>0, <3>1 DEF Holders, PcType
    <3> QED
      BY <3>1, <3>2, FreeKeeps
  <2> QED
    BY <2>1, <2>2, <2>3
<1>4. CASE UserLock
  <2>1. /\ pc[Mounter] = "out" /\ pc' = [pc EXCEPT ![Mounter] = "alloc"]
        /\ UNCHANGED <<free, next, head>>
    BY <1>4 DEF UserLock, table
  <2>2. Holders' = Holders /\ pc' \in [Procs -> PcType]
    BY <1>0, <2>1 DEF Holders, PcType
  <2> QED
    BY <2>1, <2>2, SameTable
<1>5. ASSUME NEW b \in BufsOf[Mounter], UserPublish(b) PROVE DescsInv'
  <2>1. CASE NoDescs
    BY <1>0, <1>5, <2>1, SameTable DEF UserPublish, table, caller, Holders
  <2>2. CASE ~NoDescs
    <3>1. PICK i, j, k \in free :
            alloc_descs(i, j, k) /\ Publish(Mounter, b, i, j, k)
      BY <1>5, <2>2 DEF UserPublish
    <3>2. pc[Mounter] = "alloc" /\ pc' = [pc EXCEPT ![Mounter] = "published"]
      BY <1>5, <2>2 DEF UserPublish
    <3>3. /\ Mounter \notin Holders /\ Holders' = Holders \cup {Mounter}
          /\ pc' \in [Procs -> PcType]
      BY <1>0, <3>2 DEF Holders, PcType
    <3> QED
      BY <3>1, <3>3, PublishKeeps
  <2> QED
    BY <2>1, <2>2
<1>6. CASE UserNotify
  <2>1. /\ pc[Mounter] = "published" /\ pc' = [pc EXCEPT ![Mounter] = "poll"]
        /\ UNCHANGED <<free, next, head>>
    BY <1>6 DEF UserNotify, table
  <2>2. Holders' = Holders /\ pc' \in [Procs -> PcType]
    BY <1>0, <2>1 DEF Holders, PcType
  <2> QED
    BY <2>1, <2>2, SameTable
<1>7. CASE UserPolled
  <2>1. /\ pc[Mounter] = "poll" /\ pc' = [pc EXCEPT ![Mounter] = "free"]
        /\ UNCHANGED <<free, next, head>>
    BY <1>7 DEF UserPolled, table
  <2>2. Holders' = Holders /\ pc' \in [Procs -> PcType]
    BY <1>0, <2>1 DEF Holders, PcType
  <2> QED
    BY <2>1, <2>2, SameTable
<1>8. CASE UserReturn
  <2>1. /\ pc[Mounter] = "free" /\ pc' = [pc EXCEPT ![Mounter] = "out"]
        /\ free_chain(Mounter)
    BY <1>8 DEF UserReturn
  <2>2. /\ Mounter \in Holders /\ Holders' = Holders \ {Mounter}
        /\ pc' \in [Procs -> PcType]
    BY <1>0, <2>1 DEF Holders, PcType
  <2> QED
    BY <2>1, <2>2, FreeKeeps
<1>9. CASE Mounted
  BY <1>0, <1>9, SameTable DEF Mounted, table, caller, Holders
<1>10. CASE Take
  BY <1>0, <1>10, SameTable DEF Take, table, caller, Holders
<1>11. ASSUME NEW h \in Descs, Complete(h) PROVE DescsInv'
  BY <1>0, <1>11, SameTable DEF Complete, caller, Holders
<1>12. CASE HandlerEnter
  <2>1. CASE lock
    BY <1>1, <1>12, <2>1 DEF HandlerEnter
  <2>2. CASE ~lock
    BY <1>0, <1>12, <2>2, SameTable DEF HandlerEnter, table, caller, Holders
  <2> QED
    BY <2>1, <2>2
<1>13. CASE HandlerEntry
  BY <1>0, <1>13, SameTable DEF HandlerEntry, table, caller, Holders
<1>14. CASE HandlerExit
  <2>1. /\ pc' = [p \in Procs |-> IF pc[p] = "sleep" THEN "woken" ELSE pc[p]]
        /\ UNCHANGED <<free, next, head>>
    BY <1>14 DEF HandlerExit, table
  <2>2. Holders' = Holders /\ pc' \in [Procs -> PcType]
    BY <1>0, <2>1 DEF Holders, PcType
  <2> QED
    BY <2>1, <2>2, SameTable
<1>15. CASE UNCHANGED vars
  BY <1>0, <1>15, SameTable DEF vars, table, caller, Holders
<1> QED
  BY <1>2, <1>3, <1>4, <1>5, <1>6, <1>7, <1>8, <1>9, <1>10, <1>11, <1>12, <1>13,
     <1>14, <1>15 DEF Next

\* No descriptor of the virtio driver is lost, freed twice or given to two
\* requests, whatever buffers the callers use and however many they are.
THEOREM DescsNeverLost == Spec => []DescsAccounted
<1>1. Spec => []DescsInv
  BY InitDescs, NextDescs, PTL DEF Spec
<1> QED
  BY <1>1, InvAccounts, PTL

-----------------------------------------------------------------------------
(* The rings.  Their indexes count modulo IDX, and an index stands for the
   entry that is its remainder by QUEUE_SIZE. *)

\* From index lo to index hi a ring has Dist(lo, hi) entries, the entry number m
\* of them in Slot(lo, m).
Dist(lo, hi) == (hi - lo) % IDX
Slot(lo, m) == ((lo + m) % IDX) % QUEUE_SIZE

LEMMA Sizes ==
  /\ QUEUE_SIZE \in Nat \ {0} /\ IDX \in Nat \ {0}
  /\ IDX = QUEUE_SIZE * (IDX \div QUEUE_SIZE) /\ IDX \div QUEUE_SIZE \in Nat \ {0}
  /\ QUEUE_SIZE <= IDX
<1>1. QUEUE_SIZE \in Nat \ {0} /\ IDX \in Nat \ {0} /\ IDX % QUEUE_SIZE = 0
  BY VirtioAssumption
<1>2. IDX = QUEUE_SIZE * (IDX \div QUEUE_SIZE) + (IDX % QUEUE_SIZE)
  BY <1>1
<1>3. IDX \div QUEUE_SIZE \in Nat \ {0}
  BY <1>1, <1>2
<1> QED
  BY <1>1, <1>2, <1>3

\* Remainders of numbers that are near the divisor.
LEMMA ModType ==
  ASSUME NEW n \in Nat \ {0}, NEW x \in Int
  PROVE  x % n \in 0 .. n - 1
OBVIOUS

LEMMA ModSame ==
  ASSUME NEW n \in Nat \ {0}, NEW x \in 0 .. n - 1
  PROVE  x % n = x
<1>1. x % n \in 0 .. n - 1 /\ x = n * (x \div n) + (x % n)
  OBVIOUS
<1> QED
  BY <1>1

LEMMA ModAbove ==
  ASSUME NEW n \in Nat \ {0}, NEW x \in Int, x >= n, x < n + n
  PROVE  x % n = x - n
<1>1. x % n \in 0 .. n - 1 /\ x = n * (x \div n) + (x % n)
  OBVIOUS
<1> QED
  BY <1>1

LEMMA ModBelow ==
  ASSUME NEW n \in Nat \ {0}, NEW x \in -n .. -1
  PROVE  x % n = x + n
<1>1. x % n \in 0 .. n - 1 /\ x = n * (x \div n) + (x % n)
  OBVIOUS
<1> QED
  BY <1>1

LEMMA IncIs ==
  ASSUME NEW i \in Idx
  PROVE  Inc(i) \in Idx /\ Inc(i) = IF i + 1 = IDX THEN 0 ELSE i + 1
<1>1. i \in 0 .. IDX - 1 /\ i + 1 \in Int
  BY Sizes DEF Idx
<1>2. CASE i + 1 = IDX
  <2> DEFINE x == i + 1
  <2>1. x \in Int /\ x >= IDX /\ x < IDX + IDX
    BY <1>1, <1>2, Sizes
  <2> HIDE DEF x
  <2>2. x % IDX = x - IDX
    BY <2>1, Sizes, ModAbove, Zenon
  <2> QED
    BY <1>1, <1>2, <2>2, Sizes DEF Inc, Idx, x
<1>3. CASE i + 1 # IDX
  <2>1. i + 1 \in 0 .. IDX - 1
    BY <1>1, <1>3, Sizes
  <2>2. (i + 1) % IDX = i + 1
    BY <2>1, Sizes, ModSame
  <2> QED
    BY <1>1, <1>3, <2>2, Sizes DEF Inc, Idx
<1> QED
  BY <1>2, <1>3

LEMMA DistIs ==
  ASSUME NEW lo \in Idx, NEW hi \in Idx
  PROVE  /\ Dist(lo, hi) \in 0 .. IDX - 1
         /\ Dist(lo, hi) = IF lo <= hi THEN hi - lo ELSE hi - lo + IDX
<1>1. lo \in 0 .. IDX - 1 /\ hi \in 0 .. IDX - 1 /\ hi - lo \in Int
  BY Sizes DEF Idx
<1>2. CASE lo <= hi
  <2>1. hi - lo \in 0 .. IDX - 1
    BY <1>1, <1>2, Sizes
  <2>2. (hi - lo) % IDX = hi - lo
    BY <2>1, Sizes, ModSame
  <2> QED
    BY <1>2, <2>1, <2>2 DEF Dist
<1>3. CASE ~(lo <= hi)
  <2>1. hi - lo \in -IDX .. -1
    BY <1>1, <1>3, Sizes
  <2>2. (hi - lo) % IDX = hi - lo + IDX
    BY <2>1, Sizes, ModBelow
  <2> QED
    BY <1>1, <1>3, <2>2, Sizes DEF Dist
<1> QED
  BY <1>2, <1>3

\* The index m entries after lo.
Ahead(lo, m) == IF lo + m < IDX THEN lo + m ELSE lo + m - IDX

LEMMA SlotIs ==
  ASSUME NEW lo \in Idx, NEW m \in 0 .. IDX - 1
  PROVE  /\ Ahead(lo, m) \in Idx
         /\ Slot(lo, m) = Ahead(lo, m) % QUEUE_SIZE
         /\ Slot(lo, m) \in Descs
<1>1. lo \in 0 .. IDX - 1 /\ lo + m \in Int
  BY Sizes DEF Idx
<1>2. (lo + m) % IDX = Ahead(lo, m) /\ Ahead(lo, m) \in Idx
  <2>1. CASE lo + m < IDX
    <3>1. lo + m \in 0 .. IDX - 1
      BY <1>1, <2>1, Sizes
    <3>2. (lo + m) % IDX = lo + m
      BY <3>1, Sizes, ModSame
    <3> QED
      BY <2>1, <3>1, <3>2 DEF Ahead, Idx
  <2>2. CASE ~(lo + m < IDX)
    <3> DEFINE x == lo + m
    <3>1. x \in Int /\ x >= IDX /\ x < IDX + IDX
      BY <1>1, <2>2, Sizes
    <3> HIDE DEF x
    <3>2. x % IDX = x - IDX
      BY <3>1, Sizes, ModAbove, Zenon
    <3> QED
      BY <1>1, <2>2, <3>2, Sizes DEF Ahead, Idx, x
  <2> QED
    BY <2>1, <2>2
<1>3. Ahead(lo, m) % QUEUE_SIZE \in 0 .. QUEUE_SIZE - 1
  BY <1>2, Sizes, ModType DEF Idx
<1> QED
  BY <1>2, <1>3 DEF Slot, Descs

\* One entry on from lo, entry m + 1 is entry m.
LEMMA SlotShift ==
  ASSUME NEW lo \in Idx, NEW m \in 0 .. IDX - 2
  PROVE  Slot(Inc(lo), m) = Slot(lo, m + 1)
<1>1. lo \in 0 .. IDX - 1 /\ Inc(lo) \in Idx /\ Inc(lo) = IF lo + 1 = IDX THEN 0 ELSE lo + 1
  BY IncIs DEF Idx
<1>2. Ahead(Inc(lo), m) = Ahead(lo, m + 1)
  BY <1>1, Sizes DEF Ahead
<1>3. m \in 0 .. IDX - 1 /\ m + 1 \in 0 .. IDX - 1
  BY Sizes
<1> QED
  BY <1>1, <1>2, <1>3, SlotIs

\* The entry after the last is at hi.
LEMMA SlotEnd ==
  ASSUME NEW lo \in Idx, NEW hi \in Idx
  PROVE  Slot(lo, Dist(lo, hi)) = hi % QUEUE_SIZE
<1>1. Dist(lo, hi) \in 0 .. IDX - 1
      /\ Dist(lo, hi) = IF lo <= hi THEN hi - lo ELSE hi - lo + IDX
  BY DistIs
<1>2. Ahead(lo, Dist(lo, hi)) = hi
  BY <1>1, Sizes DEF Ahead, Idx
<1> QED
  BY <1>1, <1>2, SlotIs

LEMMA DistPush ==
  ASSUME NEW lo \in Idx, NEW hi \in Idx, Dist(lo, hi) + 1 < IDX
  PROVE  Dist(lo, Inc(hi)) = Dist(lo, hi) + 1
<1>1. Inc(hi) \in Idx /\ Inc(hi) = IF hi + 1 = IDX THEN 0 ELSE hi + 1
  BY IncIs
<1>2. Dist(lo, hi) = IF lo <= hi THEN hi - lo ELSE hi - lo + IDX
  BY DistIs
<1>3. Dist(lo, Inc(hi)) = IF lo <= Inc(hi) THEN Inc(hi) - lo ELSE Inc(hi) - lo + IDX
  BY <1>1, DistIs
<1> QED
  BY <1>1, <1>2, <1>3, Sizes DEF Idx

LEMMA DistPop ==
  ASSUME NEW lo \in Idx, NEW hi \in Idx, lo # hi
  PROVE  Dist(lo, hi) > 0 /\ Dist(Inc(lo), hi) = Dist(lo, hi) - 1
<1>1. Inc(lo) \in Idx /\ Inc(lo) = IF lo + 1 = IDX THEN 0 ELSE lo + 1
  BY IncIs
<1>2. Dist(lo, hi) = IF lo <= hi THEN hi - lo ELSE hi - lo + IDX
  BY DistIs
<1>3. Dist(Inc(lo), hi) = IF Inc(lo) <= hi THEN hi - Inc(lo) ELSE hi - Inc(lo) + IDX
  BY <1>1, DistIs
<1> QED
  BY <1>1, <1>2, <1>3, Sizes DEF Idx

LEMMA DistZero ==
  ASSUME NEW lo \in Idx, NEW hi \in Idx
  PROVE  Dist(lo, hi) = 0 <=> lo = hi
<1>1. Dist(lo, hi) = IF lo <= hi THEN hi - lo ELSE hi - lo + IDX
  BY DistIs
<1> QED
  BY <1>1, Sizes DEF Idx

\* What the device was told of, up to rung, ends before what was published, up
\* to a: when it is told again, when a request is published and when one is taken.
LEMMA RungStays ==
  ASSUME NEW t \in Idx, NEW a \in Idx, NEW r \in Idx, Dist(t, r) <= Dist(t, a), NEW s \in {r, a}
  PROVE  Dist(t, s) <= Dist(t, a)
<1>1. Dist(t, a) \in Int
  BY DistIs, Sizes
<1> QED
  BY <1>1

LEMMA RungPush ==
  ASSUME NEW t \in Idx, NEW a \in Idx, NEW r \in Idx, Dist(t, r) <= Dist(t, a),
         Dist(t, Inc(a)) = Dist(t, a) + 1, NEW s \in {r, Inc(a)}
  PROVE  Dist(t, s) <= Dist(t, Inc(a))
<1>1. Dist(t, a) \in Int /\ Dist(t, r) \in Int
  BY DistIs, Sizes
<1>2. CASE s = r
  BY <1>1, <1>2
<1>3. CASE s = Inc(a)
  BY <1>1, <1>3
<1> QED
  BY <1>2, <1>3

LEMMA RungPop ==
  ASSUME NEW t \in Idx, NEW a \in Idx, NEW r \in Idx, Dist(t, r) <= Dist(t, a), t # r
  PROVE  t # a /\ Dist(Inc(t), r) <= Dist(Inc(t), a)
<1>1. Dist(t, a) \in Int /\ Dist(t, r) \in Int
  BY DistIs, Sizes
<1>2. Dist(t, r) > 0 /\ Dist(Inc(t), r) = Dist(t, r) - 1
  BY DistPop
<1>3. t # a
  <2>1. Dist(t, a) # 0
    BY <1>1, <1>2
  <2> QED
    BY <2>1, DistZero
<1>4. Dist(Inc(t), a) = Dist(t, a) - 1
  BY <1>3, DistPop
<1> QED
  BY <1>1, <1>2, <1>3, <1>4

\* A multiple of n that is nearer to 0 than n is 0.
LEMMA SmallMultiple ==
  ASSUME NEW n \in Nat \ {0}, NEW c \in Int, n * c < n, n * c > -n
  PROVE  c = 0
<1>1. CASE c >= 1
  <2>1. n * c >= n
    BY <1>1
  <2> QED
    BY <2>1
<1>2. CASE c <= -1
  <2>1. n * c <= -n
    BY <1>2
  <2> QED
    BY <2>1
<1> QED
  BY <1>1, <1>2

\* QUEUE_SIZE entries in a row are in different slots, also where the indexes
\* start again at 0: QUEUE_SIZE divides IDX.
LEMMA SlotsApart ==
  ASSUME NEW lo \in Idx, NEW m \in 0 .. QUEUE_SIZE - 1, NEW l \in 0 .. QUEUE_SIZE - 1,
         Slot(lo, m) = Slot(lo, l)
  PROVE  m = l
<1> DEFINE x == Ahead(lo, m)
           y == Ahead(lo, l)
           k == IDX \div QUEUE_SIZE
           c == x \div QUEUE_SIZE
           d == y \div QUEUE_SIZE
<1>1. m \in 0 .. IDX - 1 /\ l \in 0 .. IDX - 1
  BY Sizes
<1>2. x \in Int /\ y \in Int /\ x % QUEUE_SIZE = y % QUEUE_SIZE
  BY <1>1, SlotIs, Sizes DEF Idx
<1>3. x - y \in {m - l, m - l + IDX, m - l - IDX}
  BY <1>1, Sizes DEF Ahead, Idx
<1> HIDE DEF x, y
<1>4. /\ x = QUEUE_SIZE * c + (x % QUEUE_SIZE) /\ c \in Int
      /\ y = QUEUE_SIZE * d + (y % QUEUE_SIZE) /\ d \in Int
      /\ x % QUEUE_SIZE \in Int
  BY <1>2, Sizes
<1>5. IDX = QUEUE_SIZE * k /\ k \in Int
  BY Sizes
<1> HIDE DEF c, d, k
<1>6. x - y = QUEUE_SIZE * (c - d)
  <2>1. x - y = QUEUE_SIZE * c - QUEUE_SIZE * d
    BY <1>2, <1>4, Sizes
  <2> QED
    BY <1>4, <2>1, Sizes
<1>7. \E e \in Int : m - l = QUEUE_SIZE * e
  <2>1. CASE x - y = m - l
    BY <1>4, <1>6, <2>1
  <2>2. CASE x - y = m - l + IDX
    <3>1. m - l = QUEUE_SIZE * (c - d) - QUEUE_SIZE * k
      BY <1>4, <1>5, <1>6, <2>2, Sizes
    <3>2. m - l = QUEUE_SIZE * (c - d - k)
      BY <1>4, <1>5, <3>1, Sizes
    <3> QED
      BY <1>4, <1>5, <3>2
  <2>3. CASE x - y = m - l - IDX
    <3>1. m - l = QUEUE_SIZE * (c - d) + QUEUE_SIZE * k
      BY <1>4, <1>5, <1>6, <2>3, Sizes
    <3>2. m - l = QUEUE_SIZE * (c - d + k)
      BY <1>4, <1>5, <3>1, Sizes
    <3> QED
      BY <1>4, <1>5, <3>2
  <2> QED
    BY <1>3, <2>1, <2>2, <2>3
<1>8. PICK e \in Int : m - l = QUEUE_SIZE * e
  BY <1>7
<1>9. QUEUE_SIZE * e < QUEUE_SIZE /\ QUEUE_SIZE * e > -QUEUE_SIZE
  BY <1>8, Sizes
<1>10. e = 0
  BY <1>9, Sizes, SmallMultiple
<1> QED
  BY <1>8, <1>10, Sizes

\* The entries of the ring R from index lo to index hi, and that none of them is
\* there twice.
Window(R, lo, hi) == {R[Slot(lo, m)] : m \in 0 .. Dist(lo, hi) - 1}
Once(R, lo, hi) ==
  \A m, l \in 0 .. Dist(lo, hi) - 1 : R[Slot(lo, m)] = R[Slot(lo, l)] => m = l

Rings == [Descs -> Descs \cup {NIL}]

LEMMA DescsFinite == IsFiniteSet(Descs) /\ Cardinality(Descs) = QUEUE_SIZE
<1>1. /\ IsFiniteSet(0 .. QUEUE_SIZE - 1)
      /\ Cardinality(0 .. QUEUE_SIZE - 1) = IF 0 > QUEUE_SIZE - 1 THEN 0
                                            ELSE (QUEUE_SIZE - 1) - 0 + 1
  BY Sizes, FS_Interval
<1> QED
  BY <1>1, Sizes DEF Descs

\* There are no more entries than descriptors they may be.
LEMMA WindowFits ==
  ASSUME NEW R, NEW lo \in Idx, NEW hi \in Idx, Once(R, lo, hi),
         NEW S, IsFiniteSet(S), Window(R, lo, hi) \subseteq S
  PROVE  Dist(lo, hi) <= Cardinality(S)
<1> DEFINE n == Dist(lo, hi)
           f == [m \in 0 .. n - 1 |-> R[Slot(lo, m)]]
<1>1. n \in Nat
  BY DistIs, Sizes
<1>2. \A m \in 0 .. n - 1 : R[Slot(lo, m)] \in S
  BY DEF Window
<1>3. \A m, l \in 0 .. n - 1 : R[Slot(lo, m)] = R[Slot(lo, l)] => m = l
  BY DEF Once
<1> HIDE DEF n
<1>4. f \in Injection(0 .. n - 1, S)
  BY <1>2, <1>3 DEF Injection, IsInjective
<1>5. Cardinality(0 .. n - 1) <= Cardinality(S)
  BY <1>4, FS_Injection
<1>6. Cardinality(0 .. n - 1) = n
  <2>1. Cardinality(0 .. n - 1) = IF 0 > n - 1 THEN 0 ELSE (n - 1) - 0 + 1
    BY <1>1, FS_Interval
  <2> QED
    BY <1>1, <2>1
<1> QED
  BY <1>5, <1>6 DEF n

\* Two descriptors that are not in the ring leave room for one entry more.
LEMMA WindowRoom ==
  ASSUME NEW R, NEW lo \in Idx, NEW hi \in Idx, Once(R, lo, hi),
         NEW x \in Descs, NEW y \in Descs, x # y,
         Window(R, lo, hi) \subseteq Descs \ {x, y}
  PROVE  Dist(lo, hi) + 1 < QUEUE_SIZE
<1>1. IsFiniteSet(Descs) /\ Cardinality(Descs) = QUEUE_SIZE
  BY DescsFinite
<1>2. IsFiniteSet(Descs \ {x}) /\ Cardinality(Descs \ {x}) = QUEUE_SIZE - 1
  BY <1>1, FS_RemoveElement
<1>3. /\ IsFiniteSet((Descs \ {x}) \ {y})
      /\ Cardinality((Descs \ {x}) \ {y}) = (QUEUE_SIZE - 1) - 1
  BY <1>2, FS_RemoveElement
<1>4. Window(R, lo, hi) \subseteq (Descs \ {x}) \ {y}
  OBVIOUS
<1>5. Dist(lo, hi) <= (QUEUE_SIZE - 1) - 1
  BY <1>3, <1>4, WindowFits
<1>6. Dist(lo, hi) \in Int
  BY DistIs, Sizes
<1> QED
  BY <1>5, <1>6, Sizes

\* S is ring R with entry h written at index at.
Written(R, S, at, h) == S = [R EXCEPT ![at % QUEUE_SIZE] = h]

\* What the entry h written at hi makes of the window lo .. hi of ring R.
Pushed(R, S, lo, hi, h) == /\ S \in Rings
                           /\ Once(S, lo, Inc(hi))
                           /\ Window(S, lo, Inc(hi)) = Window(R, lo, hi) \cup {h}
                           /\ Dist(lo, Inc(hi)) = Dist(lo, hi) + 1

\* What taking the entry at lo makes of the window lo .. hi of ring R.
Popped(R, S, lo, hi) == /\ R[lo % QUEUE_SIZE] \in Window(R, lo, hi)
                        /\ S \in Rings
                        /\ Once(S, Inc(lo), hi)
                        /\ Window(S, Inc(lo), hi) = Window(R, lo, hi) \ {R[lo % QUEUE_SIZE]}

\* An entry h is written at hi.
LEMMA RingPush ==
  ASSUME NEW R \in Rings, NEW lo \in Idx, NEW hi \in Idx, Once(R, lo, hi),
         Dist(lo, hi) + 1 < QUEUE_SIZE, NEW h \in Descs, h \notin Window(R, lo, hi),
         NEW S, Written(R, S, hi, h)
  PROVE  Pushed(R, S, lo, hi, h)
<1> USE DEF Written, Pushed
<1> DEFINE n == Dist(lo, hi)
<1>1. n \in Nat /\ n + 1 < QUEUE_SIZE /\ n + 1 < IDX
  BY DistIs, Sizes
<1>2. Dist(lo, Inc(hi)) = n + 1
  BY <1>1, DistPush
<1>3. Slot(lo, n) = hi % QUEUE_SIZE
  BY SlotEnd
<1>4. \A m \in 0 .. n : Slot(lo, m) \in Descs
  BY <1>1, SlotIs, Sizes
<1>5. \A m, l \in 0 .. n - 1 : R[Slot(lo, m)] = R[Slot(lo, l)] => m = l
  BY DEF Once
<1>6. Window(R, lo, hi) = {R[Slot(lo, m)] : m \in 0 .. n - 1}
  BY DEF Window
<1> HIDE DEF n
<1>7. S \in Rings
  BY Zenon DEF Rings
<1>8. S[Slot(lo, n)] = h
  BY <1>1, <1>3, <1>4 DEF Rings
<1>9. ASSUME NEW m \in 0 .. n - 1
      PROVE  S[Slot(lo, m)] = R[Slot(lo, m)] /\ R[Slot(lo, m)] # h
  <2>1. m \in 0 .. QUEUE_SIZE - 1 /\ n \in 0 .. QUEUE_SIZE - 1 /\ m # n /\ m \in 0 .. n
    BY <1>1, Sizes
  <2>2. Slot(lo, m) # Slot(lo, n)
    BY <2>1, SlotsApart
  <2>3. Slot(lo, m) \in Descs
    BY <1>4, <2>1
  <2> QED
    BY <1>3, <1>6, <2>2, <2>3 DEF Rings
<1>10. 0 .. n = (0 .. n - 1) \cup {n}
  BY <1>1
<1>11. Window(S, lo, Inc(hi)) = {S[Slot(lo, m)] : m \in 0 .. n}
  BY <1>1, <1>2 DEF Window
<1>12. Window(S, lo, Inc(hi)) = Window(R, lo, hi) \cup {h}
  BY <1>6, <1>8, <1>9, <1>10, <1>11, Zenon
<1>13. \A m, l \in 0 .. n : S[Slot(lo, m)] = S[Slot(lo, l)] => m = l
  BY <1>5, <1>8, <1>9, <1>10
<1>14. Once(S, lo, Inc(hi))
  BY <1>1, <1>2, <1>13 DEF Once
<1> QED
  BY <1>2, <1>7, <1>12, <1>14, Zenon DEF n

\* The entry at lo is taken.
LEMMA RingPop ==
  ASSUME NEW R \in Rings, NEW lo \in Idx, NEW hi \in Idx, Once(R, lo, hi),
         Window(R, lo, hi) \subseteq Descs, lo # hi,
         NEW S, Written(R, S, lo, NIL)
  PROVE  Popped(R, S, lo, hi)
<1> USE DEF Written, Popped
<1> DEFINE n == Dist(lo, hi)
<1>1. n \in Nat /\ n > 0 /\ n <= QUEUE_SIZE /\ n < IDX
  <2>1. IsFiniteSet(Descs) /\ Cardinality(Descs) = QUEUE_SIZE
    BY DescsFinite
  <2>2. n <= QUEUE_SIZE
    BY <2>1, WindowFits
  <2> QED
    BY <2>2, DistIs, DistPop, Sizes
<1>2. Dist(Inc(lo), hi) = n - 1
  BY DistPop
<1>3. Slot(lo, 0) = lo % QUEUE_SIZE
  <2>1. Slot(lo, Dist(lo, lo)) = lo % QUEUE_SIZE /\ Dist(lo, lo) = 0
    BY SlotEnd, DistZero
  <2> QED
    BY <2>1
<1>4. \A m \in 0 .. n - 1 : Slot(lo, m) \in Descs
  BY <1>1, SlotIs, Sizes
<1>5. \A m, l \in 0 .. n - 1 : R[Slot(lo, m)] = R[Slot(lo, l)] => m = l
  BY DEF Once
<1>6. Window(R, lo, hi) = {R[Slot(lo, m)] : m \in 0 .. n - 1}
  BY DEF Window
<1> HIDE DEF n
<1>7. S \in Rings
  BY Zenon DEF Rings
<1>8. R[lo % QUEUE_SIZE] \in Window(R, lo, hi)
  BY <1>1, <1>3, <1>6
<1>9. ASSUME NEW m \in 0 .. n - 2
      PROVE  S[Slot(Inc(lo), m)] = R[Slot(lo, m + 1)]
  <2>1. m + 1 \in 0 .. QUEUE_SIZE - 1 /\ 0 \in 0 .. QUEUE_SIZE - 1 /\ m + 1 # 0
        /\ m + 1 \in 0 .. n - 1 /\ m \in 0 .. IDX - 2
    BY <1>1, Sizes
  <2>2. Slot(lo, m + 1) # Slot(lo, 0)
    BY <2>1, SlotsApart
  <2>3. Slot(lo, m + 1) \in Descs
    BY <1>4, <2>1
  <2>4. Slot(Inc(lo), m) = Slot(lo, m + 1)
    BY <2>1, SlotShift
  <2> QED
    BY <1>3, <2>2, <2>3, <2>4 DEF Rings
<1>10. Window(S, Inc(lo), hi) = {R[Slot(lo, m + 1)] : m \in 0 .. n - 2}
  <2>1. 0 .. Dist(Inc(lo), hi) - 1 = 0 .. n - 2
    BY <1>1, <1>2
  <2> QED
    BY <1>9, <2>1, Zenon DEF Window
<1>11. {R[Slot(lo, m + 1)] : m \in 0 .. n - 2} = {R[Slot(lo, m)] : m \in 1 .. n - 1}
  <2>1. \A m \in 0 .. n - 2 : m + 1 \in 1 .. n - 1
    BY <1>1
  <2>2. \A m \in 1 .. n - 1 : m - 1 \in 0 .. n - 2 /\ (m - 1) + 1 = m
    BY <1>1
  <2> QED
    BY <2>1, <2>2
<1>12. 0 .. n - 1 = (1 .. n - 1) \cup {0} /\ 0 \notin 1 .. n - 1
  BY <1>1
<1>13. {R[Slot(lo, m)] : m \in 1 .. n - 1} = Window(R, lo, hi) \ {R[lo % QUEUE_SIZE]}
  BY <1>3, <1>5, <1>6, <1>12
<1>14. Once(S, Inc(lo), hi)
  <2> SUFFICES ASSUME NEW m \in 0 .. n - 2, NEW l \in 0 .. n - 2,
                      S[Slot(Inc(lo), m)] = S[Slot(Inc(lo), l)]
               PROVE  m = l
    BY <1>1, <1>2 DEF Once
  <2>1. m + 1 \in 0 .. n - 1 /\ l + 1 \in 0 .. n - 1
    BY <1>1
  <2>2. R[Slot(lo, m + 1)] = R[Slot(lo, l + 1)]
    BY <1>9
  <2>3. m + 1 = l + 1
    BY <1>5, <2>1, <2>2
  <2> QED
    BY <2>3
<1> QED
  BY <1>7, <1>8, <1>10, <1>11, <1>13, <1>14, Zenon

-----------------------------------------------------------------------------
(* The requests.  The head of a request in progress is in the avail ring, with
   the device, or in the used ring, and in one of the three. *)

\* No two processes use one buffer.
OwnBuffers == \A p, q \in Procs : p # q => BufsOf[p] \cap BufsOf[q] = {}

Waiting == Window(avail.ring, taken, avail.idx)
Done == Window(used.ring, used_idx, used.idx)
Heads == {head[p] : p \in Holders}

DriverType ==
  /\ addr \in [Descs -> Bufs \cup {NIL}]
  /\ info \in [Descs -> Bufs \cup {NIL}]
  /\ status \in [Descs -> BOOLEAN]
  /\ avail \in [ring : Rings, idx : Idx]
  /\ used \in [ring : Rings, idx : Idx]
  /\ used_idx \in Idx /\ rung \in Idx /\ taken \in Idx
  /\ work \subseteq Descs
  /\ dma \in [Descs -> Bufs \cup {NIL}]
  /\ disk \in [Bufs -> BOOLEAN]
  /\ buf \in [Procs -> Bufs \cup {NIL}]

RingsInv ==
  /\ Once(avail.ring, taken, avail.idx)
  /\ Once(used.ring, used_idx, used.idx)
  /\ Waiting \cup work \cup Done \subseteq Heads
  /\ Waiting \cap work = {} /\ Waiting \cap Done = {} /\ work \cap Done = {}
  /\ Dist(taken, rung) <= Dist(taken, avail.idx)

\* buf->disk is set exactly while the request of p is in progress.
CallOK(p) ==
  /\ buf[p] \in BufsOf[p]
  /\ info[head[p]] = buf[p]
  /\ addr[next[head[p]]] = buf[p]
  /\ head[p] \in work => dma[head[p]] = buf[p]
  /\ head[p] \in Done => status[head[p]]
  /\ disk[buf[p]] <=> head[p] \in Waiting \cup work \cup Done

CallsOK == \A p \in Holders : CallOK(p)

RequestsOK == DriverType /\ RingsInv /\ CallsOK

\* A call that has seen the end of its request is not in the rings again.
PolledOK == pc[Mounter] = "free" => ~disk[buf[Mounter]]

ReqInv == DescsInv /\ RequestsOK /\ PolledOK

\* The two descriptors of a request that the device reads first.
LEMMA HolderFacts ==
  ASSUME DescsInv, NEW q \in Holders
  PROVE  /\ q \in Procs /\ head[q] \in Descs /\ next[head[q]] \in Descs
         /\ head[q] # next[head[q]]
         /\ head[q] \notin free /\ next[head[q]] \notin free
         /\ head[q] \in Chain(head[q]) /\ next[head[q]] \in Chain(head[q])
<1>1. PICK m, n \in Descs : Linked(head[q], m, n)
  BY DEF DescsInv, Lists
<1>2. Chain(head[q]) = {head[q], m, n}
  BY <1>1, ChainOfList
<1>3. Chain(head[q]) \cap free = {}
  BY DEF DescsInv, Lists
<1>4. head[q] \in Descs /\ next[head[q]] = m /\ head[q] # m
  BY <1>1 DEF Linked
<1>5. q \in Procs
  BY DEF Holders
<1> QED
  BY <1>2, <1>3, <1>4, <1>5

\* Two requests share none.
LEMMA HoldersApart ==
  ASSUME DescsInv, NEW p \in Holders, NEW q \in Holders, p # q
  PROVE  /\ head[q] \notin Chain(head[p]) /\ next[head[q]] \notin Chain(head[p])
         /\ head[q] # head[p] /\ next[head[q]] # head[p]
<1>1. Chain(head[p]) \cap Chain(head[q]) = {}
  BY DEF DescsInv, Apart
<1>2. head[q] \in Chain(head[q]) /\ next[head[q]] \in Chain(head[q])
      /\ head[p] \in Chain(head[p])
  BY HolderFacts
<1> QED
  BY <1>1, <1>2

\* alloc_descs() finds three different descriptors.
LEMMA AllocApart ==
  ASSUME DescsInv, NEW i \in free, NEW j \in free, NEW k \in free, alloc_descs(i, j, k)
  PROVE  {i, j, k} \subseteq Descs /\ i # j /\ i # k /\ j # k
<1>1. i \in Descs /\ j \in Descs /\ k \in Descs
  BY DEF DescsInv, TableType
<1>2. i \in Int /\ j \in Int /\ k \in Int
  BY <1>1, Sizes DEF Descs
<1>3. i < j /\ j < k
  BY DEF alloc_descs
<1>4. i # j /\ i # k /\ j # k
  BY <1>2, <1>3
<1> QED
  BY <1>1, <1>4

\* The second descriptor of a request is the head of none.
LEMMA NextNoHead ==
  ASSUME DescsInv, NEW p \in Holders
  PROVE  next[head[p]] \notin Heads
<1> SUFFICES ASSUME NEW q \in Holders, head[q] = next[head[p]] PROVE FALSE
  BY DEF Heads
<1>1. CASE q = p
  BY <1>1, HolderFacts
<1>2. CASE q # p
  BY <1>2, HoldersApart
<1> QED
  BY <1>1, <1>2

\* A buffer belongs to one request.
LEMMA OtherBuffer ==
  ASSUME OwnBuffers, NEW p \in Procs, NEW b \in BufsOf[p], NEW q \in Holders, q # p, CallOK(q)
  PROVE  buf[q] # b
BY DEF OwnBuffers, CallOK, Holders

\* A step that leaves the request of q alone.
SameCall(q) ==
  /\ head'[q] = head[q] /\ buf'[q] = buf[q]
  /\ info'[head[q]] = info[head[q]]
  /\ next'[head[q]] = next[head[q]]
  /\ addr'[next[head[q]]] = addr[next[head[q]]]
  /\ status'[head[q]] = status[head[q]]
  /\ dma'[head[q]] = dma[head[q]]
  /\ disk'[buf[q]] = disk[buf[q]]
  /\ head[q] \in Waiting' <=> head[q] \in Waiting
  /\ head[q] \in work' <=> head[q] \in work
  /\ head[q] \in Done' <=> head[q] \in Done

LEMMA SameCallOK ==
  ASSUME NEW q, CallOK(q), SameCall(q)
  PROVE  CallOK(q)'
BY DEF CallOK, SameCall

LEMMA ReqTypes ==
  ASSUME ReqInv
  PROVE  /\ avail.ring \in Rings /\ avail.idx \in Idx /\ used.ring \in Rings /\ used.idx \in Idx
         /\ used_idx \in Idx /\ rung \in Idx /\ taken \in Idx
         /\ Heads \subseteq Descs
<1>1. Heads \subseteq Descs
  BY HolderFacts DEF ReqInv, Heads
<1> QED
  BY <1>1 DEF ReqInv, RequestsOK, DriverType

\* A step that leaves the requests alone; it may notify the device.
LEMMA SameReq ==
  ASSUME ReqInv, UNCHANGED <<table, avail, used, used_idx, taken, work, dma, disk, buf, head>>,
         Holders' = Holders, rung' \in {rung, avail.idx}
  PROVE  RequestsOK'
<1>1. Waiting' = Waiting /\ Done' = Done /\ Heads' = Heads
  BY DEF Waiting, Done, Heads, Window
<1>2. DriverType'
  BY ReqTypes DEF ReqInv, RequestsOK, DriverType, table
<1>3. RingsInv'
  <2>1. RingsInv
    BY DEF ReqInv, RequestsOK
  <2>2. Dist(taken, rung') <= Dist(taken, avail.idx)
    <3>1. Dist(taken, rung) <= Dist(taken, avail.idx)
      BY <2>1 DEF RingsInv
    <3> QED
      BY <3>1, ReqTypes, RungStays
  <2>3. Once(avail.ring, taken, avail.idx)' /\ Once(used.ring, used_idx, used.idx)'
    BY <2>1 DEF RingsInv
  <2>4. Dist(taken, rung)' <= Dist(taken, avail.idx)'
    BY <2>2 DEF Dist
  <2> QED
    BY <1>1, <2>1, <2>3, <2>4 DEF RingsInv
<1>4. CallsOK'
  <2> SUFFICES ASSUME NEW q \in Holders PROVE CallOK(q)'
    BY DEF CallsOK
  <2>1. SameCall(q)
    BY <1>1 DEF SameCall, table
  <2> QED
    BY <2>1, SameCallOK DEF ReqInv, RequestsOK, CallsOK
<1> QED
  BY <1>2, <1>3, <1>4 DEF RequestsOK

\* A request is published: descriptor i joins the avail ring.
LEMMA PublishReq ==
  ASSUME ReqInv, OwnBuffers, NEW p \in Procs, p \notin Holders, NEW b \in BufsOf[p],
         NEW i \in free, NEW j \in free, NEW k \in free,
         alloc_descs(i, j, k), Publish(p, b, i, j, k),
         Holders' = Holders \cup {p}, rung' \in {rung, avail'.idx}
  PROVE  /\ RequestsOK'
         /\ Waiting' = Waiting \cup {i} /\ Done' = Done /\ head'[p] = i
         /\ \A q \in Holders : buf'[q] = buf[q] /\ disk'[buf[q]] = disk[buf[q]]
<1> USE DEF ReqInv, RequestsOK
<1>1. {i, j, k} \subseteq Descs /\ i # j /\ i # k /\ j # k
  BY AllocApart
<1>2. b \in Bufs /\ i \notin Heads /\ j \notin Heads
  BY VirtioAssumption, HolderFacts DEF Heads
<1>3. /\ avail.ring \in Rings /\ avail.idx \in Idx /\ taken \in Idx /\ rung \in Idx
      /\ Heads \subseteq Descs /\ Waiting \subseteq Heads
      /\ Once(avail.ring, taken, avail.idx)
  BY ReqTypes DEF RingsInv
<1>4. Dist(taken, avail.idx) + 1 < QUEUE_SIZE
  <2>1. Window(avail.ring, taken, avail.idx) \subseteq Descs \ {i, j}
    BY <1>2, <1>3 DEF Waiting
  <2> QED
    BY <1>1, <1>3, <2>1, WindowRoom
<1> DEFINE S == [avail.ring EXCEPT ![avail.idx % QUEUE_SIZE] = i]
<1>5. /\ S \in Rings /\ Once(S, taken, Inc(avail.idx))
      /\ Window(S, taken, Inc(avail.idx)) = Waiting \cup {i}
      /\ Dist(taken, Inc(avail.idx)) = Dist(taken, avail.idx) + 1
  <2>1. i \notin Window(avail.ring, taken, avail.idx)
    BY <1>2, <1>3 DEF Waiting
  <2>2. Written(avail.ring, S, avail.idx, i)
    BY DEF Written
  <2> HIDE DEF S
  <2>3. i \in Descs
    BY <1>1
  <2>4. Pushed(avail.ring, S, taken, avail.idx, i)
    BY <1>3, <1>4, <2>1, <2>2, <2>3, RingPush
  <2> QED
    BY <2>4 DEF Waiting, Pushed
<1>6. avail' = [ring |-> S, idx |-> Inc(avail.idx)] /\ taken' = taken
  BY DEF Publish
<1> HIDE DEF S
<1>7. Waiting' = Waiting \cup {i} /\ Done' = Done
  <2>1. avail'.ring = S /\ avail'.idx = Inc(avail.idx)
    BY <1>6
  <2>2. UNCHANGED <<used, used_idx>>
    BY DEF Publish
  <2> QED
    BY <1>5, <1>6, <2>1, <2>2 DEF Waiting, Done
<1>8. head'[p] = i /\ buf'[p] = b /\ \A q \in Holders : head'[q] = head[q] /\ buf'[q] = buf[q]
  BY DEF DescsInv, TableType, DriverType, Publish, Holders
<1>9. Heads' = Heads \cup {i}
  BY <1>8 DEF Heads
<1>10. DriverType'
  <2>1. avail' \in [ring : Rings, idx : Idx]
    BY <1>3, <1>5, <1>6, IncIs
  <2>2. rung' \in Idx
    BY <1>3, <1>6, IncIs
  <2>3. UNCHANGED <<used, used_idx, taken, work, dma>>
    BY DEF Publish
  <2>4. addr' \in [Descs -> Bufs \cup {NIL}] /\ info' \in [Descs -> Bufs \cup {NIL}]
    BY <1>2, Zenon DEF DriverType, Publish
  <2>5. /\ status' \in [Descs -> BOOLEAN] /\ disk' \in [Bufs -> BOOLEAN]
        /\ buf' \in [Procs -> Bufs \cup {NIL}]
    BY <1>2, Zenon DEF DriverType, Publish
  <2> QED
    BY <2>1, <2>2, <2>3, <2>4, <2>5 DEF DriverType
<1>11. RingsInv'
  <2>1. Once(avail.ring, taken, avail.idx)' /\ Once(used.ring, used_idx, used.idx)'
    <3>1. avail'.ring = S /\ avail'.idx = Inc(avail.idx)
      BY <1>6
    <3>2. UNCHANGED <<used, used_idx>>
      BY DEF Publish
    <3> QED
      BY <1>5, <1>6, <3>1, <3>2 DEF RingsInv
  <2>2. Dist(taken, rung)' <= Dist(taken, avail.idx)'
    <3>1. rung' \in {rung, Inc(avail.idx)}
      BY <1>6
    <3>2. Dist(taken, rung) <= Dist(taken, avail.idx)
      BY DEF RingsInv
    <3>3. Dist(taken, rung') <= Dist(taken, Inc(avail.idx))
      BY <1>3, <1>5, <3>1, <3>2, RungPush
    <3>4. avail'.idx = Inc(avail.idx)
      BY <1>6
    <3> QED
      BY <1>6, <3>3, <3>4 DEF Dist
  <2>3. work' = work
    BY DEF Publish
  <2> QED
    BY <1>2, <1>7, <1>9, <2>1, <2>2, <2>3 DEF RingsInv
<1>12. ASSUME NEW q \in Holders
       PROVE  SameCall(q) /\ disk'[buf[q]] = disk[buf[q]]
  <2>1. /\ head[q] \in Descs \ {i, j, k} /\ next[head[q]] \in Descs \ {i, j, k}
    BY HolderFacts
  <2>2. /\ info'[head[q]] = info[head[q]] /\ next'[head[q]] = next[head[q]]
        /\ addr'[next[head[q]]] = addr[next[head[q]]]
        /\ status'[head[q]] = status[head[q]] /\ dma' = dma /\ work' = work
    BY <2>1, Zenon DEF DriverType, DescsInv, TableType, Publish
  <2>3. buf[q] # b /\ buf[q] \in Bufs
    <3>1. CallOK(q) /\ q \in Procs /\ q # p
      BY DEF CallsOK, Holders
    <3> QED
      BY <3>1, OtherBuffer, VirtioAssumption DEF CallOK
  <2>4. disk'[buf[q]] = disk[buf[q]]
    BY <2>3 DEF DriverType, Publish
  <2>5. head[q] # i
    BY <2>1
  <2> QED
    BY <1>7, <1>8, <2>2, <2>4, <2>5 DEF SameCall
<1>13. CallOK(p)'
  <2>1. /\ info'[i] = b /\ next'[i] = j /\ addr'[j] = b /\ disk'[b] /\ work' = work
    BY <1>1, <1>2 DEF DriverType, DescsInv, TableType, Publish
  <2>2. i \notin work /\ i \notin Done
    BY <1>2 DEF RingsInv
  <2> QED
    BY <1>7, <1>8, <2>1, <2>2 DEF CallOK
<1>14. CallsOK'
  BY <1>12, <1>13, SameCallOK DEF CallsOK
<1> QED
  BY <1>7, <1>8, <1>10, <1>11, <1>12, <1>14

\* The device starts on the oldest request it was told of.
LEMMA TakeReq ==
  ASSUME ReqInv, Take
  PROVE  /\ RequestsOK'
         /\ Waiting # {} /\ Done' = Done
<1> USE DEF ReqInv, RequestsOK
<1> DEFINE h == avail.ring[taken % QUEUE_SIZE]
           S == [avail.ring EXCEPT ![taken % QUEUE_SIZE] = NIL]
<1>1. /\ avail.ring \in Rings /\ avail.idx \in Idx /\ taken \in Idx /\ rung \in Idx
      /\ Heads \subseteq Descs /\ Waiting \subseteq Heads
      /\ Once(avail.ring, taken, avail.idx)
  BY ReqTypes DEF RingsInv
<1>2. /\ taken # rung /\ taken # avail.idx
      /\ Dist(Inc(taken), rung) <= Dist(Inc(taken), avail.idx)
  <2>1. taken # rung
    BY DEF Take
  <2>2. Dist(taken, rung) <= Dist(taken, avail.idx)
    BY DEF RingsInv
  <2> QED
    BY <1>1, <2>1, <2>2, RungPop
<1>3. /\ h \in Waiting /\ S \in Rings /\ Once(S, Inc(taken), avail.idx)
      /\ Window(S, Inc(taken), avail.idx) = Waiting \ {h}
  <2>1. Written(avail.ring, S, taken, NIL)
    BY DEF Written
  <2> HIDE DEF S
  <2>2. Window(avail.ring, taken, avail.idx) \subseteq Descs
    BY <1>1 DEF Waiting
  <2>3. Popped(avail.ring, S, taken, avail.idx)
    BY <1>1, <1>2, <2>1, <2>2, RingPop
  <2> QED
    BY <2>3 DEF Waiting, Popped
<1>4. PICK p \in Holders : h = head[p]
  BY <1>1, <1>3 DEF Heads
<1>5. /\ p \in Procs /\ h \in Descs /\ next[h] \in Descs /\ next[h] # NIL
  BY <1>4, HolderFacts, NilApart
<1>6. addr[next[h]] = buf[p] /\ buf[p] \in Bufs
  BY <1>4, <1>5, VirtioAssumption DEF CallsOK, CallOK
<1>7. /\ work' = work \cup {h} /\ taken' = Inc(taken)
      /\ dma' = [dma EXCEPT ![h] = buf[p]]
      /\ UNCHANGED <<lock, table, used, used_idx, rung, disk, caller>>
  BY <1>5, <1>6 DEF Take
<1>8. avail' = [avail EXCEPT !.ring = S]
  BY DEF Take
<1>9. avail'.ring = S /\ avail'.idx = avail.idx
  BY <1>8 DEF DriverType
<1> HIDE DEF h, S
<1>10. /\ Waiting' = Waiting \ {h} /\ Done' = Done
       /\ Holders' = Holders /\ Heads' = Heads
  BY <1>3, <1>7, <1>9 DEF Waiting, Done, Heads, Holders, caller
<1>11. DriverType'
  <2>1. avail' \in [ring : Rings, idx : Idx]
    BY <1>1, <1>3, <1>8 DEF DriverType
  <2>2. Inc(taken) \in Idx
    BY <1>1, IncIs
  <2> QED
    BY <1>5, <1>6, <1>7, <2>1, <2>2 DEF DriverType, table, caller
<1>12. RingsInv'
  <2>1. Once(avail.ring, taken, avail.idx)' /\ Once(used.ring, used_idx, used.idx)'
    BY <1>3, <1>7, <1>9 DEF RingsInv
  <2>2. Dist(taken, rung)' <= Dist(taken, avail.idx)'
    BY <1>2, <1>7, <1>9 DEF Dist
  <2> QED
    BY <1>3, <1>7, <1>10, <2>1, <2>2 DEF RingsInv
<1>13. CallsOK'
  <2> SUFFICES ASSUME NEW q \in Holders PROVE CallOK(q)'
    BY <1>10 DEF CallsOK
  <2>1. CallOK(q)
    BY DEF CallsOK
  <2>2. CASE q = p
    <3>1. dma'[h] = buf[p]
      BY <1>5, <1>7 DEF DriverType
    <3>2. head[q] = h /\ UNCHANGED <<buf, head, info, next, addr, status, disk>>
      BY <1>4, <1>7, <2>2 DEF table, caller
    <3>3. h \in Waiting \cup work \cup Done
      BY <1>3
    <3> QED
      BY <1>3, <1>7, <1>10, <2>1, <2>2, <3>1, <3>2, <3>3 DEF CallOK
  <2>3. CASE q # p
    <3>1. head[q] # h /\ head[q] \in Descs
      BY <1>4, <2>3, HoldersApart, HolderFacts
    <3>2. SameCall(q)
      BY <1>7, <1>10, <3>1 DEF SameCall, DriverType, table, caller
    <3> QED
      BY <2>1, <3>2, SameCallOK
  <2> QED
    BY <2>2, <2>3
<1> QED
  BY <1>3, <1>10, <1>11, <1>12, <1>13

\* The device finishes a request: its head joins the used ring.
LEMMA CompleteReq ==
  ASSUME ReqInv, NEW h \in Descs, Complete(h)
  PROVE  /\ RequestsOK'
         /\ Waiting' = Waiting /\ Done' = Done \cup {h}
<1> USE DEF ReqInv, RequestsOK
<1> DEFINE S == [used.ring EXCEPT ![used.idx % QUEUE_SIZE] = h]
<1>1. /\ used.ring \in Rings /\ used.idx \in Idx /\ used_idx \in Idx
      /\ Heads \subseteq Descs /\ Done \subseteq Heads
      /\ Once(used.ring, used_idx, used.idx)
  BY ReqTypes DEF RingsInv
<1>2. h \in work /\ h \in Heads /\ h \notin Done /\ h \notin Waiting
  BY DEF Complete, RingsInv
<1>3. PICK p \in Holders : h = head[p]
  BY <1>2 DEF Heads
<1>4. next[h] \in Descs /\ next[h] # h /\ next[h] \notin Heads
  BY <1>3, HolderFacts, NextNoHead
<1>5. Dist(used_idx, used.idx) + 1 < QUEUE_SIZE
  <2>1. Window(used.ring, used_idx, used.idx) \subseteq Descs \ {h, next[h]}
    BY <1>1, <1>2, <1>4 DEF Done
  <2> QED
    BY <1>1, <1>4, <2>1, WindowRoom
<1>6. /\ S \in Rings /\ Once(S, used_idx, Inc(used.idx))
      /\ Window(S, used_idx, Inc(used.idx)) = Done \cup {h}
  <2>1. h \notin Window(used.ring, used_idx, used.idx)
    BY <1>2 DEF Done
  <2>2. Written(used.ring, S, used.idx, h)
    BY DEF Written
  <2> HIDE DEF S
  <2>3. Pushed(used.ring, S, used_idx, used.idx, h)
    BY <1>1, <1>5, <2>1, <2>2, RingPush
  <2> QED
    BY <2>3 DEF Done, Pushed
<1>7. /\ used' = [ring |-> S, idx |-> Inc(used.idx)]
      /\ work' = work \ {h} /\ dma' = [dma EXCEPT ![h] = NIL]
      /\ status' = [status EXCEPT ![h] = TRUE]
      /\ UNCHANGED <<free, next, addr, info, avail, used_idx, rung, taken, disk, caller>>
  BY DEF Complete
<1> HIDE DEF S
<1>8. used'.ring = S /\ used'.idx = Inc(used.idx)
  BY <1>7
<1>9. /\ Waiting' = Waiting /\ Done' = Done \cup {h}
      /\ Holders' = Holders /\ Heads' = Heads
  BY <1>6, <1>7, <1>8 DEF Waiting, Done, Heads, Holders, caller
<1>10. DriverType'
  <2>1. Inc(used.idx) \in Idx
    BY <1>1, IncIs
  <2> QED
    BY <1>6, <1>7, <2>1 DEF DriverType, caller
<1>11. RingsInv'
  <2>1. Once(avail.ring, taken, avail.idx)' /\ Once(used.ring, used_idx, used.idx)'
    BY <1>6, <1>7, <1>8 DEF RingsInv
  <2>2. Dist(taken, rung)' <= Dist(taken, avail.idx)'
    BY <1>7 DEF RingsInv, Dist
  <2> QED
    BY <1>2, <1>7, <1>9, <2>1, <2>2 DEF RingsInv
<1>12. CallsOK'
  <2> SUFFICES ASSUME NEW q \in Holders PROVE CallOK(q)'
    BY <1>9 DEF CallsOK
  <2>1. CallOK(q)
    BY DEF CallsOK
  <2>2. CASE q = p
    <3>1. status'[h]
      BY <1>7 DEF DriverType
    <3>2. head[q] = h /\ UNCHANGED <<buf, head, info, next, addr, disk>>
      BY <1>3, <1>7, <2>2 DEF caller
    <3> QED
      BY <1>2, <1>7, <1>9, <2>1, <3>1, <3>2 DEF CallOK
  <2>3. CASE q # p
    <3>1. head[q] # h /\ head[q] \in Descs
      BY <1>3, <2>3, HoldersApart, HolderFacts
    <3>2. SameCall(q)
      BY <1>7, <1>9, <3>1 DEF SameCall, DriverType, caller
    <3> QED
      BY <2>1, <3>2, SameCallOK
  <2> QED
    BY <2>2, <2>3
<1> QED
  BY <1>9, <1>10, <1>11, <1>12

\* The handler sees the end of a request.  The status is the device's and the
\* buffer the caller's, so it does not panic.
LEMMA EntryReq ==
  ASSUME ReqInv, OwnBuffers, HandlerEntry
  PROVE  /\ RequestsOK' /\ hart' = hart
         /\ Waiting' = Waiting
         /\ \A b \in Bufs : disk'[b] => disk[b]
<1> USE DEF ReqInv, RequestsOK
<1> DEFINE h == used.ring[used_idx % QUEUE_SIZE]
           S == [used.ring EXCEPT ![used_idx % QUEUE_SIZE] = NIL]
<1>1. /\ used.ring \in Rings /\ used.idx \in Idx /\ used_idx \in Idx
      /\ Heads \subseteq Descs /\ Done \subseteq Heads /\ used_idx # used.idx
      /\ Once(used.ring, used_idx, used.idx)
  BY ReqTypes DEF RingsInv, HandlerEntry
<1>2. /\ h \in Done /\ S \in Rings /\ Once(S, Inc(used_idx), used.idx)
      /\ Window(S, Inc(used_idx), used.idx) = Done \ {h}
  <2>1. Written(used.ring, S, used_idx, NIL)
    BY DEF Written
  <2> HIDE DEF S
  <2>2. Window(used.ring, used_idx, used.idx) \subseteq Descs
    BY <1>1 DEF Done
  <2>3. Popped(used.ring, S, used_idx, used.idx)
    BY <1>1, <2>1, <2>2, RingPop
  <2> QED
    BY <2>3 DEF Done, Popped
<1>3. PICK p \in Holders : h = head[p]
  BY <1>1, <1>2 DEF Heads
<1>4. p \in Procs /\ h \in Descs
  BY <1>3, HolderFacts
<1>5. status[h] /\ info[h] = buf[p] /\ buf[p] \in BufsOf[p] /\ buf[p] \in Bufs /\ buf[p] # NIL
  <2>1. CallOK(p)
    BY DEF CallsOK
  <2>2. status[h] /\ info[h] = buf[p] /\ buf[p] \in BufsOf[p]
    BY <1>2, <1>3, <2>1 DEF CallOK
  <2> QED
    BY <1>4, <2>2, VirtioAssumption
<1>6. /\ hart' = hart /\ disk' = [disk EXCEPT ![buf[p]] = FALSE]
      /\ used' = [used EXCEPT !.ring = S] /\ used_idx' = Inc(used_idx)
      /\ UNCHANGED <<table, avail, rung, taken, work, dma, caller>>
  BY <1>5 DEF HandlerEntry
<1>7. used'.ring = S /\ used'.idx = used.idx
  BY <1>6 DEF DriverType
<1> HIDE DEF h, S
<1>8. /\ Waiting' = Waiting /\ Done' = Done \ {h}
      /\ Holders' = Holders /\ Heads' = Heads
  BY <1>2, <1>6, <1>7 DEF Waiting, Done, Heads, Holders, caller
<1>9. DriverType'
  <2>1. used' \in [ring : Rings, idx : Idx]
    BY <1>1, <1>2, <1>6 DEF DriverType
  <2>2. Inc(used_idx) \in Idx
    BY <1>1, IncIs
  <2> QED
    BY <1>5, <1>6, <2>1, <2>2 DEF DriverType, table, caller
<1>10. RingsInv'
  <2>1. Once(avail.ring, taken, avail.idx)' /\ Once(used.ring, used_idx, used.idx)'
    BY <1>2, <1>6, <1>7 DEF RingsInv
  <2>2. Dist(taken, rung)' <= Dist(taken, avail.idx)'
    BY <1>6 DEF RingsInv, Dist
  <2> QED
    BY <1>6, <1>8, <2>1, <2>2 DEF RingsInv
<1>11. CallsOK'
  <2> SUFFICES ASSUME NEW q \in Holders PROVE CallOK(q)'
    BY <1>8 DEF CallsOK
  <2>1. CallOK(q)
    BY DEF CallsOK
  <2>2. CASE q = p
    <3>1. ~disk'[buf[p]]
      BY <1>5, <1>6 DEF DriverType
    <3>2. head[q] = h /\ UNCHANGED <<buf, head, info, next, addr, work, dma>>
      BY <1>3, <1>6, <2>2 DEF table, caller
    <3>3. h \notin Waiting /\ h \notin work
      BY <1>2 DEF RingsInv
    <3> QED
      BY <1>8, <2>1, <2>2, <3>1, <3>2, <3>3 DEF CallOK
  <2>3. CASE q # p
    <3>1. head[q] # h /\ head[q] \in Descs
      BY <1>3, <2>3, HoldersApart, HolderFacts
    <3>2. buf[q] # buf[p]
      BY <1>4, <1>5, <2>1, <2>3, OtherBuffer
    <3>3. disk'[buf[q]] = disk[buf[q]]
      <4>1. q \in Procs /\ buf[q] \in Bufs
        BY <2>1, VirtioAssumption DEF CallOK, Holders
      <4> QED
        BY <1>6, <3>2, <4>1 DEF DriverType
    <3>4. SameCall(q)
      BY <1>6, <1>8, <3>1, <3>3, Zenon DEF SameCall, table, caller
    <3> QED
      BY <2>1, <3>4, SameCallOK
  <2> QED
    BY <2>2, <2>3
<1>12. \A b \in Bufs : disk'[b] => disk[b]
  BY <1>6 DEF DriverType
<1> QED
  BY <1>6, <1>8, <1>9, <1>10, <1>11, <1>12

\* The end of a call: its request is in no ring.
LEMMA FreeReq ==
  ASSUME ReqInv, NEW p \in Holders, ~disk[buf[p]], free_chain(p), Holders' = Holders \ {p}
  PROVE  RequestsOK' /\ Waiting' = Waiting /\ Done' = Done
<1> USE DEF ReqInv, RequestsOK
<1> DEFINE h == head[p]
           C == Chain(h)
<1>1. p \in Procs /\ h \in Descs
  BY HolderFacts
<1>2. h \notin Waiting /\ h \notin work /\ h \notin Done
  BY DEF CallsOK, CallOK
<1>3. /\ info' = [info EXCEPT ![h] = NIL]
      /\ next' = [i \in Descs |-> IF i \in C THEN NIL ELSE next[i]]
      /\ addr' = [i \in Descs |-> IF i \in C THEN NIL ELSE addr[i]]
      /\ head' = [head EXCEPT ![p] = NIL] /\ buf' = [buf EXCEPT ![p] = NIL]
      /\ UNCHANGED <<status, avail, used, used_idx, rung, taken, work, dma, disk>>
  BY DEF free_chain, ring
<1>4. Waiting' = Waiting /\ Done' = Done
  BY <1>3 DEF Waiting, Done
<1>5. ASSUME NEW q \in Holders, q # p
      PROVE  /\ head'[q] = head[q] /\ buf'[q] = buf[q]
             /\ head[q] \in Descs \ C /\ next[head[q]] \in Descs \ C /\ head[q] # h
  <2>1. head'[q] = head[q] /\ buf'[q] = buf[q]
    BY <1>3, <1>5 DEF DescsInv, TableType, DriverType, Holders
  <2> QED
    BY <1>5, <2>1, HolderFacts, HoldersApart
<1> HIDE DEF C
<1>6. Heads' = Heads \ {h}
  <2>1. Heads' = {head'[q] : q \in Holders \ {p}}
    BY DEF Heads
  <2>2. {head'[q] : q \in Holders \ {p}} = {head[q] : q \in Holders \ {p}}
    BY <1>5
  <2>3. {head[q] : q \in Holders \ {p}} = Heads \ {h}
    BY <1>5 DEF Heads
  <2> QED
    BY <2>1, <2>2, <2>3
<1> HIDE DEF h
<1>7. DriverType'
  BY <1>1, <1>3 DEF DriverType
<1>8. RingsInv'
  <2>1. Once(avail.ring, taken, avail.idx)' /\ Once(used.ring, used_idx, used.idx)'
    BY <1>3 DEF RingsInv
  <2>2. Dist(taken, rung)' <= Dist(taken, avail.idx)'
    BY <1>3 DEF RingsInv, Dist
  <2> QED
    BY <1>2, <1>3, <1>4, <1>6, <2>1, <2>2 DEF RingsInv
<1>9. CallsOK'
  <2> SUFFICES ASSUME NEW q \in Holders, q # p PROVE CallOK(q)'
    BY DEF CallsOK
  <2>1. SameCall(q)
    BY <1>3, <1>4, <1>5 DEF SameCall, DriverType
  <2> QED
    BY <2>1, SameCallOK DEF CallsOK
<1> QED
  BY <1>4, <1>7, <1>8, <1>9

\* Nothing is in progress at first.
LEMMA InitReq == Init => ReqInv
<1> SUFFICES ASSUME Init PROVE ReqInv
  OBVIOUS
<1>1. Holders = {} /\ Heads = {}
  BY DEF Init, Holders, Heads
<1>2. 0 \in Idx /\ Dist(0, 0) = 0
  BY Sizes, DistZero DEF Idx
<1>3. Waiting = {} /\ Done = {}
  BY <1>2 DEF Init, Waiting, Done, Window
<1>4. DriverType
  BY <1>2 DEF Init, DriverType, Rings
<1>5. RingsInv
  BY <1>1, <1>2, <1>3, SMTT(20) DEF Init, RingsInv, Once
<1>6. pc[Mounter] = "out"
  BY VirtioAssumption DEF Init
<1> QED
  BY <1>1, <1>4, <1>5, <1>6, InitDescs DEF ReqInv, RequestsOK, CallsOK, PolledOK

\* Every step keeps the requests in order.
LEMMA NextReq ==
  ASSUME OwnBuffers, ReqInv, [Next]_vars
  PROVE  ReqInv'
<1> USE VirtioAssumption
<1>a. DescsInv'
  BY NextDescs DEF ReqInv
<1>b. pc \in [Procs -> PcType] /\ disk \in [Bufs -> BOOLEAN] /\ BufsOf \in [Procs -> SUBSET Bufs]
  BY DEF ReqInv, RequestsOK, DriverType, DescsInv, TableType
<1>c. ASSUME pc[Mounter] = "free"
      PROVE  Mounter \in Holders /\ ~disk[buf[Mounter]] /\ buf[Mounter] \in Bufs
  <2>1. Mounter \in Holders
    BY <1>c DEF Holders
  <2> QED
    BY <1>c, <2>1 DEF ReqInv, RequestsOK, CallsOK, CallOK, PolledOK
<1> SUFFICES RequestsOK' /\ PolledOK'
  BY <1>a DEF ReqInv
<1>1. ASSUME NEW why, Stuck(why) PROVE RequestsOK' /\ PolledOK'
  <2>1. UNCHANGED <<table, ring, disk, caller>>
    BY <1>1 DEF Stuck
  <2>2. Holders' = Holders
    BY <2>1 DEF Holders, caller
  <2> QED
    BY <2>1, <2>2, SameReq DEF ReqInv, PolledOK, ring, caller
<1>2. ASSUME NEW p \in Procs, NEW b \in BufsOf[p], SysRequest(p, b)
      PROVE  RequestsOK' /\ PolledOK'
  <2>1. CASE lock \/ NoDescs
    BY <1>1, <1>2, <2>1, Zenon DEF SysRequest
  <2>2. CASE ~lock /\ ~NoDescs
    <3>1. PICK i, j, k \in free : alloc_descs(i, j, k) /\ Publish(p, b, i, j, k)
      BY <1>2, <2>2 DEF SysRequest
    <3>2. pc[p] = "out" /\ pc' = [pc EXCEPT ![p] = "sleep"] /\ rung' = avail'.idx
      BY <1>2, <2>2 DEF SysRequest
    <3>3. p \notin Holders /\ Holders' = Holders \cup {p}
      BY <1>b, <3>2 DEF Holders
    <3>4. /\ RequestsOK'
          /\ \A q \in Holders : buf'[q] = buf[q] /\ disk'[buf[q]] = disk[buf[q]]
      BY <3>1, <3>2, <3>3, PublishReq
    <3>5. pc'[Mounter] = "free" => pc[Mounter] = "free"
      BY <1>b, <3>2
    <3> QED
      BY <1>c, <3>4, <3>5 DEF PolledOK
  <2> QED
    BY <2>1, <2>2
<1>3. ASSUME NEW p \in Procs, SysResume(p) PROVE RequestsOK' /\ PolledOK'
  <2>0. pc[p] = "woken" /\ p \in Holders
    BY <1>3 DEF SysResume, Holders
  <2>1. CASE disk[buf[p]]
    <3>1. pc' = [pc EXCEPT ![p] = "sleep"] /\ UNCHANGED <<table, ring, disk, buf, head>>
      BY <1>3, <2>1 DEF SysResume
    <3>2. Holders' = Holders /\ (pc'[Mounter] = "free" => pc[Mounter] = "free")
      BY <1>b, <2>0, <3>1 DEF Holders
    <3>3. RequestsOK'
      BY <3>1, <3>2, SameReq DEF ring
    <3> QED
      BY <3>1, <3>2, <3>3 DEF ReqInv, PolledOK
  <2>2. CASE ~disk[buf[p]] /\ lock
    BY <1>1, <1>3, <2>2 DEF SysResume
  <2>3. CASE ~disk[buf[p]] /\ ~lock
    <3>1. free_chain(p) /\ pc' = [pc EXCEPT ![p] = "out"]
      BY <1>3, <2>3 DEF SysResume
    <3>2. Holders' = Holders \ {p} /\ (pc'[Mounter] = "free" => pc[Mounter] = "free" /\ p # Mounter)
      BY <1>b, <2>0, <3>1 DEF Holders
    <3>3. RequestsOK'
      BY <2>0, <2>3, <3>1, <3>2, FreeReq
    <3>4. disk' = disk /\ buf' = [buf EXCEPT ![p] = NIL]
      BY <3>1 DEF free_chain
    <3>5. p # Mounter => buf'[Mounter] = buf[Mounter]
      BY <3>4 DEF ReqInv, RequestsOK, DriverType
    <3> QED
      BY <3>2, <3>3, <3>4, <3>5 DEF ReqInv, PolledOK
  <2> QED
    BY <2>1, <2>2, <2>3
<1>4. CASE UserLock
  <2>1. /\ pc[Mounter] = "out" /\ pc' = [pc EXCEPT ![Mounter] = "alloc"]
        /\ UNCHANGED <<table, ring, disk, buf, head>>
    BY <1>4 DEF UserLock
  <2>2. Holders' = Holders /\ pc'[Mounter] # "free"
    BY <1>b, <2>1 DEF Holders
  <2> QED
    BY <2>1, <2>2, SameReq DEF PolledOK, ring
<1>5. ASSUME NEW b \in BufsOf[Mounter], UserPublish(b) PROVE RequestsOK' /\ PolledOK'
  <2>1. CASE NoDescs
    <3>1. UNCHANGED <<table, ring, disk, caller>>
      BY <1>5, <2>1 DEF UserPublish
    <3>2. Holders' = Holders
      BY <3>1 DEF Holders, caller
    <3> QED
      BY <3>1, <3>2, SameReq DEF ReqInv, PolledOK, ring, caller
  <2>2. CASE ~NoDescs
    <3>1. PICK i, j, k \in free :
            alloc_descs(i, j, k) /\ Publish(Mounter, b, i, j, k)
      BY <1>5, <2>2 DEF UserPublish
    <3>2. /\ pc[Mounter] = "alloc" /\ pc' = [pc EXCEPT ![Mounter] = "published"]
          /\ rung' = rung
      BY <1>5, <2>2 DEF UserPublish
    <3>3. /\ Mounter \notin Holders /\ Holders' = Holders \cup {Mounter}
          /\ pc'[Mounter] # "free"
      BY <1>b, <3>2 DEF Holders
    <3>4. RequestsOK'
      BY <3>1, <3>2, <3>3, PublishReq
    <3> QED
      BY <3>3, <3>4 DEF PolledOK
  <2> QED
    BY <2>1, <2>2
<1>6. CASE UserNotify
  <2>1. /\ pc[Mounter] = "published" /\ pc' = [pc EXCEPT ![Mounter] = "poll"]
        /\ rung' = avail.idx
        /\ UNCHANGED <<table, avail, used, used_idx, taken, work, dma, disk, buf, head>>
    BY <1>6 DEF UserNotify
  <2>2. Holders' = Holders /\ pc'[Mounter] # "free"
    BY <1>b, <2>1 DEF Holders
  <2> QED
    BY <2>1, <2>2, SameReq DEF PolledOK
<1>7. CASE UserPolled
  <2>1. /\ pc[Mounter] = "poll" /\ pc' = [pc EXCEPT ![Mounter] = "free"]
        /\ ~disk[buf[Mounter]]
        /\ UNCHANGED <<table, ring, disk, buf, head>>
    BY <1>7 DEF UserPolled
  <2>2. Holders' = Holders
    BY <1>b, <2>1 DEF Holders
  <2> QED
    BY <2>1, <2>2, SameReq DEF PolledOK, ring
<1>8. CASE UserReturn
  <2>1. /\ pc[Mounter] = "free" /\ pc' = [pc EXCEPT ![Mounter] = "out"]
        /\ free_chain(Mounter)
    BY <1>8 DEF UserReturn
  <2>2. Mounter \in Holders /\ Holders' = Holders \ {Mounter} /\ pc'[Mounter] # "free"
    BY <1>b, <2>1 DEF Holders
  <2> QED
    BY <1>c, <2>1, <2>2, FreeReq DEF PolledOK
<1>9. CASE Mounted
  <2>1. UNCHANGED <<table, ring, disk, caller>>
    BY <1>9 DEF Mounted
  <2>2. Holders' = Holders
    BY <2>1 DEF Holders, caller
  <2> QED
    BY <2>1, <2>2, SameReq DEF ReqInv, PolledOK, ring, caller
<1>10. CASE Take
  BY <1>10, TakeReq DEF ReqInv, PolledOK, Take, caller
<1>11. ASSUME NEW h \in Descs, Complete(h) PROVE RequestsOK' /\ PolledOK'
  BY <1>11, CompleteReq DEF ReqInv, PolledOK, Complete, caller
<1>12. CASE HandlerEnter
  <2>1. CASE lock
    BY <1>1, <1>12, <2>1 DEF HandlerEnter
  <2>2. CASE ~lock
    <3>1. UNCHANGED <<table, ring, disk, caller>>
      BY <1>12, <2>2 DEF HandlerEnter
    <3>2. Holders' = Holders
      BY <3>1 DEF Holders, caller
    <3> QED
      BY <3>1, <3>2, SameReq DEF ReqInv, PolledOK, ring, caller
  <2> QED
    BY <2>1, <2>2
<1>13. CASE HandlerEntry
  <2>1. RequestsOK' /\ \A b \in Bufs : disk'[b] => disk[b]
    BY <1>13, EntryReq
  <2>2. UNCHANGED caller
    BY <1>13 DEF HandlerEntry
  <2> QED
    BY <1>c, <2>1, <2>2 DEF PolledOK, caller
<1>14. CASE HandlerExit
  <2>1. /\ pc' = [p \in Procs |-> IF pc[p] = "sleep" THEN "woken" ELSE pc[p]]
        /\ UNCHANGED <<table, ring, disk, buf, head>>
    BY <1>14 DEF HandlerExit
  <2>2. Holders' = Holders /\ (pc'[Mounter] = "free" => pc[Mounter] = "free")
    BY <1>b, <2>1 DEF Holders
  <2>3. RequestsOK'
    BY <2>1, <2>2, SameReq DEF ring
  <2> QED
    BY <2>1, <2>2, <2>3 DEF ReqInv, PolledOK
<1>15. CASE UNCHANGED vars
  <2>1. UNCHANGED <<table, ring, disk, caller>>
    BY <1>15 DEF vars
  <2>2. Holders' = Holders
    BY <2>1 DEF Holders, caller
  <2> QED
    BY <2>1, <2>2, SameReq DEF ReqInv, PolledOK, ring, caller
<1> QED
  BY <1>2, <1>3, <1>4, <1>5, <1>6, <1>7, <1>8, <1>9, <1>10, <1>11, <1>12, <1>13,
     <1>14, <1>15 DEF Next

\* The requests in order give the property the runs check.
LEMMA ReqOwned == ReqInv => DmaOwned
<1> SUFFICES ASSUME ReqInv PROVE DmaOwned
  OBVIOUS
<1>1. Waiting \subseteq Heads /\ work \subseteq Heads
  BY DEF ReqInv, RequestsOK, RingsInv
<1>2. ASSUME NEW h \in work PROVE \E p \in Holders : head[p] = h /\ buf[p] = dma[h]
  <2>1. PICK p \in Holders : head[p] = h
    BY <1>1 DEF Heads
  <2>2. CallOK(p)
    BY DEF ReqInv, RequestsOK, CallsOK
  <2> QED
    BY <2>1, <2>2 DEF CallOK
<1>3. ASSUME NEW m \in 0 .. ((avail.idx - taken) % IDX) - 1
      PROVE  \E p \in Holders : head[p] = avail.ring[((taken + m) % IDX) % QUEUE_SIZE]
  <2>1. avail.ring[Slot(taken, m)] \in Waiting
    BY DEF Waiting, Window, Dist
  <2> QED
    BY <1>1, <2>1 DEF Heads, Slot
<1> QED
  BY <1>2, <1>3 DEF DmaOwned

\* The device never writes to a buffer whose caller has left virtio_disk_rw():
\* for every number of descriptors, of processes and of buffers, where no two
\* processes make requests for one buffer.
THEOREM DmaStaysOwned ==
  ASSUME OwnBuffers
  PROVE  Spec => []DmaOwned
<1>1. ReqInv /\ [Next]_vars => ReqInv'
  BY NextReq
<1>2. Spec => []ReqInv
  BY <1>1, InitReq, PTL DEF Spec
<1> QED
  BY <1>2, ReqOwned, PTL

-----------------------------------------------------------------------------
(* The descriptors are counted, and the lock is followed. *)

\* Three descriptors for every process.
EnoughDescs == IsFiniteSet(Procs) /\ 3 * Cardinality(Procs) <= QUEUE_SIZE

CountInv == Cardinality(free) + 3 * Cardinality(Holders) = QUEUE_SIZE

LEMMA Finite ==
  ASSUME DescsInv, EnoughDescs
  PROVE  /\ IsFiniteSet(free) /\ Cardinality(free) \in Nat
         /\ IsFiniteSet(Holders) /\ Cardinality(Holders) \in Nat
         /\ Cardinality(Procs) \in Nat
<1>1. free \subseteq Descs /\ Holders \subseteq Procs
  BY DEF DescsInv, TableType, Holders
<1>2. IsFiniteSet(free) /\ IsFiniteSet(Holders)
  BY <1>1, DescsFinite, FS_Subset DEF EnoughDescs
<1> QED
  BY <1>2, FS_CardinalityType DEF EnoughDescs

\* A process that has no request finds three descriptors.
LEMMA Room ==
  ASSUME DescsInv, EnoughDescs, CountInv, NEW p \in Procs, p \notin Holders
  PROVE  ~NoDescs
<1>1. IsFiniteSet(Procs \ {p}) /\ Cardinality(Procs \ {p}) = Cardinality(Procs) - 1
  BY FS_RemoveElement DEF EnoughDescs
<1>2. Holders \subseteq Procs \ {p}
  BY DEF Holders
<1>3. Cardinality(Holders) <= Cardinality(Procs \ {p})
  BY <1>1, <1>2, FS_Subset
<1> DEFINE n == Cardinality(Procs)
           c == Cardinality(Holders)
           f == Cardinality(free)
<1>4. n \in Nat /\ c \in Nat /\ f \in Nat
  BY Finite
<1>5. c <= n - 1 /\ 3 * n <= QUEUE_SIZE /\ f + 3 * c = QUEUE_SIZE
  BY <1>1, <1>3 DEF EnoughDescs, CountInv
<1> HIDE DEF n, c, f
<1>6. ~(f < 3)
  BY <1>4, <1>5, Sizes
<1> QED
  BY <1>6 DEF NoDescs, f

LEMMA CountPublish ==
  ASSUME DescsInv, EnoughDescs, CountInv, NEW p \in Procs, p \notin Holders,
         NEW i \in free, NEW j \in free, NEW k \in free, i # j, i # k, j # k,
         free' = free \ {i, j, k}, Holders' = Holders \cup {p}
  PROVE  CountInv'
<1>0. /\ IsFiniteSet(free) /\ Cardinality(free) \in Nat
      /\ IsFiniteSet(Holders) /\ Cardinality(Holders) \in Nat
  BY Finite
<1>1. IsFiniteSet(free \ {i}) /\ Cardinality(free \ {i}) = Cardinality(free) - 1
  BY <1>0, FS_RemoveElement
<1>2. /\ IsFiniteSet((free \ {i}) \ {j})
      /\ Cardinality((free \ {i}) \ {j}) = (Cardinality(free) - 1) - 1
  BY <1>1, FS_RemoveElement, SMTT(20)
<1>3. Cardinality(((free \ {i}) \ {j}) \ {k}) = ((Cardinality(free) - 1) - 1) - 1
  <2>1. k \in (free \ {i}) \ {j}
    OBVIOUS
  <2> QED
    BY <1>2, <2>1, FS_RemoveElement
<1>4. free' = ((free \ {i}) \ {j}) \ {k}
  OBVIOUS
<1>5. Cardinality(Holders') = Cardinality(Holders) + 1
  BY <1>0, FS_AddElement, Zenon
<1>6. Cardinality(free') = Cardinality(free) - 3
  BY <1>0, <1>3, <1>4, SMTT(20)
<1> DEFINE c == Cardinality(Holders)
           f == Cardinality(free)
<1>7. f \in Nat /\ c \in Nat /\ f + 3 * c = QUEUE_SIZE
  BY <1>0 DEF CountInv
<1>8. (f - 3) + 3 * (c + 1) = QUEUE_SIZE
  <2> HIDE DEF f, c
  <2> QED
    BY <1>7
<1> QED
  BY <1>5, <1>6, <1>8 DEF CountInv

LEMMA CountFree ==
  ASSUME DescsInv, EnoughDescs, CountInv, NEW p \in Holders,
         free' = free \cup Chain(head[p]), Holders' = Holders \ {p}
  PROVE  CountInv'
<1>0. /\ IsFiniteSet(free) /\ Cardinality(free) \in Nat
      /\ IsFiniteSet(Holders) /\ Cardinality(Holders) \in Nat
  BY Finite
<1>1. PICK j, k \in Descs : Linked(head[p], j, k)
  BY DEF DescsInv, Lists
<1>2. Chain(head[p]) = {head[p], j, k} /\ Chain(head[p]) \cap free = {}
  BY <1>1, ChainOfList DEF DescsInv, Lists
<1>3. head[p] # j /\ head[p] # k /\ j # k
  BY <1>1 DEF Linked
<1>4. head[p] \notin free /\ j \notin free /\ k \notin free
  BY <1>2
<1>5. /\ IsFiniteSet(free \cup {head[p]})
      /\ Cardinality(free \cup {head[p]}) = Cardinality(free) + 1
  BY <1>0, <1>4, FS_AddElement, Zenon
<1>6. /\ IsFiniteSet((free \cup {head[p]}) \cup {j})
      /\ Cardinality((free \cup {head[p]}) \cup {j}) = (Cardinality(free) + 1) + 1
  BY <1>3, <1>4, <1>5, FS_AddElement, Zenon
<1>7. Cardinality(((free \cup {head[p]}) \cup {j}) \cup {k}) = ((Cardinality(free) + 1) + 1) + 1
  BY <1>3, <1>4, <1>6, FS_AddElement
<1>8. free' = ((free \cup {head[p]}) \cup {j}) \cup {k}
  BY <1>2
<1>9. Cardinality(free') = Cardinality(free) + 3
  <2>1. Cardinality(free') = ((Cardinality(free) + 1) + 1) + 1
    BY <1>7, <1>8
  <2> QED
    BY <1>0, <2>1
<1>10. Cardinality(Holders') = Cardinality(Holders) - 1
  BY <1>0, FS_RemoveElement, Zenon
<1> DEFINE c == Cardinality(Holders)
           f == Cardinality(free)
<1>11. f \in Nat /\ c \in Nat /\ f + 3 * c = QUEUE_SIZE
  BY <1>0 DEF CountInv
<1>12. (f + 3) + 3 * (c - 1) = QUEUE_SIZE
  <2> HIDE DEF f, c
  <2> QED
    BY <1>11
<1> QED
  BY <1>9, <1>10, <1>12 DEF CountInv

LEMMA CountSame ==
  ASSUME CountInv, free' = free, Holders' = Holders
  PROVE  CountInv'
BY DEF CountInv

LEMMA InitCount ==
  ASSUME Init
  PROVE  CountInv
<1>1. free = Descs /\ Holders = {}
  BY DEF Init, Holders
<1>2. Cardinality({}) = 0
  BY FS_EmptySet
<1> QED
  BY <1>1, <1>2, DescsFinite, Sizes DEF CountInv

\* An empty window.
LEMMA WindowEmpty ==
  ASSUME NEW R, NEW lo \in Idx, NEW hi \in Idx, Window(R, lo, hi) = {}
  PROVE  lo = hi
<1> SUFFICES ASSUME lo # hi PROVE FALSE
  OBVIOUS
<1>1. Dist(lo, hi) > 0 /\ Dist(lo, hi) \in Int
  BY DistPop, DistIs, Sizes
<1>2. 0 \in 0 .. Dist(lo, hi) - 1
  BY <1>1
<1> QED
  BY <1>2 DEF Window

\* Where process 1 is while it holds the lock.
Inside == {"alloc", "published", "free"}

\* While process 1 mounts there is one request at most, and the device
\* interrupts once for it.
MountOK ==
  /\ \A p \in Procs \ {Mounter} : pc[p] = "out"
  /\ pc[Mounter] \notin {"sleep", "woken"}
  /\ irq => Done # {}
  /\ hart = "handler" => ~irq /\ Waiting = {} /\ work = {}

\* The device does not know of a request before the lock is released.
PublishedOK == pc[Mounter] = "published" => taken = rung /\ head[Mounter] \in Waiting

HartInv ==
  /\ lock \in BOOLEAN /\ irq \in BOOLEAN /\ mounted \in BOOLEAN
  /\ hart \in {"runs", "handler"}
  /\ lock <=> hart = "handler" \/ pc[Mounter] \in Inside
  /\ hart = "handler" => pc[Mounter] \notin Inside
  /\ mounted => \A p \in Procs : pc[p] \in {"out", "sleep", "woken"}
  /\ ~mounted => MountOK
  /\ PublishedOK

\* While process 1 mounts, its request is the only one.
LEMMA OneRequest ==
  ASSUME ReqInv, MountOK
  PROVE  /\ Holders \subseteq {Mounter}
         /\ Waiting \cup work \cup Done \subseteq {head[Mounter]}
         /\ pc[Mounter] \in {"out", "alloc", "free"} => Waiting \cup work \cup Done = {}
<1>1. Holders \subseteq {Mounter}
  BY DEF MountOK, Holders
<1>2. Waiting \cup work \cup Done \subseteq Heads
  BY DEF ReqInv, RequestsOK, RingsInv
<1>3. Heads \subseteq {head[Mounter]}
  BY <1>1 DEF Heads
<1>4. ASSUME pc[Mounter] \in {"out", "alloc"} PROVE Heads = {}
  <2>1. Holders = {}
    BY <1>1, <1>4 DEF Holders
  <2> QED
    BY <2>1 DEF Heads
<1>5. ASSUME pc[Mounter] = "free" PROVE head[Mounter] \notin Waiting \cup work \cup Done
  <2>1. Mounter \in Holders /\ ~disk[buf[Mounter]]
    BY <1>5, VirtioAssumption DEF Holders, ReqInv, PolledOK
  <2> QED
    BY <2>1 DEF ReqInv, RequestsOK, CallsOK, CallOK
<1> QED
  BY <1>1, <1>2, <1>3, <1>4, <1>5

\* No interrupt is pending while process 1 holds the lock.
LEMMA LockedQuiet ==
  ASSUME ReqInv, HartInv, irq, hart = "runs"
  PROVE  ~lock
<1>1. CASE mounted
  BY <1>1, VirtioAssumption DEF HartInv, Inside
<1>2. CASE ~mounted
  <2>1. MountOK /\ Done # {}
    BY <1>2 DEF HartInv, MountOK
  <2>2. pc[Mounter] \notin {"alloc", "free"}
    BY <2>1, OneRequest
  <2>3. pc[Mounter] # "published"
    <3> SUFFICES ASSUME pc[Mounter] = "published" PROVE FALSE
      OBVIOUS
    <3>1. head[Mounter] \in Waiting
      BY DEF HartInv, PublishedOK
    <3>2. Done \subseteq {head[Mounter]} /\ Waiting \cap Done = {}
      BY <2>1, OneRequest DEF ReqInv, RequestsOK, RingsInv
    <3> QED
      BY <2>1, <3>1, <3>2
  <2> QED
    BY <2>2, <2>3 DEF HartInv, Inside
<1> QED
  BY <1>1, <1>2

\* When process 1 publishes its request the device has nothing to start on.
LEMMA AllTaken ==
  ASSUME ReqInv, MountOK, pc[Mounter] = "alloc"
  PROVE  taken = rung
<1>1. Waiting = {}
  BY OneRequest
<1>2. avail.idx \in Idx /\ taken \in Idx /\ rung \in Idx
  BY ReqTypes
<1>3. taken = avail.idx
  BY <1>1, <1>2, WindowEmpty DEF Waiting
<1>4. Dist(taken, avail.idx) = 0
  BY <1>2, <1>3, DistZero
<1>5. Dist(taken, rung) <= Dist(taken, avail.idx)
  BY DEF ReqInv, RequestsOK, RingsInv
<1>6. Dist(taken, rung) \in Nat
  BY <1>2, DistIs, Sizes
<1>7. Dist(taken, rung) = 0
  BY <1>4, <1>5, <1>6
<1> QED
  BY <1>2, <1>7, DistZero

\* A step that changes neither the descriptors nor the rings nor the callers.
LEMMA QuietWindows ==
  ASSUME UNCHANGED ring
  PROVE  Waiting' = Waiting /\ Done' = Done /\ work' = work /\ taken' = taken /\ rung' = rung
BY DEF Waiting, Done, ring

\* Every step keeps the count and the state of the hart.
LEMMA NextHart ==
  ASSUME OwnBuffers, EnoughDescs, ReqInv, CountInv, HartInv, [Next]_vars
  PROVE  CountInv' /\ HartInv'
<1> USE VirtioAssumption
<1>a. DescsInv /\ pc \in [Procs -> PcType] /\ head \in [Procs -> Descs \cup {NIL}]
  BY DEF ReqInv, DescsInv, TableType
<1>1. ASSUME NEW p \in Procs, NEW b \in BufsOf[p], SysRequest(p, b)
      PROVE  CountInv' /\ HartInv'
  <2>1. mounted /\ hart = "runs" /\ pc[p] = "out" /\ p \notin Holders
    BY <1>1 DEF SysRequest, Holders
  <2>2. \A q \in Procs : pc[q] \in {"out", "sleep", "woken"}
    BY <2>1 DEF HartInv
  <2>3. ~lock
    BY <2>1, <2>2 DEF HartInv, Inside
  <2>4. ~NoDescs
    BY <1>a, <2>1, Room
  <2>5. PICK i, j, k \in free : alloc_descs(i, j, k) /\ Publish(p, b, i, j, k)
    BY <1>1, <2>3, <2>4 DEF SysRequest
  <2>6. pc' = [pc EXCEPT ![p] = "sleep"] /\ UNCHANGED <<lock, mounted, irq, hart>>
    BY <1>1, <2>3, <2>4 DEF SysRequest
  <2>7. Holders' = Holders \cup {p} /\ \A q \in Procs : pc'[q] \in {"out", "sleep", "woken"}
    BY <1>a, <2>2, <2>6 DEF Holders
  <2>8. i # j /\ i # k /\ j # k /\ free' = free \ {i, j, k}
    BY <1>a, <2>5, AllocApart DEF Publish
  <2>9. CountInv'
    BY <1>a, <2>1, <2>7, <2>8, CountPublish
  <2>10. HartInv'
    BY <2>1, <2>3, <2>6, <2>7 DEF HartInv, Inside, PublishedOK
  <2> QED
    BY <2>9, <2>10
<1>2. ASSUME NEW p \in Procs, SysResume(p) PROVE CountInv' /\ HartInv'
  <2>1. hart = "runs" /\ pc[p] = "woken" /\ p \in Holders
    BY <1>2 DEF SysResume, Holders
  <2>2. mounted
    BY <2>1 DEF HartInv, MountOK
  <2>3. \A q \in Procs : pc[q] \in {"out", "sleep", "woken"}
    BY <2>2 DEF HartInv
  <2>4. ~lock
    BY <2>1, <2>3 DEF HartInv, Inside
  <2>5. CASE disk[buf[p]]
    <3>1. /\ pc' = [pc EXCEPT ![p] = "sleep"]
          /\ UNCHANGED <<lock, free, mounted, irq, hart>>
      BY <1>2, <2>5 DEF SysResume, table
    <3>2. Holders' = Holders /\ \A q \in Procs : pc'[q] \in {"out", "sleep", "woken"}
      BY <1>a, <2>1, <2>3, <3>1 DEF Holders
    <3>3. HartInv'
      BY <2>1, <2>2, <2>4, <3>1, <3>2 DEF HartInv, Inside, PublishedOK
    <3> QED
      BY <3>1, <3>2, <3>3, CountSame
  <2>6. CASE ~disk[buf[p]]
    <3>1. free_chain(p) /\ pc' = [pc EXCEPT ![p] = "out"] /\ lock' = lock
      BY <1>2, <2>4, <2>6 DEF SysResume
    <3>2. Holders' = Holders \ {p} /\ \A q \in Procs : pc'[q] \in {"out", "sleep", "woken"}
      BY <1>a, <2>1, <2>3, <3>1 DEF Holders
    <3>3. pc' \in [Procs -> PcType]
      BY <1>a, <3>1 DEF PcType
    <3>4. hart' = hart
      BY <1>a, <2>1, <3>1, <3>2, <3>3, FreeKeeps
    <3>5. free' = free \cup Chain(head[p]) /\ UNCHANGED <<mounted, irq>>
      BY <3>1 DEF free_chain
    <3>6. HartInv'
      BY <2>1, <2>2, <2>4, <3>1, <3>2, <3>4, <3>5 DEF HartInv, Inside, PublishedOK
    <3> QED
      BY <1>a, <2>1, <3>2, <3>5, <3>6, CountFree
  <2> QED
    BY <2>5, <2>6
<1>3. CASE UserLock
  <2>1. /\ ~mounted /\ hart = "runs" /\ pc[Mounter] = "out" /\ lock' = TRUE
        /\ pc' = [pc EXCEPT ![Mounter] = "alloc"]
        /\ UNCHANGED <<table, ring, mounted, irq, hart>>
    BY <1>3 DEF UserLock
  <2>2. pc'[Mounter] = "alloc" /\ \A q \in Procs \ {Mounter} : pc'[q] = pc[q]
    BY <1>a, <2>1
  <2>3. Holders' = Holders
    BY <1>a, <2>1 DEF Holders
  <2>4. MountOK'
    BY <2>1, <2>2, QuietWindows DEF HartInv, MountOK
  <2>5. HartInv'
    BY <2>1, <2>2, <2>4 DEF HartInv, Inside, PublishedOK
  <2> QED
    BY <2>1, <2>3, <2>5, CountSame DEF table
<1>4. ASSUME NEW b \in BufsOf[Mounter], UserPublish(b) PROVE CountInv' /\ HartInv'
  <2>1. hart = "runs" /\ pc[Mounter] = "alloc" /\ Mounter \notin Holders
    BY <1>4 DEF UserPublish, Holders
  <2>2. ~mounted /\ MountOK /\ lock
    BY <2>1 DEF HartInv, Inside
  <2>3. ~NoDescs
    BY <1>a, <2>1, Room
  <2>4. PICK i, j, k \in free : alloc_descs(i, j, k) /\ Publish(Mounter, b, i, j, k)
    BY <1>4, <2>3 DEF UserPublish
  <2>5. /\ pc' = [pc EXCEPT ![Mounter] = "published"]
        /\ UNCHANGED <<lock, rung, mounted, irq, hart>>
    BY <1>4, <2>3 DEF UserPublish
  <2>6. /\ pc'[Mounter] = "published" /\ \A q \in Procs \ {Mounter} : pc'[q] = pc[q]
        /\ Holders' = Holders \cup {Mounter}
    BY <1>a, <2>5 DEF Holders
  <2>7. Waiting' = Waiting \cup {i} /\ Done' = Done /\ head'[Mounter] = i
    <3>1. rung' \in {rung, avail'.idx}
      BY <2>5
    <3>2. Mounter \in Procs /\ Mounter \notin Holders /\ Holders' = Holders \cup {Mounter}
      BY <2>1, <2>6
    <3>3. i \in free /\ j \in free /\ k \in free
      OBVIOUS
    <3>4. alloc_descs(i, j, k) /\ Publish(Mounter, b, i, j, k)
      BY <2>4
    <3> HIDE VirtioAssumption
    <3> QED
      BY <3>1, <3>2, <3>3, <3>4, PublishReq
  <2>8. taken' = taken /\ taken = rung
    BY <2>1, <2>2, <2>4, AllTaken DEF Publish
  <2>9. i # j /\ i # k /\ j # k /\ free' = free \ {i, j, k}
    BY <1>a, <2>4, AllocApart DEF Publish
  <2>10. CountInv'
    BY <1>a, <2>1, <2>6, <2>9, CountPublish
  <2>11. MountOK'
    BY <2>1, <2>2, <2>5, <2>6, <2>7 DEF MountOK
  <2>12. PublishedOK'
    BY <2>5, <2>7, <2>8 DEF PublishedOK
  <2>13. HartInv'
    BY <2>1, <2>2, <2>5, <2>6, <2>11, <2>12 DEF HartInv, Inside
  <2> QED
    BY <2>10, <2>13
<1>5. CASE UserNotify
  <2>1. /\ hart = "runs" /\ pc[Mounter] = "published" /\ lock' = FALSE
        /\ pc' = [pc EXCEPT ![Mounter] = "poll"]
        /\ UNCHANGED <<table, avail, used, used_idx, taken, work, mounted, irq, hart>>
    BY <1>5 DEF UserNotify
  <2>2. pc'[Mounter] = "poll" /\ \A q \in Procs \ {Mounter} : pc'[q] = pc[q]
    BY <1>a, <2>1
  <2>3. Holders' = Holders
    BY <1>a, <2>1 DEF Holders
  <2>4. ~mounted
    BY <2>1 DEF HartInv
  <2>5. MountOK'
    BY <2>1, <2>2, <2>4 DEF HartInv, MountOK, Done, Waiting
  <2>6. HartInv'
    BY <2>1, <2>2, <2>4, <2>5, Zenon DEF HartInv, Inside, PublishedOK
  <2> QED
    BY <2>1, <2>3, <2>6, CountSame DEF table
<1>6. CASE UserPolled
  <2>1. /\ hart = "runs" /\ pc[Mounter] = "poll" /\ lock' = TRUE
        /\ pc' = [pc EXCEPT ![Mounter] = "free"]
        /\ UNCHANGED <<table, ring, mounted, irq, hart>>
    BY <1>6 DEF UserPolled
  <2>2. pc'[Mounter] = "free" /\ \A q \in Procs \ {Mounter} : pc'[q] = pc[q]
    BY <1>a, <2>1
  <2>3. Holders' = Holders
    BY <1>a, <2>1 DEF Holders
  <2>4. ~mounted
    BY <2>1 DEF HartInv
  <2>5. MountOK'
    BY <2>1, <2>2, <2>4, QuietWindows DEF HartInv, MountOK
  <2>6. HartInv'
    BY <2>1, <2>2, <2>4, <2>5 DEF HartInv, Inside, PublishedOK
  <2> QED
    BY <2>1, <2>3, <2>6, CountSame DEF table
<1>7. CASE UserReturn
  <2>1. /\ hart = "runs" /\ pc[Mounter] = "free" /\ lock' = FALSE
        /\ pc' = [pc EXCEPT ![Mounter] = "out"] /\ free_chain(Mounter)
    BY <1>7 DEF UserReturn
  <2>2. /\ pc'[Mounter] = "out" /\ \A q \in Procs \ {Mounter} : pc'[q] = pc[q]
        /\ pc' \in [Procs -> PcType]
    BY <1>a, <2>1 DEF PcType
  <2>3. Mounter \in Holders /\ Holders' = Holders \ {Mounter}
    BY <1>a, <2>1 DEF Holders
  <2>4. hart' = hart
    BY <1>a, <2>1, <2>2, <2>3, FreeKeeps
  <2>5. free' = free \cup Chain(head[Mounter]) /\ UNCHANGED <<ring, mounted, irq>>
    BY <2>1 DEF free_chain
  <2>6. ~mounted
    BY <2>1 DEF HartInv
  <2>7. MountOK'
    BY <2>1, <2>2, <2>4, <2>5, <2>6, QuietWindows DEF HartInv, MountOK
  <2>8. HartInv'
    BY <2>1, <2>2, <2>4, <2>5, <2>6, <2>7, Zenon DEF HartInv, Inside, PublishedOK
  <2> QED
    BY <1>a, <2>3, <2>5, <2>8, CountFree
<1>8. CASE Mounted
  <2>1. /\ ~mounted /\ hart = "runs" /\ pc[Mounter] = "out" /\ mounted' = TRUE
        /\ UNCHANGED <<lock, table, ring, caller, irq, hart>>
    BY <1>8 DEF Mounted
  <2>2. Holders' = Holders
    BY <2>1 DEF Holders, caller
  <2>3. \A q \in Procs : pc[q] = "out"
    BY <2>1 DEF HartInv, MountOK
  <2>4. HartInv'
    BY <2>1, <2>3 DEF HartInv, Inside, PublishedOK, caller
  <2> QED
    BY <2>1, <2>2, <2>4, CountSame DEF table
<1>9. CASE Take
  <2>1. /\ taken # rung
        /\ UNCHANGED <<lock, table, caller, mounted, irq, hart>>
    BY <1>9 DEF Take
  <2>2. Waiting # {} /\ Done' = Done
    BY <1>9, TakeReq
  <2>3. Holders' = Holders
    BY <2>1 DEF Holders, caller
  <2>4. ~mounted => MountOK'
    BY <2>1, <2>2 DEF HartInv, MountOK, caller
  <2>5. PublishedOK'
    BY <2>1 DEF HartInv, PublishedOK, caller
  <2>6. HartInv'
    BY <2>1, <2>4, <2>5 DEF HartInv, caller
  <2> QED
    BY <2>1, <2>3, <2>6, CountSame DEF table
<1>10. ASSUME NEW h \in Descs, Complete(h) PROVE CountInv' /\ HartInv'
  <2>1. /\ h \in work /\ irq' = TRUE
        /\ UNCHANGED <<lock, free, taken, rung, caller, mounted, hart>>
    BY <1>10 DEF Complete
  <2>2. Waiting' = Waiting /\ Done' = Done \cup {h}
    BY <1>10, CompleteReq
  <2>3. Holders' = Holders
    BY <2>1 DEF Holders, caller
  <2>4. ~mounted => MountOK'
    BY <2>1, <2>2 DEF HartInv, MountOK, caller
  <2>5. PublishedOK'
    BY <2>1, <2>2 DEF HartInv, PublishedOK, caller
  <2>6. HartInv'
    BY <2>1, <2>4, <2>5 DEF HartInv, caller
  <2> QED
    BY <2>1, <2>3, <2>6, CountSame
<1>11. CASE HandlerEnter
  <2>1. hart = "runs" /\ irq
    BY <1>11 DEF HandlerEnter
  <2>2. ~lock
    BY <2>1, LockedQuiet
  <2>3. /\ lock' = TRUE /\ irq' = FALSE /\ hart' = "handler"
        /\ UNCHANGED <<table, ring, caller, mounted>>
    BY <1>11, <2>2 DEF HandlerEnter
  <2>4. Holders' = Holders
    BY <2>3 DEF Holders, caller
  <2>5. ~mounted => MountOK'
    <3> SUFFICES ASSUME ~mounted PROVE MountOK'
      OBVIOUS
    <3>1. MountOK /\ Done # {}
      BY <2>1 DEF HartInv, MountOK
    <3>2. Waiting = {} /\ work = {}
      BY <3>1, OneRequest DEF ReqInv, RequestsOK, RingsInv
    <3> QED
      BY <2>3, <3>1, <3>2, QuietWindows DEF MountOK, caller
  <2>6. PublishedOK'
    BY <2>3, QuietWindows DEF HartInv, PublishedOK, caller
  <2>7. HartInv'
    BY <2>1, <2>2, <2>3, <2>5, <2>6, Zenon DEF HartInv, caller
  <2> QED
    BY <2>3, <2>4, <2>7, CountSame DEF table
<1>12. CASE HandlerEntry
  <2>1. /\ hart = "handler"
        /\ UNCHANGED <<lock, table, rung, taken, work, caller, mounted, irq>>
    BY <1>12 DEF HandlerEntry
  <2>2. hart' = hart /\ Waiting' = Waiting
    BY <1>12, EntryReq
  <2>3. Holders' = Holders
    BY <2>1 DEF Holders, caller
  <2>4. ~mounted => MountOK'
    BY <2>1, <2>2 DEF HartInv, MountOK, caller
  <2>5. PublishedOK'
    BY <2>1, <2>2 DEF HartInv, PublishedOK, caller
  <2>6. HartInv'
    BY <2>1, <2>2, <2>4, <2>5 DEF HartInv, caller
  <2> QED
    BY <2>1, <2>3, <2>6, CountSame DEF table
<1>13. CASE HandlerExit
  <2>1. /\ hart = "handler" /\ hart' = "runs" /\ lock' = FALSE
        /\ pc' = [p \in Procs |-> IF pc[p] = "sleep" THEN "woken" ELSE pc[p]]
        /\ UNCHANGED <<table, ring, mounted, irq>>
    BY <1>13 DEF HandlerExit
  <2>2. Holders' = Holders
    BY <1>a, <2>1 DEF Holders
  <2>3. \A q \in Procs : pc'[q] = IF pc[q] = "sleep" THEN "woken" ELSE pc[q]
    BY <2>1
  <2>4. ~mounted => MountOK'
    BY <2>1, <2>3, QuietWindows DEF HartInv, MountOK
  <2>5. pc'[Mounter] \notin Inside
    BY <2>1, <2>3 DEF HartInv, Inside
  <2>6. mounted => \A q \in Procs : pc'[q] \in {"out", "sleep", "woken"}
    BY <2>3 DEF HartInv
  <2>7. HartInv'
    BY <2>1, <2>4, <2>5, <2>6, Zenon DEF HartInv, Inside, PublishedOK
  <2> QED
    BY <2>1, <2>2, <2>7, CountSame DEF table
<1>14. CASE UNCHANGED vars
  <2>1. UNCHANGED <<lock, table, ring, caller, mounted, irq, hart>>
    BY <1>14 DEF vars
  <2>2. Holders' = Holders
    BY <2>1 DEF Holders, caller
  <2>3. (~mounted => MountOK') /\ PublishedOK'
    BY <2>1, QuietWindows DEF HartInv, MountOK, PublishedOK, caller
  <2>4. HartInv'
    BY <2>1, <2>3 DEF HartInv, caller
  <2> QED
    BY <2>1, <2>2, <2>4, CountSame DEF table
<1> QED
  BY <1>1, <1>2, <1>3, <1>4, <1>5, <1>6, <1>7, <1>8, <1>9, <1>10, <1>11, <1>12,
     <1>13, <1>14 DEF Next

LEMMA InitHart == Init => HartInv
<1> SUFFICES ASSUME Init PROVE HartInv
  OBVIOUS
<1>1. \A p \in Procs : pc[p] = "out"
  BY DEF Init
<1>2. MountOK
  BY <1>1, VirtioAssumption DEF Init, MountOK
<1> QED
  BY <1>1, <1>2, VirtioAssumption, Zenon DEF Init, HartInv, Inside, PublishedOK

\* The invariants give the property the runs check.
LEMMA HartRuns == ReqInv /\ HartInv => NeverHalts
<1> SUFFICES ASSUME ReqInv, HartInv PROVE NeverHalts
  OBVIOUS
<1>1. TypeOK
  BY DEF ReqInv, RequestsOK, DriverType, DescsInv, TableType, HartInv, TypeOK, PcType, Rings
<1> QED
  BY <1>1 DEF HartInv, NeverHalts

\* The hart never stops in the driver: the interrupt handler never finds the
\* lock taken, no system call spins for the lock or for descriptors, and
\* neither the handler nor free_chain() panics.  It takes three descriptors for
\* every process that makes requests.
THEOREM HartNeverHalts ==
  ASSUME OwnBuffers, EnoughDescs
  PROVE  Spec => []NeverHalts
<1> DEFINE Inv == ReqInv /\ CountInv /\ HartInv
<1>1. Init => Inv
  BY InitReq, InitCount, InitHart
<1>2. Inv /\ [Next]_vars => Inv'
  BY NextReq, NextHart
<1>3. Inv => NeverHalts
  BY HartRuns
<1> QED
  BY <1>1, <1>2, <1>3, PTL DEF Spec
=============================================================================
