---------------------------- MODULE SchedProofs -----------------------------
(***************************************************************************)
(* Lemmas about alter_state(), set_Queue() and schedule(): they keep the   *)
(* queues and the states of the tasks in agreement, and schedule() leaves  *)
(* exactly one task running.  Then lemmas about the process table, the     *)
(* inductive invariant of Sched, one lemma per handler, and the theorems   *)
(* that follow from it.                                                    *)
(***************************************************************************)
EXTENDS Sched, FiniteSetTheorems, SequenceTheorems, TLAPS

\* A member of a finite set of integers with fewer members above it lies
\* higher: the ranks ScanSeq() chooses by are distinct.
LEMMA RankInjective ==
  ASSUME NEW S \in SUBSET Int, IsFiniteSet(S),
         NEW i \in S, NEW j \in S, i < j
  PROVE  Cardinality({k \in S : k > j}) < Cardinality({k \in S : k > i})
<1>0. \A k \in S : k \in Int
  OBVIOUS
<1> DEFINE A == {k \in S : k > i}
           B == {k \in S : k > j}
<1>1. IsFiniteSet(A) /\ IsFiniteSet(B)
  BY FS_Subset
<1>2. B \subseteq A /\ j \in A /\ j \notin B
  <2>1. j \in A /\ j \notin B
    BY <1>0
  <2>2. \A k \in B : k \in A
    BY <1>0
  <2> QED
    BY Zenon, <2>1, <2>2
<1>3. /\ Cardinality(B) <= Cardinality(A)
      /\ Cardinality(A) = Cardinality(B) => A = B
  BY <1>1, <1>2, FS_Subset
<1>4. Cardinality(A) \in Nat /\ Cardinality(B) \in Nat
  BY <1>1, FS_CardinalityType
<1> QED
  BY <1>2, <1>3, <1>4

\* ScanSeq(S) lists each member of S exactly once: set_Queue() appends one
\* node for every task it finds.
LEMMA ScanSeqLists ==
  ASSUME NEW S \in SUBSET Int, IsFiniteSet(S)
  PROVE  /\ ScanSeq(S) \in Seq(S)
         /\ Len(ScanSeq(S)) = Cardinality(S)
         /\ \A k, l \in 1 .. Len(ScanSeq(S)) :
              ScanSeq(S)[k] = ScanSeq(S)[l] => k = l
         /\ \A i \in S : \E k \in 1 .. Len(ScanSeq(S)) : ScanSeq(S)[k] = i
<1> DEFINE n == Cardinality(S)
           above(i) == Cardinality({j \in S : j > i})
           rank == [i \in S |-> above(i) + 1]
<1>0. \A i \in S : i \in Int
  OBVIOUS
<1>1. n \in Nat
  BY FS_CardinalityType
<1>2. ASSUME NEW i \in S
      PROVE  above(i) \in 0 .. n - 1
  <2> DEFINE A == {j \in S : j > i}
  <2>1. IsFiniteSet(A) /\ Cardinality(A) <= n /\ (n = Cardinality(A) => S = A)
    BY FS_Subset
  <2>2. i \notin A
    BY <1>0
  <2>3. Cardinality(A) \in Nat
    BY <2>1, FS_CardinalityType
  <2> QED
    BY <2>1, <2>2, <2>3, <1>1
<1>3. ASSUME NEW i \in S, NEW j \in S, above(i) = above(j)
      PROVE  i = j
  <2>0. above(i) \in Int /\ above(j) \in Int
    BY <1>2
  <2>1. i < j => above(j) < above(i)
    BY RankInjective
  <2>2. j < i => above(i) < above(j)
    BY RankInjective
  <2> HIDE DEF above
  <2> QED
    BY <1>0, <1>3, <2>0, <2>1, <2>2
<1>4. rank \in Injection(S, 1 .. n)
  <2>1. rank \in [S -> 1 .. n]
    BY <1>1, <1>2
  <2>2. \A i, j \in S : rank[i] = rank[j] => i = j
    <3> SUFFICES ASSUME NEW i \in S, NEW j \in S, rank[i] = rank[j]
                 PROVE  i = j
      OBVIOUS
    <3>1. above(i) \in Int /\ above(j) \in Int
      BY <1>2
    <3>2. above(i) = above(j)
      BY <3>1
    <3> QED
      BY <3>2, <1>3
  <2> QED
    BY Zenon, <2>1, <2>2 DEF Injection, IsInjective
<1>5. rank \in Surjection(S, 1 .. n)
  <2>1. IsFiniteSet(1 .. n) /\ Cardinality(1 .. n) = n
    BY <1>1, FS_Interval
  <2> QED
    BY <1>4, <2>1, FS_Injection
<1>6. \A k \in 1 .. n : \E i \in S : above(i) = k - 1
  <2> SUFFICES ASSUME NEW k \in 1 .. n
               PROVE  \E i \in S : above(i) = k - 1
    OBVIOUS
  <2>1. PICK i \in S : rank[i] = k
    BY Zenon, <1>5 DEF Surjection
  <2>2. above(i) \in Int
    BY <1>2
  <2> QED
    BY <2>1, <2>2, <1>1
<1> DEFINE s == ScanSeq(S)
<1>7. s = [k \in 1 .. n |-> CHOOSE i \in S : above(i) = k - 1]
  BY DEF ScanSeq
<1>8. \A k \in 1 .. n : s[k] \in S /\ above(s[k]) = k - 1
  BY Zenon, <1>6, <1>7
<1> HIDE DEF s, above
<1>9. s \in Seq(S) /\ Len(s) = n
  BY <1>1, <1>7, <1>8
<1>10. \A k, l \in 1 .. n : s[k] = s[l] => k = l
  BY <1>1, <1>8
<1>11. ASSUME NEW i \in S
       PROVE  \E k \in 1 .. n : s[k] = i
  <2>1. above(i) + 1 \in 1 .. n /\ (above(i) + 1) - 1 = above(i)
    BY <1>1, <1>2
  <2>2. s[above(i) + 1] = i
    BY Zenon, <2>1, <1>8, <1>3
  <2> QED
    BY <2>1, <2>2
<1> QED
  BY <1>9, <1>10, <1>11 DEF s

-----------------------------------------------------------------------------
(* schedule() *)

Table == [Slots -> Task \cup {NULL}]

Queues == [Orders -> Seq(Scanned)]

\* What every process table has: task 0, and a queue order in every task that
\* has not exited.
TableOK(T) ==
  /\ T \in Table
  /\ Alive(T, 0)
  /\ \A i \in Scanned :
       Alive(T, i) /\ T[i].state # "ZOMBINE" => T[i].order \in Orders

\* Tables with the same processes: schedule() moves tasks between states and
\* queues and changes nothing else.
SameProcs(T, U) ==
  \A i \in Slots :
    /\ Alive(U, i) <=> Alive(T, i)
    /\ Alive(T, i) => /\ U[i].pid = T[i].pid
                      /\ U[i].father_pid = T[i].father_pid
                      /\ U[i].state = "ZOMBINE" <=> T[i].state = "ZOMBINE"

\* No scanned task of T is running.
NoneRunning(T) ==
  \A i \in Scanned : Alive(T, i) => T[i].state # "RUNNING"

\* The loops over TASK[] visit every slot but that of task 0.
LEMMA ScannedSlots ==
  /\ Scanned \subseteq Slots
  /\ 0 \in Slots /\ 0 \notin Scanned /\ 1 \in Scanned
  /\ \A i \in Slots : i # 0 => i \in Scanned
  /\ Scanned \subseteq Int
  /\ IsFiniteSet(Scanned)
<1>1. IsFiniteSet(1 .. MAX_TASK - 1)
  BY SchedAssumption, FS_Interval
<1> QED
  BY <1>1, SchedAssumption DEF Scanned, Slots

\* COUNTER() of any order is a number of ticks.
LEMMA CounterType ==
  ASSUME NEW o \in Orders
  PROVE  COUNTER(o) \in Int
BY SchedAssumption DEF COUNTER, Orders

\* alter_state() touches waiting tasks only, and these are in no queue.
LEMMA AlterStateOK ==
  ASSUME NEW T, TableOK(T), NEW Q \in Queues, Agree(T, Q)
  PROVE  /\ TableOK(alter_state(T))
         /\ Agree(alter_state(T), Q)
         /\ SameProcs(T, alter_state(T))
<1> DEFINE A == alter_state(T)
<1>0. A = [i \in Slots |-> A[i]]
  BY DEF alter_state
<1>1. ASSUME NEW i \in Slots, Alive(T, i)
      PROVE  /\ A[i] \in Task
             /\ A[i].pid = T[i].pid
             /\ A[i].father_pid = T[i].father_pid
             /\ A[i].order = T[i].order
             /\ A[i].in_Queue = T[i].in_Queue
             /\ A[i].state = T[i].state \/ (T[i].state = "WAIT" /\ A[i].state = "READY")
  <2>1. T[i] \in Task
    BY <1>1 DEF TableOK, Table, Alive
  <2>2. A[i] = T[i] \/ (T[i].state = "WAIT" /\ A[i] = [T[i] EXCEPT !.state = "READY", !.signal = {}])
    BY DEF alter_state
  <2> QED
    BY Zenon, <2>1, <2>2 DEF Task
<1>2. ASSUME NEW i \in Slots, ~Alive(T, i)
      PROVE  A[i] = NULL
  BY <1>2 DEF alter_state, Alive
<1>3. ASSUME NEW i \in Slots
      PROVE  Alive(A, i) <=> Alive(T, i)
  BY <1>1, <1>2, NullAssumption DEF Alive
<1>10. A[0] = T[0]
  BY ScannedSlots DEF alter_state
<1> HIDE DEF A
<1>4. TableOK(A)
  <2>1. A \in Table
    BY <1>0, <1>1, <1>2 DEF Table
  <2>2. Alive(A, 0)
    BY <1>3, ScannedSlots DEF TableOK
  <2>3. ASSUME NEW i \in Scanned, Alive(A, i), A[i].state # "ZOMBINE"
        PROVE  A[i].order \in Orders
    BY <2>3, <1>1, <1>3, ScannedSlots DEF TableOK
  <2> QED
    BY <2>1, <2>2, <2>3 DEF TableOK
<1>5. Agree(A, Q)
  <2>1. ASSUME NEW o \in Orders, NEW k \in 1 .. Len(Q[o])
        PROVE  /\ Alive(A, Q[o][k])
               /\ A[Q[o][k]].in_Queue
               /\ A[Q[o][k]].order = o
               /\ A[Q[o][k]].state = "READY"
    <3>1. Q[o][k] \in Slots
      BY Zenon, ScannedSlots, ElementOfSeq DEF Queues
    <3>2. /\ Alive(T, Q[o][k])
          /\ T[Q[o][k]].in_Queue
          /\ T[Q[o][k]].order = o
          /\ T[Q[o][k]].state = "READY"
      BY DEF Agree
    <3> QED
      BY <1>1, <1>3, <3>1, <3>2
  <2>2. \A o \in Orders : \A k, l \in 1 .. Len(Q[o]) : Q[o][k] = Q[o][l] => k = l
    BY DEF Agree
  <2>3. ASSUME NEW i \in Scanned, Alive(A, i), A[i].in_Queue
        PROVE  \E o \in Orders : \E k \in 1 .. Len(Q[o]) : Q[o][k] = i
    <3>1. Alive(T, i) /\ T[i].in_Queue
      BY <1>1, <1>3, <2>3, ScannedSlots
    <3> QED
      BY <3>1 DEF Agree
  <2> QED
    BY <2>1, <2>2, <2>3 DEF Agree
<1>6. SameProcs(T, A)
  BY <1>1, <1>3 DEF SameProcs
<1> QED
  BY <1>4, <1>5, <1>6, <1>10 DEF A

\* set_Queue() finds nothing to unlink, appends one node for every runnable
\* task that has none, and leaves no task running.
LEMMA SetQueueOK ==
  ASSUME NEW T, TableOK(T), queue \in Queues, Agree(T, queue)
  PROVE  /\ TableOK(set_Queue_task(T))
         /\ set_Queue(T) \in Queues
         /\ Agree(set_Queue_task(T), set_Queue(T))
         /\ SameProcs(T, set_Queue_task(T))
         /\ NoneRunning(set_Queue_task(T))
<1> DEFINE U == set_Queue_task(T)
           Q == set_Queue(T)
           E(o) == {i \in Enqueued(T) : NewOrder(T[i]) = o}
<1>1. ASSUME NEW i \in Scanned, Alive(T, i), T[i].in_Queue
      PROVE  T[i].state = "READY"
  <2>1. PICK o \in Orders : \E k \in 1 .. Len(queue[o]) : queue[o][k] = i
    BY <1>1 DEF Agree
  <2> QED
    BY <2>1 DEF Agree
<1>2. Unlinked(T) = {}
  BY <1>1 DEF Unlinked
<1>3. ASSUME NEW o \in Orders
      PROVE  Q[o] = queue[o] \o ScanSeq(E(o))
  BY <1>2 DEF set_Queue
<1>4. ASSUME NEW i \in Slots, Alive(T, i)
      PROVE  T[i] \in Task
  BY <1>4 DEF TableOK, Table, Alive
<1>5. ASSUME NEW i \in Enqueued(T)
      PROVE  /\ i \in Scanned /\ Alive(T, i) /\ T[i].order \in Orders
             /\ NewOrder(T[i]) \in Orders
             /\ ~T[i].in_Queue
             /\ U[i] = [T[i] EXCEPT !.order = NewOrder(T[i]),
                                    !.state = "READY",
                                    !.in_Queue = TRUE,
                                    !.counter = COUNTER(NewOrder(T[i]))]
  <2>1. i \in Scanned /\ Alive(T, i) /\ T[i].order >= 0 /\ ~T[i].in_Queue
        /\ T[i].state # "ZOMBINE"
    BY DEF Enqueued
  <2>2. T[i].order \in Orders
    BY <2>1 DEF TableOK
  <2>3. NewOrder(T[i]) \in Orders
    BY <2>2, SchedAssumption DEF NewOrder, Orders
  <2> QED
    BY Zenon, <2>1, <2>2, <2>3, ScannedSlots DEF set_Queue_task
<1>7. ASSUME NEW i \in Slots, i \notin Enqueued(T)
      PROVE  U[i] = T[i]
  BY <1>7 DEF set_Queue_task
<1>8. U = [i \in Slots |-> U[i]] /\ Q = [o \in Orders |-> Q[o]]
  BY Zenon DEF set_Queue_task, set_Queue
<1>9. Enqueued(T) \subseteq Scanned
  BY DEF Enqueued
<1> HIDE DEF U, Q
<1>6. ASSUME NEW i \in Enqueued(T)
      PROVE  /\ U[i] \in Task
             /\ U[i].pid = T[i].pid
             /\ U[i].father_pid = T[i].father_pid
             /\ U[i].order = NewOrder(T[i])
             /\ U[i].in_Queue
             /\ U[i].state = "READY"
             /\ T[i].state # "ZOMBINE"
  <2>1. T[i] \in Task
    BY Zenon, <1>4, <1>5, ScannedSlots
  <2>2. COUNTER(NewOrder(T[i])) \in Int
    BY Zenon, <1>5, CounterType
  <2>3. T[i].state # "ZOMBINE"
    BY DEF Enqueued
  <2>4. /\ U[i] = [T[i] EXCEPT !.order = NewOrder(T[i]),
                               !.state = "READY",
                               !.in_Queue = TRUE,
                               !.counter = COUNTER(NewOrder(T[i]))]
        /\ NewOrder(T[i]) \in Orders
    BY Zenon, <1>5
  <2> QED
    BY Zenon, <2>1, <2>2, <2>3, <2>4 DEF Task
<1>10. ASSUME NEW i \in Slots
       PROVE  Alive(U, i) <=> Alive(T, i)
  <2>1. CASE i \in Enqueued(T)
    BY Zenon, <2>1, <1>5, <1>6, NullAssumption DEF Alive
  <2>2. CASE i \notin Enqueued(T)
    BY <2>2, <1>7 DEF Alive
  <2> QED
    BY <2>1, <2>2
<1>11. ASSUME NEW i \in Scanned, Alive(T, i), i \notin Enqueued(T)
       PROVE  T[i].state # "RUNNING"
  <2> SUFFICES ASSUME T[i].state = "RUNNING"
               PROVE  FALSE
    OBVIOUS
  <2>1. T[i].order \in Orders
    BY <1>11 DEF TableOK
  <2>2. T[i].order >= 0
    BY <2>1, SchedAssumption DEF Orders
  <2>3. ~T[i].in_Queue
    BY <1>1, <1>11
  <2> QED
    BY <1>11, <2>2, <2>3 DEF Enqueued
<1>12. TableOK(U)
  <2>1. \A i \in Slots : U[i] \in Task \cup {NULL}
    BY <1>6, <1>7 DEF TableOK, Table
  <2>2. U \in Table
    BY <1>8, <2>1 DEF Table
  <2>3. Alive(U, 0)
    BY <1>10, ScannedSlots DEF TableOK
  <2>4. ASSUME NEW i \in Scanned, Alive(U, i), U[i].state # "ZOMBINE"
        PROVE  U[i].order \in Orders
    BY Zenon, <1>5, <1>6, <1>7, <1>10, <2>4, ScannedSlots DEF TableOK
  <2> QED
    BY <2>2, <2>3, <2>4 DEF TableOK
<1>13. SameProcs(T, U)
  BY <1>6, <1>7, <1>10 DEF SameProcs
<1>14. NoneRunning(U)
  BY <1>6, <1>7, <1>10, <1>11, ScannedSlots DEF NoneRunning
<1>15. ASSUME NEW o \in Orders
       PROVE  LET s == ScanSeq(E(o))
              IN  /\ s \in Seq(Scanned)
                  /\ \A k \in 1 .. Len(s) : s[k] \in E(o)
                  /\ \A k, l \in 1 .. Len(s) : s[k] = s[l] => k = l
                  /\ \A i \in E(o) : \E k \in 1 .. Len(s) : s[k] = i
  <2>1. E(o) \in SUBSET Scanned /\ E(o) \in SUBSET Int
    BY Zenon, <1>9, ScannedSlots
  <2>2. IsFiniteSet(E(o))
    BY <2>1, ScannedSlots, FS_Subset
  <2>3. /\ ScanSeq(E(o)) \in Seq(E(o))
        /\ \A k, l \in 1 .. Len(ScanSeq(E(o))) :
             ScanSeq(E(o))[k] = ScanSeq(E(o))[l] => k = l
        /\ \A i \in E(o) : \E k \in 1 .. Len(ScanSeq(E(o))) : ScanSeq(E(o))[k] = i
    BY Zenon, <2>1, <2>2, ScanSeqLists
  <2> HIDE DEF E
  <2>4. ScanSeq(E(o)) \in Seq(Scanned)
    BY <2>1, <2>3, SeqMonotonic
  <2>5. \A k \in 1 .. Len(ScanSeq(E(o))) : ScanSeq(E(o))[k] \in E(o)
    BY <2>3, ElementOfSeq
  <2> QED
    BY <2>3, <2>4, <2>5
<1> HIDE DEF E
<1>16. ASSUME NEW o \in Orders
       PROVE  LET s == ScanSeq(E(o))
              IN  /\ Q[o] \in Seq(Scanned)
                  /\ Len(queue[o]) \in Nat /\ Len(s) \in Nat
                  /\ Len(Q[o]) = Len(queue[o]) + Len(s)
                  /\ \A k \in 1 .. Len(queue[o]) + Len(s) :
                       Q[o][k] = IF k <= Len(queue[o]) THEN queue[o][k]
                                 ELSE s[k - Len(queue[o])]
                  /\ \A k \in 1 .. Len(Q[o]) : ~(k <= Len(queue[o])) =>
                       /\ k - Len(queue[o]) \in 1 .. Len(s)
                       /\ Q[o][k] = s[k - Len(queue[o])]
  <2>1. queue[o] \in Seq(Scanned) /\ ScanSeq(E(o)) \in Seq(Scanned)
    BY <1>15 DEF Queues
  <2> DEFINE s == ScanSeq(E(o))
  <2>2. Q[o] = queue[o] \o s
    BY <1>3
  <2> HIDE DEF s
  <2>3. s \in Seq(Scanned)
    BY <2>1 DEF s
  <2>4. Len(queue[o]) \in Nat /\ Len(s) \in Nat
    BY <2>1, <2>3, LenProperties
  <2>5. /\ queue[o] \o s \in Seq(Scanned)
        /\ Len(queue[o] \o s) = Len(queue[o]) + Len(s)
        /\ \A k \in 1 .. Len(queue[o]) + Len(s) : (queue[o] \o s)[k] =
             IF k <= Len(queue[o]) THEN queue[o][k] ELSE s[k - Len(queue[o])]
    BY <2>1, <2>3, ConcatProperties
  <2>6. ASSUME NEW a \in Nat, NEW b \in Nat, NEW k \in 1 .. a + b, ~(k <= a)
        PROVE  k - a \in 1 .. b
    BY <2>6
  <2>7. \A k \in 1 .. Len(Q[o]) : ~(k <= Len(queue[o])) =>
          k - Len(queue[o]) \in 1 .. Len(s) /\ Q[o][k] = s[k - Len(queue[o])]
    <3> SUFFICES ASSUME NEW k \in 1 .. Len(Q[o]), ~(k <= Len(queue[o]))
                 PROVE  /\ k - Len(queue[o]) \in 1 .. Len(s)
                        /\ Q[o][k] = s[k - Len(queue[o])]
      OBVIOUS
    <3>1. k \in 1 .. Len(queue[o]) + Len(s)
      BY <2>2, <2>5
    <3> QED
      BY <3>1, <2>2, <2>4, <2>5, <2>6
  <2> QED
    BY <2>2, <2>4, <2>5, <2>7 DEF s
<1>17. Q \in Queues
  BY <1>8, <1>16 DEF Queues
<1>18. ASSUME NEW i, NEW o \in Orders
       PROVE  i \in E(o) <=> i \in Enqueued(T) /\ NewOrder(T[i]) = o
  BY DEF E
<1>19. ASSUME NEW o \in Orders, NEW k \in 1 .. Len(queue[o])
       PROVE  /\ queue[o][k] \in Scanned
              /\ Alive(T, queue[o][k])
              /\ T[queue[o][k]].in_Queue
              /\ T[queue[o][k]].order = o
              /\ T[queue[o][k]].state = "READY"
              /\ queue[o][k] \notin Enqueued(T)
              /\ U[queue[o][k]] = T[queue[o][k]]
  <2>1. queue[o][k] \in Scanned
    BY ElementOfSeq DEF Queues
  <2>2. /\ Alive(T, queue[o][k])
        /\ T[queue[o][k]].in_Queue
        /\ T[queue[o][k]].order = o
        /\ T[queue[o][k]].state = "READY"
    BY DEF Agree
  <2>3. queue[o][k] \notin Enqueued(T)
    BY Zenon, <1>5, <2>2
  <2> QED
    BY Zenon, <2>1, <2>2, <2>3, <1>7, ScannedSlots
<1>20. Agree(U, Q)
  <2>1. ASSUME NEW o \in Orders, NEW k \in 1 .. Len(Q[o])
        PROVE  /\ Alive(U, Q[o][k])
               /\ U[Q[o][k]].in_Queue
               /\ U[Q[o][k]].order = o
               /\ U[Q[o][k]].state = "READY"
    <3>1. CASE k <= Len(queue[o])
      <4>1. k \in 1 .. Len(queue[o]) /\ Q[o][k] = queue[o][k]
        BY <1>16, <3>1
      <4> QED
        BY <4>1, <1>10, <1>19, ScannedSlots
    <3>2. CASE ~(k <= Len(queue[o]))
      <4> DEFINE m == k - Len(queue[o])
      <4>1. m \in 1 .. Len(ScanSeq(E(o))) /\ Q[o][k] = ScanSeq(E(o))[m]
        BY <1>16, <3>2
      <4>2. Q[o][k] \in E(o)
        BY <4>1, <1>15
      <4>3. Q[o][k] \in Enqueued(T) /\ NewOrder(T[Q[o][k]]) = o
        BY <4>2, <1>18
      <4> QED
        BY Zenon, <4>3, <1>5, <1>6, <1>10, ScannedSlots
    <3> QED
      BY <3>1, <3>2
  <2>2. ASSUME NEW o \in Orders, NEW k \in 1 .. Len(Q[o]), NEW l \in 1 .. Len(Q[o]),
               Q[o][k] = Q[o][l]
        PROVE  k = l
    <3> DEFINE s == ScanSeq(E(o))
               q == queue[o]
    <3>1. ASSUME NEW m \in 1 .. Len(Q[o])
          PROVE  \/ m \in 1 .. Len(q) /\ Q[o][m] = q[m] /\ Q[o][m] \notin Enqueued(T)
                 \/ /\ m - Len(q) \in 1 .. Len(s)
                    /\ Q[o][m] = s[m - Len(q)]
                    /\ Q[o][m] \in Enqueued(T)
      <4>1. CASE m <= Len(q)
        BY <4>1, <1>16, <1>19
      <4>2. CASE ~(m <= Len(q))
        <5>1. m - Len(q) \in 1 .. Len(s) /\ Q[o][m] = s[m - Len(q)]
          BY <4>2, <1>16
        <5>2. Q[o][m] \in E(o)
          BY <5>1, <1>15
        <5> QED
          BY <5>1, <5>2, <1>18
      <4> QED
        BY <4>1, <4>2
    <3>2. \A a, b \in 1 .. Len(q) : q[a] = q[b] => a = b
      BY DEF Agree
    <3>3. \A a, b \in 1 .. Len(s) : s[a] = s[b] => a = b
      BY <1>15
    <3>4. Len(q) \in Nat /\ Len(s) \in Nat /\ Len(Q[o]) \in Nat
      BY <1>16
    <3> HIDE DEF s, q
    <3>5. CASE Q[o][k] \in Enqueued(T)
      <4>1. k - Len(q) = l - Len(q)
        BY Zenon, <2>2, <3>1, <3>3, <3>5
      <4> QED
        BY <4>1, <3>4
    <3>6. CASE Q[o][k] \notin Enqueued(T)
      BY <2>2, <3>1, <3>2, <3>6
    <3> QED
      BY <3>5, <3>6
  <2>3. ASSUME NEW i \in Scanned, Alive(U, i), U[i].in_Queue
        PROVE  \E o \in Orders : \E k \in 1 .. Len(Q[o]) : Q[o][k] = i
    <3>1. CASE i \in Enqueued(T)
      <4> DEFINE o == NewOrder(T[i])
      <4>1. o \in Orders
        BY Zenon, <3>1, <1>5
      <4>2. PICK m \in 1 .. Len(ScanSeq(E(o))) : ScanSeq(E(o))[m] = i
        BY <3>1, <4>1, <1>15, <1>18
      <4> HIDE DEF o
      <4>3. Len(queue[o]) + m \in 1 .. Len(Q[o]) /\ Q[o][Len(queue[o]) + m] = i
        BY <4>1, <4>2, <1>16
      <4> QED
        BY <4>1, <4>3
    <3>2. CASE i \notin Enqueued(T)
      <4>1. Alive(T, i) /\ T[i].in_Queue
        BY <2>3, <3>2, <1>7, <1>10, ScannedSlots
      <4>2. PICK o \in Orders : \E k \in 1 .. Len(queue[o]) : queue[o][k] = i
        BY <4>1 DEF Agree
      <4>3. PICK k \in 1 .. Len(queue[o]) : queue[o][k] = i
        BY <4>2
      <4>4. k \in 1 .. Len(Q[o]) /\ Q[o][k] = i
        BY <4>3, <1>16
      <4> QED
        BY <4>4
    <3> QED
      BY <3>1, <3>2
  <2> QED
    BY <2>1, <2>2, <2>3 DEF Agree
<1> QED
  BY <1>12, <1>13, <1>14, <1>17, <1>20 DEF U, Q

\* schedule() keeps tasks and queues in agreement and leaves one task running.
LEMMA ScheduleOK ==
  ASSUME NEW T, TableOK(T), queue \in Queues, Agree(T, queue), schedule(T)
  PROVE  /\ TableOK(TASK')
         /\ queue' \in Queues
         /\ current' \in Slots
         /\ QueueInv'
         /\ OneRunning'
         /\ SameProcs(T, TASK')
<1> DEFINE A == alter_state(T)
           S == set_Queue_task(A)
           Q == set_Queue(A)
<1>1. TableOK(A) /\ Agree(A, queue) /\ SameProcs(T, A)
  BY AlterStateOK
<1> HIDE DEF A
<1>2. TableOK(S) /\ Q \in Queues /\ Agree(S, Q) /\ SameProcs(A, S) /\ NoneRunning(S)
  BY <1>1, SetQueueOK
<1>3. (\E o \in Orders : Dispatch(S, Q, o)) \/ Idle(S, Q)
  BY DEF schedule, A
<1> HIDE DEF S, Q
<1>4. SameProcs(T, S)
  BY <1>1, <1>2 DEF SameProcs
<1>5. CASE Idle(S, Q)
  <2>1. QueueInv'
    BY <1>2, <1>5 DEF Idle, QueueInv, Agree, Alive
  <2>2. OneRunning'
    BY <1>2, <1>5, ScannedSlots DEF Idle, OneRunning, NoneRunning, TableOK, Alive
  <2> QED
    BY <1>2, <1>4, <1>5, <2>1, <2>2, ScannedSlots DEF Idle
<1>6. ASSUME NEW o \in Orders, Dispatch(S, Q, o)
      PROVE  /\ TableOK(TASK')
             /\ queue' \in Queues
             /\ current' \in Slots
             /\ QueueInv'
             /\ OneRunning'
             /\ SameProcs(T, TASK')
  <2> DEFINE h == Head(Q[o])
  <2>1. Q[o] \in Seq(Scanned)
    BY <1>2 DEF Queues
  <2>2. /\ h \in Scanned
        /\ Tail(Q[o]) \in Seq(Scanned)
        /\ Len(Q[o]) \in Nat /\ Len(Q[o]) >= 1
        /\ Len(Tail(Q[o])) = Len(Q[o]) - 1
        /\ \A k \in 1 .. Len(Tail(Q[o])) : Tail(Q[o])[k] = Q[o][k + 1]
        /\ h = Q[o][1]
    BY <1>6, <2>1, HeadTailProperties, LenProperties, EmptySeq DEF Dispatch
  <2>3. /\ Alive(S, h) /\ S[h] \in Task
        /\ S[h].state = "READY" /\ S[h].order = o
    <3>1. 1 \in 1 .. Len(Q[o])
      BY <2>2
    <3>2. Alive(S, h) /\ S[h].state = "READY" /\ S[h].order = o
      BY <3>1, <2>2, <1>2 DEF Agree
    <3> QED
      BY Zenon, <3>2, <2>2, <1>2, ScannedSlots DEF TableOK, Table, Alive
  <2> HIDE DEF h
  <2>4. TASK' = [S EXCEPT ![h] = [S[h] EXCEPT !.in_Queue = FALSE, !.state = "RUNNING"]]
    <3>1. TASK' = [S EXCEPT ![h].in_Queue = FALSE, ![h].state = "RUNNING"]
      BY <1>6 DEF h, Dispatch
    <3> QED
      BY <3>1, <2>2, <2>3, <1>2, ScannedSlots DEF TableOK, Table, Task
  <2>5. /\ TASK'[h] \in Task
        /\ TASK'[h].pid = S[h].pid
        /\ TASK'[h].father_pid = S[h].father_pid
        /\ TASK'[h].order = o
        /\ TASK'[h].state = "RUNNING"
        /\ TASK'[h].in_Queue = FALSE
    <3>1. TASK'[h] = [S[h] EXCEPT !.in_Queue = FALSE, !.state = "RUNNING"]
      BY Zenon, <2>2, <2>4, <1>2, ScannedSlots DEF TableOK, Table
    <3>2. DOMAIN S[h] = {"pid", "father_pid", "state", "order", "in_Queue", "counter", "signal"}
      BY <2>3 DEF Task
    <3>3. /\ TASK'[h].pid = S[h].pid
          /\ TASK'[h].father_pid = S[h].father_pid
          /\ TASK'[h].order = o
          /\ TASK'[h].state = "RUNNING"
          /\ TASK'[h].in_Queue = FALSE
      BY <3>1, <3>2, <2>3
    <3>4. TASK'[h] \in Task
      BY Zenon, <3>1, <2>3 DEF Task
    <3> QED
      BY <3>3, <3>4
  <2>6. \A i \in Slots : i # h => TASK'[i] = S[i]
    BY <2>2, <2>4, <1>2, ScannedSlots DEF TableOK, Table
  <2>7. Alive(TASK', h)
    BY <2>5, NullAssumption DEF Alive
  <2>8. \A i \in Slots : Alive(TASK', i) <=> Alive(S, i)
    BY <2>3, <2>6, <2>7 DEF Alive
  <2>9. TableOK(TASK')
    <3>1. TASK' \in Table
      BY Zenon, <2>2, <2>4, <2>5, <2>6, <1>2, ScannedSlots DEF TableOK, Table
    <3>2. Alive(TASK', 0)
      BY <2>8, <1>2, ScannedSlots DEF TableOK
    <3>3. ASSUME NEW i \in Scanned, Alive(TASK', i), TASK'[i].state # "ZOMBINE"
          PROVE  TASK'[i].order \in Orders
      BY <3>3, <2>5, <2>6, <2>8, <1>2, ScannedSlots DEF TableOK
    <3> QED
      BY <3>1, <3>2, <3>3 DEF TableOK
  <2>10. queue' \in Queues
    BY <1>2, <1>6, <2>2 DEF Queues, Dispatch
  <2>11. current' \in Slots
    BY <1>6, <2>2, ScannedSlots DEF h, Dispatch
  <2>12. SameProcs(T, TASK')
    <3>1. SameProcs(S, TASK')
      BY <2>3, <2>5, <2>6, <2>8 DEF SameProcs
    <3> QED
      BY <3>1, <1>4 DEF SameProcs
  <2>13. /\ queue'[o] = Tail(Q[o])
         /\ \A p \in Orders : p # o => queue'[p] = Q[p]
    BY <1>2, <1>6 DEF Queues, Dispatch
  <2>14. ASSUME NEW p \in Orders, NEW k \in 1 .. Len(queue'[p])
         PROVE  /\ queue'[p][k] \in Scanned
                /\ queue'[p][k] # h
                /\ \E l \in 1 .. Len(Q[p]) :
                     /\ Q[p][l] = queue'[p][k]
                     /\ l = IF p = o THEN k + 1 ELSE k
    <3>1. CASE p = o
      <4>1. k + 1 \in 1 .. Len(Q[o]) /\ queue'[p][k] = Q[o][k + 1]
        BY <3>1, <2>2, <2>13
      <4>2. Q[o][k + 1] \in Scanned
        BY <4>1, <2>1, ElementOfSeq
      <4>3. 1 \in 1 .. Len(Q[o]) /\ k + 1 # 1
        BY <2>2, <4>1
      <4>4. Q[o][k + 1] # Q[o][1]
        BY <4>1, <4>3, <1>2 DEF Agree
      <4> QED
        BY <3>1, <4>1, <4>2, <4>4, <2>2
    <3>2. CASE p # o
      <4>1. queue'[p] = Q[p]
        BY <3>2, <2>13
      <4>2. Q[p] \in Seq(Scanned)
        BY <1>2 DEF Queues
      <4>3. Q[p][k] \in Scanned
        BY <4>1, <4>2, ElementOfSeq
      <4>4. S[Q[p][k]].order = p
        BY <4>1, <1>2 DEF Agree
      <4> QED
        BY <3>2, <4>1, <4>3, <4>4, <2>3
    <3> QED
      BY <3>1, <3>2
  <2>15. QueueInv'
    <3>1. ASSUME NEW p \in Orders, NEW k \in 1 .. Len(queue'[p])
          PROVE  /\ Alive(TASK', queue'[p][k])
                 /\ TASK'[queue'[p][k]].in_Queue
                 /\ TASK'[queue'[p][k]].order = p
                 /\ TASK'[queue'[p][k]].state = "READY"
      <4>1. PICK l \in 1 .. Len(Q[p]) : Q[p][l] = queue'[p][k]
        BY <2>14
      <4>2. /\ Alive(S, Q[p][l])
            /\ S[Q[p][l]].in_Queue
            /\ S[Q[p][l]].order = p
            /\ S[Q[p][l]].state = "READY"
        <5>1. \A r \in Orders : \A m \in 1 .. Len(Q[r]) :
                /\ Alive(S, Q[r][m])
                /\ S[Q[r][m]].in_Queue
                /\ S[Q[r][m]].order = r
                /\ S[Q[r][m]].state = "READY"
          BY Zenon, <1>2 DEF Agree
        <5> QED
          BY <5>1
      <4>3. Q[p][l] \in Slots /\ Q[p][l] # h
        BY Zenon, <4>1, <2>14, ScannedSlots
      <4>4. TASK'[Q[p][l]] = S[Q[p][l]] /\ Alive(TASK', Q[p][l])
        BY <4>2, <4>3, <2>6, <2>8
      <4> QED
        BY <4>1, <4>2, <4>4
    <3>2. ASSUME NEW p \in Orders,
                 NEW k \in 1 .. Len(queue'[p]), NEW l \in 1 .. Len(queue'[p]),
                 queue'[p][k] = queue'[p][l]
          PROVE  k = l
      <4>1. PICK a \in 1 .. Len(Q[p]) :
              Q[p][a] = queue'[p][k] /\ a = IF p = o THEN k + 1 ELSE k
        BY <2>14
      <4>2. PICK b \in 1 .. Len(Q[p]) :
              Q[p][b] = queue'[p][l] /\ b = IF p = o THEN l + 1 ELSE l
        BY <2>14
      <4>3. a = b
        BY <3>2, <4>1, <4>2, <1>2 DEF Agree
      <4> QED
        BY <4>1, <4>2, <4>3
    <3>3. ASSUME NEW i \in Scanned, Alive(TASK', i), TASK'[i].in_Queue
          PROVE  \E p \in Orders : \E k \in 1 .. Len(queue'[p]) : queue'[p][k] = i
      <4>1. i # h /\ Alive(S, i) /\ S[i].in_Queue
        BY <3>3, <2>5, <2>6, <2>8, ScannedSlots
      <4>2. PICK p \in Orders : \E k \in 1 .. Len(Q[p]) : Q[p][k] = i
        BY <4>1, <1>2 DEF Agree
      <4>3. PICK k \in 1 .. Len(Q[p]) : Q[p][k] = i
        BY <4>2
      <4>4. CASE p = o
        <5>1. k # 1
          BY <4>1, <4>3, <4>4, <2>2
        <5>2. k - 1 \in 1 .. Len(Tail(Q[o])) /\ (k - 1) + 1 = k
          BY <5>1, <4>4, <2>2
        <5> QED
          BY Zenon, <4>3, <4>4, <5>2, <2>2, <2>13
      <4>5. CASE p # o
        BY <4>3, <4>5, <2>13
      <4> QED
        BY <4>4, <4>5
    <3> QED
      BY <3>1, <3>2, <3>3 DEF QueueInv, Agree, Alive
  <2>16. OneRunning'
    <3>1. current' = h /\ h # 0
      BY <1>6, <2>2, ScannedSlots DEF h, Dispatch
    <3>2. ASSUME NEW i \in Scanned, Alive(TASK', i)
          PROVE  TASK'[i].state = "RUNNING" <=> i = h
      BY <3>2, <2>5, <2>6, <2>8, <1>2, ScannedSlots DEF NoneRunning
    <3> QED
      BY <3>1, <3>2, <2>7 DEF OneRunning, Alive
  <2> QED
    BY <2>9, <2>10, <2>11, <2>12, <2>15, <2>16
<1> QED
  BY <1>3, <1>5, <1>6

-----------------------------------------------------------------------------
(* The process table *)

\* What holds of the processes in table T when n pids have been given out:
\* pids are unique, every task has a father that has not exited, and process 1
\* holds slot 1 for ever.
ProcsOK(T, n) ==
  /\ T[0].pid = 0 /\ T[0].state # "ZOMBINE"
  /\ \A i \in Scanned : Alive(T, i) => T[i].pid \in 1 .. n
  /\ \A i, j \in Slots : Alive(T, i) /\ Alive(T, j) /\ T[i].pid = T[j].pid => i = j
  /\ \A i \in Scanned : Alive(T, i) =>
       \E f \in Slots : /\ Alive(T, f)
                        /\ T[f].state # "ZOMBINE"
                        /\ T[f].pid = T[i].father_pid
  /\ n > 0 => Alive(T, 1) /\ T[1].pid = 1 /\ T[1].state # "ZOMBINE"

\* U is T with other signals, and perhaps tasks given to process 1.
Touched(T, U) ==
  /\ U \in Table
  /\ \A i \in Slots :
       /\ Alive(U, i) <=> Alive(T, i)
       /\ Alive(T, i) => /\ U[i].pid = T[i].pid
                         /\ U[i].state = T[i].state
                         /\ U[i].order = T[i].order
                         /\ U[i].in_Queue = T[i].in_Queue
                         /\ U[i].father_pid \in {T[i].father_pid, 1}

\* Rescheduling keeps what is known of the processes.
LEMMA SameProcsOK ==
  ASSUME NEW T, NEW U, NEW n, TableOK(T), SameProcs(T, U), ProcsOK(T, n)
  PROVE  ProcsOK(U, n)
<1>1. U[0].pid = 0 /\ U[0].state # "ZOMBINE"
  BY ScannedSlots DEF TableOK, SameProcs, ProcsOK
<1>2. ASSUME NEW i \in Scanned, Alive(U, i)
      PROVE  U[i].pid \in 1 .. n
  BY <1>2, ScannedSlots DEF SameProcs, ProcsOK
<1>3. ASSUME NEW i \in Slots, NEW j \in Slots,
             Alive(U, i), Alive(U, j), U[i].pid = U[j].pid
      PROVE  i = j
  BY <1>3 DEF SameProcs, ProcsOK
<1>4. ASSUME NEW i \in Scanned, Alive(U, i)
      PROVE  \E f \in Slots : /\ Alive(U, f)
                              /\ U[f].state # "ZOMBINE"
                              /\ U[f].pid = U[i].father_pid
  <2>1. Alive(T, i) /\ U[i].father_pid = T[i].father_pid
    BY <1>4, ScannedSlots DEF SameProcs
  <2>2. PICK f \in Slots : /\ Alive(T, f)
                           /\ T[f].state # "ZOMBINE"
                           /\ T[f].pid = T[i].father_pid
    BY <2>1 DEF ProcsOK
  <2> QED
    BY <2>1, <2>2 DEF SameProcs
<1>5. n > 0 => Alive(U, 1) /\ U[1].pid = 1 /\ U[1].state # "ZOMBINE"
  BY ScannedSlots DEF SameProcs, ProcsOK
<1> QED
  BY <1>1, <1>2, <1>3, <1>4, <1>5 DEF ProcsOK

\* Signals and fathers do not matter to the queues.
LEMMA TouchedOK ==
  ASSUME NEW T, NEW U, NEW Q, TableOK(T), Q \in Queues, Agree(T, Q), Touched(T, U)
  PROVE  TableOK(U) /\ Agree(U, Q)
<1>1. TableOK(U)
  BY ScannedSlots, Zenon DEF TableOK, Touched
<1>2. ASSUME NEW o \in Orders, NEW k \in 1 .. Len(Q[o])
      PROVE  /\ Alive(U, Q[o][k])
             /\ U[Q[o][k]].in_Queue
             /\ U[Q[o][k]].order = o
             /\ U[Q[o][k]].state = "READY"
  <2>1. Q[o][k] \in Slots
    BY ElementOfSeq, ScannedSlots, Zenon DEF Queues
  <2> QED
    BY <2>1 DEF Agree, Touched
<1>3. ASSUME NEW i \in Scanned, Alive(U, i), U[i].in_Queue
      PROVE  \E o \in Orders : \E k \in 1 .. Len(Q[o]) : Q[o][k] = i
  <2>1. Alive(T, i) /\ T[i].in_Queue
    BY <1>3, ScannedSlots DEF Touched
  <2> QED
    BY <2>1 DEF Agree
<1> QED
  BY <1>1, <1>2, <1>3 DEF Agree

\* A slot that is in no queue may change, as long as it stays unqueued.
LEMMA UpdateSlot ==
  ASSUME NEW T, NEW Q, NEW c \in Scanned, NEW t \in Task \cup {NULL},
         TableOK(T), Q \in Queues, Agree(T, Q),
         Alive(T, c) => T[c].in_Queue = FALSE,
         t # NULL => /\ t.in_Queue = FALSE
                     /\ t.state # "ZOMBINE" => t.order \in Orders
  PROVE  TableOK([T EXCEPT ![c] = t]) /\ Agree([T EXCEPT ![c] = t], Q)
<1> DEFINE U == [T EXCEPT ![c] = t]
<1>1. /\ c \in Slots /\ c # 0
      /\ U \in Table /\ U[c] = t
      /\ \A i \in Slots : i # c => U[i] = T[i]
  BY ScannedSlots DEF TableOK, Table
<1> HIDE DEF U
<1>2. \A i \in Slots : i # c => (Alive(U, i) <=> Alive(T, i))
  BY <1>1 DEF Alive
<1>3. TableOK(U)
  <2>1. Alive(U, 0)
    BY <1>1, <1>2, ScannedSlots DEF TableOK
  <2>2. ASSUME NEW i \in Scanned, Alive(U, i), U[i].state # "ZOMBINE"
        PROVE  U[i].order \in Orders
    <3>1. CASE i = c
      BY <2>2, <3>1, <1>1 DEF Alive
    <3>2. CASE i # c
      BY <2>2, <3>2, <1>1, <1>2, ScannedSlots DEF TableOK
    <3> QED
      BY <3>1, <3>2
  <2> QED
    BY <1>1, <2>1, <2>2 DEF TableOK
<1>4. ASSUME NEW o \in Orders, NEW k \in 1 .. Len(Q[o])
      PROVE  /\ Alive(U, Q[o][k])
             /\ U[Q[o][k]].in_Queue
             /\ U[Q[o][k]].order = o
             /\ U[Q[o][k]].state = "READY"
  <2>1. Q[o][k] \in Slots
    BY ElementOfSeq, ScannedSlots, Zenon DEF Queues
  <2>2. Alive(T, Q[o][k]) /\ T[Q[o][k]].in_Queue
    BY DEF Agree
  <2>3. Q[o][k] # c
    BY <2>2
  <2> QED
    BY <2>1, <2>3, <1>1, <1>2 DEF Agree
<1>5. ASSUME NEW i \in Scanned, Alive(U, i), U[i].in_Queue
      PROVE  \E o \in Orders : \E k \in 1 .. Len(Q[o]) : Q[o][k] = i
  <2>1. i # c
    BY <1>5, <1>1 DEF Alive
  <2>2. Alive(T, i) /\ T[i].in_Queue
    BY <1>5, <2>1, <1>1, <1>2, ScannedSlots
  <2> QED
    BY <2>2 DEF Agree
<1>6. Agree(U, Q)
  BY <1>4, <1>5 DEF Agree
<1> QED
  BY <1>3, <1>6 DEF U

\* The call of schedule() that ends most handlers.
LEMMA ScheduleStep ==
  ASSUME NEW T, TableOK(T), queue \in Queues, Agree(T, queue),
         ProcsOK(T, NEW_PID), schedule(T), NEW_PID' = NEW_PID
  PROVE  /\ TableOK(TASK')
         /\ queue' \in Queues
         /\ current' \in Slots
         /\ QueueInv'
         /\ OneRunning'
         /\ ProcsOK(TASK', NEW_PID')
<1>1. /\ TableOK(TASK')
      /\ queue' \in Queues
      /\ current' \in Slots
      /\ QueueInv'
      /\ OneRunning'
      /\ SameProcs(T, TASK')
  BY ScheduleOK
<1>2. ProcsOK(TASK', NEW_PID)
  BY <1>1, SameProcsOK
<1> QED
  BY <1>1, <1>2

-----------------------------------------------------------------------------
(* The inductive invariant *)

\* What every handler keeps: the typing, the agreement of queues and tasks,
\* the one running task and the facts on processes, which together are
\* inductive.  Task 0 never blocks inside the kernel.
IInv ==
  /\ TypeOK
  /\ TableOK(TASK)
  /\ QueueInv
  /\ OneRunning
  /\ ProcsOK(TASK, NEW_PID)
  /\ kctx[0] = "user"

\* The running task is in no queue: schedule() took its node away.
LEMMA CurrentUnqueued ==
  ASSUME IInv, current # 0
  PROVE  /\ current \in Scanned
         /\ Alive(TASK, current)
         /\ TASK[current] \in Task
         /\ TASK[current].state = "RUNNING"
         /\ TASK[current].order \in Orders
         /\ TASK[current].in_Queue = FALSE
<1>1. current \in Scanned /\ Alive(TASK, current)
  BY ScannedSlots DEF IInv, TypeOK, OneRunning
<1>2. TASK[current] \in Task /\ TASK[current].state = "RUNNING"
  BY <1>1, ScannedSlots DEF IInv, TypeOK, OneRunning, Alive
<1>3. TASK[current].order \in Orders
  BY <1>1, <1>2 DEF IInv, TableOK
<1>4. TASK[current].in_Queue \in BOOLEAN
  BY <1>2 DEF Task
<1>5. ASSUME TASK[current].in_Queue
      PROVE  FALSE
  <2>1. PICK o \in Orders : \E k \in 1 .. Len(queue[o]) : queue[o][k] = current
    BY <1>1, <1>5 DEF IInv, QueueInv, Agree
  <2>2. PICK k \in 1 .. Len(queue[o]) : queue[o][k] = current
    BY <2>1
  <2>3. TASK[current].state = "READY"
    BY <2>2 DEF IInv, QueueInv, Agree
  <2> QED
    BY <1>2, <2>3
<1> QED
  BY <1>1, <1>2, <1>3, <1>4, <1>5

\* The parts of IInv the lemmas on queues ask for.
LEMMA IInvFacts ==
  ASSUME IInv
  PROVE  /\ TASK \in Table
         /\ queue \in Queues
         /\ Agree(TASK, queue)
  BY DEF IInv, TypeOK, TableOK, QueueInv, Queues

\* The invariant holds when kernel_start() has set up task 0.
LEMMA InitIInv == Init => IInv
<1> SUFFICES ASSUME Init
             PROVE  IInv
  OBVIOUS
<1>1. INIT_TASK \in Task
  BY SchedAssumption DEF INIT_TASK, Task, Pids, Orders, LOW
<1>2. /\ TASK[0] = INIT_TASK
      /\ \A i \in Scanned : TASK[i] = NULL
      /\ TASK \in Table
  BY <1>1, ScannedSlots DEF Init, Table
<1>3. Alive(TASK, 0) /\ \A i \in Scanned : ~Alive(TASK, i)
  BY <1>1, <1>2, NullAssumption DEF Alive
<1>4. TypeOK
  <2>1. <<>> \in Seq(Scanned)
    BY EmptySeq
  <2>2. /\ TASK \in [Slots -> Task \cup {NULL}]
        /\ queue \in [Orders -> Seq(Scanned)]
    BY <1>2, <2>1 DEF Init, Table
  <2>3. current \in Slots /\ pending \subseteq Scanned /\ panicked \in BOOLEAN
    BY Zenon, ScannedSlots DEF Init
  <2>4. /\ NEW_PID \in Pids
        /\ kctx \in [Slots -> {"user", "waitpid", "disk"}]
        /\ wpid \in [Slots -> WaitArgs]
    BY SchedAssumption DEF Init, Pids, WaitArgs
  <2> QED
    BY <2>2, <2>3, <2>4 DEF TypeOK
<1>5. TableOK(TASK)
  BY <1>2, <1>3 DEF TableOK
<1>6. \A o \in Orders : queue[o] = <<>> /\ 1 .. Len(queue[o]) = {}
  BY EmptySeq DEF Init
<1>7. QueueInv
  BY <1>3, <1>6 DEF QueueInv, Agree
<1>8. OneRunning
  BY <1>3, <1>6 DEF OneRunning, Init
<1>9. ProcsOK(TASK, NEW_PID)
  <2>1. \A i \in Slots : Alive(TASK, i) => i = 0
    BY <1>3, ScannedSlots
  <2>2. TASK[0].pid = 0 /\ TASK[0].state # "ZOMBINE"
    BY <1>2 DEF INIT_TASK
  <2>3. ~(NEW_PID > 0)
    BY DEF Init
  <2> QED
    BY <1>3, <2>1, <2>2, <2>3 DEF ProcsOK
<1>10. kctx[0] = "user"
  BY ScannedSlots DEF Init
<1> QED
  BY <1>4, <1>5, <1>7, <1>8, <1>9, <1>10 DEF IInv

\* Handlers that update the running task and call schedule() keep IInv.
LEMMA RescheduleCurrent ==
  ASSUME IInv, current # 0, NEW t \in Task,
         t.pid = TASK[current].pid, t.father_pid = TASK[current].father_pid,
         t.state # "ZOMBINE", t.order = TASK[current].order, t.in_Queue = FALSE,
         schedule([TASK EXCEPT ![current] = t]), NEW_PID' = NEW_PID,
         kctx' \in [Slots -> {"user", "waitpid", "disk"}], kctx'[0] = "user",
         wpid' \in [Slots -> WaitArgs], pending' \subseteq Scanned,
         panicked' \in BOOLEAN
  PROVE  IInv'
<1> DEFINE T == [TASK EXCEPT ![current] = t]
<1>1. TableOK(T) /\ Agree(T, queue)
  BY Zenon, CurrentUnqueued, IInvFacts, UpdateSlot DEF IInv
<1>2. SameProcs(TASK, T)
  <2>1. /\ T[current] = t /\ t # NULL
        /\ \A i \in Slots : i # current => T[i] = TASK[i]
    BY Zenon, CurrentUnqueued, IInvFacts, ScannedSlots, NullAssumption DEF Table
  <2> HIDE DEF T
  <2> QED
    BY <2>1, CurrentUnqueued DEF SameProcs, Alive
<1>3. ProcsOK(T, NEW_PID)
  BY <1>2, SameProcsOK DEF IInv
<1> HIDE DEF T
<1>4. /\ TableOK(TASK')
      /\ queue' \in Queues
      /\ current' \in Slots
      /\ QueueInv'
      /\ OneRunning'
      /\ ProcsOK(TASK', NEW_PID')
  BY <1>1, <1>3, ScheduleStep, IInvFacts DEF T
<1>5. TypeOK'
  BY <1>4 DEF TypeOK, TableOK, Table, Queues, IInv
<1> QED
  BY <1>4, <1>5 DEF IInv

\* Handlers that update the running task and return to it keep IInv.
LEMMA KeepCurrent ==
  ASSUME IInv, current # 0, NEW t \in Task,
         t.pid = TASK[current].pid, t.father_pid = TASK[current].father_pid,
         t.state = "RUNNING", t.order = TASK[current].order, t.in_Queue = FALSE,
         TASK' = [TASK EXCEPT ![current] = t],
         UNCHANGED <<queue, current, NEW_PID>>,
         kctx' \in [Slots -> {"user", "waitpid", "disk"}], kctx'[0] = "user",
         wpid' \in [Slots -> WaitArgs], pending' \subseteq Scanned,
         panicked' \in BOOLEAN
  PROVE  IInv'
<1>1. TableOK(TASK') /\ Agree(TASK', queue)
  BY Zenon, CurrentUnqueued, IInvFacts, UpdateSlot DEF IInv
<1>2. /\ TASK'[current] = t /\ t # NULL
      /\ \A i \in Slots : i # current => TASK'[i] = TASK[i]
  BY Zenon, CurrentUnqueued, IInvFacts, ScannedSlots, NullAssumption DEF Table
<1>3. SameProcs(TASK, TASK')
  BY <1>2, CurrentUnqueued DEF SameProcs, Alive
<1>4. ProcsOK(TASK', NEW_PID')
  BY <1>3, SameProcsOK DEF IInv
<1>5. QueueInv'
  BY <1>1 DEF QueueInv, Agree, Alive
<1>6. OneRunning'
  BY <1>2, ScannedSlots, CurrentUnqueued DEF OneRunning, IInv, Alive
<1>7. TypeOK'
  BY <1>1 DEF TypeOK, TableOK, Table, IInv
<1> QED
  BY <1>1, <1>4, <1>5, <1>6, <1>7 DEF IInv

\* release() of an exited child, and clearing signals of the running task.
LEMMA ReapOK ==
  ASSUME IInv, current # 0, NEW t \in Task,
         t.pid = TASK[current].pid, t.father_pid = TASK[current].father_pid,
         t.state = "RUNNING", t.order = TASK[current].order, t.in_Queue = FALSE,
         NEW i \in Scanned, i # current, Alive(TASK, i), TASK[i].state = "ZOMBINE",
         TASK' = [[TASK EXCEPT ![current] = t] EXCEPT ![i] = NULL],
         UNCHANGED <<queue, current, NEW_PID, pending, panicked>>,
         kctx' \in [Slots -> {"user", "waitpid", "disk"}], kctx'[0] = "user",
         wpid' \in [Slots -> WaitArgs]
  PROVE  IInv'
<1> DEFINE T == [TASK EXCEPT ![current] = t]
<1>1. TableOK(T) /\ Agree(T, queue)
  BY Zenon, CurrentUnqueued, IInvFacts, UpdateSlot DEF IInv
<1>2. /\ T[current] = t /\ t # NULL /\ current \in Slots
      /\ \A j \in Slots : j # current => T[j] = TASK[j]
  BY CurrentUnqueued, IInvFacts, ScannedSlots, NullAssumption DEF Table
<1>3. TASK' = [T EXCEPT ![i] = NULL]
  OBVIOUS
<1> HIDE DEF T
<1>4. T[i] \in Task /\ T[i].in_Queue = FALSE
  <2>1. T[i] = TASK[i] /\ Alive(T, i) /\ T[i] \in Task
    BY <1>1, <1>2, ScannedSlots DEF TableOK, Table, Alive
  <2>2. T[i].in_Queue \in BOOLEAN
    BY <2>1 DEF Task
  <2>3. ASSUME T[i].in_Queue
        PROVE  FALSE
    <3>1. PICK o \in Orders : \E k \in 1 .. Len(queue[o]) : queue[o][k] = i
      BY <2>1, <2>3, <1>1 DEF Agree
    <3>2. PICK k \in 1 .. Len(queue[o]) : queue[o][k] = i
      BY <3>1
    <3>3. T[i].state = "READY"
      BY <3>2, <1>1 DEF Agree
    <3> QED
      BY <2>1, <3>3
  <2> QED
    BY <2>1, <2>2, <2>3
<1>5. TableOK(TASK') /\ Agree(TASK', queue)
  <2>1. NULL \in Task \cup {NULL} /\ queue \in Queues
    BY IInvFacts
  <2>2. /\ TableOK([T EXCEPT ![i] = NULL])
        /\ Agree([T EXCEPT ![i] = NULL], queue)
    BY Zenon, <1>1, <1>4, <2>1, UpdateSlot
  <2> QED
    BY Zenon, <1>3, <2>2
<1>6. /\ TASK'[i] = NULL /\ TASK'[current] = t
      /\ \A j \in Slots : j \notin {i, current} => TASK'[j] = TASK[j]
  <2>1. T \in [Slots -> Task \cup {NULL}] /\ i \in Slots
    BY <1>1, ScannedSlots DEF TableOK, Table
  <2>2. TASK'[i] = NULL /\ \A j \in Slots : j # i => TASK'[j] = T[j]
    BY <1>3, <2>1
  <2> QED
    BY <1>2, <2>2, Zenon
<1>7. \A j \in Slots : /\ Alive(TASK', j) <=> j # i /\ Alive(TASK, j)
                       /\ Alive(TASK', j) =>
                            /\ TASK'[j].pid = TASK[j].pid
                            /\ TASK'[j].father_pid = TASK[j].father_pid
                            /\ TASK'[j].state = TASK[j].state
  <2>1. Alive(TASK, current) /\ TASK[current].state = "RUNNING"
    BY Zenon, CurrentUnqueued
  <2>2. ASSUME NEW j \in Slots
        PROVE  /\ Alive(TASK', j) <=> j # i /\ Alive(TASK, j)
               /\ Alive(TASK', j) => /\ TASK'[j].pid = TASK[j].pid
                                     /\ TASK'[j].father_pid = TASK[j].father_pid
                                     /\ TASK'[j].state = TASK[j].state
    <3>1. CASE j = i
      BY <3>1, <1>6 DEF Alive
    <3>2. CASE j = current
      BY <3>2, <1>2, <1>6, <2>1 DEF Alive
    <3>3. CASE j \notin {i, current}
      BY <3>3, <1>6, Zenon DEF Alive
    <3> QED
      BY <3>1, <3>2, <3>3
  <2> QED
    BY Zenon, <2>2
<1>8. ProcsOK(TASK', NEW_PID)
  <2>1. Alive(TASK, 0) /\ i # 0
    BY ScannedSlots DEF IInv, TableOK
  <2>2. TASK'[0].pid = 0 /\ TASK'[0].state # "ZOMBINE"
    BY Zenon, <2>1, <1>7, ScannedSlots DEF IInv, ProcsOK
  <2>3. \A j \in Scanned : Alive(TASK', j) => TASK'[j].pid \in 1 .. NEW_PID
    BY Zenon, <1>7, ScannedSlots DEF IInv, ProcsOK
  <2>4. \A j, k \in Slots :
          Alive(TASK', j) /\ Alive(TASK', k) /\ TASK'[j].pid = TASK'[k].pid => j = k
    BY <1>7 DEF IInv, ProcsOK
  <2>5. ASSUME NEW j \in Scanned, Alive(TASK', j)
        PROVE  \E f \in Slots : /\ Alive(TASK', f)
                                /\ TASK'[f].state # "ZOMBINE"
                                /\ TASK'[f].pid = TASK'[j].father_pid
    <3>1. Alive(TASK, j) /\ TASK'[j].father_pid = TASK[j].father_pid
      BY Zenon, <2>5, <1>7, ScannedSlots
    <3>2. PICK f \in Slots : /\ Alive(TASK, f)
                             /\ TASK[f].state # "ZOMBINE"
                             /\ TASK[f].pid = TASK[j].father_pid
      BY <3>1 DEF IInv, ProcsOK
    <3> QED
      BY Zenon, <3>1, <3>2, <1>7
  <2>6. NEW_PID > 0 => Alive(TASK', 1) /\ TASK'[1].pid = 1 /\ TASK'[1].state # "ZOMBINE"
    BY Zenon, <1>7, ScannedSlots DEF IInv, ProcsOK
  <2> QED
    BY Zenon, <2>2, <2>3, <2>4, <2>5, <2>6 DEF ProcsOK
<1>9. QueueInv'
  <2>1. Agree(TASK', queue')
    BY <1>5
  <2> QED
    BY Zenon, <2>1 DEF QueueInv, Agree, Alive
<1>10. OneRunning'
  <2>1. \A j \in Scanned : Alive(TASK', j) => (TASK'[j].state = "RUNNING" <=> j = current)
    BY Zenon, <1>7, ScannedSlots DEF IInv, OneRunning
  <2>2. Alive(TASK', current)
    BY Zenon, <1>2, <1>7, CurrentUnqueued
  <2> QED
    BY Zenon, <2>1, <2>2 DEF OneRunning, Alive
<1>11. TypeOK'
  BY <1>5 DEF TypeOK, TableOK, Table, IInv
<1> QED
  BY <1>5, <1>8, <1>9, <1>10, <1>11 DEF IInv

\* One pass of waitpid's loop, whose signals t may already have cleared.
LEMMA WaitpidPassOK ==
  ASSUME IInv, current # 0, NEW t \in Task, NEW arg \in WaitArgs,
         t.pid = TASK[current].pid, t.father_pid = TASK[current].father_pid,
         t.state = "RUNNING", t.order = TASK[current].order, t.in_Queue = FALSE,
         WaitpidPass([TASK EXCEPT ![current] = t], arg),
         UNCHANGED <<NEW_PID, pending, panicked>>
  PROVE  IInv'
<1> DEFINE T == [TASK EXCEPT ![current] = t]
<1>1. /\ TASK \in Table /\ current \in Slots /\ 0 \in Slots /\ T[current] = t
      /\ kctx \in [Slots -> {"user", "waitpid", "disk"}] /\ kctx[0] = "user"
      /\ wpid \in [Slots -> WaitArgs] /\ 0 \in WaitArgs
      /\ pending \subseteq Scanned /\ panicked \in BOOLEAN
  BY IInvFacts, CurrentUnqueued, ScannedSlots, SchedAssumption
     DEF IInv, TypeOK, Table, WaitArgs, Pids
<1>2. ASSUME NEW i \in Exited(arg), TASK' = [T EXCEPT ![i] = NULL],
             kctx' = [kctx EXCEPT ![current] = "user"],
             wpid' = [wpid EXCEPT ![current] = 0],
             UNCHANGED <<queue, current>>
      PROVE  IInv'
  <2>1. i \in Scanned /\ i # current /\ Alive(TASK, i) /\ TASK[i].state = "ZOMBINE"
    BY DEF Exited, Matching
  <2>2. /\ kctx' \in [Slots -> {"user", "waitpid", "disk"}] /\ kctx'[0] = "user"
        /\ wpid' \in [Slots -> WaitArgs]
    BY <1>1, <1>2
  <2> QED
    BY Zenon, <1>2, <2>1, <2>2, ReapOK
<1>3. ASSUME schedule([T EXCEPT ![current] =
                         [@ EXCEPT !.state = "WAIT", !.in_Queue = FALSE]]),
             kctx' = [kctx EXCEPT ![current] = "waitpid"],
             wpid' = [wpid EXCEPT ![current] = arg]
      PROVE  IInv'
  <2> DEFINE u == [t EXCEPT !.state = "WAIT", !.in_Queue = FALSE]
  <2>1. /\ u \in Task
        /\ u.pid = t.pid /\ u.father_pid = t.father_pid
        /\ u.state = "WAIT" /\ u.order = t.order /\ u.in_Queue = FALSE
    BY Zenon DEF Task
  <2>2. [T EXCEPT ![current] = [@ EXCEPT !.state = "WAIT", !.in_Queue = FALSE]]
          = [TASK EXCEPT ![current] = u]
    BY Zenon, <1>1 DEF Table
  <2> HIDE DEF u, T
  <2>3. schedule([TASK EXCEPT ![current] = u])
    BY <1>3, <2>2
  <2>4. /\ kctx' \in [Slots -> {"user", "waitpid", "disk"}] /\ kctx'[0] = "user"
        /\ wpid' \in [Slots -> WaitArgs]
    BY <1>1, <1>3
  <2>5. u.state # "ZOMBINE"
    BY <2>1
  <2> QED
    BY Zenon, <1>1, <2>1, <2>3, <2>4, <2>5, RescheduleCurrent
<1>4. ASSUME TASK' = T,
             kctx' = [kctx EXCEPT ![current] = "user"],
             wpid' = [wpid EXCEPT ![current] = 0],
             UNCHANGED <<queue, current>>
      PROVE  IInv'
  <2>1. /\ kctx' \in [Slots -> {"user", "waitpid", "disk"}] /\ kctx'[0] = "user"
        /\ wpid' \in [Slots -> WaitArgs]
    BY <1>1, <1>4
  <2> QED
    BY Zenon, <1>1, <1>4, <2>1, KeepCurrent
<1> QED
  BY <1>2, <1>3, <1>4 DEF WaitpidPass, release

\* tell_father() finds at most one task, sets a signal, and gives the current
\* task at most a new father, process 1.
LEMMA TellFatherOK ==
  ASSUME NEW T, NEW pid, T \in Table, current \in Scanned,
         Alive(T, current), Alive(T, 1),
         \A i, j \in Slots : Alive(T, i) /\ Alive(T, j) /\ T[i].pid = T[j].pid => i = j
  PROVE  Touched(T, tell_father(T, pid))
<1> DEFINE F == {i \in Scanned : Alive(T, i) /\ T[i].pid = pid}
           first == CHOOSE i \in F : \A j \in F : i <= j
           W == tell_father(T, pid)
           U == [T EXCEPT ![current].father_pid = 1]
<1>1. W = IF pid # 0 /\ F # {}
          THEN [T EXCEPT ![first].signal = @ \cup {"CHLD"}]
          ELSE [U EXCEPT ![1].signal = @ \cup {"CHLD"}]
  BY DEF tell_father
<1>2. 1 \in Slots /\ current \in Slots /\ 1 \in Pids
  BY ScannedSlots, SchedAssumption DEF Pids
<1>3. ASSUME NEW g \in Slots, NEW V, V \in Table, Alive(V, g)
      PROVE  Touched(V, [V EXCEPT ![g].signal = @ \cup {"CHLD"}])
  <2> DEFINE X == [V EXCEPT ![g].signal = @ \cup {"CHLD"}]
             x == [V[g] EXCEPT !.signal = V[g].signal \cup {"CHLD"}]
  <2>1. V[g] \in Task
    BY <1>3 DEF Table, Alive
  <2>2. /\ x \in Task
        /\ x.pid = V[g].pid /\ x.state = V[g].state /\ x.order = V[g].order
        /\ x.in_Queue = V[g].in_Queue /\ x.father_pid = V[g].father_pid
    BY <2>1 DEF Task
  <2>9. X = [V EXCEPT ![g] = x]
    BY <1>3 DEF Table
  <2> HIDE DEF x, X
  <2>3. /\ X \in Table /\ X[g] = x
        /\ \A i \in Slots : i # g => X[i] = V[i]
    BY <1>3, <2>2, <2>9 DEF Table
  <2>4. x # NULL
    BY <2>2, NullAssumption
  <2> HIDE DEF X
  <2>5. Touched(V, X)
    BY <1>3, <2>2, <2>3, <2>4 DEF Touched, Alive
  <2> QED
    BY <2>5 DEF X
<1>4. CASE pid # 0 /\ F # {}
  <2>1. PICK f \in F : TRUE
    BY <1>4
  <2>2. \A j \in F : j = f
    BY <2>1, ScannedSlots
  <2>3. \E i \in F : \A j \in F : i <= j
    BY <2>1, <2>2, ScannedSlots
  <2>4. first \in F
    BY <2>3
  <2>5. first \in Slots /\ Alive(T, first)
    BY Zenon, <2>4, ScannedSlots
  <2> HIDE DEF first
  <2> QED
    BY <1>1, <1>3, <1>4, <2>5
<1>5. CASE ~(pid # 0 /\ F # {})
  <2> DEFINE u == [T[current] EXCEPT !.father_pid = 1]
  <2>1. T[current] \in Task
    BY <1>2 DEF Table, Alive
  <2>2. /\ u \in Task
        /\ u.pid = T[current].pid /\ u.state = T[current].state
        /\ u.order = T[current].order
        /\ u.in_Queue = T[current].in_Queue /\ u.father_pid = 1
    BY <2>1, <1>2 DEF Task
  <2> HIDE DEF u
  <2>3. /\ U \in Table /\ U[current] = u
        /\ \A i \in Slots : i # current => U[i] = T[i]
    BY <1>2, <2>2 DEF Table, u
  <2>4. u # NULL
    BY <2>2, NullAssumption
  <2> HIDE DEF U, F, W
  <2>5. Touched(T, U)
    BY <2>2, <2>3, <2>4 DEF Touched, Alive
  <2>6. Alive(U, 1)
    BY <1>2, <2>5 DEF Touched
  <2>7. Touched(U, W)
    BY <1>1, <1>2, <1>3, <1>5, <2>3, <2>6
  <2>8. Touched(T, W)
    BY <2>5, <2>7 DEF Touched
  <2> QED
    BY <2>8 DEF W
<1> QED
  BY <1>4, <1>5

\* W is T after tell_father(pid): the task with that pid is told and the
\* current task keeps its father; if there is none, process 1 becomes the
\* father and is told.
Told(T, W, pid) ==
  /\ \A i \in Scanned : Alive(T, i) =>
       /\ W[i].signal \in {T[i].signal, T[i].signal \cup {"CHLD"}}
       /\ i # current => W[i].father_pid = T[i].father_pid
  /\ \A f \in Scanned : Alive(T, f) /\ T[f].pid = pid =>
       "CHLD" \in W[f].signal /\ W[current].father_pid = T[current].father_pid
  /\ (\A f \in Scanned : Alive(T, f) => T[f].pid # pid) =>
       "CHLD" \in W[1].signal /\ W[current].father_pid = 1

LEMMA TellFatherTells ==
  ASSUME NEW T, NEW pid, T \in Table, current \in Scanned,
         Alive(T, current), Alive(T, 1),
         \A i, j \in Slots : Alive(T, i) /\ Alive(T, j) /\ T[i].pid = T[j].pid => i = j,
         \A i \in Scanned : Alive(T, i) => T[i].pid # 0
  PROVE  Told(T, tell_father(T, pid), pid)
<1> DEFINE F == {i \in Scanned : Alive(T, i) /\ T[i].pid = pid}
           first == CHOOSE i \in F : \A j \in F : i <= j
           W == tell_father(T, pid)
           U == [T EXCEPT ![current].father_pid = 1]
<1>1. W = IF pid # 0 /\ F # {}
          THEN [T EXCEPT ![first].signal = @ \cup {"CHLD"}]
          ELSE [U EXCEPT ![1].signal = @ \cup {"CHLD"}]
  BY DEF tell_father
<1>2. 1 \in Slots /\ current \in Slots /\ 1 \in Pids
  BY ScannedSlots, SchedAssumption DEF Pids
<1>3. ASSUME NEW g \in Slots, NEW V, V \in Table, Alive(V, g), NEW i \in Slots
      PROVE  LET X == [V EXCEPT ![g].signal = @ \cup {"CHLD"}]
             IN  /\ i = g => /\ X[i].signal = V[i].signal \cup {"CHLD"}
                            /\ X[i].father_pid = V[i].father_pid
                 /\ i # g => X[i] = V[i]
  <2> DEFINE x == [V[g] EXCEPT !.signal = V[g].signal \cup {"CHLD"}]
  <2>1. V[g] \in Task
    BY <1>3 DEF Table, Alive
  <2>2. x.signal = V[g].signal \cup {"CHLD"} /\ x.father_pid = V[g].father_pid
    BY <2>1 DEF Task
  <2>3. [V EXCEPT ![g].signal = @ \cup {"CHLD"}] = [V EXCEPT ![g] = x]
    OBVIOUS
  <2> HIDE DEF x
  <2> QED
    BY <1>3, <2>2, <2>3 DEF Table
<1>4. ASSUME NEW f \in F
      PROVE  Told(T, W, pid)
  <2>1. f \in Scanned /\ f \in Slots /\ Alive(T, f) /\ T[f].pid = pid /\ pid # 0
    BY <1>4, ScannedSlots
  <2>2. \A j \in F : j = f
    BY <1>4, ScannedSlots
  <2>3. \E i \in F : \A j \in F : i <= j
    BY <1>4, <2>1, <2>2, ScannedSlots
  <2>4. first = f
    BY <2>2, <2>3
  <2>5. W = [T EXCEPT ![f].signal = @ \cup {"CHLD"}]
    BY <1>1, <1>4, <2>1, <2>4, Zenon
  <2> HIDE DEF W, F, first
  <2>6. ASSUME NEW i \in Scanned
        PROVE  /\ i = f => /\ W[i].signal = T[i].signal \cup {"CHLD"}
                          /\ W[i].father_pid = T[i].father_pid
               /\ i # f => W[i] = T[i]
    BY <1>3, <2>1, <2>5, ScannedSlots
  <2>7. \A i \in Scanned : Alive(T, i) /\ T[i].pid = pid => i = f
    BY <2>1, ScannedSlots
  <2> QED
    BY <2>1, <2>6, <2>7 DEF Told
<1>5. CASE F = {}
  <2> DEFINE u == [T[current] EXCEPT !.father_pid = 1]
  <2>1. T[current] \in Task
    BY <1>2 DEF Table, Alive
  <2>2. u \in Task /\ u.father_pid = 1 /\ u.signal = T[current].signal
    BY <2>1, <1>2 DEF Task
  <2> HIDE DEF u
  <2>3. /\ U \in Table /\ U[current] = u
        /\ \A i \in Slots : i # current => U[i] = T[i]
    BY <1>2, <2>2 DEF Table, u
  <2>4. Alive(U, 1)
    BY <1>2, <2>2, <2>3, NullAssumption DEF Alive
  <2>5. W = [U EXCEPT ![1].signal = @ \cup {"CHLD"}]
    BY <1>1, <1>5
  <2>6. \A i \in Scanned : Alive(T, i) => T[i].pid # pid
    BY <1>5
  <2> HIDE DEF U, F, W
  <2>7. ASSUME NEW i \in Scanned
        PROVE  /\ i = 1 => /\ W[i].signal = U[i].signal \cup {"CHLD"}
                          /\ W[i].father_pid = U[i].father_pid
               /\ i # 1 => W[i] = U[i]
    BY <1>2, <1>3, <2>3, <2>4, <2>5, ScannedSlots
  <2>8. ASSUME NEW i \in Scanned
        PROVE  /\ U[i].signal = T[i].signal
               /\ i # current => U[i].father_pid = T[i].father_pid
    BY <2>2, <2>3, ScannedSlots
  <2>9. ASSUME NEW i \in Scanned
        PROVE  /\ W[i].signal \in {T[i].signal, T[i].signal \cup {"CHLD"}}
               /\ i # current => W[i].father_pid = T[i].father_pid
    BY <2>7, <2>8
  <2>10. "CHLD" \in W[1].signal /\ W[current].father_pid = 1
    BY <2>2, <2>3, <2>7, ScannedSlots
  <2>11. Told(T, W, pid)
    BY <2>6, <2>9, <2>10 DEF Told
  <2> QED
    BY <2>11 DEF W
<1> QED
  BY <1>4, <1>5

\* R is the table after the first loop of do_exit() for process pid: its
\* children have father 1, which is told if one of them has exited.
Reparented(R, pid) ==
  /\ \A i \in Scanned : Alive(TASK, i) =>
       /\ R[i].signal \in {TASK[i].signal, TASK[i].signal \cup {"CHLD"}}
       /\ R[i].father_pid = IF TASK[i].father_pid = pid THEN 1 ELSE TASK[i].father_pid
  /\ \A i \in Children(TASK, pid) : TASK[i].state = "ZOMBINE" => "CHLD" \in R[1].signal

\* The first loop of do_exit() leaves no child of the exiting process.
LEMMA ReparentOK ==
  ASSUME IInv, current \in Scanned, TASK[current].pid > 1
  PROVE  /\ Touched(TASK, Reparent(TASK, TASK[current].pid))
         /\ Reparented(Reparent(TASK, TASK[current].pid), TASK[current].pid)
<1> DEFINE pid == TASK[current].pid
           C == Children(TASK, pid)
           U == [i \in Slots |->
                   IF i \in C THEN [TASK[i] EXCEPT !.father_pid = 1] ELSE TASK[i]]
           R == Reparent(TASK, pid)
<1>1. R = IF \E i \in C : TASK[i].state = "ZOMBINE" THEN tell_father(U, 1) ELSE U
  BY DEF Reparent
<1>2. /\ TASK \in Table /\ C \subseteq Scanned /\ 1 \in Pids /\ pid # 1
      /\ \A i \in C : Alive(TASK, i) /\ TASK[i] \in Task
      /\ \A i \in Scanned : Alive(TASK, i) /\ TASK[i].father_pid = pid => i \in C
  <2>1. TASK \in Table /\ pid # 1
    BY IInvFacts
  <2>2. 1 \in Pids
    BY SchedAssumption DEF Pids
  <2> QED
    BY <2>1, <2>2, ScannedSlots DEF Children, Table, Alive
<1>3. \A i \in C :
        /\ U[i] \in Task /\ U[i].signal = TASK[i].signal
        /\ U[i].pid = TASK[i].pid /\ U[i].state = TASK[i].state
        /\ U[i].order = TASK[i].order
        /\ U[i].in_Queue = TASK[i].in_Queue /\ U[i].father_pid = 1
  <2> SUFFICES ASSUME NEW i \in C
               PROVE  /\ U[i] \in Task /\ U[i].signal = TASK[i].signal
                      /\ U[i].pid = TASK[i].pid /\ U[i].state = TASK[i].state
                      /\ U[i].order = TASK[i].order
                      /\ U[i].in_Queue = TASK[i].in_Queue /\ U[i].father_pid = 1
    OBVIOUS
  <2>1. U[i] = [TASK[i] EXCEPT !.father_pid = 1]
    BY <1>2, ScannedSlots
  <2> QED
    BY <2>1, <1>2 DEF Task
<1>4. \A i \in Slots : i \notin C => U[i] = TASK[i]
  OBVIOUS
<1>5. U \in Table
  <2>1. \A i \in Slots : U[i] \in Task \cup {NULL}
    BY Zenon, <1>2, <1>3, <1>4 DEF Table
  <2> QED
    BY <2>1 DEF Table
<1> HIDE DEF C, U, R
<1>6. Touched(TASK, U)
  BY <1>2, <1>3, <1>4, <1>5, NullAssumption DEF Touched, Alive
<1>7. \A i \in Scanned : Alive(TASK, i) =>
        /\ U[i].signal = TASK[i].signal
        /\ U[i].father_pid = IF TASK[i].father_pid = pid THEN 1 ELSE TASK[i].father_pid
  <2> SUFFICES ASSUME NEW i \in Scanned, Alive(TASK, i)
               PROVE  /\ U[i].signal = TASK[i].signal
                      /\ U[i].father_pid = IF TASK[i].father_pid = pid THEN 1
                                           ELSE TASK[i].father_pid
    OBVIOUS
  <2>1. i \in Slots /\ (i \in C <=> TASK[i].father_pid = pid)
    BY ScannedSlots DEF C, Children
  <2> QED
    BY <1>3, <1>4, <2>1
<1>8. Alive(TASK, 1) /\ Alive(TASK, current) /\ TASK[1].pid = 1
  <2>1. Alive(TASK, current)
    BY DEF IInv, OneRunning
  <2>2. pid \in 1 .. NEW_PID
    BY <2>1 DEF IInv, ProcsOK
  <2>3. NEW_PID > 0
    BY <2>2 DEF IInv, TypeOK, Pids
  <2> QED
    BY <2>1, <2>3 DEF IInv, ProcsOK
<1>9. Touched(U, tell_father(U, 1)) /\ Told(U, tell_father(U, 1), 1)
  <2>1. Alive(U, 1) /\ Alive(U, current)
    BY <1>6, <1>8, ScannedSlots DEF Touched
  <2>2. \A i, j \in Slots : Alive(U, i) /\ Alive(U, j) /\ U[i].pid = U[j].pid => i = j
    BY <1>6 DEF Touched, IInv, ProcsOK
  <2>3. \A i \in Scanned : Alive(U, i) => U[i].pid # 0
    BY <1>6, ScannedSlots DEF Touched, IInv, ProcsOK
  <2> QED
    BY <1>5, <2>1, <2>2, <2>3, TellFatherOK, TellFatherTells
<1>10. Touched(TASK, tell_father(U, 1))
  BY <1>6, <1>9 DEF Touched
<1>11. CASE \E i \in C : TASK[i].state = "ZOMBINE"
  <2>1. 1 \in Scanned /\ Alive(U, 1) /\ U[1].pid = 1
    BY <1>6, <1>8, ScannedSlots DEF Touched
  <2> DEFINE W == tell_father(U, 1)
  <2>2. Told(U, W, 1)
    BY <1>9
  <2>3. R = W
    BY <1>1, <1>11
  <2> HIDE DEF W
  <2>4. "CHLD" \in W[1].signal /\ W[current].father_pid = U[current].father_pid
    BY <2>1, <2>2 DEF Told
  <2>5. ASSUME NEW i \in Scanned, Alive(TASK, i)
        PROVE  /\ W[i].signal \in {U[i].signal, U[i].signal \cup {"CHLD"}}
               /\ W[i].father_pid = U[i].father_pid
    <3>1. Alive(U, i)
      BY <1>6, <2>5, ScannedSlots DEF Touched
    <3> QED
      BY <2>2, <2>4, <3>1 DEF Told
  <2>6. Reparented(W, pid)
    BY <1>7, <2>4, <2>5 DEF Reparented
  <2> QED
    BY <1>10, <2>3, <2>6 DEF R, W
<1>12. CASE ~\E i \in C : TASK[i].state = "ZOMBINE"
  <2>1. Reparented(U, pid)
    BY <1>7, <1>12 DEF Reparented, C
  <2> QED
    BY <1>1, <1>6, <1>12, <2>1 DEF R
<1> QED
  BY <1>11, <1>12

LEMMA NewTask ==
  ASSUME NEW i, TASK[current].pid \in Pids, NEW_PID + 1 \in Pids
  PROVE  copy_process(i) \in Task
  BY SchedAssumption DEF copy_process, Task, Orders, LOW

\* sys_fork() keeps IInv: the new task is in a slot and has a pid that nobody
\* has, and the first fork makes process 1 in slot 1.
LEMMA ForkOK == ASSUME IInv, Fork PROVE IInv'
<1>0. /\ TASK \in Table /\ queue \in Queues /\ Agree(TASK, queue)
      /\ TASK[current] \in Task /\ NEW_PID \in Nat /\ NEW_PID' = NEW_PID + 1
      /\ NEW_PID + 1 \in Pids /\ current \in Slots /\ Alive(TASK, current)
  <2>1. TASK \in Table /\ queue \in Queues /\ Agree(TASK, queue)
    BY IInvFacts
  <2>2. current \in Slots /\ Alive(TASK, current)
    BY DEF IInv, TypeOK, OneRunning
  <2> QED
    BY <2>1, <2>2, SchedAssumption DEF IInv, TypeOK, Fork, Pids, Table, Alive
<1>1. UNCHANGED <<queue, current, wpid, pending>>
  BY DEF Fork
<1>2. ASSUME UNCHANGED <<TASK, kctx>>, panicked' = TRUE
      PROVE  IInv'
  <2>1. TypeOK'
    BY <1>0, <1>1, <1>2 DEF IInv, TypeOK
  <2>2. TableOK(TASK') /\ QueueInv' /\ OneRunning' /\ kctx'[0] = "user"
    BY <1>1, <1>2 DEF IInv, QueueInv, OneRunning, Alive
  <2>3. ProcsOK(TASK, NEW_PID + 1)
    <3>1. \A i \in Scanned : Alive(TASK, i) => TASK[i].pid \in 1 .. NEW_PID + 1
      BY <1>0 DEF IInv, ProcsOK
    <3>2. Alive(TASK, 1) /\ TASK[1].pid = 1 /\ TASK[1].state # "ZOMBINE"
      <4>1. \A i \in Scanned : Alive(TASK, i)
        <5>1. ~(\E i \in Scanned : TASK' = [TASK EXCEPT ![i] = copy_process(i)]
                                    /\ ~Alive(TASK, i))
          <6> SUFFICES ASSUME NEW i \in Scanned, ~Alive(TASK, i),
                              TASK' = [TASK EXCEPT ![i] = copy_process(i)]
                       PROVE  FALSE
            OBVIOUS
          <6>1. TASK[i] = copy_process(i) /\ TASK[i] = NULL
            BY <1>0, <1>2, ScannedSlots DEF Table, Alive
          <6>2. copy_process(i) \in Task
            <7>1. TASK[current].pid \in Pids /\ NEW_PID + 1 \in Pids
              BY <1>0 DEF Task
            <7> QED
              BY <7>1, NewTask, Zenon
          <6> QED
            BY <6>1, <6>2, NullAssumption
        <5> QED
          BY <5>1 DEF Fork, find_new_id
      <4>2. Alive(TASK, 1) /\ NEW_PID > 0
        BY <4>1, <1>0, ScannedSlots DEF IInv, ProcsOK
      <4> QED
        BY <4>2 DEF IInv, ProcsOK
    <3> QED
      BY <3>1, <3>2 DEF IInv, ProcsOK
  <2> QED
    BY <1>0, <1>2, <2>1, <2>2, <2>3 DEF IInv
<1>3. ASSUME NEW i \in Scanned, ~Alive(TASK, i),
             \A j \in Scanned : j < i => Alive(TASK, j),
             TASK' = [TASK EXCEPT ![i] = copy_process(i)],
             kctx' = [kctx EXCEPT ![i] = "user"],
             UNCHANGED panicked
      PROVE  IInv'
  <2> DEFINE c == copy_process(i)
  <2>1. /\ c \in Task /\ c.pid = NEW_PID + 1 /\ c.father_pid = TASK[current].pid
        /\ c.state = "READY" /\ c.order \in Orders /\ c.in_Queue = FALSE
    <3>1. TASK[current] \in Task /\ TASK[current].pid \in Pids /\ NEW_PID + 1 \in Pids
      BY <1>0 DEF Task
    <3>2. c \in Task
      BY <3>1, NewTask, Zenon
    <3>3. /\ c.pid = NEW_PID + 1 /\ c.father_pid = TASK[current].pid
          /\ c.state = "READY" /\ c.order = 0 /\ c.in_Queue = FALSE
      BY DEF copy_process
    <3> QED
      BY <3>2, <3>3, SchedAssumption DEF Orders
  <2>2. c # NULL
    BY <2>1, NullAssumption
  <2>3. TASK' = [TASK EXCEPT ![i] = c]
    BY <1>3
  <2> HIDE DEF c
  <2>4. /\ TASK'[i] = c
        /\ \A j \in Slots : j # i => TASK'[j] = TASK[j]
    BY <1>0, <2>3, ScannedSlots DEF Table
  <2>5. TableOK(TASK') /\ Agree(TASK', queue)
    <3>1. TableOK([TASK EXCEPT ![i] = c]) /\ Agree([TASK EXCEPT ![i] = c], queue)
      BY Zenon, <1>0, <1>3, <2>1, UpdateSlot DEF IInv
    <3> QED
      BY <3>1, <2>3
  <2>6. QueueInv'
    <3>1. queue' = queue
      BY <1>1
    <3> QED
      BY <2>5, <3>1 DEF QueueInv, Agree, Alive
  <2>7. i # current /\ i # 0
    BY <1>0, <1>3, ScannedSlots
  <2>8. OneRunning'
    BY <1>0, <1>1, <1>3, <2>1, <2>4, <2>7, ScannedSlots DEF IInv, OneRunning, Alive
  <2>9. TypeOK'
    BY <1>0, <1>1, <1>3, <2>5, ScannedSlots DEF IInv, TypeOK, TableOK, Table
  <2>10. kctx'[0] = "user"
    BY <1>3, <2>7, ScannedSlots DEF IInv, TypeOK
  <2>11. \A j \in Slots : Alive(TASK, j) => /\ j # i
                                            /\ Alive(TASK', j)
                                            /\ TASK'[j] = TASK[j]
    BY <1>3, <2>4 DEF Alive
  <2>12. Alive(TASK', i) /\ \A j \in Slots : Alive(TASK', j) => j = i \/ Alive(TASK, j)
    BY <2>2, <2>4 DEF Alive
  <2>13. ProcsOK(TASK', NEW_PID + 1)
    <3>1. TASK'[0].pid = 0 /\ TASK'[0].state # "ZOMBINE"
      BY <2>11, ScannedSlots DEF IInv, TableOK, ProcsOK
    <3>2. \A j \in Slots : Alive(TASK, j) => TASK[j].pid \in 0 .. NEW_PID
      BY <1>0, ScannedSlots DEF IInv, ProcsOK
    <3>3. \A j \in Scanned : Alive(TASK', j) => TASK'[j].pid \in 1 .. NEW_PID + 1
      BY <1>0, <2>1, <2>4, <2>11, <2>12, ScannedSlots DEF IInv, ProcsOK
    <3>4. ASSUME NEW j \in Slots, NEW k \in Slots,
                 Alive(TASK', j), Alive(TASK', k), TASK'[j].pid = TASK'[k].pid
          PROVE  j = k
      <4>1. CASE j = i \/ k = i
        BY <4>1, <3>2, <3>4, <1>0, <2>1, <2>4, <2>11, <2>12
      <4>2. CASE j # i /\ k # i
        BY <4>2, <3>4, <2>11, <2>12 DEF IInv, ProcsOK
      <4> QED
        BY <4>1, <4>2
    <3>5. ASSUME NEW j \in Scanned, Alive(TASK', j)
          PROVE  \E f \in Slots : /\ Alive(TASK', f)
                                  /\ TASK'[f].state # "ZOMBINE"
                                  /\ TASK'[f].pid = TASK'[j].father_pid
      <4>1. CASE j = i
        <5>1. TASK[current].state # "ZOMBINE"
          BY Zenon, <1>0, ScannedSlots, CurrentUnqueued DEF IInv, ProcsOK
        <5> QED
          BY <4>1, <5>1, <1>0, <2>1, <2>4, <2>11
      <4>2. CASE j # i
        <5>1. Alive(TASK, j) /\ TASK'[j] = TASK[j]
          BY <3>5, <4>2, <2>11, <2>12, ScannedSlots
        <5>2. PICK f \in Slots : /\ Alive(TASK, f)
                                 /\ TASK[f].state # "ZOMBINE"
                                 /\ TASK[f].pid = TASK[j].father_pid
          BY <5>1 DEF IInv, ProcsOK
        <5> QED
          BY <5>1, <5>2, <2>11
      <4> QED
        BY <4>1, <4>2
    <3>6. Alive(TASK', 1) /\ TASK'[1].pid = 1 /\ TASK'[1].state # "ZOMBINE"
      <4>1. CASE NEW_PID > 0
        BY <4>1, <2>11, ScannedSlots DEF IInv, ProcsOK
      <4>2. CASE NEW_PID = 0
        <5>1. \A j \in Scanned : ~Alive(TASK, j)
          BY <4>2 DEF IInv, ProcsOK
        <5>2. i = 1
          BY <5>1, <1>3, SchedAssumption DEF Scanned
        <5> QED
          BY <4>2, <5>2, <2>1, <2>4, <2>12
      <4> QED
        BY <4>1, <4>2, <1>0
    <3> QED
      BY <3>1, <3>3, <3>4, <3>5, <3>6 DEF ProcsOK
  <2> QED
    BY <1>0, <2>5, <2>6, <2>8, <2>9, <2>10, <2>13 DEF IInv
<1> QED
  BY Zenon, <1>2, <1>3 DEF Fork, find_new_id

\* The table do_exit() hands to schedule().
ExitTable ==
  LET R == Reparent(TASK, TASK[current].pid)
      Z == [R EXCEPT ![current] = [@ EXCEPT !.state = "ZOMBINE",
                                            !.counter = 0,
                                            !.in_Queue = FALSE,
                                            !.order = -1]]
  IN  tell_father(Z, Z[current].father_pid)

\* What do_exit() does to the table: the current task is a zombie, its children
\* belong to process 1, and whoever has a new or newly exited child is told.
ExitEffect(W) ==
  /\ \A i \in Slots : Alive(W, i) <=> Alive(TASK, i)
  /\ \A i \in Slots : Alive(TASK, i) =>
       W[i].pid = TASK[i].pid /\ (i # current => W[i].state = TASK[i].state)
  /\ W[current].state = "ZOMBINE"
  /\ \A i \in Scanned : Alive(TASK, i) =>
       /\ W[i].signal = TASK[i].signal \/ W[i].signal = TASK[i].signal \cup {"CHLD"}
       /\ i # current =>
            W[i].father_pid = IF TASK[i].father_pid = TASK[current].pid THEN 1
                              ELSE TASK[i].father_pid
  /\ \A i \in Children(TASK, TASK[current].pid) :
       TASK[i].state = "ZOMBINE" => "CHLD" \in W[1].signal
  /\ \/ \E f \in Scanned \ {current} :
          /\ Alive(TASK, f) /\ TASK[f].pid = TASK[current].father_pid
          /\ "CHLD" \in W[f].signal
          /\ W[current].father_pid = TASK[current].father_pid
     \/ /\ \A f \in Scanned \ {current} :
             Alive(TASK, f) => TASK[f].pid # TASK[current].father_pid
        /\ "CHLD" \in W[1].signal
        /\ W[current].father_pid = 1

LEMMA ExitTableOK ==
  ASSUME IInv, current \in Scanned, TASK[current].pid > 1
  PROVE  TableOK(ExitTable) /\ Agree(ExitTable, queue) /\ ExitEffect(ExitTable)
<1> DEFINE pid == TASK[current].pid
           R == Reparent(TASK, pid)
           Z == [R EXCEPT ![current] = [@ EXCEPT !.state = "ZOMBINE",
                                                 !.counter = 0,
                                                 !.in_Queue = FALSE,
                                                 !.order = -1]]
           W == tell_father(Z, Z[current].father_pid)
<1>1. W = ExitTable
  BY DEF ExitTable
<1>2. current # 0 /\ current \in Slots /\ Alive(TASK, current)
  BY Zenon, CurrentUnqueued, ScannedSlots
<1>3. Touched(TASK, R) /\ Reparented(R, pid)
  BY ReparentOK
<1> DEFINE z == [R[current] EXCEPT !.state = "ZOMBINE", !.counter = 0,
                                   !.in_Queue = FALSE, !.order = -1]
<1> HIDE DEF R
<1>4. R[current] \in Task /\ R[current].in_Queue = FALSE /\ Alive(R, current)
  BY Zenon, <1>2, <1>3, CurrentUnqueued DEF Touched, Table, Alive
<1>5. /\ z \in Task /\ z.pid = R[current].pid /\ z.father_pid = R[current].father_pid
      /\ z.state = "ZOMBINE" /\ z.in_Queue = FALSE /\ z.signal = R[current].signal
  <2>1. ASSUME NEW r \in Task
        PROVE  LET y == [r EXCEPT !.state = "ZOMBINE", !.counter = 0,
                                  !.in_Queue = FALSE, !.order = -1]
               IN  /\ y \in Task /\ y.pid = r.pid /\ y.father_pid = r.father_pid
                   /\ y.state = "ZOMBINE" /\ y.in_Queue = FALSE /\ y.signal = r.signal
    <3>1. -1 \in Orders \cup {-1} /\ 0 \in Int
      OBVIOUS
    <3> QED
      BY Zenon, <3>1 DEF Task
  <2> QED
    BY Zenon, <1>4, <2>1
<1>6. Z = [R EXCEPT ![current] = z]
  OBVIOUS
<1> HIDE DEF z, Z
<1>7. TableOK(R) /\ Agree(R, queue)
  BY <1>3, TouchedOK, IInvFacts DEF IInv
<1>8. TableOK(Z) /\ Agree(Z, queue)
  <2>1. TableOK([R EXCEPT ![current] = z]) /\ Agree([R EXCEPT ![current] = z], queue)
    BY Zenon, <1>4, <1>5, <1>7, UpdateSlot, IInvFacts
  <2> QED
    BY <2>1, <1>6
<1>9. /\ Z[current] = z /\ z # NULL
      /\ \A i \in Slots : i # current => Z[i] = R[i]
  BY <1>2, <1>5, <1>6, <1>7, NullAssumption DEF TableOK, Table
<1>10. \A i \in Slots :
         /\ Alive(Z, i) <=> Alive(TASK, i)
         /\ Alive(TASK, i) => /\ Z[i].pid = TASK[i].pid
                              /\ i # current => Z[i].state = TASK[i].state
  BY <1>2, <1>3, <1>5, <1>9 DEF Touched, Alive
<1>11. ASSUME NEW i \in Scanned, Alive(TASK, i)
       PROVE  /\ Z[i].signal \in {TASK[i].signal, TASK[i].signal \cup {"CHLD"}}
              /\ Z[i].father_pid = IF TASK[i].father_pid = pid THEN 1
                                   ELSE TASK[i].father_pid
  <2>1. Z[i].signal = R[i].signal /\ Z[i].father_pid = R[i].father_pid
    BY <1>5, <1>9, ScannedSlots
  <2> QED
    BY <1>3, <1>11, <2>1 DEF Reparented
<1>12. /\ Alive(TASK, 1) /\ TASK[1].pid = 1 /\ current # 1
       /\ 1 \in Slots /\ 1 \in Scanned
  <2>1. pid \in 1 .. NEW_PID
    BY <1>2 DEF IInv, ProcsOK
  <2>2. NEW_PID > 0
    BY <2>1 DEF IInv, TypeOK, Pids
  <2>3. Alive(TASK, 1) /\ TASK[1].pid = 1
    BY <2>2 DEF IInv, ProcsOK
  <2> QED
    BY <2>3, ScannedSlots
<1>13. Touched(Z, W) /\ Told(Z, W, Z[current].father_pid)
  <2>1. Alive(Z, current) /\ Alive(Z, 1) /\ Z \in Table
    BY <1>2, <1>8, <1>10, <1>12 DEF TableOK
  <2>2. \A i, j \in Slots : Alive(Z, i) /\ Alive(Z, j) /\ Z[i].pid = Z[j].pid => i = j
    BY <1>10 DEF IInv, ProcsOK
  <2>3. \A i \in Scanned : Alive(Z, i) => Z[i].pid # 0
    BY <1>10, ScannedSlots DEF IInv, ProcsOK
  <2> QED
    BY <2>1, <2>2, <2>3, TellFatherOK, TellFatherTells
<1> HIDE DEF W
<1>14. TableOK(W) /\ Agree(W, queue)
  BY <1>8, <1>13, TouchedOK, IInvFacts
<1>15. ExitEffect(W)
  <2>1. ASSUME NEW i \in Slots
        PROVE  /\ Alive(W, i) <=> Alive(TASK, i)
               /\ Alive(TASK, i) =>
                    W[i].pid = TASK[i].pid /\ (i # current => W[i].state = TASK[i].state)
    BY <1>10, <1>13 DEF Touched
  <2>2. W[current].state = "ZOMBINE"
    BY <1>2, <1>5, <1>9, <1>10, <1>13 DEF Touched
  <2>3. ASSUME NEW i \in Scanned, Alive(TASK, i)
        PROVE  /\ Alive(Z, i)
               /\ W[i].signal \in {Z[i].signal, Z[i].signal \cup {"CHLD"}}
               /\ i # current => W[i].father_pid = Z[i].father_pid
    <3>1. Alive(Z, i)
      BY <1>10, <2>3, ScannedSlots
    <3> QED
      BY <1>13, <3>1 DEF Told
  <2>4. ASSUME NEW i \in Scanned, Alive(TASK, i)
        PROVE  /\ W[i].signal = TASK[i].signal \/ W[i].signal = TASK[i].signal \cup {"CHLD"}
               /\ i # current => W[i].father_pid = IF TASK[i].father_pid = pid THEN 1
                                                   ELSE TASK[i].father_pid
    BY <1>11, <2>3, <2>4
  <2>5. ASSUME NEW i \in Children(TASK, pid), TASK[i].state = "ZOMBINE"
        PROVE  "CHLD" \in W[1].signal
    <3>1. "CHLD" \in R[1].signal
      BY <1>3, <2>5 DEF Reparented
    <3>2. Z[1].signal = R[1].signal
      BY <1>9, <1>12
    <3> QED
      BY <1>12, <2>3, <3>1, <3>2
  <2>6. \/ \E f \in Scanned \ {current} :
              /\ Alive(TASK, f) /\ TASK[f].pid = TASK[current].father_pid
              /\ "CHLD" \in W[f].signal
              /\ W[current].father_pid = TASK[current].father_pid
        \/ /\ \A f \in Scanned \ {current} :
                 Alive(TASK, f) => TASK[f].pid # TASK[current].father_pid
           /\ "CHLD" \in W[1].signal
           /\ W[current].father_pid = 1
    <3>1. Z[current].father_pid = IF TASK[current].father_pid = pid THEN 1
                                  ELSE TASK[current].father_pid
      BY <1>2, <1>11
    <3>2. \A f \in Scanned : Alive(TASK, f) /\ TASK[f].pid = pid => f = current
      BY <1>2, ScannedSlots DEF IInv, ProcsOK
    <3>3. \A f \in Scanned : (Alive(Z, f) <=> Alive(TASK, f))
                             /\ (Alive(Z, f) => Z[f].pid = TASK[f].pid)
      BY <1>10, ScannedSlots, Zenon
    <3>4. CASE TASK[current].father_pid = pid
      <4>1. "CHLD" \in W[1].signal /\ W[current].father_pid = 1
        BY <1>12, <1>13, <3>1, <3>3, <3>4 DEF Told
      <4> QED
        BY <3>2, <3>4, <4>1
    <3>5. CASE TASK[current].father_pid # pid
      <4>1. Z[current].father_pid = TASK[current].father_pid
        BY <3>1, <3>5
      <4>2. ASSUME NEW f \in Scanned, Alive(TASK, f), TASK[f].pid = TASK[current].father_pid
            PROVE  /\ f # current /\ "CHLD" \in W[f].signal
                   /\ W[current].father_pid = TASK[current].father_pid
        BY <1>13, <3>3, <3>5, <4>1, <4>2 DEF Told
      <4>3. ASSUME \A f \in Scanned : Alive(TASK, f) => TASK[f].pid # TASK[current].father_pid
            PROVE  "CHLD" \in W[1].signal /\ W[current].father_pid = 1
        BY <1>13, <3>3, <4>1, <4>3 DEF Told
      <4> QED
        BY <4>2, <4>3
    <3> QED
      BY <3>4, <3>5
  <2> QED
    BY <2>1, <2>2, <2>4, <2>5, <2>6 DEF ExitEffect
<1> QED
  BY <1>1, <1>14, <1>15

\* do_exit() keeps IInv: the children have a new father before the exiting
\* task becomes a zombie, and its own father is told.
LEMMA ExitOK == ASSUME IInv, Exit PROVE IInv'
<1> DEFINE pid == TASK[current].pid
           W == ExitTable
<1>1. schedule(W) /\ UNCHANGED <<NEW_PID, kctx, wpid, pending, panicked>> /\ pid > 1
  BY DEF Exit, ExitTable
<1>2. current # 0
  BY <1>1 DEF IInv, ProcsOK
<1>3. current \in Scanned /\ current \in Slots /\ Alive(TASK, current)
  BY Zenon, <1>2, CurrentUnqueued, ScannedSlots
<1>4. TableOK(W) /\ Agree(W, queue) /\ ExitEffect(W)
  BY <1>1, <1>3, ExitTableOK
<1> HIDE DEF W
<1>5. /\ Alive(TASK, 1) /\ TASK[1].pid = 1 /\ TASK[1].state # "ZOMBINE"
      /\ current # 1 /\ 1 \in Slots
  <2>1. pid \in 1 .. NEW_PID
    BY <1>3 DEF IInv, ProcsOK
  <2>2. NEW_PID > 0
    BY <2>1 DEF IInv, TypeOK, Pids
  <2>3. Alive(TASK, 1) /\ TASK[1].pid = 1 /\ TASK[1].state # "ZOMBINE"
    BY <2>2 DEF IInv, ProcsOK
  <2> QED
    BY <2>3, <1>1, ScannedSlots
<1>6. \A i \in Slots :
        /\ Alive(W, i) <=> Alive(TASK, i)
        /\ Alive(TASK, i) => /\ W[i].pid = TASK[i].pid
                             /\ i # current => W[i].state = TASK[i].state
  BY <1>4 DEF ExitEffect
<1>7. \A i \in Scanned :
        Alive(TASK, i) => /\ W[i].father_pid \in {TASK[i].father_pid, 1}
                          /\ W[i].father_pid # pid
  <2> SUFFICES ASSUME NEW i \in Scanned, Alive(TASK, i)
               PROVE  W[i].father_pid \in {TASK[i].father_pid, 1} /\ W[i].father_pid # pid
    OBVIOUS
  <2>1. CASE i # current
    <3>1. W[i].father_pid = IF TASK[i].father_pid = TASK[current].pid THEN 1
                            ELSE TASK[i].father_pid
      BY <1>4, <2>1 DEF ExitEffect
    <3> QED
      BY <1>1, <3>1
  <2>2. CASE i = current
    <3>1. \A f \in Scanned \ {current} : Alive(TASK, f) => TASK[f].pid # pid
      BY <1>3, ScannedSlots DEF IInv, ProcsOK
    <3>2. \/ \E f \in Scanned \ {current} :
                /\ Alive(TASK, f) /\ TASK[f].pid = TASK[current].father_pid
                /\ W[current].father_pid = TASK[current].father_pid
          \/ W[current].father_pid = 1
      BY <1>4 DEF ExitEffect
    <3> QED
      BY <1>1, <2>2, <3>1, <3>2
  <2> QED
    BY <2>1, <2>2
<1>8. ProcsOK(W, NEW_PID)
  <2>1. W[0].pid = 0 /\ W[0].state # "ZOMBINE"
    BY <1>2, <1>6, ScannedSlots DEF IInv, ProcsOK, TableOK
  <2>2. \A j \in Scanned : Alive(W, j) => W[j].pid \in 1 .. NEW_PID
    BY <1>6, ScannedSlots DEF IInv, ProcsOK
  <2>3. \A j, k \in Slots : Alive(W, j) /\ Alive(W, k) /\ W[j].pid = W[k].pid => j = k
    BY <1>6 DEF IInv, ProcsOK
  <2>4. ASSUME NEW j \in Scanned, Alive(W, j)
        PROVE  \E f \in Slots : /\ Alive(W, f)
                                /\ W[f].state # "ZOMBINE"
                                /\ W[f].pid = W[j].father_pid
    <3>1. /\ Alive(TASK, j) /\ W[j].father_pid # pid
          /\ W[j].father_pid \in {TASK[j].father_pid, 1}
      BY <2>4, <1>6, <1>7, ScannedSlots
    <3>2. CASE W[j].father_pid = 1
      BY <3>2, <1>5, <1>6
    <3>3. CASE W[j].father_pid = TASK[j].father_pid
      <4>1. PICK f \in Slots : /\ Alive(TASK, f)
                               /\ TASK[f].state # "ZOMBINE"
                               /\ TASK[f].pid = TASK[j].father_pid
        BY <3>1 DEF IInv, ProcsOK
      <4>2. f # current
        BY <3>1, <3>3, <4>1
      <4> QED
        BY <3>3, <4>1, <4>2, <1>6
    <3> QED
      BY <3>1, <3>2, <3>3
  <2>5. Alive(W, 1) /\ W[1].pid = 1 /\ W[1].state # "ZOMBINE"
    BY <1>5, <1>6
  <2> QED
    BY <2>1, <2>2, <2>3, <2>4, <2>5 DEF ProcsOK
<1>9. /\ TableOK(TASK') /\ queue' \in Queues /\ current' \in Slots
      /\ QueueInv' /\ OneRunning' /\ ProcsOK(TASK', NEW_PID')
  BY <1>1, <1>4, <1>8, ScheduleStep, IInvFacts
<1>10. TypeOK'
  BY <1>1, <1>9 DEF TypeOK, TableOK, Table, Queues, IInv
<1> QED
  BY <1>1, <1>9, <1>10 DEF IInv

\* wakeup() changes signals only: STOP becomes CONT.
LEMMA WakeupIs ==
  ASSUME TASK \in Table, NEW i \in Slots
  PROVE  /\ wakeup(TASK)[i] \in Task \cup {NULL}
         /\ Alive(wakeup(TASK), i) <=> Alive(TASK, i)
         /\ Alive(TASK, i) =>
              /\ wakeup(TASK)[i].pid = TASK[i].pid
              /\ wakeup(TASK)[i].father_pid = TASK[i].father_pid
              /\ wakeup(TASK)[i].state = TASK[i].state
              /\ wakeup(TASK)[i].order = TASK[i].order
              /\ wakeup(TASK)[i].in_Queue = TASK[i].in_Queue
              /\ i \in Scanned =>
                   wakeup(TASK)[i].signal =
                     IF "STOP" \in TASK[i].signal
                     THEN (TASK[i].signal \ {"STOP"}) \cup {"CONT"}
                     ELSE TASK[i].signal
<1>1. CASE i \in Scanned /\ Alive(TASK, i) /\ "STOP" \in TASK[i].signal
  <2>1. TASK[i] \in Task
    BY <1>1 DEF Table, Alive
  <2>2. wakeup(TASK)[i] = [TASK[i] EXCEPT !.signal =
                             (TASK[i].signal \ {"STOP"}) \cup {"CONT"}]
    BY <1>1 DEF wakeup
  <2> DEFINE r == [TASK[i] EXCEPT !.signal = (TASK[i].signal \ {"STOP"}) \cup {"CONT"}]
  <2>3. /\ r \in Task /\ r.pid = TASK[i].pid /\ r.father_pid = TASK[i].father_pid
        /\ r.state = TASK[i].state /\ r.order = TASK[i].order
        /\ r.in_Queue = TASK[i].in_Queue
        /\ r.signal = (TASK[i].signal \ {"STOP"}) \cup {"CONT"}
    BY <2>1 DEF Task
  <2> HIDE DEF r
  <2> QED
    BY <1>1, <2>2, <2>3, NullAssumption DEF Alive, r
<1>2. CASE ~(i \in Scanned /\ Alive(TASK, i) /\ "STOP" \in TASK[i].signal)
  <2>1. wakeup(TASK)[i] = TASK[i]
    BY <1>2 DEF wakeup
  <2> QED
    BY <1>2, <2>1 DEF Table, Alive
<1> QED
  BY <1>1, <1>2

\* The disk interrupt changes signals only.
LEMMA DiskInterruptOK ==
  ASSUME IInv, NEW D \in SUBSET pending, DiskInterrupt(D)
  PROVE  IInv'
<1>1. /\ TASK' = wakeup(TASK) /\ pending' = pending \ D
      /\ UNCHANGED <<queue, current, NEW_PID, kctx, wpid, panicked>>
  BY DEF DiskInterrupt
<1>2. /\ TASK' \in Table
      /\ \A i \in Slots :
           /\ Alive(TASK', i) <=> Alive(TASK, i)
           /\ Alive(TASK, i) => /\ TASK'[i].pid = TASK[i].pid
                                /\ TASK'[i].father_pid = TASK[i].father_pid
                                /\ TASK'[i].state = TASK[i].state
                                /\ TASK'[i].order = TASK[i].order
                                /\ TASK'[i].in_Queue = TASK[i].in_Queue
  <2>1. ASSUME NEW i \in Slots
        PROVE  /\ TASK'[i] \in Task \cup {NULL}
               /\ Alive(TASK', i) <=> Alive(TASK, i)
               /\ Alive(TASK, i) => /\ TASK'[i].pid = TASK[i].pid
                                    /\ TASK'[i].father_pid = TASK[i].father_pid
                                    /\ TASK'[i].state = TASK[i].state
                                    /\ TASK'[i].order = TASK[i].order
                                    /\ TASK'[i].in_Queue = TASK[i].in_Queue
    BY <1>1, WakeupIs, IInvFacts, Zenon
  <2>2. TASK' = [i \in Slots |-> TASK'[i]]
    BY <1>1 DEF wakeup
  <2> QED
    BY <2>1, <2>2 DEF Table
<1>3. Touched(TASK, TASK') /\ SameProcs(TASK, TASK')
  BY <1>2 DEF Touched, SameProcs
<1>4. TableOK(TASK') /\ Agree(TASK', queue)
  BY <1>3, TouchedOK, IInvFacts DEF IInv
<1>5. ProcsOK(TASK', NEW_PID)
  BY <1>3, SameProcsOK DEF IInv
<1>6. QueueInv'
  <2>1. queue' = queue
    BY <1>1
  <2> QED
    BY <1>4, <2>1 DEF QueueInv, Agree, Alive
<1>7. OneRunning'
  <2>1. \A j \in Scanned : Alive(TASK', j) => (TASK'[j].state = "RUNNING" <=> j = current)
    BY <1>2, ScannedSlots DEF IInv, OneRunning
  <2>2. Alive(TASK', current)
    BY <1>2 DEF IInv, OneRunning, TypeOK
  <2> QED
    BY <1>1, <2>1, <2>2 DEF IInv, OneRunning, Alive
<1>8. TypeOK'
  BY <1>1, <1>4 DEF TypeOK, TableOK, Table, IInv
<1> QED
  BY <1>1, <1>4, <1>5, <1>6, <1>7, <1>8 DEF IInv

\* sleep() puts the running task to sleep and reschedules.
LEMMA SleepOK ==
  ASSUME IInv, current # 0, sleep, NEW_PID' = NEW_PID,
         kctx' \in [Slots -> {"user", "waitpid", "disk"}], kctx'[0] = "user",
         wpid' = wpid, pending' \subseteq Scanned, panicked' = panicked
  PROVE  IInv'
<1> DEFINE t == [TASK[current] EXCEPT !.state = "WAIT",
                                      !.signal = TASK[current].signal \cup {"STOP"}]
<1>1. TASK[current] \in Task /\ current \in Slots /\ TASK \in Table
  BY Zenon, CurrentUnqueued, ScannedSlots, IInvFacts
<1>2. /\ t \in Task /\ t.pid = TASK[current].pid
      /\ t.father_pid = TASK[current].father_pid
      /\ t.state = "WAIT" /\ t.order = TASK[current].order
      /\ t.in_Queue = TASK[current].in_Queue
  BY Zenon, <1>1 DEF Task
<1>3. [TASK EXCEPT ![current].state = "WAIT", ![current].signal = @ \cup {"STOP"}]
        = [TASK EXCEPT ![current] = t]
  BY Zenon, <1>1 DEF Table, Task
<1> HIDE DEF t
<1>4. schedule([TASK EXCEPT ![current] = t])
  BY <1>3 DEF sleep
<1>5. t.state # "ZOMBINE" /\ t.in_Queue = FALSE
  BY Zenon, <1>2, CurrentUnqueued
<1>6. wpid' \in [Slots -> WaitArgs] /\ panicked' \in BOOLEAN
  BY DEF IInv, TypeOK
<1> QED
  BY Zenon, <1>2, <1>4, <1>5, <1>6, RescheduleCurrent

\* do_timer() keeps IInv.
LEMMA TimerOK == ASSUME IInv, TimerInterrupt PROVE IInv'
<1>1. UNCHANGED <<NEW_PID, kctx, wpid, pending, panicked>>
  BY DEF TimerInterrupt
<1>2. CASE TASK[current].pid = 0
  <2>1. schedule(TASK)
    BY <1>2 DEF TimerInterrupt
  <2>2. /\ TableOK(TASK') /\ queue' \in Queues /\ current' \in Slots
        /\ QueueInv' /\ OneRunning' /\ ProcsOK(TASK', NEW_PID')
    BY <1>1, <2>1, ScheduleStep, IInvFacts DEF IInv
  <2>3. TypeOK'
    BY <1>1, <2>2 DEF TypeOK, TableOK, Table, Queues, IInv
  <2> QED
    BY <1>1, <2>2, <2>3 DEF IInv
<1>3. CASE TASK[current].pid # 0
  <2> DEFINE t == [TASK[current] EXCEPT !.counter = TASK[current].counter - 1]
             T == [TASK EXCEPT ![current].counter = @ - 1]
  <2>1. current # 0
    BY <1>3 DEF IInv, ProcsOK
  <2>2. TASK[current] \in Task /\ current \in Slots /\ TASK \in Table
    BY Zenon, <2>1, CurrentUnqueued, ScannedSlots, IInvFacts
  <2>3. /\ t \in Task /\ t.pid = TASK[current].pid
        /\ t.father_pid = TASK[current].father_pid
        /\ t.state = TASK[current].state /\ t.order = TASK[current].order
        /\ t.in_Queue = TASK[current].in_Queue
    BY <2>2 DEF Task
  <2>4. T = [TASK EXCEPT ![current] = t]
    OBVIOUS
  <2>5. (TASK' = T /\ UNCHANGED <<queue, current>>) \/ schedule(T)
    BY <1>3 DEF TimerInterrupt
  <2> HIDE DEF t, T
  <2>6. t.state = "RUNNING" /\ t.state # "ZOMBINE" /\ t.in_Queue = FALSE
    BY Zenon, <2>1, <2>3, CurrentUnqueued
  <2>7. /\ kctx' \in [Slots -> {"user", "waitpid", "disk"}] /\ kctx'[0] = "user"
        /\ wpid' \in [Slots -> WaitArgs] /\ pending' \subseteq Scanned
        /\ panicked' \in BOOLEAN /\ NEW_PID' = NEW_PID
    BY <1>1 DEF IInv, TypeOK
  <2>8. CASE TASK' = T /\ UNCHANGED <<queue, current>>
    BY Zenon, <2>1, <2>3, <2>4, <2>6, <2>7, <2>8, KeepCurrent
  <2>9. CASE schedule(T)
    <3>1. schedule([TASK EXCEPT ![current] = t])
      BY <2>4, <2>9
    <3> QED
      BY Zenon, <3>1, <2>1, <2>3, <2>6, <2>7, RescheduleCurrent
  <2> QED
    BY <2>5, <2>8, <2>9
<1> QED
  BY <1>2, <1>3

\* sys_waitpid() keeps IInv on entry ...
LEMMA WaitpidOK == ASSUME IInv, NEW arg \in WaitArgs, Waitpid(arg) PROVE IInv'
<1>1. /\ current # 0 /\ WaitpidPass(TASK, arg)
      /\ UNCHANGED <<NEW_PID, pending, panicked>>
  BY DEF Waitpid
<1>2. TASK = [TASK EXCEPT ![current] = TASK[current]]
  BY IInvFacts DEF Table
<1>3. WaitpidPass([TASK EXCEPT ![current] = TASK[current]], arg)
  BY <1>1, <1>2
<1> QED
  BY Zenon, <1>1, <1>3, CurrentUnqueued, WaitpidPassOK

\* ... and when the blocked task runs again.
LEMMA WaitpidResumeOK == ASSUME IInv, WaitpidResume PROVE IInv'
<1> DEFINE rest == TASK[current].signal \ {"CHLD"}
           T == [TASK EXCEPT ![current].signal = rest]
           t == [TASK[current] EXCEPT !.signal = rest]
<1>1. UNCHANGED <<NEW_PID, pending, panicked>> /\ kctx[current] = "waitpid"
  BY DEF WaitpidResume
<1>2. current # 0
  BY <1>1 DEF IInv
<1>3. /\ TASK[current] \in Task /\ current \in Slots /\ TASK \in Table /\ 0 \in Slots
      /\ 0 \in WaitArgs
  <2>1. 0 \in WaitArgs
    BY SchedAssumption DEF WaitArgs, Pids
  <2> QED
    BY Zenon, <1>2, <2>1, CurrentUnqueued, ScannedSlots, IInvFacts
<1>4. \/ WaitpidPass(T, wpid[current])
      \/ /\ TASK' = T
         /\ kctx' = [kctx EXCEPT ![current] = "user"]
         /\ wpid' = [wpid EXCEPT ![current] = 0]
         /\ UNCHANGED <<queue, current>>
  BY DEF WaitpidResume
<1>5. /\ t \in Task /\ t.pid = TASK[current].pid
      /\ t.father_pid = TASK[current].father_pid
      /\ t.state = TASK[current].state /\ t.order = TASK[current].order
      /\ t.in_Queue = TASK[current].in_Queue
  BY <1>3 DEF Task
<1>6. T = [TASK EXCEPT ![current] = t]
  OBVIOUS
<1> HIDE DEF T, t
<1>7. t.state = "RUNNING" /\ t.in_Queue = FALSE
  BY Zenon, <1>2, <1>5, CurrentUnqueued
<1>8. CASE WaitpidPass(T, wpid[current])
  <2>1. WaitpidPass([TASK EXCEPT ![current] = t], wpid[current])
    BY <1>6, <1>8
  <2>2. wpid[current] \in WaitArgs
    BY <1>3 DEF IInv, TypeOK
  <2> QED
    BY Zenon, <1>1, <1>2, <1>5, <1>7, <2>1, <2>2, WaitpidPassOK
<1>9. CASE /\ TASK' = T
           /\ kctx' = [kctx EXCEPT ![current] = "user"]
           /\ wpid' = [wpid EXCEPT ![current] = 0]
           /\ UNCHANGED <<queue, current>>
  <2>1. /\ kctx' \in [Slots -> {"user", "waitpid", "disk"}] /\ kctx'[0] = "user"
        /\ wpid' \in [Slots -> WaitArgs] /\ pending' \subseteq Scanned
        /\ panicked' \in BOOLEAN
    BY <1>1, <1>3, <1>9 DEF IInv, TypeOK
  <2> QED
    BY Zenon, <1>1, <1>2, <1>5, <1>6, <1>7, <1>9, <2>1, KeepCurrent
<1> QED
  BY <1>4, <1>8, <1>9

\* A system call that sleeps on the disk keeps IInv on entry ...
LEMMA DiskRequestOK == ASSUME IInv, DiskRequest PROVE IInv'
<1>1. /\ sleep /\ UNCHANGED <<NEW_PID, wpid, panicked>>
      /\ pending' = pending \cup {current} /\ kctx' = [kctx EXCEPT ![current] = "disk"]
      /\ TASK[current].pid \in DISK_PIDS
  BY DEF DiskRequest
<1>2. current # 0
  BY <1>1, SchedAssumption DEF IInv, ProcsOK
<1>3. /\ kctx' \in [Slots -> {"user", "waitpid", "disk"}] /\ kctx'[0] = "user"
      /\ pending' \subseteq Scanned
  BY <1>1, <1>2, CurrentUnqueued, ScannedSlots DEF IInv, TypeOK
<1> QED
  BY <1>1, <1>2, <1>3, SleepOK

\* ... and when the sleeping task runs again.
LEMMA DiskResumeOK == ASSUME IInv, DiskResume PROVE IInv'
<1>1. /\ UNCHANGED <<NEW_PID, wpid, panicked>> /\ kctx[current] = "disk"
      /\ current \in Slots /\ 0 \in Slots
  BY ScannedSlots DEF DiskResume, IInv, TypeOK
<1>2. current # 0 /\ current \in Scanned
  BY <1>1, ScannedSlots DEF IInv
<1>3. CASE sleep /\ pending' \in {pending, pending \cup {current}} /\ UNCHANGED kctx
  <2>1. /\ kctx' \in [Slots -> {"user", "waitpid", "disk"}] /\ kctx'[0] = "user"
        /\ pending' \subseteq Scanned
    BY <1>2, <1>3 DEF IInv, TypeOK
  <2> QED
    BY <1>1, <1>2, <1>3, <2>1, SleepOK
<1>4. CASE /\ kctx' = [kctx EXCEPT ![current] = "user"]
           /\ UNCHANGED <<TASK, queue, current, pending>>
  <2>1. TypeOK' /\ kctx'[0] = "user"
    BY <1>1, <1>4 DEF IInv, TypeOK
  <2>2. TableOK(TASK') /\ ProcsOK(TASK', NEW_PID')
    BY <1>1, <1>4 DEF IInv
  <2>3. QueueInv'
    BY <1>4 DEF IInv, QueueInv
  <2>4. OneRunning'
    BY <1>4 DEF IInv, OneRunning, Alive
  <2> QED
    BY <2>1, <2>2, <2>3, <2>4 DEF IInv
<1> QED
  BY <1>3, <1>4 DEF DiskResume

\* The invariant is inductive: one step per handler of the kernel.
LEMMA NextIInv == IInv /\ [Next]_vars => IInv'
<1> SUFFICES ASSUME IInv, [Next]_vars
             PROVE  IInv'
  OBVIOUS
<1>1. CASE Fork
  BY <1>1, ForkOK
<1>2. CASE Exit
  BY <1>2, ExitOK
<1>3. ASSUME NEW arg \in WaitArgs, Waitpid(arg)
      PROVE  IInv'
  BY <1>3, WaitpidOK
<1>4. CASE WaitpidResume
  BY <1>4, WaitpidResumeOK
<1>5. CASE DiskRequest
  BY <1>5, DiskRequestOK
<1>6. CASE DiskResume
  BY <1>6, DiskResumeOK
<1>7. ASSUME NEW D \in SUBSET pending, DiskInterrupt(D)
      PROVE  IInv'
  BY <1>7, DiskInterruptOK
<1>8. CASE TimerInterrupt
  BY <1>8, TimerOK
<1>9. CASE UNCHANGED vars
  <2>1. TypeOK' /\ kctx'[0] = "user"
    BY <1>9 DEF vars, IInv, TypeOK
  <2>2. TableOK(TASK') /\ ProcsOK(TASK', NEW_PID')
    BY <1>9 DEF vars, IInv
  <2>3. QueueInv'
    BY <1>9 DEF vars, IInv, QueueInv
  <2>4. OneRunning'
    BY <1>9 DEF vars, IInv, OneRunning, Alive
  <2> QED
    BY <2>1, <2>2, <2>3, <2>4 DEF IInv
<1> QED
  BY <1>1, <1>2, <1>3, <1>4, <1>5, <1>6, <1>7, <1>8, <1>9 DEF Next, Halted

\* The invariant holds in every reachable state of the kernel.
LEMMA AlwaysIInv == Spec => []IInv
  BY InitIInv, NextIInv, PTL DEF Spec

\* Every field keeps its type in every behaviour of the scheduler: no order
\* ever indexes past the ready queues, whatever the table and queue sizes.
THEOREM TypeCorrect == Spec => []TypeOK
<1>1. IInv => TypeOK
  BY DEF IInv
<1> QED
  BY <1>1, AlwaysIInv, PTL

\* set_Queue() and schedule() keep nodes and tasks in agreement for ever, over
\* fork, exit, waitpid, sleep and every interrupt.
THEOREM QueuesAgree == Spec => []QueueInv
<1>1. IInv => QueueInv
  BY DEF IInv
<1> QED
  BY <1>1, AlwaysIInv, PTL

\* schedule() always leaves exactly one task running.
THEOREM ExactlyOneRuns == Spec => []OneRunning
<1>1. IInv => OneRunning
  BY DEF IInv
<1> QED
  BY <1>1, AlwaysIInv, PTL

\* find_new_id() never gives a pid twice.
THEOREM PidsNeverShared == Spec => []PidsUnique
<1>1. IInv => PidsUnique
  <2> SUFFICES ASSUME IInv
               PROVE  PidsUnique
    OBVIOUS
  <2>1. NEW_PID \in Nat
    BY SchedAssumption DEF IInv, TypeOK, Pids
  <2>2. \A i \in Slots : Alive(TASK, i) => TASK[i].pid <= NEW_PID
    BY <2>1, ScannedSlots DEF IInv, ProcsOK
  <2> QED
    BY <2>2 DEF IInv, ProcsOK, PidsUnique
<1> QED
  BY <1>1, AlwaysIInv, PTL

\* do_exit() leaves no task without a father that lives: every zombie can be
\* reaped.
THEOREM NoOrphans == Spec => []FatherAlive
<1>1. IInv => FatherAlive
  BY DEF IInv, ProcsOK, FatherAlive
<1> QED
  BY <1>1, AlwaysIInv, PTL
=============================================================================
