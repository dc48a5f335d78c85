-------------------------- MODULE SchedWaitProofs ---------------------------
(***************************************************************************)
(* No wakeup is lost: the signals of a task that sleeps for the disk, the   *)
(* children of one that waits in waitpid, and the lifecycle of processes.   *)
(***************************************************************************)
EXTENDS SchedProofs

(* What schedule() does to the tasks that wait *)

\* U is T after alter_state() and the rest of schedule(): a waiting task with a
\* signal other than STOP no longer waits and has no signals; nothing else
\* starts or stops to wait, or changes its signals.
Woken(T, U) ==
  \A i \in Scanned : Alive(T, i) =>
    IF T[i].state = "WAIT" /\ T[i].signal \ {"STOP"} # {}
    THEN U[i].state # "WAIT" /\ U[i].signal = {}
    ELSE (U[i].state = "WAIT" <=> T[i].state = "WAIT") /\ U[i].signal = T[i].signal

\* alter_state() wakes them, and set_Queue() and the dispatch touch no task
\* that waits and no signal.
LEMMA ScheduleWakes ==
  ASSUME NEW T, TableOK(T), queue \in Queues, Agree(T, queue), schedule(T)
  PROVE  Woken(T, TASK')
<1> DEFINE A == alter_state(T)
           S == set_Queue_task(A)
           Q == set_Queue(A)
<1>1. TableOK(A) /\ Agree(A, queue) /\ SameProcs(T, A)
  BY AlterStateOK
<1>2. TableOK(S) /\ Q \in Queues /\ Agree(S, Q) /\ SameProcs(A, S)
  BY <1>1, SetQueueOK
<1>3. (\E o \in Orders : Dispatch(S, Q, o)) \/ Idle(S, Q)
  BY DEF schedule
<1> SUFFICES ASSUME NEW i \in Scanned, Alive(T, i)
             PROVE  IF T[i].state = "WAIT" /\ T[i].signal \ {"STOP"} # {}
                    THEN TASK'[i].state # "WAIT" /\ TASK'[i].signal = {}
                    ELSE /\ TASK'[i].state = "WAIT" <=> T[i].state = "WAIT"
                         /\ TASK'[i].signal = T[i].signal
  BY DEF Woken
<1>4. i \in Slots /\ T[i] \in Task
  BY ScannedSlots DEF TableOK, Table, Alive
<1>5. IF T[i].state = "WAIT" /\ T[i].signal \ {"STOP"} # {}
      THEN A[i].state = "READY" /\ A[i].signal = {}
      ELSE A[i].state = T[i].state /\ A[i].signal = T[i].signal
  <2>1. A[i] = IF T[i].state = "WAIT" /\ T[i].signal \ {"STOP"} # {}
               THEN [T[i] EXCEPT !.state = "READY", !.signal = {}]
               ELSE T[i]
    BY <1>4 DEF alter_state
  <2>2. ASSUME NEW r \in Task
        PROVE  /\ [r EXCEPT !.state = "READY", !.signal = {}].state = "READY"
               /\ [r EXCEPT !.state = "READY", !.signal = {}].signal = {}
    BY DEF Task
  <2> QED
    BY <1>4, <2>1, <2>2
<1>6. A[i] \in Task
  BY <1>1, <1>4 DEF TableOK, Table, Alive, SameProcs
<1>7. /\ S[i].state = "WAIT" <=> A[i].state = "WAIT"
      /\ S[i].signal = A[i].signal
  <2>1. CASE i \in Enqueued(A)
    <3>1. A[i].state # "WAIT"
      BY <2>1 DEF Enqueued
    <3>2. S[i] = [A[i] EXCEPT !.order = NewOrder(A[i]), !.state = "READY",
                              !.in_Queue = TRUE, !.counter = COUNTER(NewOrder(A[i]))]
      BY <1>4, <2>1 DEF set_Queue_task
    <3> DEFINE y == [A[i] EXCEPT !.order = NewOrder(A[i]), !.state = "READY",
                                 !.in_Queue = TRUE, !.counter = COUNTER(NewOrder(A[i]))]
    <3> HIDE DEF A, S
    <3>3. y.state = "READY" /\ y.signal = A[i].signal
      BY <1>6 DEF Task
    <3>4. S[i].state = "READY" /\ S[i].signal = A[i].signal
      BY <3>2, <3>3
    <3> QED
      BY <3>1, <3>4
  <2>2. CASE i \notin Enqueued(A)
    BY <1>4, <2>2 DEF set_Queue_task
  <2> QED
    BY <2>1, <2>2
<1> HIDE DEF A, S, Q
<1>8. /\ TASK'[i].state = "WAIT" <=> S[i].state = "WAIT"
      /\ TASK'[i].signal = S[i].signal
  <2>1. CASE Idle(S, Q)
    BY <2>1 DEF Idle
  <2>2. ASSUME NEW o \in Orders, Dispatch(S, Q, o)
        PROVE  /\ TASK'[i].state = "WAIT" <=> S[i].state = "WAIT"
               /\ TASK'[i].signal = S[i].signal
    <3> DEFINE h == Head(Q[o])
    <3>1. Q[o] \in Seq(Scanned) /\ Q[o] # <<>>
      BY <1>2, <2>2 DEF Queues, Dispatch
    <3>2. h \in Scanned /\ 1 \in 1 .. Len(Q[o]) /\ h = Q[o][1]
      BY <3>1
    <3>3. S[h].state = "READY" /\ Alive(S, h)
      BY <1>2, <3>2 DEF Agree
    <3>4. S \in [Slots -> Task \cup {NULL}] /\ h \in Slots /\ S[h] \in Task
      BY <1>2, <3>2, <3>3, ScannedSlots, Zenon DEF TableOK, Table, Alive
    <3>5. TASK' = [S EXCEPT ![h].in_Queue = FALSE, ![h].state = "RUNNING"]
      BY <2>2 DEF Dispatch
    <3> HIDE DEF h
    <3>6. /\ TASK'[h] = [S[h] EXCEPT !.in_Queue = FALSE, !.state = "RUNNING"]
          /\ i # h => TASK'[i] = S[i]
      BY <1>4, <3>4, <3>5
    <3>7. TASK'[h].state = "RUNNING" /\ TASK'[h].signal = S[h].signal
      BY <3>4, <3>6 DEF Task
    <3> QED
      BY <3>3, <3>6, <3>7, Zenon
  <2> QED
    BY <1>3, <2>1, <2>2
<1> QED
  BY <1>5, <1>7, <1>8

-----------------------------------------------------------------------------
(* The inductive invariant *)

\* DiskSignals of table T, contexts k and requests P, and what makes it
\* inductive: a task asleep for the disk never loses all its signals, so
\* wakeup() finds its STOP.
SignalsOK(T, k, P) ==
  \A i \in Scanned : Alive(T, i) =>
    /\ T[i].state = "WAIT" /\ k[i] = "disk" =>
         /\ T[i].signal # {}
         /\ i \in P \/ T[i].signal \ {"STOP"} # {}
    /\ T[i].signal \cap {"STOP", "CONT"} # {} => T[i].state = "WAIT" /\ k[i] = "disk"

\* The children that task i of table T would accept from waitpid(w[i]).
Awaited(T, w, i) ==
  {c \in Scanned \ {i} : /\ Alive(T, c)
                         /\ T[c].father_pid = T[i].pid
                         /\ w[i] \in {-1, T[c].pid}}

NoneExited(T, w, i) == \A c \in Awaited(T, w, i) : T[c].state # "ZOMBINE"

Awaits(T, k, i) == Alive(T, i) /\ T[i].state = "WAIT" /\ k[i] = "waitpid"

\* NoLostChild of table T, contexts k and arguments w.
ChildrenOK(T, k, w) ==
  \A i \in Scanned : Awaits(T, k, i) => Awaited(T, w, i) # {} /\ NoneExited(T, w, i)

\* The same in the middle of do_exit(), before schedule() has looked at the
\* signals: a father whose child has exited is told.
ChildrenTold(T, k, w) ==
  \A i \in Scanned : Awaits(T, k, i) =>
    /\ Awaited(T, w, i) # {}
    /\ T[i].signal \ {"STOP"} = {} => NoneExited(T, w, i)

WInv ==
  /\ IInv
  /\ SignalsOK(TASK, kctx, pending)
  /\ ChildrenOK(TASK, kctx, wpid)

\* Tables with the same processes have the same awaited children.
LEMMA SameAwaited ==
  ASSUME NEW T, NEW U, NEW w, NEW i \in Scanned, SameProcs(T, U), Alive(T, i)
  PROVE  /\ Awaited(U, w, i) = Awaited(T, w, i)
         /\ NoneExited(U, w, i) <=> NoneExited(T, w, i)
<1>1. i \in Slots /\ \A c \in Scanned : c \in Slots
  BY ScannedSlots
<1>2. ASSUME NEW c \in Scanned
      PROVE  c \in Awaited(U, w, i) <=> c \in Awaited(T, w, i)
  BY <1>1 DEF Awaited, SameProcs
<1>3. Awaited(U, w, i) = Awaited(T, w, i)
  <2>1. Awaited(U, w, i) \subseteq Scanned /\ Awaited(T, w, i) \subseteq Scanned
    BY DEF Awaited
  <2> QED
    BY Zenon, <1>2, <2>1
<1>4. ASSUME NEW c \in Awaited(T, w, i)
      PROVE  U[c].state = "ZOMBINE" <=> T[c].state = "ZOMBINE"
  BY <1>1 DEF Awaited, SameProcs
<1> QED
  BY <1>3, <1>4 DEF NoneExited

\* schedule() wakes a task whose child has exited, so what holds after it is
\* NoLostChild.
LEMMA WokenOK ==
  ASSUME NEW T, NEW U, NEW k, NEW w, NEW P, Woken(T, U), SameProcs(T, U),
         SignalsOK(T, k, P), ChildrenTold(T, k, w)
  PROVE  SignalsOK(U, k, P) /\ ChildrenOK(U, k, w)
<1>1. ASSUME NEW i \in Scanned, Alive(U, i)
      PROVE  /\ Alive(T, i)
             /\ U[i].state = "WAIT" =>
                  /\ T[i].state = "WAIT" /\ T[i].signal \ {"STOP"} = {}
                  /\ U[i].signal = T[i].signal
             /\ U[i].state # "WAIT" =>
                  \/ U[i].signal = {}
                  \/ T[i].state # "WAIT" /\ U[i].signal = T[i].signal
  BY <1>1, ScannedSlots DEF Woken, SameProcs
<1>2. SignalsOK(U, k, P)
  BY <1>1 DEF SignalsOK
<1>3. ASSUME NEW i \in Scanned, Awaits(U, k, i)
      PROVE  Awaited(U, w, i) # {} /\ NoneExited(U, w, i)
  <2>1. Awaits(T, k, i) /\ T[i].signal \ {"STOP"} = {}
    BY <1>1, <1>3 DEF Awaits
  <2>2. Awaited(T, w, i) # {} /\ NoneExited(T, w, i) /\ Alive(T, i)
    BY <2>1 DEF ChildrenTold, Awaits
  <2> QED
    BY <2>2, SameAwaited
<1> QED
  BY <1>2, <1>3 DEF ChildrenOK

\* What the running task must be when a handler leaves it as t, in context k,
\* with waitpid argument w and requests P.
MayWait(t, k, w, P) ==
  /\ t.state = "WAIT" /\ k[current] = "disk" =>
       t.signal # {} /\ (current \in P \/ t.signal \ {"STOP"} # {})
  /\ t.signal \cap {"STOP", "CONT"} # {} => t.state = "WAIT" /\ k[current] = "disk"
  /\ t.state = "WAIT" /\ k[current] = "waitpid" =>
       Awaited(TASK, w, current) # {} /\ NoneExited(TASK, w, current)

\* Handlers that update the running task only.
LEMMA UpdateWaits ==
  ASSUME WInv, current # 0, NEW t \in Task, NEW k, NEW w, NEW P,
         t.pid = TASK[current].pid, t.father_pid = TASK[current].father_pid,
         t.state # "ZOMBINE",
         \A i \in Slots : i # current => k[i] = kctx[i] /\ w[i] = wpid[i],
         pending \subseteq P, MayWait(t, k, w, P)
  PROVE  /\ SameProcs(TASK, [TASK EXCEPT ![current] = t])
         /\ SignalsOK([TASK EXCEPT ![current] = t], k, P)
         /\ ChildrenOK([TASK EXCEPT ![current] = t], k, w)
<1> DEFINE T == [TASK EXCEPT ![current] = t]
<1>0. IInv
  BY DEF WInv
<1>1. /\ T[current] = t /\ t # NULL
      /\ \A i \in Slots : i # current => T[i] = TASK[i]
  BY Zenon, <1>0, CurrentUnqueued, IInvFacts, ScannedSlots, NullAssumption DEF Table
<1> HIDE DEF T
<1>2. SameProcs(TASK, T)
  BY <1>0, <1>1, CurrentUnqueued DEF SameProcs, Alive
<1>3. ASSUME NEW i \in Scanned, i # current
      PROVE  i \in Slots /\ T[i] = TASK[i] /\ k[i] = kctx[i] /\ w[i] = wpid[i]
  BY <1>1, <1>3, ScannedSlots
<1>4. SignalsOK(T, k, P)
  <2> SUFFICES ASSUME NEW i \in Scanned, Alive(T, i)
               PROVE  /\ T[i].state = "WAIT" /\ k[i] = "disk" =>
                           /\ T[i].signal # {}
                           /\ i \in P \/ T[i].signal \ {"STOP"} # {}
                      /\ T[i].signal \cap {"STOP", "CONT"} # {} =>
                           T[i].state = "WAIT" /\ k[i] = "disk"
    BY DEF SignalsOK
  <2>1. CASE i = current
    BY Zenon, <1>1, <2>1 DEF MayWait
  <2>2. CASE i # current
    <3>1. T[i] = TASK[i] /\ k[i] = kctx[i] /\ Alive(TASK, i)
      BY <1>3, <2>2 DEF Alive
    <3> QED
      BY <3>1 DEF WInv, SignalsOK
  <2> QED
    BY <2>1, <2>2
<1>5. ChildrenOK(T, k, w)
  <2> SUFFICES ASSUME NEW i \in Scanned, Awaits(T, k, i)
               PROVE  Awaited(T, w, i) # {} /\ NoneExited(T, w, i)
    BY DEF ChildrenOK
  <2>1. Alive(TASK, i)
    BY <1>2, ScannedSlots DEF Awaits, SameProcs
  <2>2. Awaited(TASK, w, i) # {} /\ NoneExited(TASK, w, i)
    <3>1. CASE i = current
      BY Zenon, <1>1, <3>1 DEF MayWait, Awaits
    <3>2. CASE i # current
      <4>1. Awaits(TASK, kctx, i) /\ w[i] = wpid[i]
        BY <1>3, <3>2 DEF Awaits, Alive
      <4>2. Awaited(TASK, wpid, i) # {} /\ NoneExited(TASK, wpid, i)
        BY <4>1 DEF WInv, ChildrenOK
      <4> QED
        BY <4>1, <4>2 DEF Awaited, NoneExited
    <3> QED
      BY <3>1, <3>2
  <2> QED
    BY <1>2, <2>1, <2>2, SameAwaited
<1> QED
  BY <1>2, <1>4, <1>5 DEF T

-----------------------------------------------------------------------------
(* One lemma per handler *)

\* The waits after a step.
WaitsOK == SignalsOK(TASK, kctx, pending) /\ ChildrenOK(TASK, kctx, wpid)

\* The running task carries neither STOP nor CONT.
LEMMA CurrentSignals ==
  ASSUME WInv, current # 0
  PROVE  TASK[current].signal \cap {"STOP", "CONT"} = {}
<1>1. current \in Scanned /\ Alive(TASK, current) /\ TASK[current].state # "WAIT"
  BY CurrentUnqueued DEF WInv
<1> QED
  BY <1>1 DEF WInv, SignalsOK

\* Handlers that update the running task and call schedule().
LEMMA RescheduleWaits ==
  ASSUME WInv, current # 0, NEW t \in Task,
         t.pid = TASK[current].pid, t.father_pid = TASK[current].father_pid,
         t.state # "ZOMBINE", t.order = TASK[current].order, t.in_Queue = FALSE,
         schedule([TASK EXCEPT ![current] = t]),
         \A i \in Slots : i # current => kctx'[i] = kctx[i] /\ wpid'[i] = wpid[i],
         pending \subseteq pending', MayWait(t, kctx', wpid', pending')
  PROVE  WaitsOK'
<1> DEFINE T == [TASK EXCEPT ![current] = t]
<1>0. IInv
  BY DEF WInv
<1>1. TableOK(T) /\ Agree(T, queue) /\ queue \in Queues
  BY Zenon, <1>0, CurrentUnqueued, IInvFacts, UpdateSlot DEF IInv
<1>2. SignalsOK(T, kctx', pending') /\ ChildrenOK(T, kctx', wpid')
  BY Zenon, UpdateWaits
<1> HIDE DEF T
<1>3. Woken(T, TASK') /\ SameProcs(T, TASK')
  BY <1>1, ScheduleWakes, ScheduleOK DEF T
<1>4. ChildrenTold(T, kctx', wpid')
  BY <1>2 DEF ChildrenOK, ChildrenTold
<1>5. SignalsOK(TASK', kctx', pending') /\ ChildrenOK(TASK', kctx', wpid')
  BY <1>2, <1>3, <1>4, WokenOK
<1> QED
  BY <1>5 DEF WaitsOK, SignalsOK, ChildrenOK, Awaits, Awaited, NoneExited, Alive

\* Handlers that update the running task and return to it.
LEMMA KeepWaits ==
  ASSUME WInv, current # 0, NEW t \in Task,
         t.pid = TASK[current].pid, t.father_pid = TASK[current].father_pid,
         t.state = "RUNNING", t.signal \cap {"STOP", "CONT"} = {},
         TASK' = [TASK EXCEPT ![current] = t],
         \A i \in Slots : i # current => kctx'[i] = kctx[i] /\ wpid'[i] = wpid[i],
         pending' = pending
  PROVE  WaitsOK'
<1>1. MayWait(t, kctx', wpid', pending') /\ t.state # "ZOMBINE"
  BY DEF MayWait
<1>2. pending \subseteq pending'
  OBVIOUS
<1>3. /\ SignalsOK([TASK EXCEPT ![current] = t], kctx', pending')
      /\ ChildrenOK([TASK EXCEPT ![current] = t], kctx', wpid')
  BY Zenon, <1>1, <1>2, UpdateWaits
<1>4. SignalsOK(TASK', kctx', pending') /\ ChildrenOK(TASK', kctx', wpid')
  BY Zenon, <1>3
<1> QED
  BY <1>4 DEF WaitsOK, SignalsOK, ChildrenOK, Awaits, Awaited, NoneExited, Alive

\* release() of an exited child: nobody else was waiting for it.
LEMMA ReapWaits ==
  ASSUME IInv, current # 0, NEW T, T \in Table, T[current].state = "RUNNING",
         SameProcs(TASK, T),
         SignalsOK(T, kctx', pending'), ChildrenOK(T, kctx', wpid'),
         NEW i \in Scanned, i # current, Alive(TASK, i),
         TASK[i].father_pid = TASK[current].pid,
         TASK' = [T EXCEPT ![i] = NULL]
  PROVE  WaitsOK'
<1>1. TASK'[i] = NULL /\ \A j \in Slots : j # i => TASK'[j] = T[j]
  BY ScannedSlots DEF Table
<1>2. \A j \in Scanned : Alive(TASK', j) => j # i /\ TASK'[j] = T[j] /\ Alive(T, j)
  BY <1>1, ScannedSlots DEF Alive
<1>3. SignalsOK(TASK', kctx', pending')
  BY <1>2 DEF SignalsOK
<1>4. ASSUME NEW j \in Scanned, Awaits(TASK', kctx', j)
      PROVE  Awaited(TASK', wpid', j) # {} /\ NoneExited(TASK', wpid', j)
  <2>1. j # i /\ TASK'[j] = T[j] /\ Awaits(T, kctx', j)
    BY <1>2, <1>4 DEF Awaits
  <2>2. j # current
    BY <2>1 DEF Awaits
  <2>3. T[i].father_pid # T[j].pid
    <3>1. /\ T[i].father_pid = TASK[current].pid
          /\ T[j].pid = TASK[j].pid /\ Alive(TASK, j) /\ Alive(TASK, current)
      BY <2>1, ScannedSlots, CurrentUnqueued DEF SameProcs, Awaits
    <3> QED
      BY <2>2, <3>1, ScannedSlots, CurrentUnqueued, Zenon DEF IInv, ProcsOK
  <2>4. \A c \in Scanned : c \in Awaited(TASK', wpid', j) <=> c \in Awaited(T, wpid', j)
    BY <1>1, <2>1, <2>3, ScannedSlots DEF Awaited, Alive
  <2>5. \A c \in Awaited(T, wpid', j) : c \in Scanned /\ TASK'[c] = T[c]
    BY <1>1, <2>3, ScannedSlots DEF Awaited
  <2>6. Awaited(T, wpid', j) # {} /\ NoneExited(T, wpid', j)
    BY <2>1 DEF ChildrenOK
  <2>7. \A c \in Awaited(TASK', wpid', j) : c \in Scanned
    BY DEF Awaited
  <2> QED
    BY <2>4, <2>5, <2>6, <2>7, Zenon DEF NoneExited
<1>5. ChildrenOK(TASK', kctx', wpid')
  BY <1>4, Zenon DEF ChildrenOK
<1> QED
  BY <1>3, <1>5 DEF WaitsOK, SignalsOK, ChildrenOK, Awaits, Awaited, NoneExited, Alive

\* One pass of waitpid's loop: the task blocks only after a scan that found
\* children to wait for and no exited one among them.
LEMMA WaitpidPassWaits ==
  ASSUME WInv, current # 0, NEW t \in Task, NEW arg \in WaitArgs,
         t.pid = TASK[current].pid, t.father_pid = TASK[current].father_pid,
         t.state = "RUNNING", t.order = TASK[current].order, t.in_Queue = FALSE,
         t.signal \cap {"STOP", "CONT"} = {},
         WaitpidPass([TASK EXCEPT ![current] = t], arg), pending' = pending
  PROVE  WaitsOK'
<1> DEFINE T == [TASK EXCEPT ![current] = t]
<1>0. IInv
  BY DEF WInv
<1>1. /\ TASK \in Table /\ current \in Slots /\ T[current] = t
      /\ kctx \in [Slots -> {"user", "waitpid", "disk"}]
      /\ wpid \in [Slots -> WaitArgs]
  BY <1>0, IInvFacts, CurrentUnqueued, ScannedSlots DEF IInv, TypeOK, Table
<1>2. ASSUME NEW k, NEW w,
             \A j \in Slots : j # current => k[j] = kctx[j] /\ w[j] = wpid[j]
      PROVE  SameProcs(TASK, T) /\ SignalsOK(T, k, pending) /\ ChildrenOK(T, k, w)
  <2>1. MayWait(t, k, w, pending) /\ t.state # "ZOMBINE"
    BY DEF MayWait
  <2>2. pending \subseteq pending
    OBVIOUS
  <2> QED
    BY <1>2, <2>1, <2>2, UpdateWaits
<1>3. ASSUME NEW i \in Exited(arg), TASK' = [T EXCEPT ![i] = NULL],
             kctx' = [kctx EXCEPT ![current] = "user"],
             wpid' = [wpid EXCEPT ![current] = 0]
      PROVE  WaitsOK'
  <2>1. /\ i \in Scanned /\ i # current /\ Alive(TASK, i)
        /\ TASK[i].father_pid = TASK[current].pid
    BY DEF Exited, Matching
  <2>2. \A j \in Slots : j # current => kctx'[j] = kctx[j] /\ wpid'[j] = wpid[j]
    BY <1>1, <1>3
  <2>3. /\ SameProcs(TASK, T)
        /\ SignalsOK(T, kctx', pending') /\ ChildrenOK(T, kctx', wpid')
    BY <1>2, <2>2, Zenon
  <2>4. T \in Table /\ T[current].state = "RUNNING"
    BY <1>1 DEF Table
  <2> HIDE DEF T
  <2> QED
    BY <1>0, <1>3, <2>1, <2>3, <2>4, ReapWaits, Zenon
<1>4. ASSUME Exited(arg) = {}, Matching(arg) # {},
             schedule([T EXCEPT ![current] =
                         [@ EXCEPT !.state = "WAIT", !.in_Queue = FALSE]]),
             kctx' = [kctx EXCEPT ![current] = "waitpid"],
             wpid' = [wpid EXCEPT ![current] = arg]
      PROVE  WaitsOK'
  <2> DEFINE u == [t EXCEPT !.state = "WAIT", !.in_Queue = FALSE]
  <2>1. /\ u \in Task
        /\ u.pid = t.pid /\ u.father_pid = t.father_pid
        /\ u.state = "WAIT" /\ u.order = t.order /\ u.in_Queue = FALSE
        /\ u.signal = t.signal
    BY Zenon DEF Task
  <2>2. [T EXCEPT ![current] = [@ EXCEPT !.state = "WAIT", !.in_Queue = FALSE]]
          = [TASK EXCEPT ![current] = u]
    BY Zenon, <1>1 DEF Table
  <2> HIDE DEF u, T
  <2>3. schedule([TASK EXCEPT ![current] = u])
    BY <1>4, <2>2
  <2>4. /\ \A j \in Slots : j # current => kctx'[j] = kctx[j] /\ wpid'[j] = wpid[j]
        /\ kctx'[current] = "waitpid" /\ wpid'[current] = arg
    BY <1>1, <1>4
  <2>5. \A c \in Scanned : c \in Awaited(TASK, wpid', current) <=> c \in Matching(arg)
    <3>1. \A c \in Scanned : Alive(TASK, c) => TASK[c].pid \in 1 .. NEW_PID
      BY <1>0 DEF IInv, ProcsOK
    <3>2. arg \in Int
      BY SchedAssumption DEF WaitArgs, Pids
    <3> QED
      BY <2>4, <3>1, <3>2 DEF Awaited, Matching
  <2>6. Awaited(TASK, wpid', current) # {} /\ NoneExited(TASK, wpid', current)
    <3>1. /\ \A c \in Matching(arg) : c \in Scanned /\ TASK[c].state # "ZOMBINE"
          /\ \A c \in Awaited(TASK, wpid', current) : c \in Scanned
      BY <1>4 DEF Exited, Matching, Awaited
    <3> QED
      BY <1>4, <2>5, <3>1, Zenon DEF NoneExited
  <2>7. MayWait(u, kctx', wpid', pending')
    BY <2>1, <2>4, <2>6 DEF MayWait
  <2>8. u.state # "ZOMBINE" /\ pending \subseteq pending'
    BY <2>1
  <2> QED
    BY Zenon, <2>1, <2>3, <2>4, <2>7, <2>8, RescheduleWaits
<1>5. ASSUME TASK' = T,
             kctx' = [kctx EXCEPT ![current] = "user"],
             wpid' = [wpid EXCEPT ![current] = 0]
      PROVE  WaitsOK'
  <2>1. \A j \in Slots : j # current => kctx'[j] = kctx[j] /\ wpid'[j] = wpid[j]
    BY <1>1, <1>5
  <2> QED
    BY Zenon, <1>5, <2>1, KeepWaits
<1> QED
  BY <1>3, <1>4, <1>5 DEF WaitpidPass, release

\* sys_waitpid() on entry ...
LEMMA WaitpidWaits == ASSUME WInv, NEW arg \in WaitArgs, Waitpid(arg) PROVE WaitsOK'
<1>0. IInv
  BY DEF WInv
<1>1. current # 0 /\ WaitpidPass(TASK, arg) /\ pending' = pending
  BY DEF Waitpid
<1>2. TASK = [TASK EXCEPT ![current] = TASK[current]]
  BY <1>0, IInvFacts DEF Table
<1>3. WaitpidPass([TASK EXCEPT ![current] = TASK[current]], arg)
  BY <1>1, <1>2
<1> QED
  BY Zenon, <1>0, <1>1, <1>3, CurrentUnqueued, CurrentSignals, WaitpidPassWaits

\* ... and when the blocked task runs again.
LEMMA WaitpidResumeWaits == ASSUME WInv, WaitpidResume PROVE WaitsOK'
<1> DEFINE rest == TASK[current].signal \ {"CHLD"}
           T == [TASK EXCEPT ![current].signal = rest]
           t == [TASK[current] EXCEPT !.signal = rest]
<1>0. IInv
  BY DEF WInv
<1>1. pending' = pending /\ kctx[current] = "waitpid"
  BY DEF WaitpidResume
<1>2. current # 0
  BY <1>0, <1>1 DEF IInv
<1>3. TASK[current] \in Task /\ current \in Slots
  BY Zenon, <1>0, <1>2, CurrentUnqueued, ScannedSlots
<1>4. \/ WaitpidPass(T, wpid[current])
      \/ /\ TASK' = T
         /\ kctx' = [kctx EXCEPT ![current] = "user"]
         /\ wpid' = [wpid EXCEPT ![current] = 0]
  BY DEF WaitpidResume
<1>5. /\ t \in Task /\ t.pid = TASK[current].pid
      /\ t.father_pid = TASK[current].father_pid
      /\ t.state = TASK[current].state /\ t.order = TASK[current].order
      /\ t.in_Queue = TASK[current].in_Queue /\ t.signal = rest
  BY <1>3 DEF Task
<1>6. T = [TASK EXCEPT ![current] = t]
  OBVIOUS
<1> HIDE DEF T, t
<1>7. /\ t.state = "RUNNING" /\ t.in_Queue = FALSE
      /\ t.signal \cap {"STOP", "CONT"} = {}
  BY <1>0, <1>2, <1>5, CurrentUnqueued, CurrentSignals, Zenon
<1>8. CASE WaitpidPass(T, wpid[current])
  <2>1. WaitpidPass([TASK EXCEPT ![current] = t], wpid[current])
    BY <1>6, <1>8
  <2>2. wpid[current] \in WaitArgs
    BY <1>0, <1>3 DEF IInv, TypeOK
  <2> QED
    BY Zenon, <1>1, <1>2, <1>5, <1>7, <2>1, <2>2, WaitpidPassWaits
<1>9. CASE /\ TASK' = T
           /\ kctx' = [kctx EXCEPT ![current] = "user"]
           /\ wpid' = [wpid EXCEPT ![current] = 0]
  <2>1. \A j \in Slots : j # current => kctx'[j] = kctx[j] /\ wpid'[j] = wpid[j]
    BY <1>0, <1>3, <1>9 DEF IInv, TypeOK
  <2> QED
    BY Zenon, <1>1, <1>2, <1>5, <1>6, <1>7, <1>9, <2>1, KeepWaits
<1> QED
  BY <1>4, <1>8, <1>9

\* sleep(): the task has STOP, and its request is unfinished.
LEMMA SleepWaits ==
  ASSUME WInv, current # 0, sleep, kctx'[current] = "disk",
         \A i \in Slots : i # current => kctx'[i] = kctx[i], wpid' = wpid,
         pending \subseteq pending', current \in pending'
  PROVE  WaitsOK'
<1> DEFINE t == [TASK[current] EXCEPT !.state = "WAIT",
                                      !.signal = TASK[current].signal \cup {"STOP"}]
<1>0. IInv
  BY DEF WInv
<1>1. TASK[current] \in Task /\ current \in Slots /\ TASK \in Table
  BY Zenon, <1>0, CurrentUnqueued, ScannedSlots, IInvFacts
<1>2. /\ t \in Task /\ t.pid = TASK[current].pid
      /\ t.father_pid = TASK[current].father_pid
      /\ t.state = "WAIT" /\ t.order = TASK[current].order
      /\ t.in_Queue = TASK[current].in_Queue
      /\ t.signal = TASK[current].signal \cup {"STOP"}
  BY Zenon, <1>1 DEF Task
<1>3. [TASK EXCEPT ![current].state = "WAIT", ![current].signal = @ \cup {"STOP"}]
        = [TASK EXCEPT ![current] = t]
  BY Zenon, <1>1 DEF Table, Task
<1> HIDE DEF t
<1>4. schedule([TASK EXCEPT ![current] = t])
  BY <1>3 DEF sleep
<1>5. t.state # "ZOMBINE" /\ t.in_Queue = FALSE
  BY Zenon, <1>0, <1>2, CurrentUnqueued
<1>6. MayWait(t, kctx', wpid', pending')
  BY <1>2 DEF MayWait
<1>7. \A i \in Slots : i # current => kctx'[i] = kctx[i] /\ wpid'[i] = wpid[i]
  OBVIOUS
<1> QED
  BY Zenon, <1>2, <1>4, <1>5, <1>6, <1>7, RescheduleWaits

LEMMA DiskRequestWaits == ASSUME WInv, DiskRequest PROVE WaitsOK'
<1>0. IInv
  BY DEF WInv
<1>1. current # 0
  BY <1>0, SchedAssumption DEF DiskRequest, IInv, ProcsOK
<1>2. sleep /\ wpid' = wpid
  BY DEF DiskRequest
<1>3. /\ kctx'[current] = "disk"
      /\ \A i \in Slots : i # current => kctx'[i] = kctx[i]
  BY <1>0 DEF DiskRequest, IInv, TypeOK
<1>4. pending \subseteq pending' /\ current \in pending'
  BY DEF DiskRequest
<1> QED
  BY Zenon, <1>1, <1>2, <1>3, <1>4, SleepWaits

LEMMA DiskResumeWaits == ASSUME WInv, DiskResume PROVE WaitsOK'
<1>0. IInv
  BY DEF WInv
<1>1. kctx[current] = "disk" /\ wpid' = wpid
  BY DEF DiskResume
<1>2. current # 0
  BY <1>0, <1>1 DEF IInv
<1>3. \/ /\ sleep /\ kctx' = kctx
         /\ pending \subseteq pending' /\ current \in pending'
      \/ /\ kctx' = [kctx EXCEPT ![current] = "user"]
         /\ UNCHANGED <<TASK, pending>>
  BY DEF DiskResume
<1>4. CASE /\ sleep /\ kctx' = kctx
           /\ pending \subseteq pending' /\ current \in pending'
  <2>1. kctx'[current] = "disk" /\ \A i \in Slots : i # current => kctx'[i] = kctx[i]
    BY <1>1, <1>4
  <2> QED
    BY Zenon, <1>1, <1>2, <1>4, <2>1, SleepWaits
<1>5. CASE /\ kctx' = [kctx EXCEPT ![current] = "user"]
           /\ UNCHANGED <<TASK, pending>>
  <2>1. TASK' = [TASK EXCEPT ![current] = TASK[current]] /\ pending' = pending
    BY <1>0, <1>5, IInvFacts DEF Table
  <2>2. \A i \in Slots : i # current => kctx'[i] = kctx[i] /\ wpid'[i] = wpid[i]
    BY <1>0, <1>1, <1>5 DEF IInv, TypeOK
  <2>3. TASK[current] \in Task /\ TASK[current].state = "RUNNING"
    BY Zenon, <1>0, <1>2, CurrentUnqueued
  <2>4. TASK[current].signal \cap {"STOP", "CONT"} = {}
    BY Zenon, <1>2, CurrentSignals
  <2> QED
    BY Zenon, <1>2, <2>1, <2>2, <2>3, <2>4, KeepWaits
<1> QED
  BY <1>3, <1>4, <1>5

\* The disk interrupt turns every STOP into CONT, so that the tasks whose
\* requests are finished wake at the next schedule().
LEMMA DiskInterruptWaits ==
  ASSUME WInv, NEW D \in SUBSET pending, DiskInterrupt(D)
  PROVE  WaitsOK'
<1>0. TASK \in Table
  BY IInvFacts DEF WInv
<1>1. /\ TASK' = wakeup(TASK) /\ kctx' = kctx /\ wpid' = wpid
  BY DEF DiskInterrupt
<1>2. ASSUME NEW i \in Scanned
      PROVE  /\ Alive(TASK', i) <=> Alive(TASK, i)
             /\ Alive(TASK, i) =>
                  /\ TASK'[i].pid = TASK[i].pid
                  /\ TASK'[i].father_pid = TASK[i].father_pid
                  /\ TASK'[i].state = TASK[i].state
                  /\ TASK'[i].signal = IF "STOP" \in TASK[i].signal
                                       THEN (TASK[i].signal \ {"STOP"}) \cup {"CONT"}
                                       ELSE TASK[i].signal
  BY <1>0, <1>1, WakeupIs, ScannedSlots
<1>3. SignalsOK(TASK', kctx, pending')
  <2> SUFFICES ASSUME NEW i \in Scanned, Alive(TASK', i)
               PROVE  /\ TASK'[i].state = "WAIT" /\ kctx[i] = "disk" =>
                           /\ TASK'[i].signal # {}
                           /\ TASK'[i].signal \ {"STOP"} # {}
                      /\ TASK'[i].signal \cap {"STOP", "CONT"} # {} =>
                           TASK'[i].state = "WAIT" /\ kctx[i] = "disk"
    BY DEF SignalsOK
  <2>1. /\ Alive(TASK, i) /\ TASK'[i].state = TASK[i].state
        /\ TASK'[i].signal = IF "STOP" \in TASK[i].signal
                             THEN (TASK[i].signal \ {"STOP"}) \cup {"CONT"}
                             ELSE TASK[i].signal
    BY <1>2
  <2>2. /\ TASK[i].state = "WAIT" /\ kctx[i] = "disk" => TASK[i].signal # {}
        /\ TASK[i].signal \cap {"STOP", "CONT"} # {} =>
             TASK[i].state = "WAIT" /\ kctx[i] = "disk"
    BY <2>1 DEF WInv, SignalsOK
  <2> QED
    BY <2>1, <2>2
<1>4. ChildrenOK(TASK', kctx, wpid)
  <2> SUFFICES ASSUME NEW i \in Scanned, Awaits(TASK', kctx, i)
               PROVE  Awaited(TASK', wpid, i) # {} /\ NoneExited(TASK', wpid, i)
    BY DEF ChildrenOK
  <2>1. Awaits(TASK, kctx, i) /\ TASK'[i].pid = TASK[i].pid
    BY <1>2, Zenon DEF Awaits
  <2>2. Awaited(TASK, wpid, i) # {} /\ NoneExited(TASK, wpid, i)
    BY <2>1 DEF WInv, ChildrenOK
  <2>3. ASSUME NEW c \in Scanned
        PROVE  c \in Awaited(TASK', wpid, i) <=> c \in Awaited(TASK, wpid, i)
    BY <1>2, <2>1, Zenon DEF Awaited
  <2>4. \A c \in Awaited(TASK, wpid, i) : c \in Scanned /\ TASK'[c].state = TASK[c].state
    BY <1>2, Zenon DEF Awaited
  <2>5. \A c \in Awaited(TASK', wpid, i) : c \in Scanned
    BY DEF Awaited
  <2> QED
    BY <2>2, <2>3, <2>4, <2>5 DEF NoneExited
<1> QED
  BY <1>1, <1>3, <1>4
     DEF WaitsOK, SignalsOK, ChildrenOK, Awaits, Awaited, NoneExited, Alive

\* do_timer() changes no signal and no wait, and may call schedule().
LEMMA TimerWaits == ASSUME WInv, TimerInterrupt PROVE WaitsOK'
<1>0. IInv
  BY DEF WInv
<1>1. UNCHANGED <<kctx, wpid, pending>>
  BY DEF TimerInterrupt
<1>2. CASE TASK[current].pid = 0
  <2>1. schedule(TASK)
    BY <1>2 DEF TimerInterrupt
  <2>2. Woken(TASK, TASK') /\ SameProcs(TASK, TASK')
    BY <1>0, <2>1, ScheduleWakes, ScheduleOK, IInvFacts DEF IInv
  <2>3. ChildrenTold(TASK, kctx, wpid) /\ SignalsOK(TASK, kctx, pending)
    BY DEF WInv, ChildrenOK, ChildrenTold
  <2>4. SignalsOK(TASK', kctx, pending) /\ ChildrenOK(TASK', kctx, wpid)
    BY <2>2, <2>3, WokenOK
  <2> QED
    BY <1>1, <2>4 DEF WaitsOK, SignalsOK, ChildrenOK, Awaits, Awaited, NoneExited, Alive
<1>3. CASE TASK[current].pid # 0
  <2> DEFINE t == [TASK[current] EXCEPT !.counter = TASK[current].counter - 1]
             T == [TASK EXCEPT ![current].counter = @ - 1]
  <2>1. current # 0
    BY <1>0, <1>3 DEF IInv, ProcsOK
  <2>2. TASK[current] \in Task
    BY Zenon, <1>0, <2>1, CurrentUnqueued
  <2>3. /\ t \in Task /\ t.pid = TASK[current].pid
        /\ t.father_pid = TASK[current].father_pid
        /\ t.state = TASK[current].state /\ t.order = TASK[current].order
        /\ t.in_Queue = TASK[current].in_Queue /\ t.signal = TASK[current].signal
    BY <2>2 DEF Task
  <2>4. T = [TASK EXCEPT ![current] = t]
    OBVIOUS
  <2>5. TASK' = T \/ schedule(T)
    BY <1>3 DEF TimerInterrupt
  <2> HIDE DEF t, T
  <2>6. t.state = "RUNNING" /\ t.state # "ZOMBINE" /\ t.in_Queue = FALSE
    BY Zenon, <1>0, <2>1, <2>3, CurrentUnqueued
  <2>7. t.signal \cap {"STOP", "CONT"} = {}
    BY Zenon, <2>1, <2>3, CurrentSignals
  <2>8. \A i \in Slots : i # current => kctx'[i] = kctx[i] /\ wpid'[i] = wpid[i]
    BY <1>1
  <2>9. CASE TASK' = T
    BY Zenon, <1>1, <2>1, <2>3, <2>4, <2>6, <2>7, <2>8, <2>9, KeepWaits
  <2>10. CASE schedule(T)
    <3>1. schedule([TASK EXCEPT ![current] = t])
      BY <2>4, <2>10
    <3>2. MayWait(t, kctx', wpid', pending')
      BY <2>6, <2>7 DEF MayWait
    <3>3. pending \subseteq pending'
      BY <1>1
    <3> QED
      BY Zenon, <2>1, <2>3, <2>6, <2>8, <3>1, <3>2, <3>3, RescheduleWaits
  <2> QED
    BY <2>5, <2>9, <2>10
<1> QED
  BY <1>2, <1>3

\* sys_fork() adds a task that neither waits nor has exited.
LEMMA ForkWaits == ASSUME WInv, Fork PROVE WaitsOK'
<1>0. IInv /\ TASK \in Table
  BY IInvFacts DEF WInv
<1>1. UNCHANGED <<wpid, pending>>
  BY DEF Fork
<1>2. ASSUME UNCHANGED <<TASK, kctx>>
      PROVE  WaitsOK'
  <2>1. SignalsOK(TASK', kctx', pending') /\ ChildrenOK(TASK', kctx', wpid')
    BY <1>1, <1>2 DEF WInv
  <2> QED
    BY <2>1 DEF WaitsOK, SignalsOK, ChildrenOK, Awaits, Awaited, NoneExited, Alive
<1>3. ASSUME NEW i \in Scanned, ~Alive(TASK, i),
             TASK' = [TASK EXCEPT ![i] = copy_process(i)],
             kctx' = [kctx EXCEPT ![i] = "user"]
      PROVE  WaitsOK'
  <2>1. copy_process(i).state = "READY" /\ copy_process(i).signal = {}
    BY DEF copy_process
  <2>2. /\ TASK'[i].state = "READY" /\ TASK'[i].signal = {}
        /\ \A j \in Scanned : j # i => TASK'[j] = TASK[j] /\ kctx'[j] = kctx[j]
    BY <1>0, <1>3, <2>1, ScannedSlots DEF Table, IInv, TypeOK
  <2>3. SignalsOK(TASK', kctx', pending)
    <3> SUFFICES ASSUME NEW j \in Scanned, Alive(TASK', j)
                 PROVE  /\ TASK'[j].state = "WAIT" /\ kctx'[j] = "disk" =>
                             /\ TASK'[j].signal # {}
                             /\ j \in pending \/ TASK'[j].signal \ {"STOP"} # {}
                        /\ TASK'[j].signal \cap {"STOP", "CONT"} # {} =>
                             TASK'[j].state = "WAIT" /\ kctx'[j] = "disk"
      BY DEF SignalsOK
    <3>1. CASE j = i
      BY <2>2, <3>1
    <3>2. CASE j # i
      BY <2>2, <3>2 DEF WInv, SignalsOK, Alive
    <3> QED
      BY <3>1, <3>2
  <2>4. ASSUME NEW j \in Scanned, Awaits(TASK', kctx', j)
        PROVE  Awaited(TASK', wpid, j) # {} /\ NoneExited(TASK', wpid, j)
    <3>1. j # i /\ Awaits(TASK, kctx, j) /\ TASK'[j] = TASK[j]
      BY <2>2, <2>4 DEF Awaits, Alive
    <3>2. Awaited(TASK, wpid, j) # {} /\ NoneExited(TASK, wpid, j)
      BY <3>1 DEF WInv, ChildrenOK
    <3>3. \A c \in Awaited(TASK, wpid, j) : c \in Awaited(TASK', wpid, j)
      BY <1>3, <2>2, <3>1 DEF Awaited, Alive
    <3>4. \A c \in Awaited(TASK', wpid, j) :
            \/ c = i
            \/ c \in Awaited(TASK, wpid, j) /\ TASK'[c] = TASK[c]
      BY <2>2, <3>1 DEF Awaited, Alive
    <3> QED
      BY <2>2, <3>2, <3>3, <3>4 DEF NoneExited
  <2>5. ChildrenOK(TASK', kctx', wpid)
    BY <2>4 DEF ChildrenOK
  <2> QED
    BY <1>1, <2>3, <2>5
       DEF WaitsOK, SignalsOK, ChildrenOK, Awaits, Awaited, NoneExited, Alive
<1> QED
  BY Zenon, <1>2, <1>3 DEF Fork, find_new_id

\* do_exit() tells every father that gets an exited child: before it calls
\* schedule(), a task that waits for that child has SIG_CHLD.
LEMMA ExitWaits == ASSUME WInv, Exit PROVE WaitsOK'
<1> DEFINE pid == TASK[current].pid
           W == ExitTable
<1>0. IInv
  BY DEF WInv
<1>1. schedule(W) /\ UNCHANGED <<kctx, wpid, pending>> /\ pid > 1
  BY DEF Exit, ExitTable
<1>2. current # 0
  BY <1>0, <1>1 DEF IInv, ProcsOK
<1>3. current \in Scanned /\ Alive(TASK, current) /\ TASK[current].state = "RUNNING"
  BY Zenon, <1>0, <1>2, CurrentUnqueued
<1>4. TableOK(W) /\ Agree(W, queue) /\ ExitEffect(W)
  BY <1>0, <1>1, <1>3, ExitTableOK
<1> HIDE DEF W
<1>5. ASSUME NEW i \in Scanned, Alive(W, i)
      PROVE  /\ Alive(TASK, i) /\ W[i].pid = TASK[i].pid
             /\ i # current => W[i].state = TASK[i].state
             /\ i = current => W[i].state = "ZOMBINE"
             /\ W[i].signal = TASK[i].signal \/ W[i].signal = TASK[i].signal \cup {"CHLD"}
  <2>1. Alive(TASK, i)
    BY <1>4, <1>5, ScannedSlots DEF ExitEffect
  <2> QED
    BY <1>4, <2>1, ScannedSlots DEF ExitEffect
<1>6. SignalsOK(W, kctx, pending)
  <2> SUFFICES ASSUME NEW i \in Scanned, Alive(W, i)
               PROVE  /\ W[i].state = "WAIT" /\ kctx[i] = "disk" =>
                           /\ W[i].signal # {}
                           /\ i \in pending \/ W[i].signal \ {"STOP"} # {}
                      /\ W[i].signal \cap {"STOP", "CONT"} # {} =>
                           W[i].state = "WAIT" /\ kctx[i] = "disk"
    BY DEF SignalsOK
  <2>1. /\ W[i].state = "WAIT" => TASK[i].state = "WAIT"
        /\ TASK[i].state = "WAIT" => W[i].state = "WAIT"
    BY <1>3, <1>5
  <2>2. /\ TASK[i].state = "WAIT" /\ kctx[i] = "disk" =>
             /\ TASK[i].signal # {}
             /\ i \in pending \/ TASK[i].signal \ {"STOP"} # {}
        /\ TASK[i].signal \cap {"STOP", "CONT"} # {} =>
             TASK[i].state = "WAIT" /\ kctx[i] = "disk"
    BY <1>5 DEF WInv, SignalsOK
  <2> QED
    BY <1>5, <2>1, <2>2
<1>7. ASSUME NEW i \in Scanned, Awaits(W, kctx, i)
      PROVE  /\ Awaited(W, wpid, i) # {}
             /\ W[i].signal \ {"STOP"} = {} => NoneExited(W, wpid, i)
  <2>1. /\ Alive(TASK, i) /\ i # current /\ W[i].pid = TASK[i].pid
        /\ Awaits(TASK, kctx, i)
    BY <1>5, <1>7 DEF Awaits
  <2>2. Awaited(TASK, wpid, i) # {} /\ NoneExited(TASK, wpid, i)
    BY <2>1 DEF WInv, ChildrenOK
  <2>3. /\ \A j \in Slots : Alive(TASK, j) /\ TASK[j].pid = TASK[i].pid => j = i
        /\ TASK[i].pid # pid /\ i \in Slots
    BY <1>0, <1>3, <2>1, ScannedSlots DEF IInv, ProcsOK
  <2>4. PICK c \in Awaited(TASK, wpid, i) : TRUE
    BY <2>2
  <2>5. /\ c \in Scanned /\ c # i /\ Alive(TASK, c) /\ Alive(W, c)
        /\ TASK[c].father_pid = TASK[i].pid /\ wpid[i] \in {-1, TASK[c].pid}
    BY <1>4, <2>4, ScannedSlots DEF Awaited, ExitEffect
  <2>6. W[c].father_pid = TASK[c].father_pid
    <3>1. CASE c = current
      BY <1>4, <2>1, <2>5, <3>1 DEF ExitEffect
    <3>2. CASE c # current
      BY <1>4, <2>3, <2>5, <3>2 DEF ExitEffect
    <3> QED
      BY <3>1, <3>2
  <2>7. c \in Awaited(W, wpid, i)
    BY <1>5, <2>1, <2>5, <2>6 DEF Awaited
  <2>8. ASSUME W[i].signal \ {"STOP"} = {}, NEW d \in Awaited(W, wpid, i),
               W[d].state = "ZOMBINE"
        PROVE  FALSE
    <3>1. /\ d \in Scanned /\ d # i /\ Alive(W, d) /\ Alive(TASK, d)
          /\ W[d].father_pid = TASK[i].pid /\ wpid[i] \in {-1, TASK[d].pid}
      BY <1>5, <2>1, <2>8 DEF Awaited
    <3>2. "CHLD" \notin W[i].signal
      BY <2>8
    <3>3. TASK[i].pid = 1 => i = 1
      <4>1. pid \in 1 .. NEW_PID
        BY <1>0, <1>3 DEF IInv, ProcsOK
      <4>2. NEW_PID > 0
        BY <1>0, <4>1 DEF IInv, TypeOK, Pids
      <4>3. Alive(TASK, 1) /\ TASK[1].pid = 1 /\ 1 \in Slots
        BY <1>0, <4>2, ScannedSlots DEF IInv, ProcsOK
      <4> QED
        BY <2>3, <4>3
    <3>4. CASE d = current
      <4>1. ASSUME NEW f \in Scanned, Alive(TASK, f),
                   TASK[f].pid = TASK[current].father_pid, "CHLD" \in W[f].signal,
                   W[current].father_pid = TASK[current].father_pid
            PROVE  FALSE
        BY <2>3, <3>1, <3>2, <3>4, <4>1, ScannedSlots
      <4>2. ASSUME "CHLD" \in W[1].signal, W[current].father_pid = 1
            PROVE  FALSE
        BY <3>1, <3>2, <3>3, <3>4, <4>2
      <4> QED
        BY <1>4, <4>1, <4>2 DEF ExitEffect
    <3>5. CASE d # current
      <4>1. TASK[d].state = "ZOMBINE"
        BY <1>5, <2>8, <3>1, <3>5
      <4>2. W[d].father_pid = IF TASK[d].father_pid = pid THEN 1 ELSE TASK[d].father_pid
        BY <1>4, <3>1, <3>5 DEF ExitEffect
      <4>3. CASE TASK[d].father_pid = pid
        <5>1. d \in Children(TASK, pid)
          BY <3>1, <4>3 DEF Children
        <5>2. "CHLD" \in W[1].signal
          BY <1>4, <4>1, <5>1 DEF ExitEffect
        <5> QED
          BY <3>1, <3>2, <3>3, <4>2, <4>3, <5>2
      <4>4. CASE TASK[d].father_pid # pid
        <5>1. d \in Awaited(TASK, wpid, i)
          BY <3>1, <4>2, <4>4 DEF Awaited
        <5> QED
          BY <2>2, <4>1, <5>1 DEF NoneExited
      <4> QED
        BY <4>3, <4>4
    <3> QED
      BY <3>4, <3>5
  <2> QED
    BY <2>7, <2>8 DEF NoneExited
<1>8. ChildrenTold(W, kctx, wpid)
  BY <1>7 DEF ChildrenTold
<1>9. Woken(W, TASK') /\ SameProcs(W, TASK')
  BY <1>0, <1>1, <1>4, ScheduleWakes, ScheduleOK, IInvFacts
<1>10. SignalsOK(TASK', kctx, pending) /\ ChildrenOK(TASK', kctx, wpid)
  BY <1>6, <1>8, <1>9, WokenOK
<1> QED
  BY <1>1, <1>10 DEF WaitsOK, SignalsOK, ChildrenOK, Awaits, Awaited, NoneExited, Alive

-----------------------------------------------------------------------------
(* The waits are right in every behaviour *)

LEMMA InitWInv == Init => WInv
<1> SUFFICES ASSUME Init
             PROVE  WInv
  OBVIOUS
<1>1. \A i \in Scanned : ~Alive(TASK, i)
  BY ScannedSlots DEF Init, Alive
<1>2. SignalsOK(TASK, kctx, pending) /\ ChildrenOK(TASK, kctx, wpid)
  BY <1>1 DEF SignalsOK, ChildrenOK, Awaits
<1> QED
  BY <1>2, InitIInv DEF WInv

LEMMA NextWInv == WInv /\ [Next]_vars => WInv'
<1> SUFFICES ASSUME WInv, [Next]_vars
             PROVE  WInv'
  OBVIOUS
<1>1. IInv'
  BY NextIInv DEF WInv
<1> SUFFICES WaitsOK'
  BY <1>1 DEF WInv, WaitsOK
<1>2. CASE Fork
  BY <1>2, ForkWaits
<1>3. CASE Exit
  BY <1>3, ExitWaits
<1>4. ASSUME NEW arg \in WaitArgs, Waitpid(arg)
      PROVE  WaitsOK'
  BY <1>4, WaitpidWaits
<1>5. CASE WaitpidResume
  BY <1>5, WaitpidResumeWaits
<1>6. CASE DiskRequest
  BY <1>6, DiskRequestWaits
<1>7. CASE DiskResume
  BY <1>7, DiskResumeWaits
<1>8. ASSUME NEW D \in SUBSET pending, DiskInterrupt(D)
      PROVE  WaitsOK'
  BY <1>8, DiskInterruptWaits
<1>9. CASE TimerInterrupt
  BY <1>9, TimerWaits
<1>10. CASE UNCHANGED vars
  <2>1. SignalsOK(TASK', kctx', pending') /\ ChildrenOK(TASK', kctx', wpid')
    BY <1>10 DEF vars, WInv
  <2> QED
    BY <2>1 DEF WaitsOK, SignalsOK, ChildrenOK, Awaits, Awaited, NoneExited, Alive
<1> QED
  BY <1>2, <1>3, <1>4, <1>5, <1>6, <1>7, <1>8, <1>9, <1>10 DEF Next, Halted

LEMMA AlwaysWInv == Spec => []WInv
  BY InitWInv, NextWInv, PTL DEF Spec

\* No wakeup by the disk is lost: in every behaviour a task that sleeps for a
\* finished request carries a signal that wakes it, and STOP and CONT never
\* leave the disk wait, whatever exits, forks and waits happen in between.
THEOREM DiskWakeups == Spec => []DiskSignals
<1>1. WInv => DiskSignals
  BY DEF WInv, SignalsOK, DiskSignals
<1> QED
  BY <1>1, AlwaysWInv, PTL

\* No wakeup by a child is lost: whoever waits in waitpid still has a child to
\* wait for and none that has exited already, also when children change their
\* father while it waits.
THEOREM ChildWakeups == Spec => []NoLostChild
<1>1. WInv => NoLostChild
  <2> SUFFICES ASSUME WInv, NEW i \in Scanned, Awaits(TASK, kctx, i)
               PROVE  /\ Awaited(TASK, wpid, i) # {}
                      /\ \A c \in Awaited(TASK, wpid, i) : TASK[c].state # "ZOMBINE"
    BY DEF NoLostChild, Awaits, Awaited
  <2> QED
    BY DEF WInv, ChildrenOK, NoneExited
<1> QED
  BY <1>1, AlwaysWInv, PTL

-----------------------------------------------------------------------------
(* The lifecycle of processes *)

\* The mapping of Sched to ProcLife, as a function of the table T and of the
\* number b of pids born.
HoldingIn(T, p) == {i \in Scanned : Alive(T, i) /\ T[i].pid = p}

LifeIn(T, b) ==
  [p \in 1 .. MAX_PID |->
     IF \E i \in HoldingIn(T, p) : T[i].state = "ZOMBINE" THEN "zombie"
     ELSE IF HoldingIn(T, p) # {} THEN "alive"
     ELSE IF p <= b THEN "reaped" ELSE "unborn"]

FatherIn(T) ==
  [p \in 1 .. MAX_PID |->
     IF HoldingIn(T, p) = {} THEN 0
     ELSE T[CHOOSE i \in HoldingIn(T, p) : TRUE].father_pid]

LEMMA Mapping ==
  /\ life = LifeIn(TASK, Born) /\ father = FatherIn(TASK)
  /\ life' = LifeIn(TASK', Born') /\ father' = FatherIn(TASK')
  BY DEF life, father, LifeIn, FatherIn, Holding, HoldingIn, Alive

\* A process that has a slot.
LEMMA HeldIs ==
  ASSUME NEW T, NEW b, NEW n, ProcsOK(T, n), NEW i \in Scanned, Alive(T, i),
         T[i].pid \in 1 .. MAX_PID
  PROVE  /\ LifeIn(T, b)[T[i].pid] = IF T[i].state = "ZOMBINE" THEN "zombie" ELSE "alive"
         /\ FatherIn(T)[T[i].pid] = T[i].father_pid
<1>1. HoldingIn(T, T[i].pid) = {i}
  BY ScannedSlots, Zenon DEF HoldingIn, ProcsOK
<1>2. (CHOOSE j \in {i} : TRUE) = i
  OBVIOUS
<1> QED
  BY <1>1, <1>2 DEF LifeIn, FatherIn

\* A process that has none.
LEMMA UnheldIs ==
  ASSUME NEW T, NEW b, NEW p \in 1 .. MAX_PID,
         \A i \in Scanned : Alive(T, i) => T[i].pid # p
  PROVE  /\ LifeIn(T, b)[p] = IF p <= b THEN "reaped" ELSE "unborn"
         /\ FatherIn(T)[p] = 0
<1>1. HoldingIn(T, p) = {}
  BY DEF HoldingIn
<1> QED
  BY <1>1 DEF LifeIn, FatherIn

\* The tables T and U have process p in the same slot, in both exited or in
\* neither.
SameAt(T, U, p) ==
  \A i \in Scanned :
    /\ Alive(U, i) /\ U[i].pid = p <=> Alive(T, i) /\ T[i].pid = p
    /\ Alive(T, i) /\ T[i].pid = p => (U[i].state = "ZOMBINE" <=> T[i].state = "ZOMBINE")

LEMMA SameLife ==
  ASSUME NEW T, NEW U, NEW b, NEW d, NEW n, NEW m, NEW p \in 1 .. MAX_PID,
         ProcsOK(T, n), ProcsOK(U, m), SameAt(T, U, p), p <= b <=> p <= d
  PROVE  LifeIn(U, d)[p] = LifeIn(T, b)[p]
<1>1. CASE \E i \in Scanned : Alive(T, i) /\ T[i].pid = p
  <2>1. PICK i \in Scanned : Alive(T, i) /\ T[i].pid = p
    BY <1>1
  <2>2. LifeIn(T, b)[p] = IF T[i].state = "ZOMBINE" THEN "zombie" ELSE "alive"
    BY <2>1, HeldIs
  <2>3. Alive(U, i) /\ U[i].pid = p /\ (U[i].state = "ZOMBINE" <=> T[i].state = "ZOMBINE")
    BY <2>1 DEF SameAt
  <2>4. LifeIn(U, d)[p] = IF U[i].state = "ZOMBINE" THEN "zombie" ELSE "alive"
    BY <2>3, HeldIs
  <2> QED
    BY <2>2, <2>3, <2>4
<1>2. CASE ~\E i \in Scanned : Alive(T, i) /\ T[i].pid = p
  <2>1. \A i \in Scanned : Alive(U, i) => U[i].pid # p
    BY <1>2 DEF SameAt
  <2> QED
    BY <1>2, <2>1, UnheldIs
<1> QED
  BY <1>1, <1>2

LEMMA SameFather ==
  ASSUME NEW T, NEW U, NEW n, NEW m, NEW p \in 1 .. MAX_PID,
         ProcsOK(T, n), ProcsOK(U, m), SameAt(T, U, p),
         \A i \in Scanned : Alive(T, i) /\ T[i].pid = p => U[i].father_pid = T[i].father_pid
  PROVE  FatherIn(U)[p] = FatherIn(T)[p]
<1>1. CASE \E i \in Scanned : Alive(T, i) /\ T[i].pid = p
  <2>1. PICK i \in Scanned : Alive(T, i) /\ T[i].pid = p
    BY <1>1
  <2>2. Alive(U, i) /\ U[i].pid = p /\ U[i].father_pid = T[i].father_pid
    BY <2>1 DEF SameAt
  <2>3. FatherIn(T)[p] = T[i].father_pid /\ FatherIn(U)[p] = U[i].father_pid
    BY <2>1, <2>2, HeldIs, Zenon
  <2> QED
    BY <2>2, <2>3
<1>2. CASE ~\E i \in Scanned : Alive(T, i) /\ T[i].pid = p
  <2>1. \A i \in Scanned : Alive(U, i) => U[i].pid # p
    BY <1>2 DEF SameAt
  <2>2. FatherIn(U)[p] = 0
    BY <2>1, UnheldIs
  <2>3. FatherIn(T)[p] = 0
    BY <1>2, UnheldIs
  <2> QED
    BY <2>2, <2>3
<1> QED
  BY <1>1, <1>2

\* Every process but the first has a father that is not task 0.
Fathered(T) == \A i \in Scanned : Alive(T, i) /\ T[i].pid > 1 => T[i].father_pid # 0

LInv == IInv /\ Fathered(TASK)

\* A step that changes no process.
SameStep == SameProcs(TASK, TASK') /\ Born' = Born

\* A step in which the running task releases slot i of its exited child.
ReapStep(i) ==
  /\ current # 0 /\ i # current /\ Alive(TASK, i) /\ TASK[i].state = "ZOMBINE"
  /\ TASK[i].father_pid = TASK[current].pid
  /\ ~Alive(TASK', i)
  /\ \A j \in Slots : j # i =>
       /\ Alive(TASK', j) <=> Alive(TASK, j)
       /\ Alive(TASK, j) => /\ TASK'[j].pid = TASK[j].pid
                            /\ TASK'[j].father_pid = TASK[j].father_pid
                            /\ TASK'[j].state = "ZOMBINE" <=> TASK[j].state = "ZOMBINE"
  /\ Born = NEW_PID /\ Born' = Born

\* Handlers that update the running task change no process ...
LEMMA UpdateSame ==
  ASSUME IInv, current # 0, NEW t \in Task,
         t.pid = TASK[current].pid, t.father_pid = TASK[current].father_pid,
         t.state # "ZOMBINE"
  PROVE  SameProcs(TASK, [TASK EXCEPT ![current] = t])
<1> DEFINE T == [TASK EXCEPT ![current] = t]
<1>1. /\ T[current] = t /\ t # NULL
      /\ \A i \in Slots : i # current => T[i] = TASK[i]
  BY Zenon, CurrentUnqueued, IInvFacts, ScannedSlots, NullAssumption DEF Table
<1> HIDE DEF T
<1>2. SameProcs(TASK, T)
  BY <1>1, CurrentUnqueued DEF SameProcs, Alive
<1> QED
  BY <1>2 DEF T

\* ... also when they call schedule().
LEMMA RescheduleSame ==
  ASSUME IInv, current # 0, NEW t \in Task,
         t.pid = TASK[current].pid, t.father_pid = TASK[current].father_pid,
         t.state # "ZOMBINE", t.order = TASK[current].order, t.in_Queue = FALSE,
         schedule([TASK EXCEPT ![current] = t])
  PROVE  SameProcs(TASK, TASK')
<1> DEFINE T == [TASK EXCEPT ![current] = t]
<1>1. TableOK(T) /\ Agree(T, queue) /\ queue \in Queues
  BY Zenon, CurrentUnqueued, IInvFacts, UpdateSlot DEF IInv
<1>2. SameProcs(TASK, T)
  BY Zenon, UpdateSame
<1> HIDE DEF T
<1>3. SameProcs(T, TASK')
  BY <1>1, ScheduleOK DEF T
<1> QED
  BY <1>2, <1>3 DEF SameProcs

\* One pass of waitpid's loop releases one exited child or changes no process.
LEMMA WaitpidPassLife ==
  ASSUME IInv, current # 0, NEW t \in Task, NEW arg \in WaitArgs,
         t.pid = TASK[current].pid, t.father_pid = TASK[current].father_pid,
         t.state = "RUNNING", t.order = TASK[current].order, t.in_Queue = FALSE,
         WaitpidPass([TASK EXCEPT ![current] = t], arg), Born = NEW_PID, Born' = Born
  PROVE  SameStep \/ \E i \in Scanned : ReapStep(i)
<1> DEFINE T == [TASK EXCEPT ![current] = t]
<1>1. T \in Table /\ T[current] = t /\ current \in Slots /\ TASK \in Table
  BY IInvFacts, CurrentUnqueued, ScannedSlots, Zenon DEF Table
<1>2. t.state # "ZOMBINE"
  OBVIOUS
<1>3. SameProcs(TASK, T)
  BY Zenon, <1>2, UpdateSame
<1>4. ASSUME NEW i \in Exited(arg), TASK' = [T EXCEPT ![i] = NULL]
      PROVE  i \in Scanned /\ ReapStep(i)
  <2>1. /\ i \in Scanned /\ i # current /\ Alive(TASK, i)
        /\ TASK[i].state = "ZOMBINE" /\ TASK[i].father_pid = TASK[current].pid
    BY DEF Exited, Matching
  <2> HIDE DEF T
  <2>2. ~Alive(TASK', i) /\ \A j \in Slots : j # i => TASK'[j] = T[j]
    BY <1>1, <1>4, <2>1, ScannedSlots DEF Table, Alive
  <2> QED
    BY <1>3, <2>1, <2>2 DEF ReapStep, SameProcs, Alive
<1>5. ASSUME schedule([T EXCEPT ![current] =
                         [@ EXCEPT !.state = "WAIT", !.in_Queue = FALSE]])
      PROVE  SameStep
  <2> DEFINE u == [t EXCEPT !.state = "WAIT", !.in_Queue = FALSE]
  <2>1. /\ u \in Task
        /\ u.pid = t.pid /\ u.father_pid = t.father_pid
        /\ u.state = "WAIT" /\ u.order = t.order /\ u.in_Queue = FALSE
    BY Zenon DEF Task
  <2>2. [T EXCEPT ![current] = [@ EXCEPT !.state = "WAIT", !.in_Queue = FALSE]]
          = [TASK EXCEPT ![current] = u]
    BY Zenon, <1>1 DEF Table
  <2> HIDE DEF u, T
  <2>3. schedule([TASK EXCEPT ![current] = u])
    BY <1>5, <2>2
  <2>4. u.state # "ZOMBINE"
    BY <2>1
  <2> QED
    BY Zenon, <2>1, <2>3, <2>4, RescheduleSame DEF SameStep
<1>6. ASSUME TASK' = T
      PROVE  SameStep
  BY <1>3, <1>6 DEF SameStep
<1> QED
  BY <1>4, <1>5, <1>6 DEF WaitpidPass, release

\* Every step forks, exits, releases one exited child or changes no process.
LEMMA StepKinds ==
  ASSUME IInv, [Next]_vars
  PROVE  Fork \/ Exit \/ SameStep \/ \E i \in Scanned : ReapStep(i)
<1>1. ASSUME UNCHANGED <<NEW_PID, panicked>>
      PROVE  Born' = Born
  BY <1>1 DEF Born
<1>2. ASSUME NEW arg \in WaitArgs, Waitpid(arg)
      PROVE  SameStep \/ \E i \in Scanned : ReapStep(i)
  <2>1. current # 0 /\ WaitpidPass(TASK, arg) /\ Born' = Born /\ Born = NEW_PID
    BY <1>1, <1>2 DEF Waitpid, InUser, Born
  <2>2. TASK = [TASK EXCEPT ![current] = TASK[current]]
    BY IInvFacts DEF Table
  <2>3. WaitpidPass([TASK EXCEPT ![current] = TASK[current]], arg)
    BY <2>1, <2>2
  <2> QED
    BY Zenon, <2>1, <2>3, CurrentUnqueued, WaitpidPassLife
<1>3. CASE WaitpidResume
  <2> DEFINE rest == TASK[current].signal \ {"CHLD"}
             T == [TASK EXCEPT ![current].signal = rest]
             t == [TASK[current] EXCEPT !.signal = rest]
  <2>1. current # 0 /\ Born' = Born /\ Born = NEW_PID
    BY <1>1, <1>3 DEF WaitpidResume, IInv, Born
  <2>2. TASK[current] \in Task /\ current \in Slots
    BY Zenon, <2>1, CurrentUnqueued, ScannedSlots
  <2>3. WaitpidPass(T, wpid[current]) \/ TASK' = T
    BY <1>3 DEF WaitpidResume
  <2>4. /\ t \in Task /\ t.pid = TASK[current].pid
        /\ t.father_pid = TASK[current].father_pid
        /\ t.state = TASK[current].state /\ t.order = TASK[current].order
        /\ t.in_Queue = TASK[current].in_Queue
    BY <2>2 DEF Task
  <2>5. T = [TASK EXCEPT ![current] = t]
    OBVIOUS
  <2> HIDE DEF T, t
  <2>6. t.state = "RUNNING" /\ t.state # "ZOMBINE" /\ t.in_Queue = FALSE
    BY Zenon, <2>1, <2>4, CurrentUnqueued
  <2>7. CASE WaitpidPass(T, wpid[current])
    <3>1. WaitpidPass([TASK EXCEPT ![current] = t], wpid[current])
      BY <2>5, <2>7
    <3>2. wpid[current] \in WaitArgs
      BY <2>2 DEF IInv, TypeOK
    <3> QED
      BY Zenon, <2>1, <2>4, <2>6, <3>1, <3>2, WaitpidPassLife
  <2>8. CASE TASK' = T
    BY Zenon, <2>1, <2>4, <2>5, <2>6, <2>8, UpdateSame DEF SameStep
  <2> QED
    BY <2>3, <2>7, <2>8
<1>4. ASSUME sleep, current # 0
      PROVE  SameProcs(TASK, TASK')
  <2> DEFINE t == [TASK[current] EXCEPT !.state = "WAIT",
                                        !.signal = TASK[current].signal \cup {"STOP"}]
  <2>1. TASK[current] \in Task /\ TASK \in Table /\ current \in Slots
    BY Zenon, <1>4, CurrentUnqueued, ScannedSlots, IInvFacts
  <2>2. /\ t \in Task /\ t.pid = TASK[current].pid
        /\ t.father_pid = TASK[current].father_pid
        /\ t.state = "WAIT" /\ t.order = TASK[current].order
        /\ t.in_Queue = TASK[current].in_Queue
    BY Zenon, <2>1 DEF Task
  <2>3. [TASK EXCEPT ![current].state = "WAIT", ![current].signal = @ \cup {"STOP"}]
          = [TASK EXCEPT ![current] = t]
    BY Zenon, <2>1 DEF Table, Task
  <2> HIDE DEF t
  <2>4. schedule([TASK EXCEPT ![current] = t])
    BY <1>4, <2>3 DEF sleep
  <2>5. t.state # "ZOMBINE" /\ t.in_Queue = FALSE
    BY Zenon, <1>4, <2>2, CurrentUnqueued
  <2> QED
    BY Zenon, <1>4, <2>2, <2>4, <2>5, RescheduleSame
<1>5. CASE DiskRequest
  <2>1. current # 0
    BY <1>5, SchedAssumption DEF DiskRequest, IInv, ProcsOK
  <2> QED
    BY <1>1, <1>4, <1>5, <2>1 DEF DiskRequest, SameStep
<1>6. ASSUME UNCHANGED TASK
      PROVE  SameProcs(TASK, TASK')
  BY <1>6 DEF SameProcs
<1>7. CASE DiskResume
  <2>1. current # 0
    BY <1>7 DEF DiskResume, IInv
  <2> QED
    BY <1>1, <1>4, <1>6, <1>7, <2>1 DEF DiskResume, SameStep
<1>8. ASSUME NEW D \in SUBSET pending, DiskInterrupt(D)
      PROVE  SameStep
  <2>1. TASK' = wakeup(TASK) /\ Born' = Born
    BY <1>1, <1>8 DEF DiskInterrupt
  <2> QED
    BY <2>1, WakeupIs, IInvFacts, Zenon DEF SameStep, SameProcs
<1>9. CASE TimerInterrupt
  <2>1. Born' = Born
    BY <1>1, <1>9 DEF TimerInterrupt
  <2>2. CASE TASK[current].pid = 0
    <3>1. schedule(TASK)
      BY <1>9, <2>2 DEF TimerInterrupt
    <3> QED
      BY <2>1, <3>1, ScheduleOK, IInvFacts DEF IInv, SameStep
  <2>3. CASE TASK[current].pid # 0
    <3> DEFINE t == [TASK[current] EXCEPT !.counter = TASK[current].counter - 1]
               T == [TASK EXCEPT ![current].counter = @ - 1]
    <3>1. current # 0
      BY <2>3 DEF IInv, ProcsOK
    <3>2. TASK[current] \in Task
      BY Zenon, <3>1, CurrentUnqueued
    <3>3. /\ t \in Task /\ t.pid = TASK[current].pid
          /\ t.father_pid = TASK[current].father_pid
          /\ t.state = TASK[current].state /\ t.order = TASK[current].order
          /\ t.in_Queue = TASK[current].in_Queue
      BY <3>2 DEF Task
    <3>4. T = [TASK EXCEPT ![current] = t]
      OBVIOUS
    <3>5. TASK' = T \/ schedule(T)
      BY <1>9, <2>3 DEF TimerInterrupt
    <3> HIDE DEF t, T
    <3>6. t.state # "ZOMBINE" /\ t.in_Queue = FALSE
      BY Zenon, <3>1, <3>3, CurrentUnqueued
    <3>7. CASE TASK' = T
      BY Zenon, <2>1, <3>1, <3>3, <3>4, <3>6, <3>7, UpdateSame DEF SameStep
    <3>8. CASE schedule(T)
      <4>1. schedule([TASK EXCEPT ![current] = t])
        BY <3>4, <3>8
      <4> QED
        BY Zenon, <2>1, <3>1, <3>3, <3>6, <4>1, RescheduleSame DEF SameStep
    <3> QED
      BY <3>5, <3>7, <3>8
  <2> QED
    BY <2>2, <2>3
<1>10. CASE UNCHANGED vars
  BY <1>1, <1>6, <1>10 DEF vars, SameStep
<1> QED
  BY <1>2, <1>3, <1>5, <1>7, <1>8, <1>9, <1>10 DEF Next, Halted

\* Maps on processes are equal when they agree on every process.
OnProcs(L) == L = [p \in 1 .. MAX_PID |-> L[p]]

EqualMaps(L, M) == \A p \in 1 .. MAX_PID : L[p] = M[p]

LEMMA MapsEqual ==
  ASSUME NEW T, NEW b, NEW L, NEW F, OnProcs(L), OnProcs(F),
         EqualMaps(LifeIn(T, b), L), EqualMaps(FatherIn(T), F)
  PROVE  LifeIn(T, b) = L /\ FatherIn(T) = F
<1>1. /\ LifeIn(T, b) = [p \in 1 .. MAX_PID |-> LifeIn(T, b)[p]]
      /\ FatherIn(T) = [p \in 1 .. MAX_PID |-> FatherIn(T)[p]]
  BY DEF LifeIn, FatherIn
<1> QED
  BY Zenon, <1>1 DEF OnProcs, EqualMaps

\* The domain of the maps, and what is known of the processes of a reachable
\* table.
LEMMA LifeFacts ==
  ASSUME LInv, IInv'
  PROVE  /\ ProcsOK(TASK, NEW_PID) /\ ProcsOK(TASK', NEW_PID')
         /\ \A i \in Scanned : Alive(TASK, i) => TASK[i].pid \in 1 .. MAX_PID
         /\ \A i \in Scanned : Alive(TASK', i) => TASK'[i].pid \in 1 .. MAX_PID
         /\ NEW_PID \in 0 .. MAX_PID /\ NEW_PID' \in 0 .. MAX_PID
         /\ self' \in 0 .. MAX_PID
         /\ OnProcs(life) /\ OnProcs(father)
<1>1. ProcsOK(TASK, NEW_PID) /\ ProcsOK(TASK', NEW_PID')
  BY DEF LInv, IInv
<1>2. NEW_PID \in 0 .. MAX_PID /\ NEW_PID' \in 0 .. MAX_PID
  BY DEF LInv, IInv, TypeOK, Pids
<1>3. ASSUME NEW T, NEW n \in 0 .. MAX_PID, ProcsOK(T, n), NEW i \in Scanned, Alive(T, i)
      PROVE  T[i].pid \in 1 .. MAX_PID
  <2>1. T[i].pid \in 1 .. n
    BY <1>3 DEF ProcsOK
  <2> QED
    BY <2>1, SchedAssumption
<1>4. self' \in 0 .. MAX_PID
  <2>1. TASK' \in Table /\ current' \in Slots /\ Alive(TASK', current')
    BY DEF IInv, TypeOK, OneRunning, Table, Alive
  <2>2. TASK'[current'] \in Task
    BY <2>1 DEF Table, Alive
  <2> QED
    BY <2>2 DEF self, Task, Pids
<1>5. OnProcs(life) /\ OnProcs(father)
  BY DEF life, father, OnProcs
<1> QED
  BY <1>1, <1>2, <1>3, <1>4, <1>5

LEMMA SameMaps ==
  ASSUME LInv, IInv', SameStep
  PROVE  Fathered(TASK') /\ UNCHANGED <<life, father>>
<1>1. Fathered(TASK')
  BY ScannedSlots DEF LInv, Fathered, SameStep, SameProcs
<1>2. ASSUME NEW p \in 1 .. MAX_PID
      PROVE  /\ LifeIn(TASK', Born')[p] = LifeIn(TASK, Born)[p]
             /\ FatherIn(TASK')[p] = FatherIn(TASK)[p]
  <2>1. /\ SameAt(TASK, TASK', p)
        /\ \A i \in Scanned : Alive(TASK, i) => TASK'[i].father_pid = TASK[i].father_pid
    BY ScannedSlots DEF SameStep, SameProcs, SameAt
  <2>2. p <= Born <=> p <= Born'
    BY DEF SameStep
  <2>3. ProcsOK(TASK, NEW_PID) /\ ProcsOK(TASK', NEW_PID')
    BY LifeFacts
  <2>4. LifeIn(TASK', Born')[p] = LifeIn(TASK, Born)[p]
    BY <2>1, <2>2, <2>3, SameLife
  <2>5. FatherIn(TASK')[p] = FatherIn(TASK)[p]
    BY <2>1, <2>3, SameFather
  <2> QED
    BY <2>4, <2>5
<1>3. EqualMaps(LifeIn(TASK', Born'), life) /\ EqualMaps(FatherIn(TASK'), father)
  BY <1>2, Mapping DEF EqualMaps
<1>4. LifeIn(TASK', Born') = life /\ FatherIn(TASK') = father
  BY <1>3, LifeFacts, MapsEqual
<1> QED
  BY <1>1, <1>4, Mapping

\* The process that runs is alive.
LEMMA SelfAlive ==
  ASSUME LInv, IInv', current # 0
  PROVE  self \in 1 .. MAX_PID /\ life[self] = "alive" /\ self # 0
<1>1. current \in Scanned /\ Alive(TASK, current) /\ TASK[current].state = "RUNNING"
  BY CurrentUnqueued DEF LInv
<1>2. TASK[current].pid \in 1 .. MAX_PID
  BY <1>1, LifeFacts
<1>3. LifeIn(TASK, Born)[TASK[current].pid] = "alive"
  BY <1>1, <1>2, HeldIs, LifeFacts
<1> QED
  BY <1>2, <1>3, Mapping DEF self

\* release() of a child implements Reap.
LEMMA ReapMaps ==
  ASSUME LInv, IInv', NEW i \in Scanned, ReapStep(i)
  PROVE  Fathered(TASK') /\ \E c \in Life!Procs : Life!Reap(c)
<1> DEFINE c == TASK[i].pid
<1>1. Fathered(TASK')
  BY ScannedSlots DEF LInv, Fathered, ReapStep
<1>2. /\ Alive(TASK, i) /\ c \in 1 .. MAX_PID /\ c \in 1 .. NEW_PID
      /\ TASK[i].state = "ZOMBINE" /\ TASK[i].father_pid = self
  BY LifeFacts DEF ReapStep, ProcsOK, self
<1>3. self \in 1 .. MAX_PID /\ life[self] = "alive"
  BY SelfAlive DEF ReapStep
<1>4. life[c] = "zombie" /\ father[c] = self
  BY <1>2, HeldIs, LifeFacts, Mapping
<1>5. \A j \in Scanned : Alive(TASK, j) /\ TASK[j].pid = c => j = i
  BY <1>2, LifeFacts, ScannedSlots DEF ProcsOK
<1>6. LifeIn(TASK', Born')[c] = "reaped" /\ FatherIn(TASK')[c] = 0
  <2>1. \A j \in Scanned : Alive(TASK', j) => TASK'[j].pid # c
    BY <1>5, ScannedSlots DEF ReapStep
  <2>2. c <= Born'
    BY <1>2, LifeFacts DEF ReapStep
  <2> QED
    BY <1>2, <2>1, <2>2, UnheldIs
<1>7. ASSUME NEW p \in 1 .. MAX_PID, p # c
      PROVE  /\ LifeIn(TASK', Born')[p] = LifeIn(TASK, Born)[p]
             /\ FatherIn(TASK')[p] = FatherIn(TASK)[p]
  <2>1. SameAt(TASK, TASK', p)
    BY <1>7, ScannedSlots, Zenon DEF ReapStep, SameAt
  <2>2. \A j \in Scanned : Alive(TASK, j) /\ TASK[j].pid = p =>
          TASK'[j].father_pid = TASK[j].father_pid
    BY <1>7, ScannedSlots, Zenon DEF ReapStep
  <2>3. p <= Born <=> p <= Born'
    BY DEF ReapStep
  <2>4. ProcsOK(TASK, NEW_PID) /\ ProcsOK(TASK', NEW_PID')
    BY LifeFacts
  <2>5. LifeIn(TASK', Born')[p] = LifeIn(TASK, Born)[p]
    BY <2>1, <2>3, <2>4, SameLife
  <2>6. FatherIn(TASK')[p] = FatherIn(TASK)[p]
    BY <2>1, <2>4, <2>2, SameFather
  <2> QED
    BY <2>5, <2>6
<1> HIDE DEF c
<1>8. /\ LifeIn(TASK', Born') = [life EXCEPT ![c] = "reaped"]
      /\ FatherIn(TASK') = [father EXCEPT ![c] = 0]
  <2> DEFINE L == [life EXCEPT ![c] = "reaped"]
             F == [father EXCEPT ![c] = 0]
  <2>1. /\ L = [p \in 1 .. MAX_PID |-> IF p = c THEN "reaped" ELSE life[p]]
        /\ F = [p \in 1 .. MAX_PID |-> IF p = c THEN 0 ELSE father[p]]
    BY LifeFacts, Zenon DEF OnProcs
  <2> HIDE DEF L, F
  <2>2. OnProcs(L) /\ OnProcs(F)
    BY <2>1 DEF OnProcs
  <2>3. EqualMaps(LifeIn(TASK', Born'), L) /\ EqualMaps(FatherIn(TASK'), F)
    BY <1>6, <1>7, <2>1, Mapping DEF EqualMaps
  <2> QED
    BY <2>2, <2>3, MapsEqual DEF L, F
<1>9. Life!Reap(c)
  BY <1>3, <1>4, <1>8, Mapping DEF Life!Reap, Life!Procs
<1> QED
  BY <1>1, <1>2, <1>9 DEF Life!Procs

\* sys_fork() implements Beget, or panics and makes nobody.
LEMMA ForkMaps ==
  ASSUME LInv, IInv', Fork
  PROVE  /\ Fathered(TASK')
         /\ (\E c \in Life!Procs : Life!Beget(c)) \/ UNCHANGED <<life, father>>
<1> DEFINE c == NEW_PID + 1
<1>1. ~panicked /\ Born = NEW_PID /\ NEW_PID' = c /\ NEW_PID \in Nat /\ c \in 1 .. MAX_PID
  <2>1. NEW_PID \in 0 .. MAX_PID /\ NEW_PID < MAX_PID /\ ~panicked
    BY LifeFacts DEF Fork, InUser
  <2> QED
    BY <2>1, SchedAssumption DEF Fork, Born
<1>2. ASSUME UNCHANGED <<TASK, kctx>>, panicked' = TRUE
      PROVE  Fathered(TASK') /\ UNCHANGED <<life, father>>
  <2>1. Born' = Born /\ TASK' = TASK
    BY <1>1, <1>2 DEF Born
  <2>2. SameStep
    BY <2>1 DEF SameStep, SameProcs
  <2> QED
    BY <2>2, SameMaps
<1>3. ASSUME NEW i \in Scanned, ~Alive(TASK, i),
             TASK' = [TASK EXCEPT ![i] = copy_process(i)], UNCHANGED panicked
      PROVE  Fathered(TASK') /\ Life!Beget(c)
  <2> DEFINE t == copy_process(i)
  <2>1. t.pid = c /\ t.father_pid = self /\ t.state = "READY"
    BY DEF copy_process, self
  <2>2. /\ TASK'[i] = t
        /\ \A j \in Scanned : j # i => TASK'[j] = TASK[j]
    BY <1>3, IInvFacts, ScannedSlots DEF LInv, Table
  <2> HIDE DEF t
  <2>3. \A j \in Scanned : Alive(TASK, j) => TASK[j].pid \in 1 .. NEW_PID
    BY LifeFacts DEF ProcsOK
  <2>4. Born' = c
    BY <1>1, <1>3 DEF Born
  <2>5. NEW_PID > 0 => current # 0
    BY <1>1 DEF Fork
  <2>6. Alive(TASK', i)
    <3>1. t \in Task
      <4>1. TASK'[i] \in Task \cup {NULL} /\ t = copy_process(i)
        BY ScannedSlots DEF IInv, TypeOK, t
      <4>2. TASK[current].pid \in Pids /\ c \in Pids
        <5>1. TASK[current] \in Task
          BY IInvFacts DEF LInv, IInv, TypeOK, OneRunning, Table, Alive
        <5> QED
          BY <1>1, <5>1 DEF Task, Pids
      <4> QED
        BY <4>1, <4>2, NewTask, Zenon
    <3> QED
      BY <2>2, <3>1, NullAssumption DEF Alive
  <2>7. Fathered(TASK')
    <3> SUFFICES ASSUME NEW j \in Scanned, Alive(TASK', j), TASK'[j].pid > 1
                 PROVE  TASK'[j].father_pid # 0
      BY DEF Fathered
    <3>1. CASE j = i
      <4>1. NEW_PID > 0
        BY <1>1, <2>1, <2>2, <3>1
      <4> QED
        BY <2>1, <2>2, <2>5, <3>1, <4>1, SelfAlive
    <3>2. CASE j # i
      BY <2>2, <3>2 DEF LInv, Fathered, Alive
    <3> QED
      BY <3>1, <3>2
  <2>8. life[c] = "unborn"
    <3>1. \A j \in Scanned : Alive(TASK, j) => TASK[j].pid # c
      BY <1>1, <2>3
    <3>2. LifeIn(TASK, Born)[c] = "unborn"
      BY <1>1, <3>1, UnheldIs
    <3> QED
      BY <3>2, Mapping
  <2>9. ASSUME NEW q \in 1 .. MAX_PID, q < c
        PROVE  life[q] # "unborn"
    <3>1. CASE \E j \in Scanned : Alive(TASK, j) /\ TASK[j].pid = q
      BY <3>1, HeldIs, LifeFacts, Mapping
    <3>2. CASE ~\E j \in Scanned : Alive(TASK, j) /\ TASK[j].pid = q
      <4>1. q <= Born
        BY <1>1, <2>9
      <4> QED
        BY <3>2, <4>1, UnheldIs, Mapping
    <3> QED
      BY <3>1, <3>2
  <2>10. IF c = 1 THEN self = 0 ELSE self \in 1 .. MAX_PID /\ life[self] = "alive"
    <3>1. CASE NEW_PID = 0
      <4>1. current \notin Scanned
        <5>1. Alive(TASK, current)
          BY DEF LInv, IInv, OneRunning
        <5> QED
          BY <2>3, <3>1, <5>1
      <4>2. current = 0
        BY <4>1, ScannedSlots DEF LInv, IInv, TypeOK
      <4>3. TASK[0].pid = 0
        BY LifeFacts DEF ProcsOK
      <4> QED
        BY <1>1, <3>1, <4>2, <4>3 DEF self
    <3>2. CASE NEW_PID > 0
      BY <1>1, <2>5, <3>2, SelfAlive
    <3> QED
      BY <1>1, <3>1, <3>2
  <2>11. LifeIn(TASK', Born')[c] = "alive" /\ FatherIn(TASK')[c] = self
    <3>1. TASK'[i].pid = c /\ TASK'[i].state # "ZOMBINE" /\ TASK'[i].father_pid = self
      BY <1>1, <2>1, <2>2
    <3>2. ProcsOK(TASK', NEW_PID') /\ TASK'[i].pid \in 1 .. MAX_PID
      BY <2>6, LifeFacts
    <3>3. /\ LifeIn(TASK', Born')[TASK'[i].pid] = "alive"
          /\ FatherIn(TASK')[TASK'[i].pid] = TASK'[i].father_pid
      BY <2>6, <3>1, <3>2, HeldIs
    <3> QED
      BY <3>1, <3>3
  <2>12. ASSUME NEW p \in 1 .. MAX_PID, p # c
         PROVE  /\ LifeIn(TASK', Born')[p] = LifeIn(TASK, Born)[p]
                /\ FatherIn(TASK')[p] = FatherIn(TASK)[p]
    <3>1. SameAt(TASK, TASK', p)
      BY <1>3, <2>1, <2>2, <2>12 DEF SameAt, Alive
    <3>2. \A j \in Scanned : Alive(TASK, j) /\ TASK[j].pid = p =>
            TASK'[j].father_pid = TASK[j].father_pid
      BY <1>3, <2>2
    <3>3. p <= Born <=> p <= Born'
      BY <1>1, <2>4, <2>12
    <3>4. ProcsOK(TASK, NEW_PID) /\ ProcsOK(TASK', NEW_PID')
      BY LifeFacts
    <3>5. LifeIn(TASK', Born')[p] = LifeIn(TASK, Born)[p]
      BY <3>1, <3>3, <3>4, SameLife
    <3>6. FatherIn(TASK')[p] = FatherIn(TASK)[p]
      BY <3>1, <3>2, <3>4, SameFather
    <3> QED
      BY <3>5, <3>6
  <2> HIDE DEF c
  <2>13. /\ LifeIn(TASK', Born') = [life EXCEPT ![c] = "alive"]
         /\ FatherIn(TASK') = [father EXCEPT ![c] = self]
    <3> DEFINE L == [life EXCEPT ![c] = "alive"]
               F == [father EXCEPT ![c] = self]
    <3>1. /\ L = [p \in 1 .. MAX_PID |-> IF p = c THEN "alive" ELSE life[p]]
          /\ F = [p \in 1 .. MAX_PID |-> IF p = c THEN self ELSE father[p]]
      BY LifeFacts, Zenon DEF OnProcs
    <3> HIDE DEF L, F
    <3>2. OnProcs(L) /\ OnProcs(F)
      BY <3>1 DEF OnProcs
    <3>3. EqualMaps(LifeIn(TASK', Born'), L) /\ EqualMaps(FatherIn(TASK'), F)
      BY <2>11, <2>12, <3>1, Mapping DEF EqualMaps
    <3> QED
      BY <3>2, <3>3, MapsEqual DEF L, F
  <2>14. Life!Beget(c)
    BY <2>8, <2>9, <2>10, <2>13, Mapping DEF Life!Beget, Life!Procs
  <2> QED
    BY <2>7, <2>14
<1>4. c \in Life!Procs
  BY <1>1 DEF Life!Procs
<1> QED
  BY Zenon, <1>2, <1>3, <1>4 DEF Fork, find_new_id

\* do_exit() implements Die: the father that tell_father() keeps or gives the
\* exiting process is the one it should have.
LEMMA ExitMaps ==
  ASSUME LInv, IInv', Exit
  PROVE  Fathered(TASK') /\ Life!Die
<1> DEFINE W == ExitTable
<1>0. IInv
  BY DEF LInv
<1>1. schedule(W) /\ self > 1 /\ Born' = Born
  BY DEF Exit, ExitTable, self, Born
<1>2. current # 0
  <2>1. TASK[0].pid = 0
    BY <1>0 DEF IInv, ProcsOK
  <2> QED
    BY <1>1, <2>1 DEF self
<1>3. current \in Scanned /\ Alive(TASK, current)
  BY Zenon, <1>0, <1>2, CurrentUnqueued
<1>4. self \in 1 .. MAX_PID /\ life[self] = "alive"
  BY <1>2, SelfAlive
<1>5. TableOK(W) /\ Agree(W, queue) /\ ExitEffect(W)
  BY <1>0, <1>1, <1>3, ExitTableOK DEF self
<1> HIDE DEF W
<1>6. SameProcs(W, TASK')
  BY <1>0, <1>1, <1>5, ScheduleOK, IInvFacts
<1>7. ASSUME NEW i \in Scanned
      PROVE  /\ Alive(TASK', i) <=> Alive(TASK, i)
             /\ Alive(TASK, i) => TASK'[i].pid = TASK[i].pid
             /\ Alive(TASK, i) /\ i # current =>
                  /\ TASK'[i].state = "ZOMBINE" <=> TASK[i].state = "ZOMBINE"
                  /\ TASK'[i].father_pid = IF TASK[i].father_pid = self THEN 1
                                           ELSE TASK[i].father_pid
  BY <1>5, <1>6, ScannedSlots DEF ExitEffect, SameProcs, self
<1>8. TASK'[current].state = "ZOMBINE" /\ TASK'[current].father_pid = W[current].father_pid
  BY <1>3, <1>5, <1>6, ScannedSlots DEF ExitEffect, SameProcs
<1>9. \A j \in Slots : Alive(TASK, j) /\ TASK[j].pid = self => j = current
  BY <1>0, <1>3, ScannedSlots DEF IInv, ProcsOK, self
<1>10. TASK'[current].father_pid = IF TASK[current].father_pid = self THEN 1
                                   ELSE TASK[current].father_pid
  <2>1. ASSUME NEW f \in Scanned \ {current}, Alive(TASK, f),
               TASK[f].pid = TASK[current].father_pid,
               W[current].father_pid = TASK[current].father_pid
        PROVE  TASK[current].father_pid # self
               /\ W[current].father_pid = TASK[current].father_pid
    BY <1>9, <2>1, ScannedSlots
  <2>2. ASSUME \A f \in Scanned \ {current} :
                 Alive(TASK, f) => TASK[f].pid # TASK[current].father_pid
        PROVE  TASK[current].father_pid = self
    <3>1. PICK f \in Slots : Alive(TASK, f) /\ TASK[f].pid = TASK[current].father_pid
      BY <1>0, <1>3 DEF IInv, ProcsOK
    <3>2. f # 0
      <4>1. TASK[0].pid = 0
        BY <1>0 DEF IInv, ProcsOK
      <4>2. TASK[current].father_pid # 0
        BY <1>1, <1>3 DEF LInv, Fathered, self
      <4> QED
        BY <3>1, <4>1, <4>2
    <3>3. f = current
      BY <2>2, <3>1, <3>2, ScannedSlots
    <3> QED
      BY <3>1, <3>3 DEF self
  <2> QED
    BY <1>5, <1>8, <2>1, <2>2 DEF ExitEffect
<1>11. \A i \in Scanned : Alive(TASK, i) =>
         TASK'[i].father_pid = IF TASK[i].father_pid = self THEN 1 ELSE TASK[i].father_pid
  BY <1>7, <1>10
<1>12. Fathered(TASK')
  BY <1>7, <1>11 DEF LInv, Fathered
<1>13. LifeIn(TASK', Born')[self] = "zombie"
  <2>1. Alive(TASK', current) /\ TASK'[current].pid = self
    BY <1>3, <1>7 DEF self
  <2>2. ProcsOK(TASK', NEW_PID') /\ TASK'[current].pid \in 1 .. MAX_PID
    BY <1>4, <2>1, LifeFacts
  <2>3. LifeIn(TASK', Born')[TASK'[current].pid] = "zombie"
    BY <1>3, <1>8, <2>1, <2>2, HeldIs
  <2> QED
    BY <2>1, <2>3
<1>14. ASSUME NEW p \in 1 .. MAX_PID, p # self
       PROVE  LifeIn(TASK', Born')[p] = LifeIn(TASK, Born)[p]
  <2>1. SameAt(TASK, TASK', p)
    BY <1>7, <1>14 DEF SameAt, self
  <2>2. p <= Born <=> p <= Born'
    BY <1>1
  <2>3. ProcsOK(TASK, NEW_PID) /\ ProcsOK(TASK', NEW_PID')
    BY LifeFacts
  <2> QED
    BY <2>1, <2>2, <2>3, SameLife
<1>15. ASSUME NEW p \in 1 .. MAX_PID
       PROVE  FatherIn(TASK')[p] = IF father[p] = self THEN 1 ELSE father[p]
  <2>1. CASE \E i \in Scanned : Alive(TASK, i) /\ TASK[i].pid = p
    <3>1. PICK i \in Scanned : Alive(TASK, i) /\ TASK[i].pid = p
      BY <2>1
    <3>2. Alive(TASK', i) /\ TASK'[i].pid = p
      BY <1>7, <3>1
    <3>3. FatherIn(TASK)[p] = TASK[i].father_pid
      BY <3>1, HeldIs, LifeFacts
    <3>4. FatherIn(TASK')[p] = TASK'[i].father_pid
      BY <3>2, HeldIs, LifeFacts
    <3> QED
      BY <1>11, <3>1, <3>3, <3>4, Mapping
  <2>2. CASE ~\E i \in Scanned : Alive(TASK, i) /\ TASK[i].pid = p
    <3>1. \A i \in Scanned : Alive(TASK', i) => TASK'[i].pid # p
      BY <1>7, <2>2
    <3>2. FatherIn(TASK)[p] = 0 /\ FatherIn(TASK')[p] = 0
      BY <2>2, <3>1, UnheldIs, Zenon
    <3> QED
      BY <1>1, <3>2, Mapping
  <2> QED
    BY <2>1, <2>2
<1>16. /\ LifeIn(TASK', Born') = [life EXCEPT ![self] = "zombie"]
       /\ FatherIn(TASK') = [p \in 1 .. MAX_PID |->
                                IF father[p] = self THEN 1 ELSE father[p]]
  <2> DEFINE L == [life EXCEPT ![self] = "zombie"]
             F == [p \in 1 .. MAX_PID |-> IF father[p] = self THEN 1 ELSE father[p]]
  <2>1. L = [p \in 1 .. MAX_PID |-> IF p = self THEN "zombie" ELSE life[p]]
    BY LifeFacts, Zenon DEF OnProcs
  <2>2. EqualMaps(FatherIn(TASK'), F) /\ OnProcs(F)
    BY <1>15 DEF EqualMaps, OnProcs
  <2> HIDE DEF L, F
  <2>3. EqualMaps(LifeIn(TASK', Born'), L) /\ OnProcs(L)
    BY <1>13, <1>14, <2>1, Mapping DEF EqualMaps, OnProcs
  <2> QED
    BY <2>2, <2>3, MapsEqual DEF L, F
<1>17. Life!Die
  BY <1>1, <1>4, <1>16, Mapping DEF Life!Die, Life!Procs
<1> QED
  BY <1>12, <1>17

LEMMA InitLife == Init => LInv /\ Life!LifeInit
<1> SUFFICES ASSUME Init
             PROVE  LInv /\ Life!LifeInit
  OBVIOUS
<1>1. \A i \in Scanned : ~Alive(TASK, i)
  BY ScannedSlots DEF Init, Alive
<1>2. LInv
  BY <1>1, InitIInv DEF LInv, Fathered
<1>3. Born = 0 /\ self = 0
  <2>1. TASK[0] = INIT_TASK
    BY ScannedSlots DEF Init
  <2> QED
    BY <2>1 DEF Init, Born, self, INIT_TASK
<1>4. ASSUME NEW p \in 1 .. MAX_PID
      PROVE  LifeIn(TASK, Born)[p] = "unborn" /\ FatherIn(TASK)[p] = 0
  BY <1>1, <1>3, UnheldIs
<1> DEFINE L == [p \in 1 .. MAX_PID |-> "unborn"]
           F == [p \in 1 .. MAX_PID |-> 0]
<1>5. EqualMaps(LifeIn(TASK, Born), L) /\ EqualMaps(FatherIn(TASK), F)
  BY <1>4 DEF EqualMaps
<1>6. OnProcs(L) /\ OnProcs(F)
  BY DEF OnProcs
<1> HIDE DEF L, F
<1>7. LifeIn(TASK, Born) = L /\ FatherIn(TASK) = F
  BY <1>5, <1>6, MapsEqual
<1>8. Life!LifeInit
  BY <1>3, <1>7, Mapping DEF Life!LifeInit, Life!Procs, L, F
<1> QED
  BY <1>2, <1>8

LEMMA NextLife == LInv /\ [Next]_vars => LInv' /\ [Life!LifeNext]_(Life!pvars)
<1> SUFFICES ASSUME LInv, [Next]_vars
             PROVE  LInv' /\ [Life!LifeNext]_(Life!pvars)
  OBVIOUS
<1>1. IInv'
  BY NextIInv DEF LInv
<1>2. self' \in 0 .. MAX_PID
  BY <1>1, LifeFacts
<1>3. ASSUME Fathered(TASK'), \/ \E c \in Life!Procs : Life!Beget(c) \/ Life!Reap(c)
                             \/ Life!Die
                             \/ UNCHANGED <<life, father>>
      PROVE  LInv' /\ Life!LifeNext
  <2>1. LInv'
    BY <1>1, <1>3 DEF LInv, Fathered, Alive
  <2>2. Life!LifeNext
    BY <1>2, <1>3 DEF Life!LifeNext, Life!Switch
  <2> QED
    BY <2>1, <2>2
<1>4. CASE Fork
  BY <1>1, <1>3, <1>4, ForkMaps
<1>5. CASE Exit
  BY <1>1, <1>3, <1>5, ExitMaps
<1>6. CASE SameStep
  BY <1>1, <1>3, <1>6, SameMaps
<1>7. ASSUME NEW i \in Scanned, ReapStep(i)
      PROVE  LInv' /\ Life!LifeNext
  BY <1>1, <1>3, <1>7, ReapMaps
<1>8. Fork \/ Exit \/ SameStep \/ \E i \in Scanned : ReapStep(i)
  BY StepKinds DEF LInv
<1> QED
  BY <1>4, <1>5, <1>6, <1>7, <1>8

\* fork, exit and waitpid implement the abstract lifecycle of processes, for
\* every number of slots, queues and pids: each is born once and in order, exits
\* at most once, is handed to process 1 when its father exits first, and is
\* reaped once, by its father.
THEOREM LifecycleHolds == Spec => Lifecycle
  BY InitLife, NextLife, PTL DEF Spec, Lifecycle, Life!LifeSpec
=============================================================================
