------------------------------- MODULE Sched -------------------------------
(***************************************************************************)
(* The process table and the multi-level feedback queue scheduler of       *)
(* 404OS: kernel/sched/{sched,fork,exit}.c, sys_fork, sys_exit and         *)
(* sys_waitpid of kernel/sys.c, do_timer of timer/timer.c, and sleep() and *)
(* wakeup() as the disk driver uses them.                                  *)
(*                                                                         *)
(* One hart runs.  A trap clears the interrupt enable bit, so a handler    *)
(* runs up to its sret, or up to the switch_to inside schedule(), with no  *)
(* interleaving: that stretch is one action.  A task that was switched out *)
(* inside the kernel continues there (kctx) when it is current again.      *)
(***************************************************************************)
EXTENDS Integers, Sequences, FiniteSets

CONSTANTS
  MAX_TASK,    \* slots of TASK[] (64)
  MAX_ORDER,   \* index of the last ready queue (4)
  SLICE,       \* ticks of a slice in queue 0 (2)
  STEP,        \* extra ticks per queue (6)
  MAX_PID,     \* bound on NEW_PID: how many forks a behaviour may hold
  DISK_PIDS,   \* the processes whose programs make disk requests
  NULL         \* an empty slot of TASK[]

ASSUME SchedAssumption ==
  /\ MAX_TASK \in Nat /\ MAX_TASK >= 2
  /\ MAX_ORDER \in Nat
  /\ SLICE \in Nat \ {0}
  /\ STEP \in Nat
  /\ MAX_PID \in Nat \ {0}
  /\ DISK_PIDS \subseteq 1 .. MAX_PID

Slots == 0 .. MAX_TASK - 1
\* Every scan of TASK[] visits the slots 1 .. MAX_TASK-1 and skips task 0.
Scanned == 1 .. MAX_TASK - 1
Orders == 0 .. MAX_ORDER
Pids == 0 .. MAX_PID

\* The priority INIT_TASK has and every fork copies: a counter until the task
\* is first queued.
LOW == 1

COUNTER(order) == SLICE + STEP * order

Task == [pid        : Pids,
         father_pid : Pids,
         state      : {"READY", "RUNNING", "WAIT", "ZOMBINE"},
         order      : Orders \cup {-1},
         in_Queue   : BOOLEAN,
         counter    : Int,
         signal     : SUBSET {"CHLD", "STOP", "CONT"}]

\* No task record equals the null pointer.
ASSUME NullAssumption == NULL \notin Task

\* Arguments of waitpid: any child (-1), one pid, or a group (0), which the
\* code never matches.
WaitArgs == {-1} \cup Pids

VARIABLES
  TASK,      \* slot -> task_struct, or NULL
  queue,     \* order -> the slots whose nodes hang off queue_head[order]
  current,   \* slot of the running task
  NEW_PID,   \* the last pid given out
  kctx,      \* slot -> where the task continues: user code, or a kernel wait
  wpid,      \* slot -> the argument of the waitpid it is blocked in
  pending,   \* slots whose disk request the device has not finished
  panicked   \* panic() was reached: the kernel spins for ever

vars == <<TASK, queue, current, NEW_PID, kctx, wpid, pending, panicked>>

Alive(T, i) == T[i] # NULL

INIT_TASK == [pid |-> 0, father_pid |-> 0, state |-> "READY", order |-> 0,
              in_Queue |-> FALSE, counter |-> LOW, signal |-> {}]

Init ==
  /\ TASK = [i \in Slots |-> IF i = 0 THEN INIT_TASK ELSE NULL]
  /\ queue = [o \in Orders |-> <<>>]
  /\ current = 0
  /\ NEW_PID = 0
  /\ kctx = [i \in Slots |-> "user"]
  /\ wpid = [i \in Slots |-> 0]
  /\ pending = {}
  /\ panicked = FALSE

-----------------------------------------------------------------------------
(* schedule() *)

\* Mutant of alter_state: the signals stay set.
alter_state_keeps_signals(T) ==
  [i \in Slots |->
     IF /\ i \in Scanned
        /\ Alive(T, i)
        /\ T[i].state = "WAIT"
        /\ T[i].signal \ {"STOP"} # {}
     THEN [T[i] EXCEPT !.state = "READY"]
     ELSE T[i]]

\* alter_state(): a waiting task with any signal but STOP becomes ready and
\* loses all its signals.
alter_state(T) ==
  [i \in Slots |->
     IF /\ i \in Scanned
        /\ Alive(T, i)
        /\ T[i].state = "WAIT"
        /\ T[i].signal \ {"STOP"} # {}
     THEN [T[i] EXCEPT !.state = "READY", !.signal = {}]
     ELSE T[i]]

\* Mutant of Enqueued: in_Queue is not looked at.
Enqueued_again(T) ==
  {i \in Scanned : /\ Alive(T, i)
                   /\ T[i].order >= 0
                   /\ T[i].state \in {"READY", "RUNNING"}}

\* The slots set_Queue() appends a node for.
Enqueued(T) ==
  {i \in Scanned : /\ Alive(T, i)
                   /\ T[i].order >= 0
                   /\ ~T[i].in_Queue
                   /\ T[i].state \in {"READY", "RUNNING"}}

\* Mutant of NewOrder: no last queue.
NewOrder_unbounded(t) ==
  IF t.state = "RUNNING" THEN t.order + 1 ELSE t.order

\* A task that was running goes one queue down.
NewOrder(t) ==
  IF t.order < MAX_ORDER /\ t.state = "RUNNING" THEN t.order + 1 ELSE t.order

\* The members of S in the order of a scan from the last slot to the first:
\* the k-th one has k-1 members above it.
ScanSeq(S) ==
  [k \in 1 .. Cardinality(S) |->
     CHOOSE i \in S : Cardinality({j \in S : j > i}) = k - 1]

\* Mutant of set_Queue_task: the task keeps its state.
set_Queue_task_no_ready(T) ==
  [i \in Slots |->
     IF i \in Enqueued(T)
     THEN [T[i] EXCEPT !.order = NewOrder(T[i]),
                       !.in_Queue = TRUE,
                       !.counter = COUNTER(NewOrder(T[i]))]
     ELSE T[i]]

\* The tasks after set_Queue().
set_Queue_task(T) ==
  [i \in Slots |->
     IF i \in Enqueued(T)
     THEN [T[i] EXCEPT !.order = NewOrder(T[i]),
                       !.state = "READY",
                       !.in_Queue = TRUE,
                       !.counter = COUNTER(NewOrder(T[i]))]
     ELSE T[i]]

\* The slots whose node set_Queue() would unlink: queued, but neither ready
\* nor running.
Unlinked(T) ==
  {i \in Scanned : /\ Alive(T, i)
                   /\ T[i].order >= 0
                   /\ T[i].in_Queue
                   /\ T[i].state \notin {"READY", "RUNNING"}}

\* Mutant of set_Queue: new nodes go to the head.
set_Queue_lifo(T) ==
  [o \in Orders |->
     ScanSeq({i \in Enqueued(T) : NewOrder(T[i]) = o}) \o queue[o]]

\* The queues after set_Queue().
set_Queue(T) ==
  [o \in Orders |->
     LET kept == IF Unlinked(T) = {} THEN queue[o]
                 ELSE SelectSeq(queue[o], LAMBDA i : i \notin Unlinked(T))
     IN  kept \o ScanSeq({i \in Enqueued(T) : NewOrder(T[i]) = o})]

\* schedule() on the process table T: the head of the first nonempty queue
\* runs, task 0 if there is none.
Dispatch(S, Q, o) ==
  /\ Q[o] # <<>>
  /\ \A p \in Orders : p < o => Q[p] = <<>>
  /\ TASK' = [S EXCEPT ![Head(Q[o])].in_Queue = FALSE,
                       ![Head(Q[o])].state = "RUNNING"]
  /\ queue' = [Q EXCEPT ![o] = Tail(@)]
  /\ current' = Head(Q[o])

Idle(S, Q) ==
  /\ \A o \in Orders : Q[o] = <<>>
  /\ TASK' = S
  /\ queue' = Q
  /\ current' = 0

schedule(T) ==
  LET S == set_Queue_task(alter_state(T))
      Q == set_Queue(alter_state(T))
  IN  (\E o \in Orders : Dispatch(S, Q, o)) \/ Idle(S, Q)

-----------------------------------------------------------------------------
(* The running task traps, or is interrupted, only while in user code. *)

InUser == ~panicked /\ kctx[current] = "user"

\* Mutant of copy_process: the pid is read before find_new_id() counts it up.
copy_process_early(i) ==
  [pid |-> NEW_PID, father_pid |-> TASK[current].pid, state |-> "READY",
   order |-> 0, in_Queue |-> FALSE, counter |-> LOW, signal |-> {}]

\* The task_struct copy_process() makes in slot i.
copy_process(i) ==
  [pid |-> NEW_PID + 1, father_pid |-> TASK[current].pid, state |-> "READY",
   order |-> 0, in_Queue |-> FALSE, counter |-> LOW, signal |-> {}]

\* The slot find_new_id() returns: the first free one.
find_new_id(i) ==
  /\ ~Alive(TASK, i)
  /\ \A j \in Scanned : j < i => Alive(TASK, j)

\* sys_fork(): find_new_id() takes the next pid and the first free slot, or
\* the kernel panics; copy_process() fills the slot.  Task 0 forks once, to
\* make process 1, and then idles.
Fork ==
  /\ InUser
  /\ current = 0 => NEW_PID = 0
  /\ NEW_PID < MAX_PID
  /\ NEW_PID' = NEW_PID + 1
  /\ \/ \E i \in Scanned :
          /\ find_new_id(i)
          /\ TASK' = [TASK EXCEPT ![i] = copy_process(i)]
          /\ kctx' = [kctx EXCEPT ![i] = "user"]
          /\ UNCHANGED panicked
     \/ /\ \A i \in Scanned : Alive(TASK, i)
        /\ panicked' = TRUE
        /\ UNCHANGED <<TASK, kctx>>
  /\ UNCHANGED <<queue, current, wpid, pending>>

\* tell_father(): SIG_CHLD to the first task with that pid; a father that is
\* task 0 or gone is replaced by process 1.
tell_father(T, pid) ==
  LET F == {i \in Scanned : Alive(T, i) /\ T[i].pid = pid}
      first == CHOOSE i \in F : \A j \in F : i <= j
  IN  IF pid # 0 /\ F # {}
      THEN [T EXCEPT ![first].signal = @ \cup {"CHLD"}]
      ELSE LET U == [T EXCEPT ![current].father_pid = 1]
           IN  [U EXCEPT ![1].signal = @ \cup {"CHLD"}]

\* The first loop of do_exit(): the children of pid move to process 1, which
\* is told (Reparent) if one of them is already a zombie.
Children(T, pid) == {i \in Scanned : Alive(T, i) /\ T[i].father_pid = pid}

\* Mutant of Reparent: process 1 is not told about a zombie it inherits.
Reparent_silent(T, pid) ==
  [i \in Slots |->
     IF i \in Children(T, pid) THEN [T[i] EXCEPT !.father_pid = 1] ELSE T[i]]

\* Mutant of Reparent: only zombies move.
Reparent_zombies(T, pid) ==
  LET C == {i \in Children(T, pid) : T[i].state = "ZOMBINE"}
      U == [i \in Slots |->
              IF i \in C THEN [T[i] EXCEPT !.father_pid = 1] ELSE T[i]]
  IN  IF C # {} THEN tell_father(U, 1) ELSE U

Reparent(T, pid) ==
  LET C == Children(T, pid)
      U == [i \in Slots |->
              IF i \in C THEN [T[i] EXCEPT !.father_pid = 1] ELSE T[i]]
  IN  IF \E i \in C : T[i].state = "ZOMBINE" THEN tell_father(U, 1) ELSE U

\* do_exit().  Process 1 (Init) ends in an endless loop and never exits.
Exit ==
  /\ InUser
  /\ TASK[current].pid > 1
  /\ LET R == Reparent(TASK, TASK[current].pid)
         Z == [R EXCEPT ![current] = [@ EXCEPT !.state = "ZOMBINE",
                                               !.counter = 0,
                                               !.in_Queue = FALSE,
                                               !.order = -1]]
     IN  schedule(tell_father(Z, Z[current].father_pid))
  /\ UNCHANGED <<NEW_PID, kctx, wpid, pending, panicked>>

-----------------------------------------------------------------------------
(* sys_waitpid() *)

\* Mutant of Matching: whose child it is does not matter.
Matching_anyone(arg) ==
  {i \in Scanned : /\ i # current
                   /\ Alive(TASK, i)
                   /\ arg = -1 \/ (arg > 0 /\ arg = TASK[i].pid)}

\* The children of the current task that waitpid(arg) is about.
Matching(arg) ==
  {i \in Scanned : /\ i # current
                   /\ Alive(TASK, i)
                   /\ TASK[i].father_pid = TASK[current].pid
                   /\ arg = -1 \/ (arg > 0 /\ arg = TASK[i].pid)}

\* Of these, the ones that have exited.
Exited(arg) == {i \in Matching(arg) : TASK[i].state = "ZOMBINE"}

\* release(): the slot is free again.
release(T, i) == [T EXCEPT ![i] = NULL]

\* One pass of the repeat loop, on the process table T: release the exited
\* child of the last slot, or block, or return -ECHILD.
WaitpidPass(T, arg) ==
  \/ \E i \in Exited(arg) :
       /\ \A j \in Exited(arg) : j <= i
       /\ TASK' = release(T, i)
       /\ kctx' = [kctx EXCEPT ![current] = "user"]
       /\ wpid' = [wpid EXCEPT ![current] = 0]
       /\ UNCHANGED <<queue, current>>
  \/ /\ Exited(arg) = {} /\ Matching(arg) # {}
     /\ schedule([T EXCEPT ![current] =
                    [@ EXCEPT !.state = "WAIT", !.in_Queue = FALSE]])
     /\ kctx' = [kctx EXCEPT ![current] = "waitpid"]
     /\ wpid' = [wpid EXCEPT ![current] = arg]
  \/ /\ Matching(arg) = {}
     /\ TASK' = T
     /\ kctx' = [kctx EXCEPT ![current] = "user"]
     /\ wpid' = [wpid EXCEPT ![current] = 0]
     /\ UNCHANGED <<queue, current>>

Waitpid(arg) ==
  /\ InUser
  /\ current # 0
  /\ WaitpidPass(TASK, arg)
  /\ UNCHANGED <<NEW_PID, pending, panicked>>

\* The task runs again after the schedule() of waitpid: SIG_CHLD is cleared;
\* with no other signal the scan repeats, otherwise the call returns -EINTR.
WaitpidResume ==
  /\ ~panicked
  /\ kctx[current] = "waitpid"
  /\ LET rest == TASK[current].signal \ {"CHLD"}
         T == [TASK EXCEPT ![current].signal = rest]
     IN  IF rest = {}
         THEN WaitpidPass(T, wpid[current])
         ELSE /\ TASK' = T
              /\ kctx' = [kctx EXCEPT ![current] = "user"]
              /\ wpid' = [wpid EXCEPT ![current] = 0]
              /\ UNCHANGED <<queue, current>>
  /\ UNCHANGED <<NEW_PID, pending, panicked>>

-----------------------------------------------------------------------------
(* sleep() and wakeup(), as virtio_disk_rw() and the disk interrupt use them *)

sleep == schedule([TASK EXCEPT ![current].state = "WAIT",
                               ![current].signal = @ \cup {"STOP"}])

\* A system call submits a disk request and sleeps until the device is done.
DiskRequest ==
  /\ InUser
  /\ TASK[current].pid \in DISK_PIDS
  /\ pending' = pending \cup {current}
  /\ kctx' = [kctx EXCEPT ![current] = "disk"]
  /\ sleep
  /\ UNCHANGED <<NEW_PID, wpid, panicked>>

\* The task runs again inside the wait loop: it sleeps again while its
\* request is unfinished; after that the call returns, or submits its next
\* request.
DiskResume ==
  /\ ~panicked
  /\ kctx[current] = "disk"
  /\ \/ /\ current \in pending
        /\ sleep
        /\ UNCHANGED <<pending, kctx>>
     \/ /\ current \notin pending
        /\ kctx' = [kctx EXCEPT ![current] = "user"]
        /\ UNCHANGED <<TASK, queue, current, pending>>
     \/ /\ current \notin pending
        /\ pending' = pending \cup {current}
        /\ sleep
        /\ UNCHANGED kctx
  /\ UNCHANGED <<NEW_PID, wpid, panicked>>

\* Mutant of wakeup: STOP is cleared and CONT not set.
wakeup_no_cont(T) ==
  [i \in Slots |->
     IF i \in Scanned /\ Alive(T, i) /\ "STOP" \in T[i].signal
     THEN [T[i] EXCEPT !.signal = @ \ {"STOP"}]
     ELSE T[i]]

\* wakeup(): STOP becomes CONT in every task that has it.
wakeup(T) ==
  [i \in Slots |->
     IF i \in Scanned /\ Alive(T, i) /\ "STOP" \in T[i].signal
     THEN [T[i] EXCEPT !.signal = (@ \ {"STOP"}) \cup {"CONT"}]
     ELSE T[i]]

\* virtio_disk_interrupt_handler(): the requests D are finished.
DiskInterrupt(D) ==
  /\ InUser
  /\ D # {}
  /\ pending' = pending \ D
  /\ TASK' = wakeup(TASK)
  /\ UNCHANGED <<queue, current, NEW_PID, kctx, wpid, panicked>>

-----------------------------------------------------------------------------
\* do_timer(): the slice of the running task shrinks, and it keeps the hart
\* while ticks are left.  Task 0 gives way at every tick.
TimerInterrupt ==
  /\ InUser
  /\ IF TASK[current].pid = 0
     THEN schedule(TASK)
     ELSE LET T == [TASK EXCEPT ![current].counter = @ - 1]
          IN  IF T[current].counter > 0 /\ T[current].state \in {"RUNNING", "READY"}
              THEN TASK' = T /\ UNCHANGED <<queue, current>>
              ELSE schedule(T)
  /\ UNCHANGED <<NEW_PID, kctx, wpid, pending, panicked>>

\* A panicked kernel spins with interrupts off.
Halted == panicked /\ UNCHANGED vars

Next ==
  \/ Fork
  \/ Exit
  \/ \E arg \in WaitArgs : Waitpid(arg)
  \/ WaitpidResume
  \/ DiskRequest
  \/ DiskResume
  \/ \E D \in SUBSET pending : DiskInterrupt(D)
  \/ TimerInterrupt
  \/ Halted

Spec == Init /\ [][Next]_vars

\* A pending timer interrupt is taken as soon as user code runs again, kernel
\* code runs on to its end, and the device finishes every request.
Fairness ==
  /\ SF_vars(TimerInterrupt)
  /\ WF_vars(WaitpidResume)
  /\ WF_vars(DiskResume)
  /\ \A i \in Scanned :
       SF_vars(\E D \in SUBSET pending : i \in D /\ DiskInterrupt(D))

FairSpec == Spec /\ Fairness

-----------------------------------------------------------------------------
(* Properties *)

\* The type of every variable: in particular a queue order never leaves the
\* array queue_head, and queues hold slots of scanned tasks only.
TypeOK ==
  /\ TASK \in [Slots -> Task \cup {NULL}]
  /\ queue \in [Orders -> Seq(Scanned)]
  /\ current \in Slots
  /\ NEW_PID \in Pids
  /\ kctx \in [Slots -> {"user", "waitpid", "disk"}]
  /\ wpid \in [Slots -> WaitArgs]
  /\ pending \subseteq Scanned
  /\ panicked \in BOOLEAN

\* A node of queues Q points to a task of table T that is ready, marked and
\* of that queue's order; no queue holds a task twice; a marked task has a
\* node.
Agree(T, Q) ==
  /\ \A o \in Orders : \A k \in 1 .. Len(Q[o]) :
       LET i == Q[o][k]
       IN  /\ Alive(T, i)
           /\ T[i].in_Queue
           /\ T[i].order = o
           /\ T[i].state = "READY"
  /\ \A o \in Orders : \A k, l \in 1 .. Len(Q[o]) : Q[o][k] = Q[o][l] => k = l
  /\ \A i \in Scanned :
       Alive(T, i) /\ T[i].in_Queue =>
         \E o \in Orders : \E k \in 1 .. Len(Q[o]) : Q[o][k] = i

\* The ready queues and the fields of the tasks agree.  So set_Queue() never
\* has a node to unlink, no task is queued twice, and no node outlives the
\* task_struct that release() frees.
QueueInv == Agree(TASK, queue)

\* schedule() leaves exactly the current task running, and task 0 runs only
\* when no queue holds a task.
OneRunning ==
  /\ \A i \in Scanned :
       Alive(TASK, i) => (TASK[i].state = "RUNNING" <=> i = current)
  /\ Alive(TASK, current)
  /\ current = 0 => \A o \in Orders : queue[o] = <<>>

\* Pids are given out once: no two tasks share one, so tell_father() and
\* waitpid(pid) can never reach a stranger in a reused slot.
PidsUnique ==
  /\ \A i, j \in Slots :
       Alive(TASK, i) /\ Alive(TASK, j) /\ TASK[i].pid = TASK[j].pid => i = j
  /\ \A i \in Slots : Alive(TASK, i) => TASK[i].pid <= NEW_PID

\* Every task but 0 has a father that exists and has not exited: a zombie is
\* always somebody's to reap, also after its father exited first.
FatherAlive ==
  \A i \in Scanned : Alive(TASK, i) =>
    \E f \in Slots : /\ Alive(TASK, f)
                     /\ TASK[f].state # "ZOMBINE"
                     /\ TASK[f].pid = TASK[i].father_pid

\* No wakeup is lost by waitpid: a task that waits there has a child to wait
\* for, and none of the children it would accept has exited already.
NoLostChild ==
  \A i \in Scanned :
    Alive(TASK, i) /\ TASK[i].state = "WAIT" /\ kctx[i] = "waitpid" =>
      LET M == {c \in Scanned \ {i} :
                  /\ Alive(TASK, c)
                  /\ TASK[c].father_pid = TASK[i].pid
                  /\ wpid[i] \in {-1, TASK[c].pid}}
      IN  M # {} /\ \A c \in M : TASK[c].state # "ZOMBINE"

\* No wakeup by the disk is lost or misses its wait: a task that waits for a
\* finished request carries a signal that the next alter_state() turns into
\* ready, and STOP and CONT stay inside the disk wait, so that waitpid never sees
\* a signal other than SIG_CHLD and never returns -EINTR.
DiskSignals ==
  \A i \in Scanned :
    Alive(TASK, i) =>
      LET waits == TASK[i].state = "WAIT" /\ kctx[i] = "disk"
      IN  /\ waits => i \in pending \/ TASK[i].signal \ {"STOP"} # {}
          /\ TASK[i].signal \cap {"STOP", "CONT"} # {} => waits

\* A task that is ready gets the hart, unless two others sleep for the disk again
\* and again: tasks that only compute sink to the last queue sooner or later, and
\* that queue is served in turn; one that sleeps comes back above them.
Served ==
  \A i \in Scanned :
    \/ (Alive(TASK, i) /\ TASK[i].state = "READY") ~> (current = i \/ panicked)
    \/ \E j, k \in Scanned :
         j < k /\ i \notin {j, k} /\ []<>(kctx[j] = "disk") /\ []<>(kctx[k] = "disk")

\* A task whose disk request was submitted leaves the wait state.
DiskWaitEnds ==
  \A i \in Scanned :
    (Alive(TASK, i) /\ TASK[i].state = "WAIT" /\ kctx[i] = "disk")
      ~> (panicked \/ (Alive(TASK, i) => TASK[i].state # "WAIT"))

-----------------------------------------------------------------------------
(* The lifecycle of processes that the table, the queues and the signals
   implement.  A pid taken by the fork that panics is never born. *)

Born == IF panicked THEN NEW_PID - 1 ELSE NEW_PID

Holding(p) == {i \in Scanned : Alive(TASK, i) /\ TASK[i].pid = p}

life ==
  [p \in 1 .. MAX_PID |->
     IF \E i \in Holding(p) : TASK[i].state = "ZOMBINE" THEN "zombie"
     ELSE IF Holding(p) # {} THEN "alive"
     ELSE IF p <= Born THEN "reaped" ELSE "unborn"]

father ==
  [p \in 1 .. MAX_PID |->
     IF Holding(p) = {} THEN 0
     ELSE TASK[CHOOSE i \in Holding(p) : TRUE].father_pid]

self == TASK[current].pid

Life == INSTANCE ProcLife WITH life <- life, father <- father, self <- self

\* fork, exit and waitpid implement the abstract process lifecycle: what the
\* table forgets or moves is exactly what a process did.
Lifecycle == Life!LifeSpec
=============================================================================
