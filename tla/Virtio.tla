------------------------------- MODULE Virtio -------------------------------
(***************************************************************************)
(* The virtio block driver of 404OS, driver/virtio.c: descriptors, the two *)
(* rings shared with the device, and the interrupt handler.                *)
(*                                                                         *)
(* Two kinds of callers reach virtio_disk_rw().  While process 1 mounts    *)
(* the file system it runs in user mode: interrupts are on, so every step  *)
(* of the call is an action of its own, and it polls for the end of the    *)
(* request.  Afterwards system calls make the requests: interrupts are off *)
(* and the call sleeps, so it is one action up to the sleep and one after  *)
(* it.                                                                     *)
(***************************************************************************)
EXTENDS Integers, FiniteSets

CONSTANTS
  Procs,       \* the processes that make requests
  Mounter,     \* the one that mounts the file system: process 1
  Bufs,        \* the buffers of the cache
  BufsOf,      \* process -> the buffers its requests are for
  QUEUE_SIZE,  \* number of descriptors and of entries in each ring (8)
  IDX,         \* the ring indexes count modulo this (2^16)
  NIL          \* no descriptor, no buffer

ASSUME VirtioAssumption ==
  /\ Mounter \in Procs
  /\ BufsOf \in [Procs -> SUBSET Bufs]
  /\ QUEUE_SIZE \in Nat \ {0}
  /\ IDX \in Nat \ {0}
  /\ IDX % QUEUE_SIZE = 0
  /\ NIL \notin Bufs \cup (0 .. QUEUE_SIZE - 1)

Descs == 0 .. QUEUE_SIZE - 1
Idx == 0 .. IDX - 1
Inc(i) == (i + 1) % IDX

VARIABLES
  lock,       \* disk.lock
  free,       \* descriptors with disk.free[i] = 1
  next,       \* descriptor -> desc.next, NIL when VIRTQ_DESC_F_NEXT is clear
  addr,       \* descriptor -> the buffer whose data desc.addr points to, or NIL
  info,       \* descriptor -> disk.info[i].buf
  status,     \* descriptor -> has the device written status 0
  avail,      \* [ring, idx] of disk.avail; an entry nobody has to read is NIL
  used,       \* [ring, idx] of disk.used, written by the device; likewise
  used_idx,   \* disk.used_idx, the entries of used the driver has seen
  rung,       \* avail.idx at the last write to QUEUE_NOTIFY
  taken,      \* the device's own index into avail
  dma,        \* head -> buffer, for the requests the device works on
  work,       \* heads of the requests the device works on
  disk,       \* buffer -> buf->disk
  pc,         \* process -> where it is in virtio_disk_rw
  buf,        \* process -> its argument buf
  head,       \* process -> its index[0]
  mounted,    \* process 1 has mounted the file system
  irq,        \* the device's interrupt is pending
  hart        \* "runs" tasks, is in the interrupt "handler", or has stopped:
              \* in panic(), or in a loop that waits for a lock or descriptors

ring == <<avail, used, used_idx, rung, taken, work, dma>>
table == <<free, next, addr, info, status>>
caller == <<pc, buf, head>>
vars == <<lock, table, ring, disk, caller, mounted, irq, hart>>

\* Init_virtio()
Init ==
  /\ lock = FALSE
  /\ free = Descs
  /\ next = [i \in Descs |-> NIL]
  /\ addr = [i \in Descs |-> NIL]
  /\ info = [i \in Descs |-> NIL]
  /\ status = [i \in Descs |-> TRUE]
  /\ avail = [ring |-> [i \in Descs |-> NIL], idx |-> 0]
  /\ used = [ring |-> [i \in Descs |-> NIL], idx |-> 0]
  /\ used_idx = 0 /\ rung = 0 /\ taken = 0
  /\ work = {}
  /\ dma = [i \in Descs |-> NIL]
  /\ disk = [b \in Bufs |-> FALSE]
  /\ pc = [p \in Procs |-> "out"]
  /\ buf = [p \in Procs |-> NIL]
  /\ head = [p \in Procs |-> NIL]
  /\ mounted = FALSE
  /\ irq = FALSE
  /\ hart = "runs"

-----------------------------------------------------------------------------
(* The parts of virtio_disk_rw() *)

\* alloc_descs(): the three lowest free descriptors, in the order in which
\* alloc_desc() finds them.
alloc_descs(i, j, k) ==
  /\ {i, j, k} \subseteq free
  /\ i < j /\ j < k
  /\ \A d \in free : d < k => d \in {i, j}

\* A failed alloc_descs() gives back what it took: nothing changes.
NoDescs == Cardinality(free) < 3

\* The request is written into descriptors i, j, k and published in the ring.
Publish(p, b, i, j, k) ==
  /\ free' = free \ {i, j, k}
  /\ next' = [next EXCEPT ![i] = j, ![j] = k, ![k] = NIL]
  /\ addr' = [addr EXCEPT ![i] = NIL, ![j] = b, ![k] = NIL]
  /\ info' = [info EXCEPT ![i] = b]
  /\ status' = [status EXCEPT ![i] = FALSE]
  /\ disk' = [disk EXCEPT ![b] = TRUE]
  /\ avail' = [ring |-> [avail.ring EXCEPT ![avail.idx % QUEUE_SIZE] = i],
               idx  |-> Inc(avail.idx)]
  /\ buf' = [buf EXCEPT ![p] = b]
  /\ head' = [head EXCEPT ![p] = i]
  /\ UNCHANGED <<used, used_idx, taken, work, dma>>

\* The descriptors free_chain() walks over: chains have at most three.
Chain(h) ==
  LET j == next[h]
      k == IF j = NIL THEN NIL ELSE next[j]
  IN  {h, j, k} \ {NIL}

\* Mutant: only the first descriptor is given back.
free_chain_head(p) ==
  LET h == head[p]
  IN  /\ info' = [info EXCEPT ![h] = NIL]
      /\ free' = free \cup {h}
      /\ next' = [next EXCEPT ![h] = NIL]
      /\ addr' = [addr EXCEPT ![h] = NIL]
      /\ hart' = IF h \in free THEN "panic" ELSE hart
      /\ head' = [head EXCEPT ![p] = NIL]
      /\ buf' = [buf EXCEPT ![p] = NIL]
      /\ UNCHANGED <<status, ring, disk, mounted, irq>>

\* The end of the call: free_chain() panics on a descriptor that is free.
free_chain(p) ==
  LET h == head[p]
      C == Chain(h)
  IN  /\ info' = [info EXCEPT ![h] = NIL]
      /\ free' = free \cup C
      /\ next' = [i \in Descs |-> IF i \in C THEN NIL ELSE next[i]]
      /\ addr' = [i \in Descs |-> IF i \in C THEN NIL ELSE addr[i]]
      /\ hart' = IF C \cap free # {} THEN "panic" ELSE hart
      /\ head' = [head EXCEPT ![p] = NIL]
      /\ buf' = [buf EXCEPT ![p] = NIL]
      /\ UNCHANGED <<status, ring, disk, mounted, irq>>

-----------------------------------------------------------------------------
(* A request of a system call *)

Stuck(why) ==
  /\ hart' = why
  /\ UNCHANGED <<lock, table, ring, disk, caller, mounted, irq>>

\* Up to the sleep.  With no descriptors left the loop around alloc_descs()
\* runs on with interrupts off.
SysRequest(p, b) ==
  /\ mounted /\ hart = "runs"
  /\ pc[p] = "out"
  /\ IF lock THEN Stuck("lock")
     ELSE IF NoDescs THEN Stuck("descs")
     ELSE /\ \E i, j, k \in free : alloc_descs(i, j, k) /\ Publish(p, b, i, j, k)
          /\ rung' = avail'.idx
          /\ pc' = [pc EXCEPT ![p] = "sleep"]
          /\ UNCHANGED <<lock, mounted, irq, hart>>

\* Mutant: any wakeup() ends the wait, "if" in place of "while".
SysResume_once(p) ==
  /\ hart = "runs"
  /\ pc[p] = "woken"
  /\ free_chain(p)
  /\ pc' = [pc EXCEPT ![p] = "out"]
  /\ UNCHANGED lock

\* After wakeup(): the call sleeps again while buf->disk is set.
SysResume(p) ==
  /\ hart = "runs"
  /\ pc[p] = "woken"
  /\ IF disk[buf[p]]
     THEN /\ pc' = [pc EXCEPT ![p] = "sleep"]
          /\ UNCHANGED <<lock, table, ring, disk, buf, head, mounted, irq, hart>>
     ELSE IF lock THEN Stuck("lock")
     ELSE /\ free_chain(p)
          /\ pc' = [pc EXCEPT ![p] = "out"]
          /\ UNCHANGED lock

-----------------------------------------------------------------------------
(* A request of process 1 while it mounts, in user mode.  A lock that is
   taken is waited for with interrupts on. *)

UserLock ==
  /\ ~mounted /\ hart = "runs"
  /\ pc[Mounter] = "out"
  /\ ~lock
  /\ lock' = TRUE
  /\ pc' = [pc EXCEPT ![Mounter] = "alloc"]
  /\ UNCHANGED <<table, ring, disk, buf, head, mounted, irq, hart>>

\* Mutant: the device is notified before the lock is released.
UserPublish_notify(b) ==
  /\ hart = "runs"
  /\ pc[Mounter] = "alloc"
  /\ \E i, j, k \in free : alloc_descs(i, j, k) /\ Publish(Mounter, b, i, j, k)
  /\ rung' = avail'.idx
  /\ pc' = [pc EXCEPT ![Mounter] = "published"]
  /\ UNCHANGED <<lock, mounted, irq, hart>>

UserPublish(b) ==
  /\ hart = "runs"
  /\ pc[Mounter] = "alloc"
  /\ IF NoDescs
     THEN /\ lock' = FALSE
          /\ UNCHANGED <<table, ring, disk, caller>>
     ELSE /\ \E i, j, k \in free :
               alloc_descs(i, j, k) /\ Publish(Mounter, b, i, j, k)
          /\ pc' = [pc EXCEPT ![Mounter] = "published"]
          /\ UNCHANGED <<lock, rung>>
  /\ UNCHANGED <<mounted, irq, hart>>

UserNotify ==
  /\ hart = "runs"
  /\ pc[Mounter] = "published"
  /\ lock' = FALSE
  /\ rung' = avail.idx
  /\ pc' = [pc EXCEPT ![Mounter] = "poll"]
  /\ UNCHANGED <<table, avail, used, used_idx, taken, work, dma, disk, buf, head,
                 mounted, irq, hart>>

UserPolled ==
  /\ hart = "runs"
  /\ pc[Mounter] = "poll"
  /\ ~disk[buf[Mounter]]
  /\ ~lock
  /\ lock' = TRUE
  /\ pc' = [pc EXCEPT ![Mounter] = "free"]
  /\ UNCHANGED <<table, ring, disk, buf, head, mounted, irq, hart>>

UserReturn ==
  /\ hart = "runs"
  /\ pc[Mounter] = "free"
  /\ free_chain(Mounter)
  /\ lock' = FALSE
  /\ pc' = [pc EXCEPT ![Mounter] = "out"]

Mounted ==
  /\ ~mounted /\ hart = "runs"
  /\ pc[Mounter] = "out"
  /\ mounted' = TRUE
  /\ UNCHANGED <<lock, table, ring, disk, caller, irq, hart>>

-----------------------------------------------------------------------------
(* The device: it starts on what was in the ring at the last notification
   and finishes in any order. *)

Take ==
  /\ taken # rung
  /\ LET h == avail.ring[taken % QUEUE_SIZE]
     IN  /\ work' = work \cup {h}
         /\ dma' = [dma EXCEPT ![h] = IF next[h] = NIL THEN NIL ELSE addr[next[h]]]
  /\ avail' = [avail EXCEPT !.ring[taken % QUEUE_SIZE] = NIL]
  /\ taken' = Inc(taken)
  /\ UNCHANGED <<lock, table, used, used_idx, rung, disk, caller, mounted, irq, hart>>

Complete(h) ==
  /\ h \in work
  /\ work' = work \ {h}
  /\ dma' = [dma EXCEPT ![h] = NIL]
  /\ status' = [status EXCEPT ![h] = TRUE]
  /\ used' = [ring |-> [used.ring EXCEPT ![used.idx % QUEUE_SIZE] = h],
              idx  |-> Inc(used.idx)]
  /\ irq' = TRUE
  /\ UNCHANGED <<lock, free, next, addr, info, avail, used_idx, rung, taken, disk,
                 caller, mounted, hart>>

-----------------------------------------------------------------------------
(* virtio_disk_interrupt_handler().  Interrupts stay off until it returns, so
   only the device runs beside it. *)

HandlerEnter ==
  /\ hart = "runs"
  /\ irq
  /\ IF lock THEN Stuck("lock")
     ELSE /\ lock' = TRUE
          /\ irq' = FALSE
          /\ hart' = "handler"
          /\ UNCHANGED <<table, ring, disk, caller, mounted>>

\* One pass of the loop.  It panics on a bad status; where the caller has
\* cleared info[id].buf the store through the null pointer faults, and
\* trap_handler() panics.
HandlerEntry ==
  /\ hart = "handler"
  /\ used_idx # used.idx
  /\ LET id == used.ring[used_idx % QUEUE_SIZE]
         b  == info[id]
     IN  IF ~status[id] \/ b = NIL
         THEN /\ hart' = "panic"
              /\ UNCHANGED <<used, used_idx, disk>>
         ELSE /\ disk' = [disk EXCEPT ![b] = FALSE]
              /\ used' = [used EXCEPT !.ring[used_idx % QUEUE_SIZE] = NIL]
              /\ used_idx' = Inc(used_idx)
              /\ UNCHANGED hart
  /\ UNCHANGED <<lock, table, avail, rung, taken, work, dma, caller, mounted, irq>>

\* Mutant: the handler looks at one entry, "if" in place of "while".
HandlerExit_early ==
  /\ hart = "handler"
  /\ pc' = [p \in Procs |-> IF pc[p] = "sleep" THEN "woken" ELSE pc[p]]
  /\ lock' = FALSE
  /\ hart' = "runs"
  /\ UNCHANGED <<table, ring, disk, buf, head, mounted, irq>>

\* wakeup() makes every sleeping task ready.
HandlerExit ==
  /\ hart = "handler"
  /\ used_idx = used.idx
  /\ pc' = [p \in Procs |-> IF pc[p] = "sleep" THEN "woken" ELSE pc[p]]
  /\ lock' = FALSE
  /\ hart' = "runs"
  /\ UNCHANGED <<table, ring, disk, buf, head, mounted, irq>>

-----------------------------------------------------------------------------
Next ==
  \/ \E p \in Procs : (\E b \in BufsOf[p] : SysRequest(p, b)) \/ SysResume(p)
  \/ UserLock
  \/ \E b \in BufsOf[Mounter] : UserPublish(b)
  \/ UserNotify \/ UserPolled \/ UserReturn \/ Mounted
  \/ Take
  \/ \E h \in Descs : Complete(h)
  \/ HandlerEnter \/ HandlerEntry \/ HandlerExit

Spec == Init /\ [][Next]_vars

\* The device finishes what it was told of, its interrupt is taken and the
\* handler runs on.  A task that is woken runs again and again between
\* interrupts: schedule() reaches it, which is DiskWaitEnds of Sched.
Fairness ==
  /\ WF_vars(Take)
  /\ \A h \in Descs : WF_vars(Complete(h))
  /\ WF_vars(HandlerEnter) /\ WF_vars(HandlerEntry) /\ WF_vars(HandlerExit)
  /\ \A p \in Procs : SF_vars(SysResume(p))
  /\ WF_vars(\E b \in BufsOf[Mounter] : UserPublish(b))
  /\ WF_vars(UserNotify) /\ WF_vars(UserPolled) /\ WF_vars(UserReturn)

FairSpec == Spec /\ Fairness

-----------------------------------------------------------------------------
(* Properties *)

TypeOK ==
  /\ lock \in BOOLEAN
  /\ free \subseteq Descs
  /\ next \in [Descs -> Descs \cup {NIL}]
  /\ addr \in [Descs -> Bufs \cup {NIL}]
  /\ info \in [Descs -> Bufs \cup {NIL}]
  /\ status \in [Descs -> BOOLEAN]
  /\ avail \in [ring : [Descs -> Descs \cup {NIL}], idx : Idx]
  /\ used \in [ring : [Descs -> Descs \cup {NIL}], idx : Idx]
  /\ {used_idx, rung, taken} \subseteq Idx
  /\ work \subseteq Descs
  /\ dma \in [Descs -> Bufs \cup {NIL}]
  /\ disk \in [Bufs -> BOOLEAN]
  /\ pc \in [Procs -> {"out", "alloc", "published", "poll", "free", "sleep",
                    "woken"}]
  /\ buf \in [Procs -> Bufs \cup {NIL}]
  /\ head \in [Procs -> Descs \cup {NIL}]
  /\ mounted \in BOOLEAN
  /\ irq \in BOOLEAN
  /\ hart \in {"runs", "handler", "panic", "lock", "descs"}

\* The processes that hold descriptors.
Holders == {p \in Procs : pc[p] \notin {"out", "alloc"}}

\* Every descriptor is free or in the chain of exactly one request: none is
\* lost and none is shared.
DescsAccounted ==
  /\ Descs = free \cup UNION {Chain(head[p]) : p \in Holders}
  /\ \A p \in Holders : Chain(head[p]) \cap free = {} /\ Cardinality(Chain(head[p])) = 3
  /\ \A p, q \in Holders : p # q => Chain(head[p]) \cap Chain(head[q]) = {}

\* While the device works on a request, or still has to start on it, the
\* caller is inside virtio_disk_rw() with that buffer: the loop over buf->disk
\* does not end before the caller's own request has.
DmaOwned ==
  /\ \A h \in work : \E p \in Holders : head[p] = h /\ buf[p] = dma[h]
  /\ \A m \in 0 .. ((avail.idx - taken) % IDX) - 1 :
       \E p \in Holders : head[p] = avail.ring[((taken + m) % IDX) % QUEUE_SIZE]

\* The hart never stops: the handler finds the lock free, no system call
\* spins, and no check of the driver panics.
NeverHalts == TypeOK /\ hart \in {"runs", "handler"}

\* A call that finds too few descriptors gives up the hart until some are
\* free, as the comment in the loop around alloc_descs() has it.
DescsAwaited == hart # "descs"

\* Every call of virtio_disk_rw() returns.
CallsReturn == \A p \in Procs : pc[p] # "out" ~> pc[p] = "out"
=============================================================================
