------------------------------- MODULE Buffer -------------------------------
(***************************************************************************)
(* The buffer cache of 404OS, driver/buffer.c, over a disk that works on   *)
(* requests in any order.  A task sleeps only in virtio_disk_rw(), called  *)
(* by bread() for a block that is not valid and by brelse() for a dirty    *)
(* one; up to there a call is one step.  Every caller uses device ROOTDEV, *)
(* so a buffer that was never used (dev 0) has the block NONE.             *)
(***************************************************************************)
EXTENDS Integers

CONSTANTS
  BUFFER_NUM,   \* the number of buffers
  Blocks,       \* the blocks of the disk the callers use
  Vals,         \* what a block can contain
  Procs,        \* the tasks that call
  Writers,      \* those that also change blocks
  RefMax,       \* bound of the model: the calls of bread() a buffer sees
  NONE          \* no block, no contents

ASSUME BufferAssumption ==
  /\ BUFFER_NUM \in Nat \ {0}
  /\ RefMax \in Nat
  /\ Writers \subseteq Procs
  /\ Blocks # {}
  /\ NONE \notin Blocks \cup Vals \cup [block : Blocks, val : Vals]

VARIABLES
  buf,      \* the array buffer_cache.buf
  disk,     \* block -> its contents on the device
  pc,       \* task -> "idle", "reading", "holding", "writing"
  held,     \* task -> the buffer bread() works on or returned
  asked,    \* task -> the block it asked for
  reqs,     \* requests the device has not finished
  halted    \* "no free buffer to get" was reached

procVars == <<pc, held, asked>>
vars == <<buf, disk, procVars, reqs, halted>>

Bufs == 1 .. BUFFER_NUM

\* struct buffer; disk is the flag the driver waits on.
Buffer == [block : Blocks \cup {NONE}, valid : BOOLEAN, dirty : BOOLEAN, disk : BOOLEAN,
           refcnt : Nat, data : Vals \cup {NONE}]

Request == [rw : {"READ", "WRITE"}, b : Bufs, block : Blocks, by : Procs]

Init ==
  /\ buf = [b \in Bufs |-> [block |-> NONE, valid |-> FALSE, dirty |-> FALSE,
                            disk |-> FALSE, refcnt |-> 0, data |-> NONE]]
  /\ disk \in [Blocks -> Vals]
  /\ pc = [p \in Procs |-> "idle"]
  /\ held = [p \in Procs |-> 1]
  /\ asked = [p \in Procs |-> CHOOSE blk \in Blocks : TRUE]
  /\ reqs = {}
  /\ halted = FALSE

-----------------------------------------------------------------------------
(* bget() *)

\* The first loop: it ends before the last buffer.
Hits(blk) == {b \in 1 .. BUFFER_NUM - 1 : buf[b].block = blk}
First(S) == {b \in S : \A c \in S : b <= c}

\* The second loop, from the last buffer down.
Unused == {b \in Bufs : buf[b].refcnt = 0}
Last(S) == {b \in S : \A c \in S : c <= b}

\* Mutant: a new block keeps the valid flag of the buffer.
Claimed_valid(b, blk) ==
  [buf EXCEPT ![b].block = blk, ![b].valid = TRUE, ![b].refcnt = @ + 1]

Counted(b) == [buf EXCEPT ![b].refcnt = @ + 1]
Claimed(b, blk) ==
  [buf EXCEPT ![b].block = blk, ![b].valid = FALSE, ![b].refcnt = @ + 1]

-----------------------------------------------------------------------------
(* bread(), bwrite() and brelse() *)

\* virtio_disk_rw() up to its sleep, on a cache f.
disk_rw(p, f, b, blk, rw, at) ==
  /\ buf' = [f EXCEPT ![b].disk = TRUE]
  /\ reqs' = reqs \cup {[rw |-> rw, b |-> b, block |-> f[b].block, by |-> p]}
  /\ pc' = [pc EXCEPT ![p] = at]

\* bread() goes on with the buffer b that bget() has found, in cache f.
Got(p, f, b, blk) ==
  /\ held' = [held EXCEPT ![p] = b]
  /\ asked' = [asked EXCEPT ![p] = blk]
  /\ IF f[b].valid
     THEN /\ buf' = f
          /\ pc' = [pc EXCEPT ![p] = "holding"]
          /\ UNCHANGED reqs
     ELSE disk_rw(p, f, b, blk, "READ", "reading")
  /\ UNCHANGED <<disk, halted>>

bread(p, blk) ==
  /\ ~halted
  /\ pc[p] = "idle"
  /\ \/ \E b \in First(Hits(blk)) :
          buf[b].refcnt < RefMax /\ Got(p, Counted(b), b, blk)
     \/ /\ Hits(blk) = {}
        /\ \E b \in Last(Unused) : Got(p, Claimed(b, blk), b, blk)
     \/ /\ Hits(blk) = {} /\ Unused = {}
        /\ halted' = TRUE
        /\ UNCHANGED <<buf, disk, procVars, reqs>>

\* The task sleeps while the flag of the buffer is set.
Waited(b) == ~buf[b].disk

breadResume(p) ==
  /\ ~halted
  /\ pc[p] = "reading"
  /\ Waited(held[p])
  /\ buf' = [buf EXCEPT ![held[p]].valid = TRUE, ![held[p]].dirty = FALSE]
  /\ pc' = [pc EXCEPT ![p] = "holding"]
  /\ UNCHANGED <<disk, held, asked, reqs, halted>>

\* The caller changes bp->data and calls bwrite(), which only marks the buffer.
bwrite(p, v) ==
  /\ ~halted
  /\ p \in Writers
  /\ pc[p] = "holding"
  /\ buf' = [buf EXCEPT ![held[p]].data = v, ![held[p]].dirty = TRUE]
  /\ UNCHANGED <<disk, procVars, reqs, halted>>

\* Mutant: a dirty buffer is not written back.
brelse_forgets(p) ==
  /\ ~halted
  /\ pc[p] = "holding"
  /\ buf' = [buf EXCEPT ![held[p]].dirty = FALSE]
  /\ pc' = [pc EXCEPT ![p] = "idle"]
  /\ UNCHANGED <<disk, held, asked, reqs, halted>>

\* refcnt is left alone.  It is at least 1 here, so the move to the head of
\* the list, for refcnt = 0, is never made and the list stays as it was.
brelse(p) ==
  /\ ~halted
  /\ pc[p] = "holding"
  /\ IF buf[held[p]].dirty
     THEN disk_rw(p, buf, held[p], asked[p], "WRITE", "writing")
     ELSE /\ pc' = [pc EXCEPT ![p] = "idle"]
          /\ UNCHANGED <<buf, reqs>>
  /\ UNCHANGED <<disk, held, asked, halted>>

brelseResume(p) ==
  /\ ~halted
  /\ pc[p] = "writing"
  /\ Waited(held[p])
  /\ buf' = [buf EXCEPT ![held[p]].dirty = FALSE]
  /\ pc' = [pc EXCEPT ![p] = "idle"]
  /\ UNCHANGED <<disk, held, asked, reqs, halted>>

\* The device transfers a block; the driver's handler clears buf->disk.
Complete(r) ==
  /\ reqs' = reqs \ {r}
  /\ IF r.rw = "READ"
     THEN /\ buf' = [buf EXCEPT ![r.b].data = disk[r.block], ![r.b].disk = FALSE]
          /\ UNCHANGED disk
     ELSE /\ disk' = [disk EXCEPT ![r.block] = buf[r.b].data]
          /\ buf' = [buf EXCEPT ![r.b].disk = FALSE]
  /\ UNCHANGED <<procVars, halted>>

Call(p) ==
  \/ \E blk \in Blocks : bread(p, blk)
  \/ breadResume(p)
  \/ \E v \in Vals : bwrite(p, v)
  \/ brelse(p)
  \/ brelseResume(p)

Next ==
  \/ \E p \in Procs : Call(p)
  \/ \E r \in reqs : Complete(r)

Spec == Init /\ [][Next]_vars

-----------------------------------------------------------------------------
(* Properties *)

\* Variables have their types.
TypeOK ==
  /\ buf \in [Bufs -> Buffer]
  /\ disk \in [Blocks -> Vals]
  /\ pc \in [Procs -> {"idle", "reading", "holding", "writing"}]
  /\ held \in [Procs -> Bufs]
  /\ asked \in [Procs -> Blocks]
  /\ reqs \subseteq Request
  /\ halted \in BOOLEAN

\* A buffer stays with its block from bget() to the end of brelse(), over all
\* the sleeps in between: bget() never takes a buffer in use for another block.
HeldBlock ==
  \A p \in Procs :
    pc[p] # "idle" => buf[held[p]].block = asked[p] /\ buf[held[p]].refcnt > 0

\* While nobody writes, bread() returns what is on the disk, also when several
\* tasks fill the same buffer at once and the first transfer wakes them all.
ReadRight ==
  Writers = {} => \A p \in Procs : pc[p] = "holding" => buf[held[p]].data = disk[asked[p]]

\* A block is in one buffer at most: the search is meant to go through the
\* whole cache (comment in bget()).
OneBufferPerBlock ==
  \A b, c \in Bufs : buf[b].block = buf[c].block /\ buf[b].block # NONE => b = c

\* A buffer that was released may be used again (comments in brelse()): when
\* no task has one in hand, bget() does not run out of buffers.
BuffersReusable == (\A p \in Procs : pc[p] = "idle") => ~halted /\ Unused # {}

\* The contents of a block are those of a dirty buffer, else those on disk.
Store ==
  [blk \in Blocks |->
     LET D == {b \in Bufs : buf[b].block = blk /\ buf[b].dirty}
     IN  IF D = {} THEN disk[blk] ELSE buf[CHOOSE b \in D : TRUE].data]

View ==
  [p \in Procs |->
     IF pc[p] = "holding" THEN [block |-> asked[p], val |-> buf[held[p]].data] ELSE NONE]

Cache == INSTANCE BlockStore WITH store <- Store, view <- View

\* The cache implements the block store: what bread() returns is what was last
\* written, although the last buffer is never searched and may hold an old copy.
Coherent == Cache!StoreSpec
=============================================================================
