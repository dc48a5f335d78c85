----------------------------- MODULE MallocTick -----------------------------
(***************************************************************************)
(* _malloc_() of 404OS has no lock.  Process 1 mounts the root in user     *)
(* mode and calls it there, with interrupts on; the timer tick calls       *)
(* schedule(), which allocates a queue node and frees it again.  A call of *)
(* process 1 is cut here at every access to what the tick uses as well: a  *)
(* tick is one step.  Process 1 is the only task but task 0, which is      *)
(* never queued, and boot has left descriptors in free_block_desc.         *)
(***************************************************************************)
EXTENDS Naturals, Sequences, SequencesExt, FiniteSets

CONSTANTS
  NPAGES,   \* pages that boot has left, enough for all calls and a tick
  NDESC,    \* descriptors that boot has left, as many
  NOBJ,     \* objects in a page
  CALLS,    \* bound of the model: calls of process 1
  NULL

Descs == 1 .. NDESC
Buckets == {"inode", "node"}

VARIABLES
  mem,    \* free_block_desc, the descriptors, block_dir and the page flags
  at,     \* where the call of process 1 is, and its bdesc, cp and retval
  objs    \* the objects process 1 has

vars == <<mem, at, objs>>

P == INSTANCE PageAlloc
       WITH NUM_PAGES <- NPAGES, MAX_NPAGES <- 1, heap <- mem.heap, blocks <- {}

Idle == [pc |-> "idle", d |-> NULL, cp |-> NULL, ret |-> NULL]

Init ==
  /\ mem = [free |-> 1,
            next |-> [d \in Descs |-> IF d = NDESC THEN NULL ELSE d + 1],
            block |-> [d \in Descs |-> NULL],
            freeptr |-> [d \in Descs |-> << >>],
            blocnt |-> [d \in Descs |-> 0],
            list |-> [b \in Buckets |-> NULL],
            heap |-> [taken |-> {}, last |-> {}]]
  /\ at = Idle
  /\ objs = {}

-----------------------------------------------------------------------------
(* Chains of descriptors *)

\* The descriptor k places after d in memory M.
Along(M, d) ==
  LET f[k \in 0 .. NDESC] ==
        IF k = 0 THEN d ELSE LET e == f[k - 1] IN IF e = NULL THEN NULL ELSE M.next[e]
  IN  f

On(M, d) == {Along(M, d)[k] : k \in 0 .. NDESC} \ {NULL}
Ends(M, d) == Along(M, d)[NDESC] = NULL

\* The first descriptor of a bucket with a free object.
Usable(M, b) ==
  {d \in On(M, M.list[b]) :
     /\ M.freeptr[d] # << >>
     /\ \E k \in 0 .. NDESC :
          /\ Along(M, M.list[b])[k] = d
          /\ \A j \in 0 .. k - 1 : M.freeptr[Along(M, M.list[b])[j]] = << >>}

-----------------------------------------------------------------------------
(* What _malloc_() and _free_() do to the memory *)

Cut(M, d, p) ==
  [M EXCEPT !.block[d] = p, !.freeptr[d] = [n \in 1 .. NOBJ |-> <<p, n>>]]
Behind(M, d, b) == [M EXCEPT !.next[d] = M.list[b]]
Linked(M, d, b) == [M EXCEPT !.list[b] = d]
Popped(M, d) == [M EXCEPT !.freeptr[d] = Tail(@)]
Counted(M, d) == [M EXCEPT !.blocnt[d] = @ + 1]

\* A whole call, for a bucket without free objects.
NewPage(M, p) ==
  LET d == M.free
      U == [M EXCEPT !.free = M.next[d], !.blocnt[d] = 0, !.heap = P!page_alloc(M.heap, p, 1)]
  IN  Linked(Behind(Cut(U, d, p), d, "node"), d, "node")

\* The only object of the first descriptor d goes back, and the page with it.
Freed(M, d) ==
  [M EXCEPT !.freeptr[d] = << >>, !.blocnt[d] = 0, !.list["node"] = M.next[d],
            !.heap = P!page_free(M.heap, M.block[d]), !.next[d] = M.free, !.free = d]

-----------------------------------------------------------------------------
(* The tick: set_Queue() puts process 1 in a queue, schedule() takes it out *)

\* Mutant: schedule() does not free the queue node.
NodeBack_kept(M, d) == M

NodeBack(M, d) == Freed(M, d)

Tick ==
  /\ \E p \in P!Found(mem.heap, 1) :
       LET M == IF Usable(mem, "node") = {} THEN NewPage(mem, p) ELSE mem
       IN  \E d \in Usable(M, "node") : mem' = NodeBack(Counted(Popped(M, d), d), d)
  /\ UNCHANGED <<at, objs>>

-----------------------------------------------------------------------------
(* The call of process 1 *)

Go(pc, M) ==
  /\ mem' = M
  /\ at' = [at EXCEPT !.pc = pc]
  /\ UNCHANGED objs

malloc ==
  /\ at.pc = "idle" /\ Cardinality(objs) < CALLS
  /\ \/ \E d \in Usable(mem, "inode") : at' = [at EXCEPT !.pc = "take", !.d = d]
     \/ Usable(mem, "inode") = {} /\ at' = [at EXCEPT !.pc = "desc"]
  /\ UNCHANGED <<mem, objs>>

\* bdesc = free_block_desc, then free_block_desc = bdesc->next.
DescRead ==
  /\ at.pc = "desc"
  /\ at' = [at EXCEPT !.pc = "unlink", !.d = mem.free]
  /\ UNCHANGED <<mem, objs>>

Unlink ==
  /\ at.pc = "unlink"
  /\ Go("page", [mem EXCEPT !.free = mem.next[at.d], !.blocnt[at.d] = 0])

\* page_alloc() looks for a page, then sets PAGE_TAKEN, then PAGE_LAST.
PageFound ==
  /\ at.pc = "page"
  /\ \E p \in P!Found(mem.heap, 1) : at' = [at EXCEPT !.pc = "mark", !.cp = p]
  /\ UNCHANGED <<mem, objs>>

PageTaken ==
  /\ at.pc = "mark"
  /\ Go("last", [mem EXCEPT !.heap.taken = @ \cup {at.cp}])

PageLast ==
  /\ at.pc = "last"
  /\ Go("cut", [mem EXCEPT !.heap.last = @ \cup {at.cp}])

Link ==
  \/ at.pc = "cut" /\ Go("behind", Cut(mem, at.d, at.cp))
  \/ at.pc = "behind" /\ Go("link", Behind(mem, at.d, "inode"))
  \/ at.pc = "link" /\ Go("take", Linked(mem, at.d, "inode"))

\* retval = bdesc->freeptr, then the object is taken out and counted.
Take ==
  \/ /\ at.pc = "take"
     /\ at' = [at EXCEPT !.pc = "pop", !.ret = Head(mem.freeptr[at.d])]
     /\ UNCHANGED <<mem, objs>>
  \/ at.pc = "pop" /\ Go("count", Popped(mem, at.d))
  \/ /\ at.pc = "count"
     /\ mem' = Counted(mem, at.d)
     /\ objs' = objs \cup {at.ret}
     /\ at' = Idle

Call ==
  malloc \/ DescRead \/ Unlink \/ PageFound \/ PageTaken \/ PageLast \/ Link \/ Take

Next == Call \/ Tick

Spec == Init /\ [][Next]_vars

-----------------------------------------------------------------------------
(* Properties *)

\* The descriptor a call has taken out of free_block_desc and not linked yet.
InHand == IF at.pc \in {"page", "mark", "last", "cut", "behind", "link"} THEN {at.d} ELSE {}

\* Every descriptor is in free_block_desc, in one bucket or in the hands of the
\* call, wherever ticks have cut it: none is lost or used twice, although the
\* tick takes the very descriptor that the call has read and not yet taken.
DescsApart ==
  /\ \A d \in {mem.free, mem.list["inode"], mem.list["node"]} : Ends(mem, d)
  /\ LET Parts == <<On(mem, mem.free), On(mem, mem.list["inode"]), On(mem, mem.list["node"]), InHand>>
     IN  /\ UNION {Parts[i] : i \in 1 .. 4} = Descs
         /\ \A i, j \in 1 .. 4 : i # j => Parts[i] \cap Parts[j] = {}

\* Between two calls the pages in use are those of the buckets, one for each
\* descriptor, and the objects of process 1 are in such pages and not free.
ObjectsKept ==
  at.pc = "idle" =>
    LET D == On(mem, mem.list["inode"])
    IN  /\ mem.heap.taken = {mem.block[d] : d \in D}
        /\ Cardinality(D) = Cardinality(mem.heap.taken)
        /\ \A o \in objs : \E d \in D : mem.block[d] = o[1] /\ o \notin ToSet(mem.freeptr[d])
        /\ \A d \in D : mem.blocnt[d] = Cardinality({o \in objs : o[1] = mem.block[d]})
=============================================================================
