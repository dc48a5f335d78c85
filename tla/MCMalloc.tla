------------------------------ MODULE MCMalloc ------------------------------
(* The heap for TLC, in three parts that `part' tells apart: callers of    *)
(* malloc() and free() in the kernel, callers of page_alloc() with blocks  *)
(* of several pages, and malloc() in user mode with ticks.                 *)
EXTENDS Malloc

CONSTANT NULL

VARIABLES part, mem, at, objs

T == INSTANCE MallocTick WITH NPAGES <- 5, NDESC <- 5, NOBJ <- 2, CALLS <- 5

bucketUse == <<bucketVars, live, halted>>
tick == <<mem, at, objs>>

MCInit ==
  /\ part \in {"malloc", "pages", "tick"}
  /\ MallocInit
  /\ T!Init

MCNext ==
  /\ UNCHANGED part
  /\ \/ part = "malloc" /\ MallocNext /\ UNCHANGED tick
     \/ part = "pages" /\ PageNext /\ UNCHANGED <<bucketUse, tick>>
     \/ part = "tick" /\ T!Next /\ UNCHANGED mallocVars

MCSpec == MCInit /\ [][MCNext]_<<mallocVars, part, tick>>

\* A tick in the middle of _malloc_() takes nothing that the call has or gives:
\* descriptors stay in one list or in hand, objects and pages stay with process 1.
KeptOverTick == T!DescsApart /\ T!ObjectsKept
=============================================================================
