----------------------------- MODULE BlockStore -----------------------------
(***************************************************************************)
(* What the buffer cache promises to the file system: between bread() and  *)
(* brelse() a task sees the block it asked for with the contents last      *)
(* given to it, whatever buffers and transfers are behind that.            *)
(***************************************************************************)
CONSTANTS Procs, Blocks, Vals, NONE

VARIABLES
  store,   \* block -> its contents
  view     \* task -> NONE, or the block it has in hand and what it sees there

StoreInit ==
  /\ store \in [Blocks -> Vals]
  /\ view = [p \in Procs |-> NONE]

Get(p, blk) ==
  /\ view[p] = NONE
  /\ view' = [view EXCEPT ![p] = [block |-> blk, val |-> store[blk]]]
  /\ UNCHANGED store

\* Tasks with the same block in hand share it.
Put(p, v) ==
  /\ view[p] # NONE
  /\ store' = [store EXCEPT ![view[p].block] = v]
  /\ view' = [q \in Procs |->
                IF view[q] # NONE /\ view[q].block = view[p].block
                THEN [block |-> view[q].block, val |-> v]
                ELSE view[q]]

Release(p) ==
  /\ view[p] # NONE
  /\ view' = [view EXCEPT ![p] = NONE]
  /\ UNCHANGED store

StoreNext ==
  \E p \in Procs :
    \/ \E blk \in Blocks : Get(p, blk)
    \/ \E v \in Vals : Put(p, v)
    \/ Release(p)

StoreSpec == StoreInit /\ [][StoreNext]_<<store, view>>
=============================================================================
