------------------------------ MODULE MCBuffer ------------------------------
(* The buffer cache for TLC: tasks that only read, and one task that also  *)
(* writes, over a cache of its own.  `part' tells which of the two runs.   *)
EXTENDS Buffer

CONSTANTS p1, b1, b2, b3, v1

VARIABLES part, wbuf, wdisk, wpc, wheld, wasked, wreqs, whalted

W == INSTANCE Buffer
       WITH BUFFER_NUM <- 4, Blocks <- {b1, b2, b3}, Procs <- {p1}, Writers <- {p1},
            buf <- wbuf, disk <- wdisk, pc <- wpc, held <- wheld, asked <- wasked,
            reqs <- wreqs, halted <- whalted

wvars == <<wbuf, wdisk, wpc, wheld, wasked, wreqs, whalted>>

MCInit ==
  /\ Init /\ W!Init
  /\ \/ part = "readers" /\ wdisk = [b \in {b1, b2, b3} |-> v1]
     \/ part = "writer" /\ disk = [b \in Blocks |-> v1]

MCNext ==
  /\ UNCHANGED part
  /\ \/ part = "readers" /\ Next /\ UNCHANGED wvars
     \/ part = "writer" /\ W!Next /\ UNCHANGED vars

MCSpec == MCInit /\ [][MCNext]_<<vars, wvars, part>>

\* With one task that reads and writes, the cache implements the block store:
\* bwrite() and the write-back in brelse() lose nothing, although the last
\* buffer keeps old copies.
WriterCoherent == W!Coherent
=============================================================================
