---------------------------- MODULE BufferProofs ----------------------------
(***************************************************************************)
(* For every number of buffers, blocks and tasks: buffers keep their types *)
(* and their blocks, and without writers bread() returns what is on disk.  *)
(* For every number of buffers and blocks, a task alone may also write.    *)
(***************************************************************************)
EXTENDS Buffer, TLAPS

\* Requests are for the block their buffer has, and the buffer is counted; what
\* is to be written was put there.
ReqsInv ==
  /\ \A r \in reqs : /\ buf[r.b].block = r.block /\ buf[r.b].refcnt > 0
                     /\ r.rw = "WRITE" => buf[r.b].data \in Vals
  /\ \A b \in Bufs : buf[b].dirty = TRUE => buf[b].data \in Vals

HeldInv == TypeOK /\ HeldBlock /\ ReqsInv

\* Without writers: no buffer is dirty, a valid one is as on disk, and one that
\* is being filled is so as soon as any of its transfers has ended.
Clean ==
  /\ \A b \in Bufs : buf[b].dirty = FALSE
  /\ \A b \in Bufs : buf[b].valid = TRUE => buf[b].data = disk[buf[b].block]
  /\ \A r \in reqs : r.rw = "READ"
  /\ \A p \in Procs :
       /\ pc[p] # "writing"
       /\ pc[p] = "holding" => buf[held[p]].valid = TRUE
       /\ pc[p] = "reading" =>
            buf[held[p]].disk = TRUE \/ buf[held[p]].data = disk[buf[held[p]].block]

LEMMA InitHeld == Init => HeldInv
<1> SUFFICES ASSUME Init PROVE HeldInv
  OBVIOUS
<1>1. (CHOOSE blk \in Blocks : TRUE) \in Blocks
  BY BufferAssumption
<1>2. TypeOK
  <2>1. buf \in [Bufs -> Buffer]
    BY DEF Init, Buffer
  <2>2. held \in [Procs -> Bufs]
    BY BufferAssumption DEF Init, Bufs
  <2>3. asked \in [Procs -> Blocks]
    BY <1>1 DEF Init
  <2> QED
    BY <2>1, <2>2, <2>3, Zenon DEF Init, TypeOK
<1>3. \A b \in Bufs : buf[b].dirty = FALSE
  BY DEF Init
<1> QED
  BY <1>2, <1>3 DEF Init, HeldInv, HeldBlock, ReqsInv

\* The states of the cache.
CacheStates == [Bufs -> Buffer]

LEMMA CacheTyped == TypeOK => buf \in CacheStates
  BY DEF TypeOK, CacheStates

\* The cache f with the flag disk of buffer b set, and nothing else changed.
Raised(f, b) == [f EXCEPT ![b].disk = TRUE]

LEMMA RaisedIs ==
  ASSUME NEW f \in CacheStates, NEW b \in Bufs
  PROVE  /\ Raised(f, b) \in CacheStates /\ Raised(f, b)[b].disk = TRUE
         /\ \A c \in Bufs : c # b => Raised(f, b)[c] = f[c]
         /\ Raised(f, b)[b].block = f[b].block /\ Raised(f, b)[b].refcnt = f[b].refcnt
         /\ Raised(f, b)[b].data = f[b].data
         /\ Raised(f, b)[b].dirty = f[b].dirty /\ Raised(f, b)[b].valid = f[b].valid
<1> DEFINE r == [f[b] EXCEPT !.disk = TRUE]
<1>1. /\ r \in Buffer /\ r.disk = TRUE /\ r.block = f[b].block /\ r.refcnt = f[b].refcnt
      /\ r.data = f[b].data /\ r.dirty = f[b].dirty /\ r.valid = f[b].valid
  BY Zenon DEF CacheStates, Buffer
<1>2. Raised(f, b) = [f EXCEPT ![b] = r]
  BY DEF Raised
<1> HIDE DEF r
<1>3. /\ Raised(f, b) \in CacheStates /\ Raised(f, b)[b] = r
      /\ \A c \in Bufs : c # b => Raised(f, b)[c] = f[c]
  BY <1>1, <1>2 DEF CacheStates
<1> QED
  BY <1>1, <1>3

LEMMA RaisedFields ==
  ASSUME NEW f \in CacheStates, NEW b \in Bufs, NEW c \in Bufs
  PROVE  /\ Raised(f, b)[c].block = f[c].block /\ Raised(f, b)[c].refcnt = f[c].refcnt
         /\ Raised(f, b)[c].data = f[c].data /\ Raised(f, b)[c].dirty = f[c].dirty
         /\ Raised(f, b)[c].valid = f[c].valid
<1>1. CASE c = b
  BY <1>1, RaisedIs, Zenon
<1>2. CASE c # b
  BY <1>2, RaisedIs, Zenon
<1> QED
  BY <1>1, <1>2

\* The cache f with the flag disk of buffer b cleared, and nothing else changed.
Lowered(f, b) == [f EXCEPT ![b].disk = FALSE]

LEMMA LoweredIs ==
  ASSUME NEW f \in CacheStates, NEW b \in Bufs
  PROVE  /\ Lowered(f, b) \in CacheStates /\ Lowered(f, b)[b].disk = FALSE
         /\ \A c \in Bufs : c # b => Lowered(f, b)[c] = f[c]
         /\ Lowered(f, b)[b].block = f[b].block /\ Lowered(f, b)[b].refcnt = f[b].refcnt
         /\ Lowered(f, b)[b].data = f[b].data
         /\ Lowered(f, b)[b].dirty = f[b].dirty /\ Lowered(f, b)[b].valid = f[b].valid
<1> DEFINE r == [f[b] EXCEPT !.disk = FALSE]
<1>1. /\ r \in Buffer /\ r.disk = FALSE /\ r.block = f[b].block /\ r.refcnt = f[b].refcnt
      /\ r.data = f[b].data /\ r.dirty = f[b].dirty /\ r.valid = f[b].valid
  BY Zenon DEF CacheStates, Buffer
<1>2. Lowered(f, b) = [f EXCEPT ![b] = r]
  BY DEF Lowered
<1> HIDE DEF r
<1>3. /\ Lowered(f, b) \in CacheStates /\ Lowered(f, b)[b] = r
      /\ \A c \in Bufs : c # b => Lowered(f, b)[c] = f[c]
  BY <1>1, <1>2 DEF CacheStates
<1> QED
  BY <1>1, <1>3

LEMMA LoweredFields ==
  ASSUME NEW f \in CacheStates, NEW b \in Bufs, NEW c \in Bufs
  PROVE  /\ Lowered(f, b)[c].block = f[c].block /\ Lowered(f, b)[c].refcnt = f[c].refcnt
         /\ Lowered(f, b)[c].data = f[c].data /\ Lowered(f, b)[c].dirty = f[c].dirty
         /\ Lowered(f, b)[c].valid = f[c].valid
<1>1. CASE c = b
  BY <1>1, LoweredIs, Zenon
<1>2. CASE c # b
  BY <1>2, LoweredIs, Zenon
<1> QED
  BY <1>1, <1>2

\* The cache after the end of a bread() that waited for buffer b.
FilledCache(b) == [buf EXCEPT ![b].valid = TRUE, ![b].dirty = FALSE]

\* The end of bread() after a transfer: the buffer is valid and clean.
LEMMA FilledIs ==
  ASSUME buf \in CacheStates, NEW b \in Bufs
  PROVE  LET g == FilledCache(b)
         IN  /\ g \in CacheStates /\ g[b].valid = TRUE /\ g[b].dirty = FALSE
             /\ \A c \in Bufs : c # b => g[c] = buf[c]
             /\ \A c \in Bufs : /\ g[c].block = buf[c].block /\ g[c].refcnt = buf[c].refcnt
                                /\ g[c].data = buf[c].data /\ g[c].disk = buf[c].disk
<1> DEFINE r == [buf[b] EXCEPT !.valid = TRUE, !.dirty = FALSE]
           g == FilledCache(b)
<1>1. /\ r \in Buffer /\ r.valid = TRUE /\ r.dirty = FALSE
      /\ r.block = buf[b].block /\ r.refcnt = buf[b].refcnt
      /\ r.data = buf[b].data /\ r.disk = buf[b].disk
  BY Zenon DEF CacheStates, Buffer
<1>2. g = [buf EXCEPT ![b] = r]
  BY Zenon DEF FilledCache
<1> HIDE DEF r, g
<1>3. g \in CacheStates /\ g[b] = r /\ \A c \in Bufs : c # b => g[c] = buf[c]
  BY <1>1, <1>2 DEF CacheStates
<1>4. /\ g \in CacheStates /\ g[b].valid = TRUE /\ g[b].dirty = FALSE
      /\ \A c \in Bufs : c # b => g[c] = buf[c]
      /\ \A c \in Bufs : /\ g[c].block = buf[c].block /\ g[c].refcnt = buf[c].refcnt
                         /\ g[c].data = buf[c].data /\ g[c].disk = buf[c].disk
  BY <1>1, <1>3
<1> QED
  BY <1>4 DEF g

\* A buffer that bget() finds is counted.
LEMMA CountedIs ==
  ASSUME buf \in CacheStates, NEW b \in Bufs
  PROVE  /\ Counted(b) \in CacheStates
         /\ \A c \in Bufs : c # b => Counted(b)[c] = buf[c]
         /\ Counted(b)[b].refcnt > 0 /\ Counted(b)[b].block = buf[b].block
         /\ Counted(b)[b].data = buf[b].data /\ Counted(b)[b].dirty = buf[b].dirty
         /\ Counted(b)[b].disk = buf[b].disk /\ Counted(b)[b].valid = buf[b].valid
<1> DEFINE r == [buf[b] EXCEPT !.refcnt = buf[b].refcnt + 1]
<1>1. buf[b].refcnt + 1 \in Nat /\ buf[b].refcnt + 1 > 0
  BY DEF CacheStates, Buffer
<1>2. /\ r \in Buffer /\ r.refcnt = buf[b].refcnt + 1 /\ r.block = buf[b].block
      /\ r.data = buf[b].data /\ r.dirty = buf[b].dirty
      /\ r.disk = buf[b].disk /\ r.valid = buf[b].valid
  BY <1>1 DEF CacheStates, Buffer
<1>3. Counted(b) = [buf EXCEPT ![b] = r]
  BY DEF Counted
<1> HIDE DEF r
<1>4. /\ Counted(b) \in CacheStates /\ Counted(b)[b] = r
      /\ \A c \in Bufs : c # b => Counted(b)[c] = buf[c]
  BY <1>2, <1>3 DEF CacheStates
<1> QED
  BY <1>1, <1>2, <1>4

\* A buffer that bget() claims has the new block and is not valid.
LEMMA ClaimedIs ==
  ASSUME buf \in CacheStates, NEW b \in Bufs, NEW blk \in Blocks
  PROVE  /\ Claimed(b, blk) \in CacheStates
         /\ \A c \in Bufs : c # b => Claimed(b, blk)[c] = buf[c]
         /\ Claimed(b, blk)[b].refcnt > 0 /\ Claimed(b, blk)[b].block = blk
         /\ Claimed(b, blk)[b].data = buf[b].data /\ Claimed(b, blk)[b].dirty = buf[b].dirty
         /\ Claimed(b, blk)[b].disk = buf[b].disk /\ Claimed(b, blk)[b].valid = FALSE
<1> DEFINE r == [buf[b] EXCEPT !.block = blk, !.valid = FALSE, !.refcnt = buf[b].refcnt + 1]
<1>1. buf[b].refcnt + 1 \in Nat /\ buf[b].refcnt + 1 > 0
  BY DEF CacheStates, Buffer
<1>2. /\ r \in Buffer /\ r.refcnt = buf[b].refcnt + 1 /\ r.block = blk
      /\ r.data = buf[b].data /\ r.dirty = buf[b].dirty
      /\ r.disk = buf[b].disk /\ r.valid = FALSE
  BY <1>1, Zenon DEF CacheStates, Buffer
<1>3. Claimed(b, blk) = [buf EXCEPT ![b] = r]
  BY Zenon DEF Claimed
<1> HIDE DEF r
<1>4. /\ Claimed(b, blk) \in CacheStates /\ Claimed(b, blk)[b] = r
      /\ \A c \in Bufs : c # b => Claimed(b, blk)[c] = buf[c]
  BY <1>2, <1>3 DEF CacheStates
<1> QED
  BY <1>1, <1>2, <1>4

\* bread() went on with a buffer that bget() gave it.
LEMMA GotHeld ==
  ASSUME HeldInv, NEW p \in Procs, NEW blk \in Blocks, NEW b \in Bufs,
         NEW f \in CacheStates, Got(p, f, b, blk), pc[p] = "idle",
         f[b].block = blk, f[b].refcnt > 0,
         \A c \in Bufs : c # b => f[c] = buf[c],
         f[b].data = buf[b].data, f[b].dirty = TRUE => buf[b].dirty = TRUE,
         buf[b].refcnt > 0 => buf[b].block = blk
  PROVE  HeldInv'
<1> USE DEF HeldInv
<1>1. /\ buf' \in CacheStates
      /\ \A c \in Bufs : c # b => buf'[c] = buf[c]
      /\ buf'[b].block = blk /\ buf'[b].refcnt > 0
      /\ buf'[b].data = buf[b].data /\ (buf'[b].dirty = TRUE => buf[b].dirty = TRUE)
  <2>1. buf' = f \/ buf' = Raised(f, b)
    BY DEF Got, disk_rw, Raised
  <2>2. CASE buf' = f
    BY <2>2
  <2>3. CASE buf' = Raised(f, b)
    <3>1. /\ buf' \in CacheStates
          /\ \A c \in Bufs : c # b => buf'[c] = f[c]
          /\ \A c \in Bufs : /\ buf'[c].block = f[c].block /\ buf'[c].refcnt = f[c].refcnt
                             /\ buf'[c].data = f[c].data
                             /\ buf'[c].dirty = f[c].dirty /\ buf'[c].valid = f[c].valid
      <4> HIDE DEF HeldInv
      <4>1. /\ Raised(f, b) \in CacheStates /\ Raised(f, b)[b].disk = TRUE
            /\ \A c \in Bufs : c # b => Raised(f, b)[c] = f[c]
        BY RaisedIs, Zenon
      <4>2. \A c \in Bufs : Raised(f, b)[c].block = f[c].block /\ Raised(f, b)[c].refcnt = f[c].refcnt
        BY RaisedFields
      <4>3. \A c \in Bufs : /\ Raised(f, b)[c].data = f[c].data
                           /\ Raised(f, b)[c].dirty = f[c].dirty
                           /\ Raised(f, b)[c].valid = f[c].valid
        BY RaisedFields
      <4> QED
        BY <2>3, <4>1, <4>2, <4>3
    <3> QED
      BY <3>1
  <2> QED
    BY <2>1, <2>2, <2>3, Zenon
<1>2. /\ held' = [held EXCEPT ![p] = b]
      /\ asked' = [asked EXCEPT ![p] = blk]
      /\ disk' = disk /\ halted' = halted
  BY DEF Got
<1>3. /\ pc' = [pc EXCEPT ![p] = pc'[p]]
      /\ pc'[p] \in {"holding", "reading"}
  BY DEF Got, disk_rw, TypeOK
<1>4. \A r \in reqs' : r \in reqs \/ (r \in Request /\ r.b = b /\ r.block = blk /\ r.rw = "READ")
  BY DEF Got, disk_rw, Request
<1>5. TypeOK'
  BY <1>1, <1>2, <1>3, <1>4 DEF TypeOK, CacheStates
<1>6. HeldBlock'
  BY <1>1, <1>2, <1>3 DEF HeldBlock, TypeOK
<1>7. ReqsInv'
  BY <1>1, <1>4 DEF ReqsInv, TypeOK, Request
<1> QED
  BY <1>5, <1>6, <1>7

LEMMA breadHeld ==
  ASSUME HeldInv, NEW p \in Procs, NEW blk \in Blocks, bread(p, blk)
  PROVE  HeldInv'
<1> USE DEF HeldInv
<1>1. CASE \E b \in First(Hits(blk)) : buf[b].refcnt < RefMax /\ Got(p, Counted(b), b, blk)
  <2>1. PICK b \in Bufs : buf[b].block = blk /\ Got(p, Counted(b), b, blk)
    BY <1>1, BufferAssumption DEF First, Hits, Bufs
  <2>2. /\ Counted(b) \in CacheStates
        /\ Counted(b)[b].block = blk /\ Counted(b)[b].refcnt > 0
        /\ Counted(b)[b].data = buf[b].data /\ (Counted(b)[b].dirty = TRUE => buf[b].dirty = TRUE)
        /\ \A c \in Bufs : c # b => Counted(b)[c] = buf[c]
    BY <2>1, CountedIs, CacheTyped
  <2>3. pc[p] = "idle"
    BY DEF bread
  <2>4. Got(p, Counted(b), b, blk)
    BY <2>1
  <2>5. buf[b].refcnt > 0 => buf[b].block = blk
    BY <2>1
  <2> HIDE DEF HeldInv
  <2> QED
    BY <2>2, <2>3, <2>4, <2>5, GotHeld, Zenon
<1>2. CASE \E b \in Last(Unused) : Got(p, Claimed(b, blk), b, blk)
  <2>1. PICK b \in Bufs : buf[b].refcnt = 0 /\ Got(p, Claimed(b, blk), b, blk)
    BY <1>2 DEF Last, Unused
  <2>2. /\ Claimed(b, blk) \in CacheStates
        /\ Claimed(b, blk)[b].block = blk /\ Claimed(b, blk)[b].refcnt > 0
        /\ Claimed(b, blk)[b].data = buf[b].data /\ (Claimed(b, blk)[b].dirty = TRUE => buf[b].dirty = TRUE)
        /\ \A c \in Bufs : c # b => Claimed(b, blk)[c] = buf[c]
    BY <2>1, ClaimedIs, CacheTyped, Zenon
  <2>3. pc[p] = "idle" /\ ~(buf[b].refcnt > 0)
    BY <2>1 DEF bread
  <2> HIDE DEF HeldInv
  <2> QED
    BY <2>1, <2>2, <2>3, GotHeld, Zenon
<1>3. CASE UNCHANGED <<buf, disk, procVars, reqs>> /\ halted' = TRUE
  BY <1>3 DEF TypeOK, HeldBlock, ReqsInv, procVars
<1> QED
  BY <1>1, <1>2, <1>3, Zenon DEF bread

\* The other calls and the device leave the blocks and the counts alone.
LEMMA CallHeld ==
  ASSUME HeldInv, NEW p \in Procs,
         breadResume(p) \/ (\E v \in Vals : bwrite(p, v)) \/ brelse(p) \/ brelseResume(p)
  PROVE  HeldInv'
<1> USE DEF HeldInv
<1>1. /\ buf' \in CacheStates
      /\ \A c \in Bufs : /\ buf'[c].block = buf[c].block /\ buf'[c].refcnt = buf[c].refcnt
                         /\ buf[c].data \in Vals => buf'[c].data \in Vals
                         /\ buf'[c].dirty = TRUE => buf[c].dirty = TRUE \/ buf'[c].data \in Vals
  <2>1. held[p] \in Bufs /\ buf \in CacheStates
    BY DEF TypeOK, CacheStates
  <2>2. CASE breadResume(p)
    <3>1. buf' = FilledCache(held[p])
      BY <2>2 DEF breadResume, FilledCache
    <3>2. /\ buf' \in CacheStates /\ buf'[held[p]].dirty = FALSE
          /\ \A c \in Bufs : c # held[p] => buf'[c] = buf[c]
          /\ \A c \in Bufs : /\ buf'[c].block = buf[c].block /\ buf'[c].refcnt = buf[c].refcnt
                             /\ buf'[c].data = buf[c].data
      BY <2>1, <3>1, FilledIs, Zenon
    <3> QED
      BY <3>2
  <2>3. ASSUME NEW v \in Vals, bwrite(p, v)
        PROVE  /\ buf' \in CacheStates
               /\ \A c \in Bufs : /\ buf'[c].block = buf[c].block /\ buf'[c].refcnt = buf[c].refcnt
                                  /\ buf[c].data \in Vals => buf'[c].data \in Vals
                                  /\ buf'[c].dirty = TRUE => buf[c].dirty = TRUE \/ buf'[c].data \in Vals
    BY <2>1, <2>3 DEF bwrite, Buffer, CacheStates
  <2>4. CASE brelse(p)
    <3>1. buf' = buf \/ buf' = Raised(buf, held[p])
      BY <2>4 DEF brelse, disk_rw, Raised
    <3>2. CASE buf' = Raised(buf, held[p])
      <4>1. /\ buf' \in CacheStates
            /\ \A c \in Bufs : c # held[p] => buf'[c] = buf[c]
            /\ \A c \in Bufs : /\ buf'[c].block = buf[c].block /\ buf'[c].refcnt = buf[c].refcnt
                               /\ buf'[c].data = buf[c].data
                               /\ buf'[c].dirty = buf[c].dirty /\ buf'[c].valid = buf[c].valid
        <5>1. /\ Raised(buf, held[p]) \in CacheStates /\ Raised(buf, held[p])[held[p]].disk = TRUE
              /\ \A c \in Bufs : c # held[p] => Raised(buf, held[p])[c] = buf[c]
          BY <2>1, RaisedIs, Zenon
        <5>2. \A c \in Bufs : Raised(buf, held[p])[c].block = buf[c].block /\ Raised(buf, held[p])[c].refcnt = buf[c].refcnt
          BY <2>1, RaisedFields
        <5>3. \A c \in Bufs : /\ Raised(buf, held[p])[c].data = buf[c].data
                             /\ Raised(buf, held[p])[c].dirty = buf[c].dirty
                             /\ Raised(buf, held[p])[c].valid = buf[c].valid
          BY <2>1, RaisedFields
        <5> QED
          BY <3>2, <5>1, <5>2, <5>3
      <4> QED
        BY <4>1
    <3> QED
      BY <2>1, <3>1, <3>2, Zenon
  <2>5. CASE brelseResume(p)
    <3>1. buf' = [buf EXCEPT ![held[p]].dirty = FALSE]
      BY <2>5 DEF brelseResume
    <3>2. buf' \in CacheStates
      BY <2>1, <3>1, Zenon DEF Buffer, CacheStates
    <3>3. \A c \in Bufs : /\ buf'[c].block = buf[c].block /\ buf'[c].refcnt = buf[c].refcnt
                         /\ buf'[c].data = buf[c].data
      BY <2>1, <3>1 DEF Buffer, CacheStates
    <3>4. \A c \in Bufs : c # held[p] => buf'[c] = buf[c]
      BY <2>1, <3>1 DEF Buffer, CacheStates
    <3>5. buf'[held[p]].dirty = FALSE
      BY <2>1, <3>1 DEF Buffer, CacheStates
    <3> QED
      BY <3>2, <3>3, <3>4, <3>5
  <2> QED
    BY <2>2, <2>3, <2>4, <2>5, Zenon
<1>2. /\ held' = held /\ asked' = asked /\ disk' = disk /\ halted' = halted
  BY Zenon DEF breadResume, bwrite, brelse, brelseResume, procVars
<1>3. /\ pc' \in [Procs -> {"idle", "reading", "holding", "writing"}]
      /\ \A q \in Procs : pc'[q] # "idle" => pc[q] # "idle"
  BY Zenon DEF breadResume, bwrite, brelse, brelseResume, procVars, disk_rw, TypeOK
<1>4. \A r \in reqs' :
        \/ r \in reqs
        \/ /\ r = [rw |-> "WRITE", b |-> held[p], block |-> buf[held[p]].block, by |-> p]
           /\ buf[held[p]].dirty = TRUE
  BY Zenon DEF breadResume, bwrite, brelse, brelseResume, disk_rw
<1>5. pc[p] # "idle"
  BY Zenon DEF breadResume, bwrite, brelse, brelseResume
<1>6. /\ held[p] \in Bufs
      /\ buf[held[p]].block \in Blocks
      /\ buf[held[p]].refcnt > 0
  BY <1>5 DEF TypeOK, HeldBlock
<1>7. \A r \in reqs' : r \in Request
  BY <1>4, <1>6 DEF TypeOK, Request
<1>8. TypeOK'
  BY <1>1, <1>2, <1>3, <1>7 DEF TypeOK, CacheStates
<1>9. HeldBlock'
  BY <1>1, <1>2, <1>3 DEF HeldBlock, TypeOK
<1>10. ReqsInv'
  BY <1>1, <1>4, <1>6 DEF ReqsInv, TypeOK, Request
<1> QED
  BY <1>8, <1>9, <1>10

LEMMA CompleteHeld ==
  ASSUME HeldInv, NEW r \in reqs, Complete(r)
  PROVE  HeldInv'
<1> USE DEF HeldInv
<1>1. /\ r.b \in Bufs /\ r.block \in Blocks /\ r.rw \in {"READ", "WRITE"}
      /\ r.rw = "WRITE" => buf[r.b].data \in Vals
  BY DEF TypeOK, Request, ReqsInv
<1>2. /\ disk' \in [Blocks -> Vals]
      /\ buf' \in CacheStates
      /\ \A c \in Bufs : /\ buf'[c].block = buf[c].block /\ buf'[c].refcnt = buf[c].refcnt
                         /\ buf[c].data \in Vals => buf'[c].data \in Vals
                         /\ buf'[c].dirty = TRUE => buf[c].dirty = TRUE
  <2>1. CASE r.rw = "READ"
    <3>1. disk' = disk /\ buf' = [buf EXCEPT ![r.b].data = disk[r.block], ![r.b].disk = FALSE]
      BY <2>1 DEF Complete
    <3>2. disk[r.block] \in Vals /\ buf \in CacheStates /\ disk \in [Blocks -> Vals]
      BY <1>1 DEF TypeOK, CacheStates
    <3>3. /\ buf' \in CacheStates
          /\ \A c \in Bufs : /\ buf'[c].block = buf[c].block /\ buf'[c].refcnt = buf[c].refcnt
                             /\ buf'[c].data \in {buf[c].data, disk[r.block]}
                             /\ buf'[c].dirty = buf[c].dirty
      BY <1>1, <3>1, <3>2 DEF Buffer, CacheStates
    <3> QED
      BY <3>1, <3>2, <3>3
  <2>2. CASE r.rw = "WRITE"
    <3>1. disk' = [disk EXCEPT ![r.block] = buf[r.b].data] /\ buf' = Lowered(buf, r.b)
      BY <2>2 DEF Complete, Lowered
    <3>2. buf \in CacheStates /\ disk \in [Blocks -> Vals]
      BY DEF TypeOK, CacheStates
    <3>3. /\ buf' \in CacheStates
          /\ \A c \in Bufs : /\ buf'[c].block = buf[c].block /\ buf'[c].refcnt = buf[c].refcnt
                             /\ buf'[c].data = buf[c].data /\ buf'[c].dirty = buf[c].dirty
      <4>1. Lowered(buf, r.b) \in CacheStates
        BY <1>1, <3>2, LoweredIs, Zenon
      <4>2. \A c \in Bufs : /\ Lowered(buf, r.b)[c].block = buf[c].block
                            /\ Lowered(buf, r.b)[c].refcnt = buf[c].refcnt
                            /\ Lowered(buf, r.b)[c].data = buf[c].data
                            /\ Lowered(buf, r.b)[c].dirty = buf[c].dirty
        BY <1>1, <3>2, LoweredFields
      <4> QED
        BY <3>1, <4>1, <4>2
    <3> QED
      BY <1>1, <2>2, <3>1, <3>2, <3>3
  <2> QED
    BY <1>1, <2>1, <2>2, Zenon
<1>3. reqs' \subseteq reqs /\ pc' = pc /\ held' = held /\ asked' = asked /\ halted' = halted
  BY DEF Complete, procVars
<1>4. TypeOK'
  BY <1>2, <1>3 DEF TypeOK, CacheStates
<1>5. HeldBlock'
  BY <1>2, <1>3 DEF TypeOK, HeldBlock
<1>6. ReqsInv'
  BY <1>2, <1>3 DEF TypeOK, ReqsInv, Request
<1> QED
  BY <1>4, <1>5, <1>6

LEMMA NextHeld == HeldInv /\ [Next]_vars => HeldInv'
<1> SUFFICES ASSUME HeldInv, [Next]_vars PROVE HeldInv'
  OBVIOUS
<1>1. CASE UNCHANGED vars
  BY <1>1 DEF HeldInv, TypeOK, HeldBlock, ReqsInv, vars, procVars
<1>2. ASSUME NEW p \in Procs, Call(p) PROVE HeldInv'
  BY <1>2, breadHeld, CallHeld DEF Call
<1>3. ASSUME NEW r \in reqs, Complete(r) PROVE HeldInv'
  BY <1>3, CompleteHeld
<1> QED
  BY <1>1, <1>2, <1>3 DEF Next

\* A task keeps the buffer it got from bread(), with the block it asked for,
\* until its brelse() has ended, whatever other tasks do while it sleeps.
THEOREM BlocksStayHeld == Spec => []HeldBlock
<1>1. HeldInv => HeldBlock
  BY DEF HeldInv
<1> QED
  BY <1>1, InitHeld, NextHeld, PTL DEF Spec

\* Type correctness; the device never gets a buffer that was not filled.
THEOREM BufferTypes == Spec => []TypeOK
<1>1. HeldInv => TypeOK
  BY DEF HeldInv
<1> QED
  BY <1>1, InitHeld, NextHeld, PTL DEF Spec

-----------------------------------------------------------------------------
(* Without writers. *)

LEMMA InitClean == Init => Clean
BY DEF Init, Clean

LEMMA GotClean ==
  ASSUME HeldInv, Clean, NEW p \in Procs, NEW blk \in Blocks, NEW b \in Bufs,
         NEW f \in CacheStates, Got(p, f, b, blk), pc[p] = "idle",
         f[b].block = blk, f[b].data = buf[b].data, f[b].dirty = FALSE,
         buf[b].disk = TRUE => f[b].disk = TRUE, f[b].valid = TRUE => buf[b].valid = TRUE,
         \A c \in Bufs : c # b => f[c] = buf[c],
         buf[b].refcnt > 0 \/ f[b].valid = TRUE => buf[b].block = blk,
         buf[b].refcnt > 0 /\ buf[b].valid = TRUE => f[b].valid = TRUE
  PROVE  Clean'
<1> USE DEF HeldInv
<1>1. /\ buf' \in CacheStates
      /\ \A c \in Bufs : c # b => buf'[c] = buf[c]
      /\ buf'[b].block = blk /\ buf'[b].data = buf[b].data
      /\ buf'[b].dirty = FALSE
      /\ buf'[b].valid = TRUE => f[b].valid = TRUE
      /\ f[b].valid = TRUE => buf'[b].valid = TRUE
      /\ buf[b].disk = TRUE \/ f[b].valid = FALSE => buf'[b].disk = TRUE
  <2>1. (f[b].valid = TRUE /\ buf' = f) \/ (f[b].valid = FALSE /\ buf' = Raised(f, b))
    BY DEF Got, disk_rw, Raised
  <2>2. CASE f[b].valid = TRUE /\ buf' = f
    BY <2>2
  <2>3. CASE f[b].valid = FALSE /\ buf' = Raised(f, b)
    <3>1. /\ buf' \in CacheStates
          /\ \A c \in Bufs : c # b => buf'[c] = f[c]
          /\ \A c \in Bufs : /\ buf'[c].block = f[c].block /\ buf'[c].refcnt = f[c].refcnt
                             /\ buf'[c].data = f[c].data
                             /\ buf'[c].dirty = f[c].dirty /\ buf'[c].valid = f[c].valid
          /\ buf'[b].disk = TRUE
      <4> HIDE DEF HeldInv
      <4>1. /\ Raised(f, b) \in CacheStates /\ Raised(f, b)[b].disk = TRUE
            /\ \A c \in Bufs : c # b => Raised(f, b)[c] = f[c]
        BY RaisedIs, Zenon
      <4>2. \A c \in Bufs : Raised(f, b)[c].block = f[c].block /\ Raised(f, b)[c].refcnt = f[c].refcnt
        BY RaisedFields
      <4>3. \A c \in Bufs : /\ Raised(f, b)[c].data = f[c].data
                           /\ Raised(f, b)[c].dirty = f[c].dirty
                           /\ Raised(f, b)[c].valid = f[c].valid
        BY RaisedFields
      <4> QED
        BY <2>3, <4>1, <4>2, <4>3
    <3> QED
      BY <2>3, <3>1
  <2> QED
    BY <2>1, <2>2, <2>3, Zenon
<1>2. held' = [held EXCEPT ![p] = b] /\ disk' = disk
  BY DEF Got
<1>3. /\ pc' = [pc EXCEPT ![p] = pc'[p]]
      /\ pc'[p] = IF f[b].valid = TRUE THEN "holding" ELSE "reading"
  BY DEF Got, disk_rw, TypeOK
<1>4. \A r \in reqs' : r.rw = "READ"
  BY DEF Got, disk_rw, Clean
<1>5. \A c \in Bufs : buf'[c].dirty = FALSE /\ (buf'[c].valid = TRUE => buf'[c].data = disk'[buf'[c].block])
  BY <1>1, <1>2 DEF Clean
<1>6. ASSUME NEW q \in Procs
      PROVE  /\ pc'[q] # "writing"
             /\ pc'[q] = "holding" => buf'[held'[q]].valid = TRUE
             /\ pc'[q] = "reading" =>
                  buf'[held'[q]].disk = TRUE \/ buf'[held'[q]].data = disk'[buf'[held'[q]].block]
  <2>1. CASE q = p
    BY <1>1, <1>2, <1>3, <2>1 DEF TypeOK
  <2>2. CASE q # p
    <3>1. pc'[q] = pc[q] /\ held'[q] = held[q] /\ held[q] \in Bufs
      BY <1>2, <1>3, <2>2 DEF TypeOK
    <3>2. CASE held[q] # b
      BY <1>1, <1>2, <3>1, <3>2 DEF Clean
    <3>3. CASE held[q] = b /\ pc[q] # "idle"
      <4>1. buf[b].refcnt > 0
        BY <3>3 DEF HeldBlock
      <4> QED
        BY <1>1, <1>2, <3>1, <3>3, <4>1 DEF Clean
    <3> QED
      BY <3>1, <3>2, <3>3, Zenon
  <2> QED
    BY <2>1, <2>2, Zenon
<1> QED
  BY <1>4, <1>5, <1>6, Zenon DEF Clean

LEMMA breadClean ==
  ASSUME HeldInv, Clean, NEW p \in Procs, NEW blk \in Blocks, bread(p, blk)
  PROVE  Clean'
<1>1. CASE \E b \in First(Hits(blk)) : buf[b].refcnt < RefMax /\ Got(p, Counted(b), b, blk)
  <2>1. PICK b \in Bufs : buf[b].block = blk /\ Got(p, Counted(b), b, blk)
    BY <1>1, BufferAssumption DEF First, Hits, Bufs
  <2>2. Counted(b) \in CacheStates
    BY <2>1, CountedIs, CacheTyped DEF HeldInv
  <2>3. /\ Counted(b)[b].block = blk /\ Counted(b)[b].data = buf[b].data
        /\ Counted(b)[b].dirty = buf[b].dirty /\ Counted(b)[b].disk = buf[b].disk
        /\ Counted(b)[b].valid = buf[b].valid
        /\ \A c \in Bufs : c # b => Counted(b)[c] = buf[c]
    BY <2>1, CountedIs, CacheTyped DEF HeldInv
  <2>4. pc[p] = "idle" /\ buf[b].dirty = FALSE
    BY DEF bread, Clean
  <2>5. /\ Counted(b)[b].dirty = FALSE
        /\ buf[b].disk = TRUE => Counted(b)[b].disk = TRUE
        /\ Counted(b)[b].valid = TRUE => buf[b].valid = TRUE
        /\ buf[b].refcnt > 0 \/ Counted(b)[b].valid = TRUE => buf[b].block = blk
        /\ buf[b].refcnt > 0 /\ buf[b].valid = TRUE => Counted(b)[b].valid = TRUE
    BY <2>1, <2>3, <2>4
  <2> QED
    BY <2>1, <2>2, <2>3, <2>4, <2>5, GotClean, Zenon
<1>2. CASE \E b \in Last(Unused) : Got(p, Claimed(b, blk), b, blk)
  <2>1. PICK b \in Bufs : buf[b].refcnt = 0 /\ Got(p, Claimed(b, blk), b, blk)
    BY <1>2 DEF Last, Unused
  <2>2. Claimed(b, blk) \in CacheStates
    BY <2>1, ClaimedIs, CacheTyped, Zenon DEF HeldInv
  <2>3. /\ Claimed(b, blk)[b].block = blk /\ Claimed(b, blk)[b].data = buf[b].data
        /\ Claimed(b, blk)[b].dirty = buf[b].dirty /\ Claimed(b, blk)[b].disk = buf[b].disk
        /\ Claimed(b, blk)[b].valid = FALSE
        /\ \A c \in Bufs : c # b => Claimed(b, blk)[c] = buf[c]
    BY <2>1, ClaimedIs, CacheTyped, Zenon DEF HeldInv
  <2>4. pc[p] = "idle" /\ buf[b].dirty = FALSE /\ ~(buf[b].refcnt > 0)
    <3>1. ~(buf[b].refcnt > 0)
      BY <2>1
    <3> QED
      BY <3>1, Zenon DEF bread, Clean
  <2>5. /\ Claimed(b, blk)[b].dirty = FALSE
        /\ buf[b].disk = TRUE => Claimed(b, blk)[b].disk = TRUE
        /\ Claimed(b, blk)[b].valid = TRUE => buf[b].valid = TRUE
        /\ buf[b].refcnt > 0 \/ Claimed(b, blk)[b].valid = TRUE => buf[b].block = blk
        /\ buf[b].refcnt > 0 /\ buf[b].valid = TRUE => Claimed(b, blk)[b].valid = TRUE
    BY <2>1, <2>3, <2>4
  <2> QED
    BY <2>1, <2>2, <2>3, <2>4, <2>5, GotClean, Zenon
<1>3. CASE UNCHANGED <<buf, disk, procVars, reqs>> /\ halted' = TRUE
  BY <1>3 DEF Clean, procVars
<1> QED
  BY <1>1, <1>2, <1>3, Zenon DEF bread

\* A transfer that ended has left what is on disk in the buffer.
LEMMA breadResumeClean ==
  ASSUME HeldInv, Clean, NEW p \in Procs, breadResume(p)
  PROVE  Clean'
<1>1. /\ held[p] \in Bufs /\ buf \in CacheStates
      /\ \A q \in Procs : held[q] \in Bufs
  BY DEF HeldInv, TypeOK, CacheStates
<1>2. buf' = FilledCache(held[p])
  BY DEF breadResume, FilledCache
<1>3. \A c \in Bufs : c # held[p] => buf'[c] = buf[c]
  BY <1>1, <1>2, FilledIs, Zenon
<1>4. /\ buf'[held[p]].dirty = FALSE /\ buf'[held[p]].valid = TRUE
      /\ buf'[held[p]].data = buf[held[p]].data /\ buf'[held[p]].block = buf[held[p]].block
      /\ buf'[held[p]].disk = buf[held[p]].disk
  BY <1>1, <1>2, FilledIs, Zenon
<1>5. buf[held[p]].data = disk[buf[held[p]].block]
  BY DEF breadResume, Waited, Clean
<1>6. /\ pc' = [pc EXCEPT ![p] = "holding"]
      /\ held' = held /\ disk' = disk /\ reqs' = reqs
  BY DEF breadResume
<1>7. \A c \in Bufs : /\ buf'[c].dirty = FALSE
                      /\ buf'[c].valid = TRUE => buf'[c].data = disk'[buf'[c].block]
  BY <1>3, <1>4, <1>5, <1>6 DEF Clean
<1>8. ASSUME NEW q \in Procs
      PROVE  /\ pc'[q] # "writing"
             /\ pc'[q] = "holding" => buf'[held'[q]].valid = TRUE
             /\ pc'[q] = "reading" =>
                  buf'[held'[q]].disk = TRUE \/ buf'[held'[q]].data = disk'[buf'[held'[q]].block]
  <2>1. held'[q] \in Bufs /\ held'[q] = held[q]
    BY <1>1, <1>6
  <2>2. CASE held[q] = held[p]
    <3>1. pc'[q] \in {"holding", pc[q]}
      BY <1>6 DEF HeldInv, TypeOK
    <3> QED
      BY <1>4, <1>5, <1>6, <2>1, <2>2, <3>1 DEF Clean
  <2>3. CASE held[q] # held[p]
    <3>1. q # p
      BY <2>3
    <3>2. pc'[q] = pc[q]
      BY <1>6, <3>1 DEF HeldInv, TypeOK
    <3> QED
      BY <1>1, <1>3, <1>6, <2>1, <2>3, <3>2 DEF Clean
  <2> QED
    BY <2>2, <2>3, Zenon
<1>9. \A x \in reqs' : x.rw = "READ"
  BY <1>6 DEF Clean
<1> QED
  BY <1>7, <1>8, <1>9, Zenon DEF Clean

LEMMA CompleteClean ==
  ASSUME HeldInv, Clean, NEW r \in reqs, Complete(r)
  PROVE  Clean'
<1>1. /\ r.b \in Bufs /\ r.rw = "READ" /\ buf \in CacheStates
      /\ \A q \in Procs : held[q] \in Bufs
      /\ buf[r.b].block = r.block
  BY DEF HeldInv, TypeOK, Request, ReqsInv, Clean, CacheStates
<1>2. buf' = [buf EXCEPT ![r.b].data = disk[r.block], ![r.b].disk = FALSE]
  BY <1>1 DEF Complete
<1>8. reqs' = reqs \ {r} /\ disk' = disk /\ pc' = pc /\ held' = held
  BY <1>1 DEF Complete, procVars
<1>3. \A c \in Bufs : c # r.b => buf'[c] = buf[c]
  BY <1>1, <1>2 DEF Buffer, CacheStates
<1>4. /\ buf'[r.b].dirty = buf[r.b].dirty /\ buf'[r.b].valid = buf[r.b].valid
      /\ buf'[r.b].data = disk[r.block] /\ buf'[r.b].block = r.block
  BY <1>1, <1>2 DEF Buffer, CacheStates
<1>5. \A c \in Bufs : /\ buf'[c].dirty = FALSE
                      /\ buf'[c].valid = TRUE => buf'[c].data = disk'[buf'[c].block]
  BY <1>8, <1>1, <1>3, <1>4 DEF Clean
<1>6. ASSUME NEW q \in Procs
      PROVE  /\ pc'[q] # "writing"
             /\ pc'[q] = "holding" => buf'[held'[q]].valid = TRUE
             /\ pc'[q] = "reading" =>
                  buf'[held'[q]].disk = TRUE \/ buf'[held'[q]].data = disk'[buf'[held'[q]].block]
  <2>1. CASE held[q] = r.b
    BY <1>8, <1>1, <1>4, <2>1 DEF Clean
  <2>2. CASE held[q] # r.b
    BY <1>8, <1>1, <1>3, <2>2 DEF Clean
  <2> QED
    BY <2>1, <2>2, Zenon
<1>7. \A x \in reqs' : x.rw = "READ"
  BY <1>8 DEF Clean
<1> QED
  BY <1>5, <1>6, <1>7, Zenon DEF Clean

LEMMA NextClean == Writers = {} /\ HeldInv /\ Clean /\ [Next]_vars => Clean'
<1> SUFFICES ASSUME Writers = {}, HeldInv, Clean, [Next]_vars PROVE Clean'
  OBVIOUS
<1>1. CASE UNCHANGED vars
  BY <1>1 DEF Clean, vars, procVars
<1>2. ASSUME NEW p \in Procs, Call(p) PROVE Clean'
  <2>1. CASE \E blk \in Blocks : bread(p, blk)
    BY <2>1, breadClean
  <2>2. CASE breadResume(p)
    BY <2>2, breadResumeClean
  <2>3. CASE brelse(p)
    <3>1. buf[held[p]].dirty = FALSE
      BY DEF HeldInv, TypeOK, Clean
    <3>2. /\ pc' = [pc EXCEPT ![p] = "idle"]
          /\ buf' = buf /\ reqs' = reqs /\ disk' = disk /\ held' = held
      BY <2>3, <3>1 DEF brelse
    <3>3. \A q \in Procs : pc'[q] \in {"idle", pc[q]}
      BY <3>2 DEF HeldInv, TypeOK
    <3> QED
      BY <3>2, <3>3 DEF Clean
  <2> QED
    BY <1>2, <2>1, <2>2, <2>3, Zenon DEF Call, bwrite, brelseResume, Clean
<1>3. ASSUME NEW r \in reqs, Complete(r) PROVE Clean'
  BY <1>3, CompleteClean
<1> QED
  BY <1>1, <1>2, <1>3 DEF Next

\* While nobody writes, bread() returns what is on the disk, with any number of
\* tasks filling any number of buffers and any order of the device's answers.
THEOREM ReadsAreRight == Spec => []ReadRight
<1> DEFINE CleanInv == HeldInv /\ (Writers = {} => Clean)
<1>1. Init => CleanInv
  BY InitHeld, InitClean
<1>2. CleanInv /\ [Next]_vars => CleanInv'
  BY NextHeld, NextClean
<1>3. CleanInv => ReadRight
  <2> SUFFICES ASSUME HeldInv, Clean, NEW p \in Procs, pc[p] = "holding"
               PROVE  buf[held[p]].data = disk[asked[p]]
    BY DEF ReadRight
  <2>1. held[p] \in Bufs /\ buf[held[p]].block = asked[p]
    BY DEF HeldInv, TypeOK, HeldBlock
  <2> QED
    BY <2>1 DEF Clean
<1> HIDE DEF CleanInv
<1> QED
  BY <1>1, <1>2, <1>3, PTL DEF Spec

-----------------------------------------------------------------------------
(* Without writers the cache implements the block store. *)

ReadInv == HeldInv /\ Clean

\* The views are those of the blocks on disk, so they depend on who holds what.
Seen == [p \in Procs |->
           IF pc[p] = "holding" THEN [block |-> asked[p], val |-> disk[asked[p]]] ELSE NONE]

LEMMA SeenIsView == ReadInv => View = Seen /\ Store = disk
<1> SUFFICES ASSUME HeldInv, Clean PROVE View = Seen /\ Store = disk
  BY DEF ReadInv
<1>1. \A p \in Procs : pc[p] = "holding" => buf[held[p]].data = disk[asked[p]]
  BY DEF HeldInv, TypeOK, HeldBlock, Clean
<1>2. View = Seen
  BY <1>1 DEF View, Seen
<1>3. disk = [blk \in Blocks |-> disk[blk]]
  BY DEF HeldInv, TypeOK
<1>4. \A blk \in Blocks : {b \in Bufs : buf[b].block = blk /\ buf[b].dirty} = {}
  BY DEF Clean
<1> QED
  BY <1>2, <1>3, <1>4 DEF Store

\* A step leaves every task where it is, or one task begins or ends to hold a
\* block.
LEMMA NextHolds ==
  ASSUME Writers = {}, ReadInv, [Next]_vars
  PROVE  /\ disk' = disk
         /\ \/ \A q \in Procs : /\ pc'[q] = "holding" <=> pc[q] = "holding"
                                /\ pc[q] = "holding" => asked'[q] = asked[q]
            \/ \E p \in Procs :
                 /\ \A q \in Procs \ {p} : /\ pc'[q] = "holding" <=> pc[q] = "holding"
                                           /\ pc[q] = "holding" => asked'[q] = asked[q]
                 /\ (pc[p] = "holding") # (pc'[p] = "holding")
<1> USE DEF ReadInv, HeldInv, TypeOK
<1>1. CASE UNCHANGED vars
  BY <1>1 DEF vars, procVars
<1>2. ASSUME NEW p \in Procs, NEW blk \in Blocks, bread(p, blk)
      PROVE  /\ disk' = disk
             /\ \A q \in Procs \ {p} : pc'[q] = pc[q] /\ asked'[q] = asked[q]
             /\ pc[p] # "holding"
  BY <1>2 DEF bread, Got, disk_rw, procVars
<1>3. ASSUME NEW p \in Procs, breadResume(p)
      PROVE  /\ disk' = disk /\ asked' = asked
             /\ \A q \in Procs \ {p} : pc'[q] = pc[q]
             /\ pc[p] # "holding" /\ pc'[p] = "holding"
  BY <1>3 DEF breadResume
<1>4. ASSUME NEW p \in Procs, brelse(p)
      PROVE  /\ disk' = disk /\ asked' = asked
             /\ \A q \in Procs \ {p} : pc'[q] = pc[q]
             /\ pc[p] = "holding" /\ pc'[p] # "holding"
  BY <1>4 DEF brelse, disk_rw
<1>5. ASSUME NEW r \in reqs, Complete(r) PROVE disk' = disk /\ pc' = pc /\ asked' = asked
  BY <1>5 DEF Complete, Clean, procVars
<1>6. \A p \in Procs, v \in Vals : ~bwrite(p, v) /\ ~brelseResume(p)
  BY DEF bwrite, brelseResume, Clean
<1> QED
  BY <1>1, <1>2, <1>3, <1>4, <1>5, <1>6 DEF Next, Call

LEMMA NextRefines ==
  ASSUME Writers = {}, ReadInv, ReadInv', [Next]_vars
  PROVE  [Cache!StoreNext]_<<Store, View>>
<1>1. View = Seen /\ Store = disk /\ View' = Seen' /\ Store' = disk'
  <2>1. (ReadInv => View = Seen /\ Store = disk)'
    BY SeenIsView, PTL
  <2> QED
    BY <2>1, SeenIsView
<1>2. disk' = disk /\ asked \in [Procs -> Blocks] /\ asked' \in [Procs -> Blocks]
  BY NextHolds DEF ReadInv, HeldInv, TypeOK
<1>3. CASE \A q \in Procs : /\ pc'[q] = "holding" <=> pc[q] = "holding"
                            /\ pc[q] = "holding" => asked'[q] = asked[q]
  <2>1. Seen' = Seen
    BY <1>2, <1>3 DEF Seen
  <2> QED
    BY <1>1, <1>2, <2>1
<1>4. ASSUME NEW p \in Procs,
             \A q \in Procs \ {p} : /\ pc'[q] = "holding" <=> pc[q] = "holding"
                                    /\ pc[q] = "holding" => asked'[q] = asked[q],
             (pc[p] = "holding") # (pc'[p] = "holding")
      PROVE  Cache!StoreNext
  <2>1. CASE pc[p] # "holding" /\ pc'[p] = "holding"
    <3>1. Seen[p] = NONE
      BY <2>1 DEF Seen
    <3>2. Seen' = [Seen EXCEPT ![p] = [block |-> asked'[p], val |-> disk[asked'[p]]]]
      BY <1>2, <1>4, <2>1, Zenon DEF Seen
    <3>3. asked'[p] \in Blocks
      BY <1>2
    <3>4. Cache!Get(p, asked'[p])
      BY <1>1, <1>2, <3>1, <3>2 DEF Cache!Get
    <3> QED
      BY <3>3, <3>4 DEF Cache!StoreNext
  <2>2. CASE pc[p] = "holding" /\ pc'[p] # "holding"
    <3>1. Seen[p] = [block |-> asked[p], val |-> disk[asked[p]]]
      BY <2>2 DEF Seen
    <3>2. asked[p] \in Blocks /\ disk[asked[p]] \in Vals
      BY <1>2 DEF ReadInv, HeldInv, TypeOK
    <3>3. Seen[p] # NONE
      BY <3>1, <3>2, BufferAssumption
    <3>4. Seen' = [Seen EXCEPT ![p] = NONE]
      BY <1>2, <1>4, <2>2, Zenon DEF Seen
    <3>5. Cache!Release(p)
      BY <1>1, <1>2, <3>3, <3>4 DEF Cache!Release
    <3> QED
      BY <3>5 DEF Cache!StoreNext
  <2> QED
    BY <1>4, <2>1, <2>2
<1> QED
  BY <1>3, <1>4, NextHolds

\* While nobody writes, the cache implements the block store: whatever buffers
\* and transfers are behind it, a task gets the contents of the block.
THEOREM ReadersCoherent == Writers = {} /\ Spec => Coherent
<1> DEFINE QuietInv == Writers = {} /\ ReadInv
<1>1. Writers = {} /\ Init => QuietInv
  BY InitHeld, InitClean DEF ReadInv
<1>2. QuietInv /\ [Next]_vars => QuietInv'
  BY NextHeld, NextClean DEF ReadInv
<1>3. Init /\ QuietInv => Cache!StoreInit
  <2> SUFFICES ASSUME Init, ReadInv PROVE Cache!StoreInit
    OBVIOUS
  <2>1. Seen = [p \in Procs |-> NONE] /\ disk \in [Blocks -> Vals]
    BY DEF Init, Seen
  <2> QED
    BY <2>1, SeenIsView DEF Cache!StoreInit
<1>4. QuietInv /\ QuietInv' /\ [Next]_vars => [Cache!StoreNext]_<<Store, View>>
  BY NextRefines
<1> HIDE DEF QuietInv
<1> QED
  BY <1>1, <1>2, <1>3, <1>4, PTL DEF Spec, Coherent, Cache!StoreSpec

-----------------------------------------------------------------------------
(* One task that reads and writes. *)

Alone == \A p, q \in Procs : p = q

\* The buffers that bget() searches.
Low == 1 .. BUFFER_NUM - 1

\* The transfer the task p waits for is under way, or has made the buffer and
\* the disk agree.
Answered(p, rw) ==
  \/ /\ buf[held[p]].disk = TRUE
     /\ reqs = {[rw |-> rw, b |-> held[p], block |-> asked[p], by |-> p]}
  \/ /\ buf[held[p]].disk = FALSE /\ reqs = {}
     /\ buf[held[p]].data = disk[asked[p]]

\* Of the buffers that are searched none has the block of another; when p works
\* on the last one, no other has the block.
Placed(p) ==
  /\ \A b, c \in Low : buf[b].block = buf[c].block /\ buf[b].block # NONE => b = c
  /\ pc[p] # "idle" /\ held[p] = BUFFER_NUM => \A b \in Low : buf[b].block # asked[p]

\* Only the buffer in hand is dirty, and the other valid ones are as on disk.
OnlyDirty(p) ==
  \A b \in Bufs : buf[b].dirty = TRUE => b = held[p] /\ pc[p] \in {"holding", "writing"}
OnDisk(p) ==
  \A b \in Low : (pc[p] = "idle" \/ b # held[p]) /\ buf[b].valid = TRUE
                   => buf[b].block \in Blocks /\ buf[b].data = disk[buf[b].block]

\* Where the only task p is.
At(p) ==
  /\ pc[p] \in {"idle", "holding"} => reqs = {}
  /\ pc[p] = "reading" => Answered(p, "READ")
  /\ pc[p] = "holding" => buf[held[p]].dirty = TRUE \/ buf[held[p]].data = disk[asked[p]]
  /\ pc[p] = "writing" => buf[held[p]].dirty = TRUE /\ Answered(p, "WRITE")

Sole(p) == Placed(p) /\ OnlyDirty(p) /\ OnDisk(p) /\ At(p)

\* What p has in hand, and what the blocks contain as p left them.
Shown(p) ==
  IF pc[p] = "holding" THEN [block |-> asked[p], val |-> buf[held[p]].data] ELSE NONE
Stored(p) ==
  [blk \in Blocks |-> IF blk = asked[p] /\ buf[held[p]].dirty = TRUE
                      THEN buf[held[p]].data ELSE disk[blk]]

LEMMA PlacedStays ==
  ASSUME HeldInv, NEW p \in Procs, Placed(p),
         \A c \in Bufs : buf'[c].block = buf[c].block,
         held' = held, asked' = asked, pc[p] # "idle"
  PROVE  Placed(p)'
<1>1. \A c \in Low : c \in Bufs
  BY BufferAssumption DEF Low, Bufs
<1>2. \A c \in Low : buf'[c].block = buf[c].block
  BY <1>1
<1> QED
  BY <1>2 DEF Placed

LEMMA StoredIsStore ==
  ASSUME HeldInv, NEW p \in Procs, Sole(p)
  PROVE  Store = Stored(p)
<1>1. /\ held[p] \in Bufs /\ asked[p] \in Blocks
      /\ \A b \in Bufs : buf[b].dirty \in BOOLEAN
  BY DEF HeldInv, TypeOK, Buffer
<1>2. \A b \in Bufs : buf[b].dirty = TRUE =>
        b = held[p] /\ buf[held[p]].block = asked[p]
  BY DEF Sole, OnlyDirty, HeldInv, HeldBlock
<1> DEFINE D(blk) == {b \in Bufs : buf[b].block = blk /\ buf[b].dirty}
           Of(blk) == IF D(blk) = {} THEN disk[blk] ELSE buf[CHOOSE b \in D(blk) : TRUE].data
<1>3. ASSUME NEW blk \in Blocks
      PROVE  Of(blk) = IF blk = asked[p] /\ buf[held[p]].dirty = TRUE
                       THEN buf[held[p]].data ELSE disk[blk]
  <2>1. CASE blk = asked[p] /\ buf[held[p]].dirty = TRUE
    <3>1. D(blk) = {held[p]}
      BY <1>1, <1>2, <2>1
    <3>2. (CHOOSE b \in D(blk) : TRUE) = held[p]
      BY <3>1
    <3> QED
      BY <2>1, <3>1, <3>2
  <2>2. CASE ~(blk = asked[p] /\ buf[held[p]].dirty = TRUE)
    <3>1. D(blk) = {}
      BY <1>1, <1>2, <2>2
    <3> QED
      BY <2>2, <3>1
  <2> QED
    BY <2>1, <2>2, Zenon
<1>4. Store = [blk \in Blocks |-> Of(blk)]
  BY DEF Store
<1> HIDE DEF Of
<1> QED
  BY <1>3, <1>4, Zenon DEF Stored

\* Where bread() is after bget() gave it the buffer b.
LEMMA GotSole ==
  ASSUME HeldInv, NEW p \in Procs, Sole(p), NEW blk \in Blocks, NEW b \in Bufs,
         NEW f \in CacheStates, Got(p, f, b, blk), pc[p] = "idle",
         f[b].block = blk, f[b].data = buf[b].data, f[b].dirty = buf[b].dirty,
         \A c \in Bufs : c # b => f[c] = buf[c],
         f[b].valid = TRUE => b \in Low /\ buf[b].valid = TRUE /\ buf[b].block = blk,
         buf[b].block = blk \/ (\A c \in Low : buf[c].block # blk),
         b = BUFFER_NUM => \A c \in Low : buf[c].block # blk
  PROVE  /\ Sole(p)'
         /\ Stored(p)' = Stored(p) /\ Shown(p) = NONE
         /\ Shown(p)' = NONE \/ Shown(p)' = [block |-> blk, val |-> Stored(p)[blk]]
<1>1. /\ held \in [Procs -> Bufs] /\ asked \in [Procs -> Blocks]
      /\ pc \in [Procs -> {"idle", "reading", "holding", "writing"}]
      /\ \A c \in Low : c \in Bufs
      /\ BUFFER_NUM \notin Low
      /\ NONE \notin Blocks /\ reqs = {}
  BY BufferAssumption DEF HeldInv, TypeOK, Low, Bufs, Sole, At
<1>2. /\ held'[p] = b /\ asked'[p] = blk /\ disk' = disk
  BY <1>1 DEF Got
<1>3. /\ \A c \in Bufs : buf[c].dirty = FALSE
      /\ \A c \in Low : buf[c].valid = TRUE
                          => buf[c].block \in Blocks /\ buf[c].data = disk[buf[c].block]
  BY DEF Sole, OnlyDirty, OnDisk, HeldInv, TypeOK, Buffer
<1>4. \/ /\ f[b].valid = TRUE /\ buf' = f /\ pc'[p] = "holding" /\ reqs' = {}
      \/ /\ f[b].valid = FALSE /\ buf' = Raised(f, b) /\ pc'[p] = "reading"
         /\ reqs' = {[rw |-> "READ", b |-> b, block |-> blk, by |-> p]}
  BY <1>1 DEF Got, disk_rw, Raised, CacheStates, Buffer
<1>5. /\ \A c \in Bufs : /\ buf'[c].block = f[c].block /\ buf'[c].data = f[c].data
                         /\ buf'[c].dirty = f[c].dirty /\ buf'[c].valid = f[c].valid
      /\ pc'[p] = "reading" => buf'[b].disk = TRUE
  <2>1. Raised(f, b)[b].disk = TRUE
    BY RaisedIs, Zenon
  <2>2. \A c \in Bufs : /\ Raised(f, b)[c].block = f[c].block /\ Raised(f, b)[c].data = f[c].data
                        /\ Raised(f, b)[c].dirty = f[c].dirty
                        /\ Raised(f, b)[c].valid = f[c].valid
    BY RaisedFields
  <2> QED
    BY <1>4, <2>1, <2>2
<1>6. \A c \in Bufs : buf'[c].dirty = FALSE
  BY <1>3, <1>5
<1>7. Placed(p)'
  <2>1. \A c \in Low : c # b => buf'[c].block = buf[c].block
    BY <1>1, <1>5
  <2>2. buf'[b].block = blk
    BY <1>5
  <2>3. b \in Low \/ b = BUFFER_NUM
    BY BufferAssumption DEF Low, Bufs
  <2>4. \A c \in Low : c # b => buf[c].block # blk
    <3>1. \A c \in Low : buf[b].block = buf[c].block /\ buf[b].block # NONE /\ b \in Low => b = c
      BY DEF Sole, Placed
    <3> QED
      BY <1>1, <2>3, <3>1
  <2>5. \A c, d \in Low : buf'[c].block = buf'[d].block /\ buf'[c].block # NONE => c = d
    <3>1. \A c, d \in Low : buf[c].block = buf[d].block /\ buf[c].block # NONE => c = d
      BY DEF Sole, Placed
    <3> SUFFICES ASSUME NEW c \in Low, NEW d \in Low, buf'[c].block = buf'[d].block,
                        buf'[c].block # NONE
                 PROVE  c = d
      OBVIOUS
    <3>2. CASE c # b /\ d # b
      BY <2>1, <3>1, <3>2
    <3>3. CASE c = b /\ d # b
      BY <2>1, <2>2, <2>4, <3>3
    <3>4. CASE c # b /\ d = b
      BY <2>1, <2>2, <2>4, <3>4
    <3> QED
      BY <3>2, <3>3, <3>4
  <2>6. b = BUFFER_NUM => \A c \in Low : buf'[c].block # blk
    BY <1>1, <2>1, <2>4
  <2> QED
    BY <1>2, <2>5, <2>6 DEF Placed
<1>8. OnlyDirty(p)'
  BY <1>6 DEF OnlyDirty
<1>12. pc'[p] \in {"holding", "reading"}
  BY <1>4
<1>9. OnDisk(p)'
  <2> SUFFICES ASSUME NEW c \in Low, c # b, buf'[c].valid = TRUE
               PROVE  buf'[c].block \in Blocks /\ buf'[c].data = disk[buf'[c].block]
    BY <1>2, <1>12, Zenon DEF OnDisk
  <2>1. /\ buf'[c].block = buf[c].block /\ buf'[c].data = buf[c].data
        /\ buf[c].valid = TRUE
    BY <1>1, <1>5
  <2> QED
    BY <1>3, <2>1
<1>10. pc'[p] = "holding" => buf'[b].data = disk[blk] /\ reqs' = {}
  <2>1. f[b].valid = TRUE => buf[b].data = disk[blk]
    BY <1>3
  <2> QED
    BY <1>4, <1>5, <2>1
<1>11. pc'[p] = "reading" => Answered(p, "READ")'
  BY <1>2, <1>4, <1>5 DEF Answered
<1>13. Sole(p)'
  BY <1>2, <1>7, <1>8, <1>9, <1>10, <1>11, <1>12 DEF Sole, At
<1>14. disk = [k \in Blocks |-> disk[k]] /\ held[p] \in Bufs /\ b \in Bufs
  BY <1>1 DEF HeldInv, TypeOK
<1>15. Stored(p) = disk
  BY <1>3, <1>14 DEF Stored
<1>16. Stored(p)' = disk
  BY <1>2, <1>6, <1>14 DEF Stored
<1>17. Shown(p) = NONE
  BY DEF Shown
<1>18. Shown(p)' = NONE \/ Shown(p)' = [block |-> blk, val |-> disk[blk]]
  BY <1>2, <1>10 DEF Shown
<1> QED
  BY <1>13, <1>15, <1>16, <1>17, <1>18

LEMMA breadSole ==
  ASSUME HeldInv, NEW p \in Procs, Sole(p), NEW blk \in Blocks, bread(p, blk)
  PROVE  /\ Sole(p)'
         /\ Stored(p)' = Stored(p) /\ Shown(p) = NONE
         /\ Shown(p)' = NONE \/ Shown(p)' = [block |-> blk, val |-> Stored(p)[blk]]
<1>1. CASE \E b \in First(Hits(blk)) : buf[b].refcnt < RefMax /\ Got(p, Counted(b), b, blk)
  <2>1. PICK b \in Bufs : b \in Low /\ buf[b].block = blk /\ Got(p, Counted(b), b, blk)
    BY <1>1, BufferAssumption DEF First, Hits, Bufs, Low
  <2>2. Counted(b) \in CacheStates
    BY <2>1, CountedIs, CacheTyped DEF HeldInv
  <2>3. /\ Counted(b)[b].block = blk /\ Counted(b)[b].data = buf[b].data
        /\ Counted(b)[b].dirty = buf[b].dirty /\ Counted(b)[b].valid = buf[b].valid
        /\ \A c \in Bufs : c # b => Counted(b)[c] = buf[c]
    BY <2>1, CountedIs, CacheTyped DEF HeldInv
  <2>4. pc[p] = "idle" /\ b # BUFFER_NUM
    BY <2>1, BufferAssumption DEF bread, Low
  <2> QED
    BY <2>1, <2>2, <2>3, <2>4, GotSole, Zenon
<1>2. CASE Hits(blk) = {} /\ \E b \in Last(Unused) : Got(p, Claimed(b, blk), b, blk)
  <2>1. PICK b \in Bufs : buf[b].refcnt = 0 /\ Got(p, Claimed(b, blk), b, blk)
    BY <1>2 DEF Last, Unused
  <2>2. Claimed(b, blk) \in CacheStates
    BY <2>1, ClaimedIs, CacheTyped, Zenon DEF HeldInv
  <2>3. /\ Claimed(b, blk)[b].block = blk /\ Claimed(b, blk)[b].data = buf[b].data
        /\ Claimed(b, blk)[b].dirty = buf[b].dirty /\ Claimed(b, blk)[b].valid = FALSE
        /\ \A c \in Bufs : c # b => Claimed(b, blk)[c] = buf[c]
    BY <2>1, ClaimedIs, CacheTyped, Zenon DEF HeldInv
  <2>4. pc[p] = "idle" /\ \A c \in Low : buf[c].block # blk
    BY <1>2 DEF bread, Hits, Low
  <2> QED
    BY <2>1, <2>2, <2>3, <2>4, GotSole, Zenon
<1>3. CASE UNCHANGED <<buf, disk, procVars, reqs>> /\ halted' = TRUE
  <2>1. Sole(p)' /\ Stored(p)' = Stored(p) /\ Shown(p)' = Shown(p)
    BY <1>3 DEF Sole, Placed, OnlyDirty, OnDisk, At, Answered, Stored, Shown, procVars
  <2> QED
    BY <2>1 DEF Shown, bread
<1> QED
  BY <1>1, <1>2, <1>3 DEF bread

\* The types of what the calls on the buffer in hand use.
LEMMA SoleTypes ==
  ASSUME HeldInv, NEW p \in Procs
  PROVE  /\ buf \in CacheStates /\ held[p] \in Bufs /\ asked[p] \in Blocks
         /\ \A b \in Low : b \in Bufs
         /\ \A b \in Bufs : buf[b].dirty \in BOOLEAN /\ buf[b].disk \in BOOLEAN
         /\ disk = [k \in Blocks |-> disk[k]]
         /\ pc[p] \in {"idle", "reading", "holding", "writing"}
         /\ \A x \in {"idle", "reading", "holding", "writing"} : [pc EXCEPT ![p] = x][p] = x
  BY BufferAssumption DEF HeldInv, TypeOK, Low, Bufs, Buffer, CacheStates

LEMMA breadResumeSole ==
  ASSUME HeldInv, NEW p \in Procs, Sole(p), breadResume(p)
  PROVE  /\ Sole(p)'
         /\ Stored(p)' = Stored(p) /\ Shown(p) = NONE
         /\ Shown(p)' = [block |-> asked[p], val |-> Stored(p)[asked[p]]]
<1> DEFINE h == held[p]
<1>1. buf \in CacheStates /\ h \in Bufs /\ asked[p] \in Blocks /\ \A c \in Low : c \in Bufs
  BY SoleTypes
<1>2. /\ pc[p] = "reading" /\ pc'[p] = "holding" /\ buf' = FilledCache(h)
      /\ disk' = disk /\ held' = held /\ asked' = asked /\ reqs' = reqs
  BY SoleTypes DEF breadResume, FilledCache
<1>3. buf[h].data = disk[asked[p]] /\ reqs = {}
  BY <1>2 DEF Sole, At, Answered, breadResume, Waited
<1>4. \A c \in Bufs : buf[c].dirty = FALSE
  BY <1>2, SoleTypes DEF Sole, OnlyDirty
<1>5. /\ \A c \in Bufs : c # h => buf'[c] = buf[c]
      /\ \A c \in Bufs : buf'[c].block = buf[c].block /\ buf'[c].data = buf[c].data
      /\ buf'[h].dirty = FALSE
  BY <1>1, <1>2, FilledIs, Zenon
<1>6. \A c \in Bufs : buf'[c].dirty = FALSE
  BY <1>1, <1>4, <1>5
<1>7. Sole(p)'
  <2>1. Placed(p)'
    BY <1>2, <1>5, PlacedStays DEF Sole
  <2>2. OnlyDirty(p)' /\ OnDisk(p)'
    BY <1>1, <1>2, <1>5, <1>6 DEF Sole, OnlyDirty, OnDisk
  <2>3. At(p)'
    BY <1>1, <1>2, <1>3, <1>5 DEF At
  <2> QED
    BY <2>1, <2>2, <2>3 DEF Sole
<1>8. Stored(p) = disk
  BY <1>1, <1>4, SoleTypes DEF Stored
<1>9. Stored(p)' = disk
  BY <1>1, <1>2, <1>6, SoleTypes DEF Stored
<1>10. Shown(p) = NONE /\ Shown(p)' = [block |-> asked[p], val |-> disk[asked[p]]]
  BY <1>1, <1>2, <1>3, <1>5 DEF Shown
<1> QED
  BY <1>7, <1>8, <1>9, <1>10

LEMMA bwriteSole ==
  ASSUME HeldInv, NEW p \in Procs, Sole(p), NEW v \in Vals, bwrite(p, v)
  PROVE  /\ Sole(p)' /\ Shown(p) # NONE /\ Shown(p).block = asked[p]
         /\ Stored(p)' = [Stored(p) EXCEPT ![asked[p]] = v]
         /\ Shown(p)' = [block |-> asked[p], val |-> v]
<1> DEFINE h == held[p]
           r == [buf[h] EXCEPT !.data = v, !.dirty = TRUE]
<1>1. /\ buf \in CacheStates /\ h \in Bufs /\ asked[p] \in Blocks
      /\ \A c \in Low : c \in Bufs
  BY SoleTypes
<1>2. /\ pc[p] = "holding" /\ pc' = pc /\ buf' = [buf EXCEPT ![h] = r]
      /\ disk' = disk /\ held' = held /\ asked' = asked /\ reqs' = reqs
  BY Zenon DEF bwrite, procVars
<1>3. r.data = v /\ r.dirty = TRUE /\ r.block = buf[h].block
  BY <1>1 DEF CacheStates, Buffer
<1> HIDE DEF r
<1>4. (\A c \in Bufs : c # h => buf'[c] = buf[c]) /\ buf'[h] = r
  BY <1>1, <1>2 DEF CacheStates
<1>5. \A c \in Bufs : buf'[c].block = buf[c].block
  BY <1>3, <1>4
<1>6. Sole(p)'
  <2>1. Placed(p)'
    BY <1>2, <1>5, PlacedStays DEF Sole
  <2>2. OnlyDirty(p)'
    BY <1>2, <1>4 DEF Sole, OnlyDirty
  <2>3. OnDisk(p)'
    BY <1>1, <1>2, <1>4 DEF Sole, OnDisk
  <2>4. At(p)'
    BY <1>2, <1>3, <1>4 DEF Sole, At
  <2> QED
    BY <2>1, <2>2, <2>3, <2>4 DEF Sole
<1>7. Stored(p)' = [Stored(p) EXCEPT ![asked[p]] = v]
  <2>1. Stored(p)' = [k \in Blocks |-> IF k = asked[p] THEN v ELSE disk[k]]
    BY <1>2, <1>3, <1>4 DEF Stored
  <2> QED
    BY <1>1, <2>1, Zenon DEF Stored
<1>8. Shown(p)' = [block |-> asked[p], val |-> v]
  BY <1>2, <1>3, <1>4 DEF Shown
<1>9. /\ Shown(p) = [block |-> asked[p], val |-> buf[h].data]
      /\ buf[h].data \in Vals
  BY <1>1, <1>2 DEF Shown, HeldInv, ReqsInv, TypeOK, Sole, At
<1>10. Shown(p) # NONE
  BY <1>1, <1>9, BufferAssumption
<1> QED
  BY <1>6, <1>7, <1>8, <1>9, <1>10

LEMMA brelseSole ==
  ASSUME HeldInv, NEW p \in Procs, Sole(p), brelse(p)
  PROVE  /\ Sole(p)'
         /\ Stored(p)' = Stored(p) /\ Shown(p) # NONE /\ Shown(p)' = NONE
<1> DEFINE h == held[p]
<1>1. /\ buf \in CacheStates /\ h \in Bufs /\ asked[p] \in Blocks
      /\ \A c \in Low : c \in Bufs
      /\ \A c \in Bufs : buf[c].dirty \in BOOLEAN
  BY SoleTypes
<1>2. /\ pc[p] = "holding" /\ buf[h].block = asked[p] /\ reqs = {}
      /\ disk' = disk /\ held' = held /\ asked' = asked
  BY DEF brelse, HeldInv, HeldBlock, Sole, At
<1>3. Shown(p) # NONE
  <2>1. Shown(p) = [block |-> asked[p], val |-> buf[h].data] /\ buf[h].data \in Vals
    BY <1>1, <1>2 DEF Shown, HeldInv, ReqsInv, TypeOK, Sole, At
  <2> QED
    BY <1>1, <2>1, BufferAssumption
<1>4. CASE buf[h].dirty = TRUE
  <2>1. /\ buf' = Raised(buf, h) /\ pc'[p] = "writing"
        /\ reqs' = {[rw |-> "WRITE", b |-> h, block |-> asked[p], by |-> p]}
    BY <1>1, <1>2, <1>4, SoleTypes DEF brelse, disk_rw, Raised
  <2>2. Raised(buf, h)[h].disk = TRUE
    BY <1>1, RaisedIs, Zenon
  <2>3. \A c \in Bufs : /\ Raised(buf, h)[c].block = buf[c].block
                        /\ Raised(buf, h)[c].data = buf[c].data
                        /\ Raised(buf, h)[c].dirty = buf[c].dirty
                        /\ Raised(buf, h)[c].valid = buf[c].valid
    BY <1>1, RaisedFields
  <2>4. Answered(p, "WRITE")'
    BY <1>2, <2>1, <2>2 DEF Answered
  <2>5. Sole(p)'
    <3>1. Placed(p)'
      BY <1>2, <2>1, <2>3, PlacedStays DEF Sole
    <3>2. OnlyDirty(p)'
      BY <1>2, <2>1, <2>3 DEF Sole, OnlyDirty
    <3>3. OnDisk(p)'
      BY <1>1, <1>2, <2>1, <2>3 DEF Sole, OnDisk
    <3>4. At(p)'
      BY <1>1, <1>2, <1>4, <2>1, <2>3, <2>4 DEF At
    <3> QED
      BY <3>1, <3>2, <3>3, <3>4 DEF Sole
  <2>6. Stored(p)' = Stored(p) /\ Shown(p)' = NONE
    BY <1>1, <1>2, <2>1, <2>3 DEF Stored, Shown
  <2> QED
    BY <1>3, <2>5, <2>6
<1>5. CASE buf[h].dirty = FALSE
  <2>1. buf' = buf /\ pc'[p] = "idle" /\ reqs' = reqs
    BY <1>5, SoleTypes DEF brelse
  <2>2. buf[h].data = disk[buf[h].block]
    BY <1>2, <1>5 DEF Sole, At
  <2>3. \A c \in Bufs : buf[c].dirty = FALSE
    BY <1>1, <1>5 DEF Sole, OnlyDirty
  <2>4. Sole(p)'
    <3>1. Placed(p)'
      BY <1>2, <2>1, PlacedStays DEF Sole
    <3>2. OnlyDirty(p)' /\ At(p)'
      BY <1>2, <2>1, <2>3 DEF OnlyDirty, At
    <3>3. OnDisk(p)'
      BY <1>1, <1>2, <2>1, <2>2 DEF Sole, OnDisk
    <3> QED
      BY <3>1, <3>2, <3>3 DEF Sole
  <2>5. Stored(p)' = Stored(p) /\ Shown(p)' = NONE
    BY <1>2, <2>1 DEF Stored, Shown
  <2> QED
    BY <1>3, <2>4, <2>5
<1> QED
  BY <1>1, <1>4, <1>5, Zenon

LEMMA brelseResumeSole ==
  ASSUME HeldInv, NEW p \in Procs, Sole(p), brelseResume(p)
  PROVE  /\ Sole(p)'
         /\ Stored(p)' = Stored(p) /\ Shown(p)' = Shown(p)
<1> DEFINE h == held[p]
           r == [buf[h] EXCEPT !.dirty = FALSE]
<1>1. /\ buf \in CacheStates /\ h \in Bufs /\ asked[p] \in Blocks
      /\ \A c \in Low : c \in Bufs
  BY SoleTypes
<1>2. /\ pc[p] = "writing" /\ pc'[p] = "idle" /\ buf' = [buf EXCEPT ![h] = r]
      /\ disk' = disk /\ held' = held /\ asked' = asked /\ reqs' = reqs
  BY SoleTypes DEF brelseResume
<1>3. /\ buf[h].data = disk[asked[p]] /\ reqs = {} /\ buf[h].dirty = TRUE
      /\ buf[h].block = asked[p]
  BY <1>2 DEF Sole, At, Answered, brelseResume, Waited, HeldInv, HeldBlock
<1>4. /\ r.data = buf[h].data /\ r.dirty = FALSE /\ r.block = buf[h].block
      /\ r.valid = buf[h].valid
  BY <1>1 DEF CacheStates, Buffer
<1> HIDE DEF r
<1>5. (\A c \in Bufs : c # h => buf'[c] = buf[c]) /\ buf'[h] = r
  BY <1>1, <1>2 DEF CacheStates
<1>6. \A c \in Bufs : /\ buf'[c].block = buf[c].block /\ buf'[c].data = buf[c].data
                      /\ buf'[c].valid = buf[c].valid
  BY <1>4, <1>5
<1>7. \A c \in Bufs : buf'[c].dirty # TRUE
  BY <1>2, <1>4, <1>5, Zenon DEF Sole, OnlyDirty
<1>8. Sole(p)'
  <2>1. Placed(p)'
    BY <1>2, <1>6, PlacedStays DEF Sole
  <2>2. OnlyDirty(p)' /\ At(p)'
    BY <1>2, <1>3, <1>7, Zenon DEF OnlyDirty, At
  <2>3. \A c \in Low : buf[c].valid = TRUE
                         => buf[c].block \in Blocks /\ buf[c].data = disk[buf[c].block]
    BY <1>1, <1>3 DEF Sole, OnDisk
  <2>4. OnDisk(p)'
    BY <1>1, <1>2, <1>6, <2>3 DEF OnDisk
  <2> QED
    BY <2>1, <2>2, <2>4 DEF Sole
<1>9. Stored(p) = disk
  BY <1>1, <1>3, SoleTypes DEF Stored
<1>10. Stored(p)' = disk
  BY <1>1, <1>2, <1>7, SoleTypes, Zenon DEF Stored
<1>11. Shown(p)' = Shown(p)
  BY <1>2 DEF Shown
<1> QED
  BY <1>8, <1>9, <1>10, <1>11

LEMMA CompleteSole ==
  ASSUME HeldInv, NEW p \in Procs, Sole(p), NEW r \in reqs, Complete(r)
  PROVE  /\ Sole(p)'
         /\ Stored(p)' = Stored(p) /\ Shown(p)' = Shown(p)
<1> DEFINE h == held[p]
<1>1. /\ buf \in CacheStates /\ h \in Bufs /\ asked[p] \in Blocks
      /\ \A c \in Low : c \in Bufs
      /\ disk \in [Blocks -> Vals] /\ NONE \notin Blocks
  BY SoleTypes, BufferAssumption DEF HeldInv, TypeOK
<1>2. /\ pc' = pc /\ held' = held /\ asked' = asked /\ reqs' = reqs \ {r}
  BY DEF Complete, procVars
<1>3. pc[p] \in {"reading", "writing"} /\ buf[h].block = asked[p]
  BY SoleTypes DEF Sole, At, HeldInv, HeldBlock
<1>4. Shown(p)' = Shown(p)
  BY <1>2, <1>3 DEF Shown
<1>5. CASE pc[p] = "reading"
  <2> DEFINE s == [buf[h] EXCEPT !.data = disk[asked[p]], !.disk = FALSE]
  <2>1. r = [rw |-> "READ", b |-> h, block |-> asked[p], by |-> p] /\ reqs' = {}
    BY <1>2, <1>5 DEF Sole, At, Answered
  <2>2. disk' = disk /\ buf' = [buf EXCEPT ![h] = s]
    <3>1. r.rw = "READ" /\ r.b = h /\ r.block = asked[p]
      BY <2>1
    <3>2. /\ disk' = disk
          /\ buf' = [buf EXCEPT ![h].data = disk[asked[p]], ![h].disk = FALSE]
      BY <3>1 DEF Complete
    <3> QED
      BY <1>1, <3>2 DEF CacheStates
  <2>3. /\ s.data = disk[asked[p]] /\ s.disk = FALSE /\ s.dirty = buf[h].dirty
        /\ s.block = buf[h].block
    BY <1>1 DEF CacheStates, Buffer
  <2> HIDE DEF s
  <2>4. (\A c \in Bufs : c # h => buf'[c] = buf[c]) /\ buf'[h] = s
    BY <1>1, <2>2 DEF CacheStates
  <2>5. \A c \in Bufs : buf'[c].block = buf[c].block /\ buf'[c].dirty = buf[c].dirty
    BY <2>3, <2>4
  <2>6. \A c \in Bufs : buf[c].dirty # TRUE
    BY <1>5, Zenon DEF Sole, OnlyDirty
  <2>7. Answered(p, "READ")'
    BY <1>2, <2>1, <2>2, <2>3, <2>4 DEF Answered
  <2>8. Sole(p)'
    <3>1. Placed(p)'
      BY <1>2, <1>5, <2>5, PlacedStays DEF Sole
    <3>2. OnlyDirty(p)' /\ At(p)'
      BY <1>2, <1>5, <2>5, <2>6, <2>7, Zenon DEF OnlyDirty, At
    <3>3. OnDisk(p)'
      BY <1>1, <1>2, <1>5, <2>2, <2>4 DEF Sole, OnDisk
    <3> QED
      BY <3>1, <3>2, <3>3 DEF Sole
  <2>9. Stored(p)' = Stored(p)
    BY <1>1, <1>2, <2>2, <2>5, <2>6 DEF Stored
  <2> QED
    BY <1>4, <2>8, <2>9
<1>6. CASE pc[p] = "writing"
  <2>1. r = [rw |-> "WRITE", b |-> h, block |-> asked[p], by |-> p] /\ reqs' = {}
    BY <1>2, <1>6 DEF Sole, At, Answered
  <2>2. disk' = [disk EXCEPT ![asked[p]] = buf[h].data] /\ buf' = Lowered(buf, h)
    BY <2>1 DEF Complete, Lowered
  <2>3. Lowered(buf, h)[h].disk = FALSE
    BY <1>1, LoweredIs, Zenon
  <2>4. \A c \in Bufs : /\ Lowered(buf, h)[c].block = buf[c].block
                        /\ Lowered(buf, h)[c].data = buf[c].data
                        /\ Lowered(buf, h)[c].dirty = buf[c].dirty
                        /\ Lowered(buf, h)[c].valid = buf[c].valid
    BY <1>1, LoweredFields
  <2>5. disk'[asked[p]] = buf[h].data /\ \A k \in Blocks : k # asked[p] => disk'[k] = disk[k]
    BY <1>1, <2>2
  <2>6. Answered(p, "WRITE")'
    BY <1>1, <1>2, <2>1, <2>2, <2>3, <2>4, <2>5 DEF Answered
  <2>7. buf[h].dirty = TRUE
    BY <1>6 DEF Sole, At
  <2>8. \A c \in Low : c # h => buf[c].block # asked[p]
    <3>1. h \in Low \/ h = BUFFER_NUM
      BY <1>1, BufferAssumption DEF Low, Bufs
    <3> QED
      BY <1>1, <1>3, <3>1 DEF Sole, Placed
  <2>9. ASSUME NEW c \in Low, c # h, buf[c].valid = TRUE
        PROVE  buf'[c].block \in Blocks /\ buf'[c].data = disk'[buf'[c].block]
    <3>1. buf[c].block \in Blocks /\ buf[c].data = disk[buf[c].block]
      BY <2>9 DEF Sole, OnDisk
    <3>2. buf[c].block # asked[p] /\ c \in Bufs
      BY <1>1, <2>8, <2>9
    <3>3. disk'[buf[c].block] = disk[buf[c].block]
      BY <2>5, <3>1, <3>2
    <3> QED
      BY <2>2, <2>4, <3>1, <3>2, <3>3
  <2>10. Sole(p)'
    <3>1. \A c \in Bufs : buf'[c].block = buf[c].block /\ buf'[c].dirty = buf[c].dirty
                          /\ buf'[c].valid = buf[c].valid
      BY <2>2, <2>4
    <3>2. Placed(p)'
      BY <1>2, <1>6, <3>1, PlacedStays DEF Sole
    <3>3. OnlyDirty(p)'
      BY <1>2, <1>6, <3>1 DEF Sole, OnlyDirty
    <3>4. OnDisk(p)'
      BY <1>1, <1>2, <1>6, <2>9, <3>1 DEF OnDisk
    <3>5. At(p)'
      BY <1>1, <1>2, <1>6, <2>6, <2>7, <3>1 DEF At
    <3> QED
      BY <3>2, <3>3, <3>4, <3>5 DEF Sole
  <2>11. Stored(p)' = Stored(p)
    BY <1>1, <1>2, <2>2, <2>4, <2>5, <2>7 DEF Stored
  <2> QED
    BY <1>4, <2>10, <2>11
<1> QED
  BY <1>3, <1>5, <1>6

LEMMA InitSole == ASSUME Init, NEW p \in Procs PROVE Sole(p)
<1>1. \A b \in Low : b \in Bufs
  BY BufferAssumption DEF Low, Bufs
<1> QED
  BY <1>1 DEF Init, Sole, Placed, OnlyDirty, OnDisk, At

SoleInv == HeldInv /\ \A p \in Procs : Sole(p)

\* What a step does to the task and to the blocks.
LEMMA NextSole ==
  ASSUME NEW p \in Procs, \A q \in Procs : q = p, HeldInv, Sole(p), [Next]_vars
  PROVE  /\ Sole(p)'
         /\ \/ Stored(p)' = Stored(p) /\ Shown(p)' = Shown(p)
            \/ /\ Stored(p)' = Stored(p) /\ Shown(p) = NONE
               /\ \E blk \in Blocks : Shown(p)' = [block |-> blk, val |-> Stored(p)[blk]]
            \/ /\ Shown(p) # NONE /\ Shown(p).block \in Blocks
               /\ \E v \in Vals : /\ Stored(p)' = [Stored(p) EXCEPT ![Shown(p).block] = v]
                                  /\ Shown(p)' = [block |-> Shown(p).block, val |-> v]
            \/ Stored(p)' = Stored(p) /\ Shown(p) # NONE /\ Shown(p)' = NONE
<1>1. CASE UNCHANGED vars
  <2>1. Sole(p)'
    BY <1>1 DEF vars, procVars, Sole, Placed, OnlyDirty, OnDisk, At, Answered
  <2>2. Stored(p)' = Stored(p) /\ Shown(p)' = Shown(p)
    BY <1>1 DEF vars, procVars, Stored, Shown
  <2> QED
    BY <2>1, <2>2
<1>2. CASE \E blk \in Blocks : bread(p, blk)
  BY <1>2, breadSole
<1>3. CASE breadResume(p)
  BY <1>3, breadResumeSole, SoleTypes
<1>4. CASE \E v \in Vals : bwrite(p, v)
  BY <1>4, bwriteSole, SoleTypes
<1>5. CASE brelse(p)
  BY <1>5, brelseSole
<1>6. CASE brelseResume(p)
  BY <1>6, brelseResumeSole
<1>7. CASE \E r \in reqs : Complete(r)
  BY <1>7, CompleteSole
<1> QED
  BY <1>1, <1>2, <1>3, <1>4, <1>5, <1>6, <1>7 DEF Next, Call

LEMMA SoleKept == ASSUME Alone PROVE SoleInv /\ [Next]_vars => SoleInv'
<1> SUFFICES ASSUME SoleInv, [Next]_vars PROVE SoleInv'
  OBVIOUS
<1>1. HeldInv'
  BY NextHeld DEF SoleInv
<1>2. ASSUME NEW p \in Procs PROVE Sole(p)'
  <2>1. \A q \in Procs : q = p
    BY DEF Alone
  <2> QED
    BY <2>1, NextSole DEF SoleInv
<1> QED
  BY <1>1, <1>2 DEF SoleInv

LEMMA SoleRefines ==
  ASSUME Alone, SoleInv, SoleInv', [Next]_vars
  PROVE  [Cache!StoreNext]_<<Store, View>>
<1>1. CASE Procs = {}
  <2>1. reqs = {}
    BY <1>1 DEF SoleInv, HeldInv, TypeOK, Request
  <2>2. UNCHANGED vars
    BY <1>1, <2>1 DEF Next
  <2>3. Store' = Store
    BY <2>2 DEF vars, Store
  <2>4. View' = View
    BY <2>2 DEF vars, procVars, View
  <2> QED
    BY <2>3, <2>4
<1>2. ASSUME NEW p \in Procs PROVE [Cache!StoreNext]_<<Store, View>>
  <2>1. Procs = {p} /\ HeldInv /\ Sole(p) /\ HeldInv' /\ Sole(p)'
    BY DEF Alone, SoleInv
  <2>2. Store = Stored(p) /\ View = [q \in Procs |-> Shown(p)]
    BY <2>1, StoredIsStore DEF View, Shown
  <2>3. Store' = Stored(p)' /\ View' = [q \in Procs |-> Shown(p)']
    <3>1. (HeldInv /\ Sole(p) => Store = Stored(p))'
      BY StoredIsStore, PTL
    <3> QED
      BY <2>1, <3>1 DEF View, Shown
  <2>4. View[p] = Shown(p) /\ \A x : View' = [q \in Procs |-> x] => View' = [View EXCEPT ![p] = x]
    BY <2>1, <2>2
  <2>5. CASE Stored(p)' = Stored(p) /\ Shown(p)' = Shown(p)
    BY <2>2, <2>3, <2>5
  <2>6. ASSUME Stored(p)' = Stored(p), Shown(p) = NONE,
               NEW blk \in Blocks, Shown(p)' = [block |-> blk, val |-> Stored(p)[blk]]
        PROVE  Cache!StoreNext
    <3>1. Cache!Get(p, blk)
      BY <2>2, <2>3, <2>4, <2>6 DEF Cache!Get
    <3> QED
      BY <3>1 DEF Cache!StoreNext
  <2>7. ASSUME Shown(p) # NONE, NEW v \in Vals,
               Stored(p)' = [Stored(p) EXCEPT ![Shown(p).block] = v],
               Shown(p)' = [block |-> Shown(p).block, val |-> v]
        PROVE  Cache!StoreNext
    <3>1. Cache!Put(p, v)
      BY <2>1, <2>2, <2>3, <2>4, <2>7 DEF Cache!Put
    <3> QED
      BY <3>1 DEF Cache!StoreNext
  <2>8. CASE Stored(p)' = Stored(p) /\ Shown(p) # NONE /\ Shown(p)' = NONE
    <3>1. Cache!Release(p)
      BY <2>2, <2>3, <2>4, <2>8 DEF Cache!Release
    <3> QED
      BY <3>1 DEF Cache!StoreNext
  <2> QED
    BY <2>1, <2>5, <2>6, <2>7, <2>8, NextSole
<1> QED
  BY <1>1, <1>2

\* With one task that reads and writes, the cache implements the block store:
\* bwrite() and the write-back in brelse() lose nothing, for any number of
\* buffers and blocks, although the last buffer keeps old copies.
THEOREM WriterIsCoherent == ASSUME Alone PROVE Spec => Coherent
<1>1. Init => SoleInv
  BY InitHeld, InitSole DEF SoleInv
<1>2. SoleInv /\ [Next]_vars => SoleInv'
  BY SoleKept
<1>3. Init => Cache!StoreInit
  <2> SUFFICES ASSUME Init PROVE Cache!StoreInit
    OBVIOUS
  <2>1. \A blk \in Blocks : {b \in Bufs : buf[b].block = blk /\ buf[b].dirty} = {}
    BY DEF Init
  <2>2. Store = disk
    <3>1. disk \in [Blocks -> Vals]
      BY DEF Init
    <3> QED
      BY <2>1, <3>1 DEF Store
  <2>3. View = [p \in Procs |-> NONE]
    BY DEF Init, View
  <2> QED
    BY <2>2, <2>3 DEF Init, Cache!StoreInit
<1>4. SoleInv /\ SoleInv' /\ [Next]_vars => [Cache!StoreNext]_<<Store, View>>
  BY SoleRefines
<1> QED
  BY <1>1, <1>2, <1>3, <1>4, PTL DEF Spec, Coherent, Cache!StoreSpec
=============================================================================
