------------------------------- MODULE Malloc -------------------------------
(***************************************************************************)
(* The bucket allocator of 404OS, mm/malloc.c, over the page allocator.    *)
(* Every bucket holds objects of one size in a list of pages; a block      *)
(* descriptor says which objects of its page are free and how many are in  *)
(* use.  Descriptors come from pages that are never given back.            *)
(***************************************************************************)
EXTENDS PageAlloc, Sequences, SequencesExt, FiniteSetsExt

CONSTANTS
  SIZES,       \* the object sizes of block_dir
  PAGE_SIZE,   \* the size of a page
  NDESC        \* block descriptors in a page

ASSUME MallocAssumption ==
  /\ PAGE_SIZE \in Nat \ {0}
  /\ SIZES \subseteq 1 .. PAGE_SIZE
  /\ NDESC \in Nat \ {0}

VARIABLES
  list,      \* size -> the pages in the bucket's list of descriptors
  freeptr,   \* page -> its free objects, in the order of the links in them
  blocnt,    \* page -> its objects in use
  ndesc,     \* the length of free_block_desc
  live,      \* the objects <<page, n>> the callers hold
  halted     \* "no", or the call that ended in panic()

bucketVars == <<list, freeptr, blocnt, ndesc>>
mallocVars == <<pageVars, bucketVars, live, halted>>

MallocInit ==
  /\ Init_page
  /\ list = [s \in SIZES |-> << >>]
  /\ freeptr = [p \in Pages |-> << >>]
  /\ blocnt = [p \in Pages |-> 0]
  /\ ndesc = 0
  /\ live = {}
  /\ halted = "no"

panic(call) ==
  /\ halted' = call
  /\ UNCHANGED <<pageVars, bucketVars, live>>

Page(p) == [start |-> p, npages |-> 1]

-----------------------------------------------------------------------------
(* _malloc_() *)

\* The bucket is the first with objects of at least this length, none for a
\* length beyond a page.
Bucket(length) == {s \in SIZES : s >= length /\ \A t \in SIZES : t >= length => s <= t}

\* The first page of the list with a free object.
Usable(s) ==
  {n \in DOMAIN list[s] :
     /\ freeptr[list[s][n]] # << >>
     /\ \A m \in 1 .. n - 1 : freeptr[list[s][m]] = << >>}

\* Mutant: the object stays in the list of free ones.
Handout_no_pop(p, objs, cnt) ==
  /\ live' = live \cup {<<p, Head(objs)>>}
  /\ freeptr' = [freeptr EXCEPT ![p] = objs]
  /\ blocnt' = [blocnt EXCEPT ![p] = cnt + 1]

\* The first of the free objects objs of page p goes to the caller.
Handout(p, objs, cnt) ==
  /\ live' = live \cup {<<p, Head(objs)>>}
  /\ freeptr' = [freeptr EXCEPT ![p] = Tail(objs)]
  /\ blocnt' = [blocnt EXCEPT ![p] = cnt + 1]

\* A new page for bucket s, cut into objects.  Without descriptors
\* Init_block_desc() takes a page D for them first.
NewPage(s) ==
  \E D \in IF ndesc = 0 THEN Found(heap, 1) ELSE {NUM_PAGES} :
    LET H == IF ndesc = 0 THEN page_alloc(heap, D, 1) ELSE heap
    IN \E P \in Found(H, 1) :
         /\ heap' = page_alloc(H, P, 1)
         /\ blocks' = blocks \cup {Page(q) : q \in {D, P} \cap Pages}
         /\ ndesc' = (IF ndesc = 0 THEN NDESC ELSE ndesc) - 1
         /\ list' = [list EXCEPT ![s] = <<P>> \o @]
         /\ Handout(P, [n \in 1 .. PAGE_SIZE \div s |-> n], 0)

OutOfPages == Cardinality(Pages \ heap.taken) < (IF ndesc = 0 THEN 2 ELSE 1)

malloc(length) ==
  /\ halted = "no"
  /\ IF Bucket(length) = {} THEN panic("bad arg")
     ELSE \E s \in Bucket(length) :
       IF Usable(s) # {}
       THEN /\ \E n \in Usable(s) :
                 LET p == list[s][n] IN Handout(p, freeptr[p], blocnt[p])
            /\ UNCHANGED <<pageVars, list, ndesc, halted>>
       ELSE IF OutOfPages THEN panic("out of memory")
       ELSE NewPage(s) /\ UNCHANGED halted

-----------------------------------------------------------------------------
(* _free_() *)

\* Where the search over all buckets finds the descriptor of page p.
Holding(p) == {h \in SIZES \X (1 .. NUM_PAGES) :
                 h[2] \in DOMAIN list[h[1]] /\ list[h[1]][h[2]] = p}

\* The list L without its entry n.  The first entry is unlinked as it should
\* be.  For a later one the loop that looks for the entry before it assigns
\* where it means to compare, prev->next = bdesc, and so stops at the first
\* entry: everything between the first entry and n goes as well.
Unlink(L, n) ==
  IF n = 1 THEN Tail(L) ELSE <<L[1]>> \o SubSeq(L, n + 1, Len(L))

\* Mutant: the page is given back while one object is still in use.
Emptied_early(cnt) == cnt <= 1

\* Is the page given back with cnt objects still in use?
Emptied(cnt) == cnt = 0

free(o) ==
  LET p == o[1] IN
  /\ halted = "no"
  /\ o \in live
  /\ IF Holding(p) = {} THEN panic("free")
     ELSE \E h \in Holding(p) :
       LET s == h[1]
           n == h[2]
           cnt == blocnt[p] - 1
       IN /\ live' = live \ {o}
          /\ blocnt' = [blocnt EXCEPT ![p] = cnt]
          /\ IF Emptied(cnt)
             THEN /\ list' = [list EXCEPT ![s] = Unlink(@, n)]
                  /\ heap' = page_free(heap, p)
                  /\ blocks' = blocks \ {Page(p)}
                  /\ freeptr' = [freeptr EXCEPT ![p] = << >>]
                  /\ ndesc' = ndesc + 1
             ELSE /\ freeptr' = [freeptr EXCEPT ![p] = <<o[2]>> \o @]
                  /\ UNCHANGED <<pageVars, list, ndesc>>
          /\ UNCHANGED halted

MallocNext ==
  \/ \E length \in 1 .. PAGE_SIZE + 1 : malloc(length)
  \/ \E o \in live : free(o)

MallocSpec == MallocInit /\ [][MallocNext]_mallocVars

-----------------------------------------------------------------------------
(* Properties *)

\* Variables have their types.
MallocTypeOK ==
  /\ PageTypeOK
  /\ list \in [SIZES -> Seq(Pages)]
  /\ freeptr \in [Pages -> Seq(1 .. PAGE_SIZE)]
  /\ blocnt \in [Pages -> 0 .. PAGE_SIZE]
  /\ ndesc \in 0 .. NDESC * NUM_PAGES
  /\ live \subseteq Pages \X (1 .. PAGE_SIZE)
  /\ halted \in {"no", "bad arg", "out of memory", "free"}

LiveIn(p) == {n \in 1 .. PAGE_SIZE : <<p, n>> \in live}

\* malloc() never hands out an object that is in use: in every page the objects
\* in use are not in its free list, that list has no object twice, and
\* blocnt counts them.
ObjectsApart ==
  /\ MallocTypeOK
  /\ \A p \in Pages :
       /\ LiveIn(p) \cap ToSet(freeptr[p]) = {}
       /\ IsInjective(freeptr[p])
       /\ blocnt[p] = Cardinality(LiveIn(p))

\* An object in use lies in a page that malloc() still holds, and a page
\* belongs to one bucket only: page_free() takes no memory away from a caller.
LivePagesHeld ==
  /\ \A o \in live : Page(o[1]) \in blocks
  /\ \A p \in Pages : Cardinality(Holding(p)) <= 1

\* _free_() says "error adress passed to _free_ ()" only of an address that
\* malloc() did not return.
FreeFindsPage == halted # "free"
=============================================================================
