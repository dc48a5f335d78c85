----------------------------- MODULE PageAlloc -----------------------------
(***************************************************************************)
(* The page allocator of 404OS, mm/page.c: first fit over an array of page *)
(* descriptors.  A block is known only by its first page: page_free()      *)
(* finds its end by the flag PAGE_LAST.                                    *)
(***************************************************************************)
EXTENDS Integers

CONSTANTS
  NUM_PAGES,   \* _num_pages
  MAX_NPAGES   \* the longest block a caller asks for

\* A longer request would make _num_pages - npages wrap, it is unsigned.
ASSUME PageAssumption ==
  /\ NUM_PAGES \in Nat \ {0}
  /\ MAX_NPAGES \in 1 .. NUM_PAGES

Pages == 0 .. NUM_PAGES - 1

VARIABLES
  heap,    \* [taken, last]: the pages with PAGE_TAKEN and with PAGE_LAST
  blocks   \* the blocks [start, npages] the callers hold

pageVars == <<heap, blocks>>

\* Init_page()
Init_page ==
  /\ heap = [taken |-> {}, last |-> {}]
  /\ blocks = {}

-----------------------------------------------------------------------------
(* The functions of mm/page.c on a heap H *)

\* The npages pages from i on are free.
Fits(H, i, npages) ==
  /\ i \in 0 .. NUM_PAGES - npages
  /\ \A j \in i .. i + npages - 1 : j \notin H.taken

\* The page where page_alloc() finds a block, or none.
Found(H, npages) ==
  {i \in Pages : Fits(H, i, npages) /\ \A k \in 0 .. i - 1 : ~Fits(H, k, npages)}

\* Mutant: the end of the block is not marked.
page_alloc_no_last(H, i, npages) ==
  [H EXCEPT !.taken = @ \cup (i .. i + npages - 1)]

page_alloc(H, i, npages) ==
  [taken |-> H.taken \cup (i .. i + npages - 1),
   last  |-> H.last \cup {i + npages - 1}]

\* The pages the loop of page_free() clears.
Cleared(H, p) ==
  {q \in Pages : /\ q >= p
                 /\ p .. q \subseteq H.taken
                 /\ \A k \in p .. q - 1 : k \notin H.last}

page_free(H, p) ==
  [taken |-> H.taken \ Cleared(H, p), last |-> H.last \ Cleared(H, p)]

-----------------------------------------------------------------------------
(* Any caller *)

Alloc(n) ==
  \E i \in Found(heap, n) :
    /\ heap' = page_alloc(heap, i, n)
    /\ blocks' = blocks \cup {[start |-> i, npages |-> n]}

\* page_alloc() returns NULL.
AllocFails(n) ==
  /\ Found(heap, n) = {}
  /\ UNCHANGED pageVars

Free(b) ==
  /\ heap' = page_free(heap, b.start)
  /\ blocks' = blocks \ {b}

PageNext ==
  \/ \E n \in 1 .. MAX_NPAGES : Alloc(n) \/ AllocFails(n)
  \/ \E b \in blocks : Free(b)

PageSpec == Init_page /\ [][PageNext]_pageVars

-----------------------------------------------------------------------------
(* Properties *)

PageTypeOK ==
  /\ heap \in [taken : SUBSET Pages, last : SUBSET Pages]
  /\ blocks \subseteq [start : Pages, npages : 1 .. NUM_PAGES]

PagesOf(b) == b.start .. b.start + b.npages - 1

\* The flags describe exactly the blocks that are held: no two of them share a
\* page, every page of a block is taken, and PAGE_LAST is on the last page of
\* each, so that page_free() gives back the whole block and nothing else.
BlocksIntact ==
  /\ \A b, c \in blocks : b # c => PagesOf(b) \cap PagesOf(c) = {}
  /\ heap.taken = UNION {PagesOf(b) : b \in blocks}
  /\ heap.last = {b.start + b.npages - 1 : b \in blocks}
=============================================================================
