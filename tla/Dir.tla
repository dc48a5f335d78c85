-------------------------------- MODULE Dir --------------------------------
(***************************************************************************)
(* Directories of the FAT32 file system: fs/fat32_inode.c, the stack of    *)
(* fs/fat32_stack.c and fat32_getdents() of fs/fat32_file.c.  A directory  *)
(* is a sequence of slots, FCB_PER_BLOCK to a sector.  A name is a         *)
(* sequence of characters.  The machine that makes the disk image, which   *)
(* is not part of the system, adds and removes names in the ways FAT32     *)
(* allows; the kernel looks names up, creates and deletes them.            *)
(***************************************************************************)
EXTENDS Integers, Sequences, FiniteSets, SequencesExt

CONSTANTS
  Names,           \* the names in use
  Alias,           \* name -> the 11 characters of its short entry
  ShortOnly,       \* the names that have no long entries
  FCB_PER_BLOCK,   \* slots in a sector
  LFN,             \* FAT_LFN_LENGTH: characters in a long entry
  CAPACITY,        \* height of the stack
  SlotMax,         \* bound of the model: slots of the directory
  Removes,         \* whether the other machine removes names
  Calls,           \* the calls of the kernel that are made
  Garbage          \* characters an array that is not initialised may contain

VARIABLES
  dir,      \* the slots
  where,    \* history: name -> the slot of its short entry, or 0
  halted    \* a panic or a fault

vars == <<dir, where, halted>>

MinOf(a, b) == IF a <= b THEN a ELSE b

-----------------------------------------------------------------------------
(* Slots.  The first byte says that a slot is free: 0xE5, dead, or 0x00, end *)

End == [t |-> "end", dead |-> FALSE]
Short(name, attr) == [t |-> "short", dead |-> FALSE, name |-> name, attr |-> attr]
Long(ord, chk, chars) ==
  [t |-> "long", dead |-> FALSE, ord |-> ord, chk |-> chk, chars |-> chars]

NAME0_FREE_ALL(e) == e.t = "end"
NAME0_FREE_BOOL(e) == NAME0_FREE_ALL(e) \/ e.dead
LONG_NAME_BOOL(e) == e.t = "long"
LAST_LONG_ENTRY_BOOL(ord) == (ord \div 64) % 2 = 1

\* The first byte of a slot that is not free: the order or the first letter.
Name0(e) == IF LONG_NAME_BOOL(e) THEN e.ord ELSE e.name[1]

Dot == 46
Tilde == 126
Space == 32

\* strncmp() never moves on from the first characters.
namecmp(s, t) == IF s = <<>> \/ t = <<>> THEN (IF s = t THEN 0 ELSE 1) ELSE s[1] - t[1]

ChkSum(name) ==
  LET rotated(s) == (IF s % 2 = 1 THEN 128 ELSE 0) + s \div 2
      sum[i \in 0 .. 11] == IF i = 0 THEN 0 ELSE (rotated(sum[i - 1]) + name[i]) % 256
  IN  sum[11]

-----------------------------------------------------------------------------
(* Names out of slots *)

\* Mutant: entries are put together in the order they have on the disk.
Joined_order(name, chars) == chars \o name

Joined(name, chars) == name \o chars

\* fat32_longname_popstack(): entries are popped until the stack is empty or
\* one of them does not fit; the rest stays on the stack.
popstack(stack, short) ==
  LET chk == ChkSum(short)
      pop[k \in 0 .. Len(stack)] ==
        IF k = 0 THEN [ok |-> TRUE, h |-> Len(stack), ord |-> 0, name |-> <<>>]
        ELSE LET r == pop[k - 1] IN
             IF ~r.ok THEN r
             ELSE LET e == stack[r.h] IN
                  [ok |-> /\ r.h = 1 \/ k = e.ord
                          /\ e.chk = chk,
                   h |-> r.h - 1, ord |-> e.ord, name |-> Joined(r.name, e.chars)]
      end == pop[Len(stack)]
  IN  [valid |-> stack # <<>> /\ end.ok /\ LAST_LONG_ENTRY_BOOL(end.ord),
       name |-> end.name, rest |-> SubSeq(stack, 1, end.h)]

short_name_parser(name) ==
  LET Solid(s) == SelectSeq(s, LAMBDA c : c # Space)
  IN  Solid(SubSeq(name, 1, 8)) \o
      IF name[9] = Space THEN <<>> ELSE <<Dot>> \o Solid(SubSeq(name, 9, 11))

\* The loop that dirlookup() and getdents() share.  A slot of a long name is
\* pushed, a short entry takes the stack, and off is counted once more when
\* the pushing ends with the sector.  The end mark is not seen behind a long
\* entry of the same sector.
Scan(d) ==
  LET Step(r, k) ==
        LET e == d[k]
            edge == k % FCB_PER_BLOCK = 0
            p == popstack(r.stack, e.name)
        IN  IF r.done THEN r
            ELSE IF LONG_NAME_BOOL(e)
            THEN [r EXCEPT !.stack = Append(@, e), !.off = @ + (IF edge THEN 2 ELSE 1),
                           !.pushed = ~edge, !.over = Len(r.stack) = CAPACITY,
                           !.done = Len(r.stack) = CAPACITY]
            ELSE IF NAME0_FREE_BOOL(e)
            THEN [r EXCEPT !.off = @ + 1, !.pushed = FALSE,
                           !.done = NAME0_FREE_ALL(e) /\ ~r.pushed]
            ELSE [r EXCEPT !.off = @ + 1, !.pushed = FALSE, !.stack = p.rest,
                           !.items = Append(@, [slot |-> k, off |-> r.off,
                             name |-> IF p.valid THEN p.name ELSE short_name_parser(e.name)])]
      scan[k \in 0 .. Len(d)] ==
        IF k = 0 THEN [stack |-> <<>>, off |-> 0, pushed |-> FALSE, done |-> FALSE,
                       over |-> FALSE, items |-> <<>>]
        ELSE Step(scan[k - 1], k)
  IN  scan[Len(d)]

\* fat32_inode_dirlookup(): the entry found, in a set.
dirlookup(d, name) ==
  LET items == Scan(d).items
      Hit == {i \in DOMAIN items : namecmp(name, items[i].name) = 0}
  IN  {items[i] : i \in {j \in Hit : \A k \in Hit : j <= k}}

\* The length of a record of getdents(), and of all of them.
dirent_len(name) == 8 + 8 + 1 + 2 + Len(name) + 1
getdents == FoldLeft(LAMBDA n, it : n + dirent_len(it.name), 0, Scan(dir).items)

-----------------------------------------------------------------------------
(* Slots out of names *)

Upper(s) == [i \in DOMAIN s |-> IF s[i] \in 97 .. 122 THEN s[i] - 32 ELSE s[i]]
Padded(s, n, c) == [i \in 1 .. n |-> IF i <= Len(s) THEN s[i] ELSE c]

\* fat32_find_same_name_cnt()
find_same_name_cnt(name) ==
  LET Ends == {k \in DOMAIN dir : NAME0_FREE_ALL(dir[k])}
  IN  Cardinality({k \in DOMAIN dir :
        /\ \A j \in Ends : k < j
        /\ ~LONG_NAME_BOOL(dir[k]) /\ ~NAME0_FREE_BOOL(dir[k])
        /\ namecmp(dir[k].name, name) = 0 /\ dir[k].name[7] = Tilde})

\* The short name fcb_init() makes.  What str_split() copies has no end, and
\* g is what follows it in the array.
ShortName(name, isdir, g) ==
  LET Dots == {i \in DOMAIN name : name[i] = Dot}
      p == CHOOSE i \in Dots : \A j \in Dots : i <= j
      split == ~isdir /\ Dots # {}
      base == IF split THEN Padded(SubSeq(name, 1, p - 1), 8, g) ELSE Padded(name, 8, 0)
      ext == IF split THEN Padded(SubSeq(name, p + 1, Len(name)), 3, IF g = 0 THEN Space ELSE g)
             ELSE Padded(<<>>, 3, IF isdir /\ Len(name) <= 8 THEN 0 ELSE Space)
      full == Upper(base \o ext)
  IN  IF Len(name) <= 8 THEN full
      ELSE [full EXCEPT ![7] = Tilde, ![8] = find_same_name_cnt(full) + 49]

Order(i, n) == IF i = n THEN 64 + i ELSE i

CeilDiv(a, b) == (a + b - 1) \div b

\* The slots for a name and its short name, the last part of the name first.
\* Names that begin with a dot are taken for "." and "..".
Slots(name, short, attr) ==
  LET n == CeilDiv(Len(name), LFN)
      Part(i) == SubSeq(name, (i - 1) * LFN + 1, MinOf(i * LFN, Len(name)))
  IN  [k \in 1 .. n |-> Long(Order(n + 1 - k, n), ChkSum(short), Part(n + 1 - k))]
        \o <<Short(short, attr)>>

fcb_init(name, attr, g) ==
  IF namecmp(name, <<Dot>>) = 0 THEN <<Short(Padded(name, 11, 0), attr)>>
  ELSE Slots(name, ShortName(name, attr = 16, g), attr)

\* Mutant: the count of free slots is not set back at one in use.
Run_kept(r, k) ==
  [r EXCEPT !.final = Len(dir)]

Run_broken(r, k) == [r EXCEPT !.free = 0, !.final = Len(dir)]

\* fat32_dir_fcb_insert_offset(): counted from 0.
insert_offset(req) ==
  LET Step(r, k) ==
        IF r.free = req THEN r
        ELSE IF ~NAME0_FREE_BOOL(dir[k]) THEN Run_broken(r, k)
        ELSE [free |-> r.free + 1, final |-> IF r.free = 0 THEN k - 1 ELSE r.final]
      run[k \in 0 .. Len(dir)] ==
        IF k = 0 THEN [free |-> 0, final |-> 0] ELSE Step(run[k - 1], k)
  IN  run[Len(dir)].final

Looked == DOMAIN dir

\* fat32_isdirempty()
isdirempty ==
  \A k \in Looked : ~NAME0_FREE_BOOL(dir[k]) => Name0(dir[k]) = Dot

-----------------------------------------------------------------------------
(* The other machine *)

Init ==
  /\ dir = <<Short(Padded(<<Dot>>, 11, Space), 16), Short(Padded(<<Dot, Dot>>, 11, Space), 16)>>
             \o [k \in 1 .. 2 * FCB_PER_BLOCK - 2 |-> End]
  /\ where = [n \in Names |-> 0]
  /\ halted = FALSE

Entries(n) == IF n \in ShortOnly THEN <<Short(Alias[n], 32)>> ELSE Slots(n, Alias[n], 32)

\* A name is written into free slots in a row, no end mark before them.
HostAdd(n) ==
  LET es == Entries(n)
  IN  /\ where[n] = 0
      /\ \E r \in 0 .. Len(dir) - Len(es) :
           /\ \A k \in 1 .. r : ~NAME0_FREE_ALL(dir[k])
           /\ \A k \in r + 1 .. r + Len(es) : NAME0_FREE_BOOL(dir[k])
           /\ dir' = [k \in DOMAIN dir |-> IF k \in r + 1 .. r + Len(es) THEN es[k - r] ELSE dir[k]]
           /\ where' = [where EXCEPT ![n] = r + Len(es)]
      /\ UNCHANGED halted

\* A directory that is full gets a cluster of one sector more.
HostGrow ==
  /\ Len(dir) + FCB_PER_BLOCK <= SlotMax
  /\ \A k \in DOMAIN dir : ~NAME0_FREE_ALL(dir[k])
  /\ dir' = dir \o [k \in 1 .. FCB_PER_BLOCK |-> End]
  /\ UNCHANGED <<where, halted>>

\* The first byte of each slot becomes 0xE5, the order of a long entry.
Dead(e) == IF LONG_NAME_BOOL(e) THEN [e EXCEPT !.dead = TRUE, !.ord = 229]
           ELSE [e EXCEPT !.dead = TRUE]

HostRemove(n) ==
  LET w == where[n]
  IN  /\ Removes /\ w # 0
      /\ dir' = [k \in DOMAIN dir |->
                   IF k \in w - Len(Entries(n)) + 1 .. w THEN Dead(dir[k]) ELSE dir[k]]
      /\ where' = [where EXCEPT ![n] = 0]
      /\ UNCHANGED halted

-----------------------------------------------------------------------------
(* The calls of the kernel *)

AttrOf(e) == CASE e.t = "end" -> 0 [] e.t = "long" -> 15 [] OTHER -> e.attr

\* The directory after a write of slots up to at.
Grown(at) == IF at <= Len(dir) THEN dir ELSE dir \o [k \in 1 .. FCB_PER_BLOCK |-> End]

\* The slot insert_offset() gives the short entry of a new name.
ShortSlot(n) == LET es == fcb_init(n, 32, 0) IN insert_offset(Len(es)) + Len(es)

\* fat32_inode_create() with fat32_inode_alloc().  A name that is found is
\* left alone, after a load that panics without an attribute.  Else the slots
\* are written back as they are, since inode_write() copies nothing, after
\* the directory got a zeroed cluster when they are past its end; then the
\* short slot is loaded.  Nothing depends on the attribute of the new slots.
inode_create(n) ==
  LET at == ShortSlot(n)
  IN  /\ "create" \in Calls
      /\ at <= SlotMax
      /\ IF dirlookup(dir, n) # {}
         THEN /\ halted' = \E it \in dirlookup(dir, n) : AttrOf(dir[it.slot]) = 0
              /\ UNCHANGED dir
         ELSE /\ halted' = (Scan(dir).over \/ AttrOf(Grown(at)[at]) = 0)
              /\ dir' = Grown(at)
      /\ UNCHANGED where

\* Mutant: the place in its sector is taken for the place in the directory.
Owner_first(it) == ((it.slot - 1) % FCB_PER_BLOCK) + 1

\* i_ino was made from the place of the short entry.
Owner(it) == it.slot

\* fat32_inode_put() of an inode without links, found by it: inode_delete()
\* writes the slots back as they are, inode_update() takes the attribute.
inode_delete(n) ==
  /\ "delete" \in Calls
  /\ \E it \in dirlookup(dir, n) :
       LET len == CeilDiv(Len(n), LFN) IN
       IF AttrOf(dir[it.slot]) # 0 /\ it.off - len > 0 /\ it.off < Len(dir)
       THEN /\ dir' = [dir EXCEPT ![Owner(it)].attr = 0]
            /\ UNCHANGED halted
       ELSE /\ halted' = TRUE
            /\ UNCHANGED dir
  /\ UNCHANGED where

\* fat32_inode_dirlink(): without an inode its count of links is a fault.
inode_dirlink(n) ==
  /\ "link" \in Calls
  /\ halted' = (dirlookup(dir, n) = {})
  /\ UNCHANGED <<dir, where>>

Kernel(n) ==
  \/ inode_create(n)
  \/ inode_delete(n)
  \/ inode_dirlink(n)

Next ==
  /\ ~halted
  /\ \/ \E n \in Names : HostAdd(n) \/ HostRemove(n) \/ Kernel(n)
     \/ HostGrow

Spec == Init /\ [][Next]_vars

-----------------------------------------------------------------------------
(* Properties *)

\* Variables have their types: where points at live short entries.
TypeOK ==
  /\ Len(dir) \in 1 .. SlotMax
  /\ \A n \in Names : where[n] # 0 =>
       where[n] <= Len(dir) /\ dir[where[n]].t = "short" /\ ~dir[where[n]].dead
  /\ halted \in BOOLEAN

\* dirlookup() finds a name exactly when it is there, and its own slot, for
\* names that differ in their first characters: long names over several slots
\* and sectors are put together, and the stack never runs full.
LookupExact ==
  \A n \in Names :
    {it.slot : it \in dirlookup(dir, n)} = {where[n]} \ {0} /\ ~Scan(dir).over

\* getdents() lists the names that are there, in their order, and no other.
ListsAll ==
  LET seen == SelectSeq(Scan(dir).items, LAMBDA it : it.name[1] # Dot)
  IN  /\ {it.name : it \in Range(seen)} = {n \in Names : where[n] # 0}
      /\ \A i, j \in DOMAIN seen : i < j => seen[i].slot < seen[j].slot

\* The place insert_offset() gives for a name is free as far as the directory
\* goes, and no end mark before it hides it from a lookup.
InsertFits ==
  \A req \in 1 .. 4 :
    LET r == insert_offset(req)
    IN  /\ r <= Len(dir)
        /\ \A k \in DOMAIN dir : k > r /\ k <= r + req => NAME0_FREE_BOOL(dir[k])
        /\ \A k \in 1 .. r : ~NAME0_FREE_ALL(dir[k])

\* isdirempty() says whether there are names other than "." and "..".
EmptyExact == isdirempty <=> \A n \in Names : where[n] = 0

\* The slots fcb_init() makes for a name, whatever was in its arrays, are read
\* back as that name by popstack(): order, checksum and parts agree.
FcbRoundTrip ==
  \A n \in Names, attr \in {16, 32}, g \in Garbage :
    LET es == fcb_init(n, attr, g)
        p == popstack(SubSeq(es, 1, Len(es) - 1), Last(es).name)
    IN  p.valid /\ p.name = n /\ p.rest = <<>>

\* A call of the kernel for one name changes no slot but the short entry of
\* that name, whatever place parent_off says it has.
KeepsOthers ==
  \A n \in Names : Kernel(n) => \A k \in DOMAIN dir \ {where[n]} : dir'[k] = dir[k]
OthersUntouched == [][KeepsOthers]_vars

\* parent_off is the "offset in parent clusters" of the short entry
\* (fat32_mem.h), the one inode_delete() works with.
OffsetRight == \A it \in Range(Scan(dir).items) : it.off = it.slot - 1

\* A name that create() returns an inode for is there: inode_write() writes "n
\* bytes of src" (its comment).
CreateFindable ==
  \A n \in Names :
    LET at == ShortSlot(n)
    IN  at <= SlotMax /\ dirlookup(dir, n) = {} /\ AttrOf(Grown(at)[at]) # 0
          => dirlookup(Grown(at), n) # {}

\* inode_delete() deletes the inode from its parent (its comment).
DeletedGone == [][\A n \in Names : inode_delete(n) => dirlookup(dir', n) = {}]_vars

\* getdents() keeps to a buffer of len bytes (its comment), here 64.
ListFits == getdents <= 64
=============================================================================
