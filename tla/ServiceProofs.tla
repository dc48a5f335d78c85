----------------------------- MODULE ServiceProofs -----------------------------
(***************************************************************************)
(* The services that every part of the kernel calls.  The page allocator   *)
(* keeps the flags and the blocks in agreement, for every number of pages  *)
(* and every length of block; the bucket allocator over it hands out no    *)
(* object twice and gives no page back that a caller still uses, for every *)
(* number of pages and every set of sizes.  A call of printf() or printk() *)
(* prints its own text, and a kernel that only calls printk() never spins, *)
(* for every number of tasks and every length of a text.                   *)
(***************************************************************************)
EXTENDS Malloc, Console, FiniteSetTheorems, SequenceTheorems, TLAPS

(* The console *)

\* The call of c has the lock.
Inside(c) == call[c].at \in {"format", "puts", "unlock"}

\* There are characters left to format or to put.
IndexInv == \A c \in Ctxs : call[c].at \in {"format", "puts"} => call[c].i < LEN

\* A lock is 1 exactly while a call has it, and one call has it.
LockInv ==
  /\ \A c, e \in Ctxs : Inside(c) /\ Inside(e) /\ call[c].dev = call[e].dev => c = e
  /\ \A c \in Ctxs : Inside(c) => lock[call[c].dev] = 1
  /\ \A d \in Devs : lock[d] = 1 => \E c \in Ctxs : Inside(c) /\ call[c].dev = d

\* What a call has formatted is in its buffer.
TextInv ==
  \A c \in Ctxs :
    /\ call[c].at = "format" => \A j \in 1 .. call[c].i : buf[call[c].dev][j] = c
    /\ call[c].at = "puts" => \A j \in 1 .. LEN : buf[call[c].dev][j] = c

\* A call in the kernel is the running task's, and uses printk().
KernelInv ==
  /\ \A p \in Procs :
       call[<<p, "kernel">>].at # "out" => cur = p /\ mode[p] = "kernel"
  /\ \A c \in Ctxs : KernelPrintf = FALSE /\ call[c].at # "out" =>
       call[c].dev = IF c[2] = "user" THEN "STDOUT" ELSE "KOUT"

ConsoleInv == TypeOK /\ IndexInv /\ LockInv /\ TextInv /\ KernelInv

LEMMA InitConsole == Init => ConsoleInv
<1> SUFFICES ASSUME Init PROVE ConsoleInv
  OBVIOUS
<1>1. call \in [Ctxs -> Call] /\ \A c \in Ctxs : call[c].at = "out"
  BY ConsoleAssumption DEF Init, Call, Devs
<1>2. \A p \in Procs : <<p, "kernel">> \in Ctxs
  BY DEF Ctxs, Modes
<1>3. TypeOK
  BY <1>1 DEF Init, TypeOK, Modes, Devs
<1>4. IndexInv /\ TextInv
  BY <1>1 DEF IndexInv, TextInv
<1>5. LockInv
  BY <1>1 DEF Init, LockInv, Inside
<1>6. KernelInv
  BY <1>1, <1>2 DEF KernelInv
<1> QED
  BY <1>3, <1>4, <1>5, <1>6 DEF ConsoleInv

\* The call of c goes to another place and no other call does.
LEMMA AtMoves ==
  ASSUME TypeOK, NEW c \in Ctxs, NEW at \in {"out", "spin", "format", "puts", "unlock"},
         NEW i \in 0 .. LEN, At(c, at, i)
  PROVE  /\ call' \in [Ctxs -> Call]
         /\ \A e \in Ctxs : e # c => call'[e] = call[e]
         /\ call'[c].at = at /\ call'[c].i = i /\ call'[c].dev = call[c].dev
BY Zenon DEF TypeOK, At, Call

\* A call that goes on stays where the kernel's calls may be.
LEMMA KernelStays ==
  ASSUME KernelInv, cur' = cur, mode' = mode,
         \A e \in Ctxs : call'[e].at # "out" => call[e].at # "out" /\ call'[e].dev = call[e].dev
  PROVE  KernelInv'
<1>1. \A p \in Procs : <<p, "kernel">> \in Ctxs
  BY DEF Ctxs, Modes
<1> QED
  BY <1>1 DEF KernelInv

LEMMA spinKeeps ==
  ASSUME ConsoleInv, NEW c \in Ctxs, cur = c[1], mode[cur] = c[2], spin_lock(c)
  PROVE  ConsoleInv'
<1> USE DEF ConsoleInv
<1>1. /\ call[c].at = "spin" /\ lock[call[c].dev] = 0 /\ call[c].dev \in Devs
      /\ lock' = [lock EXCEPT ![call[c].dev] = 1]
      /\ cur' = cur /\ mode' = mode /\ buf' = buf
  BY DEF spin_lock, Taken, TypeOK, Call
<1>2. /\ call' \in [Ctxs -> Call]
      /\ \A e \in Ctxs : e # c => call'[e] = call[e]
      /\ call'[c].at = "format" /\ call'[c].i = 0 /\ call'[c].dev = call[c].dev
  BY AtMoves, ConsoleAssumption DEF spin_lock
<1>3. TypeOK'
  BY <1>1, <1>2 DEF TypeOK
<1>4. IndexInv'
  BY <1>2, ConsoleAssumption DEF IndexInv
<1>5. LockInv'
  <2>1. \A e \in Ctxs : Inside(e) => call[e].dev # call[c].dev
    BY <1>1 DEF LockInv
  <2>2. \A e \in Ctxs : Inside(e)' <=> (e = c \/ Inside(e))
    BY <1>2 DEF Inside
  <2>3. \A e \in Ctxs : call'[e].dev = call[e].dev
    BY <1>2
  <2>4. \A d \in Devs : lock'[d] = IF d = call[c].dev THEN 1 ELSE lock[d]
    BY <1>1 DEF TypeOK
  <2>5. \A e \in Ctxs : call[e].dev \in Devs
    BY DEF TypeOK, Call
  <2> QED
    BY <2>1, <2>2, <2>3, <2>4, <2>5 DEF LockInv
<1>6. TextInv'
  BY <1>1, <1>2 DEF TextInv
<1>7. KernelInv'
  BY <1>1, <1>2, KernelStays
<1> QED
  BY <1>3, <1>4, <1>5, <1>6, <1>7

LEMMA FormatKeeps ==
  ASSUME ConsoleInv, NEW c \in Ctxs, cur = c[1], mode[cur] = c[2], Format(c)
  PROVE  ConsoleInv'
<1> USE DEF ConsoleInv
<1> DEFINE i == call[c].i + 1
           d == call[c].dev
<1>1. /\ call[c].at = "format" /\ d \in Devs /\ i \in 1 .. LEN
      /\ buf' = [buf EXCEPT ![d][i] = c]
      /\ lock' = lock /\ cur' = cur /\ mode' = mode
  BY ConsoleAssumption DEF Format, TypeOK, Call, IndexInv
<1>2. /\ call' \in [Ctxs -> Call]
      /\ \A e \in Ctxs : e # c => call'[e] = call[e]
      /\ call'[c].dev = call[c].dev
      /\ \/ i = LEN /\ call'[c].at = "puts" /\ call'[c].i = 0
         \/ i # LEN /\ call'[c].at = "format" /\ call'[c].i = i
  <2>1. CASE i = LEN
    BY <1>1, <2>1, AtMoves, ConsoleAssumption DEF Format
  <2>2. CASE i # LEN
    BY <1>1, <2>2, AtMoves, ConsoleAssumption DEF Format
  <2> QED
    BY <2>1, <2>2
<1>3. /\ buf' \in [Devs -> [1 .. LEN -> Ctxs \cup {NONE}]]
      /\ buf'[d][i] = c
      /\ \A j \in 1 .. LEN : j # i => buf'[d][j] = buf[d][j]
      /\ \A x \in Devs : x # d => buf'[x] = buf[x]
  BY <1>1, Zenon DEF TypeOK
<1>4. TypeOK'
  BY <1>1, <1>2, <1>3 DEF TypeOK
<1>5. IndexInv'
  BY <1>1, <1>2, ConsoleAssumption DEF IndexInv
<1>6. \A e \in Ctxs : (Inside(e)' <=> Inside(e)) /\ call'[e].dev = call[e].dev /\ call[e].dev \in Devs
  BY <1>1, <1>2, Zenon DEF Inside, TypeOK, Call
<1>7. LockInv'
  BY <1>1, <1>6 DEF LockInv
<1>8. TextInv'
  <2>1. ASSUME NEW e \in Ctxs, e # c, call[e].at \in {"format", "puts"}
        PROVE  buf'[call[e].dev] = buf[call[e].dev]
    <3>1. call[e].dev # d
      BY <1>1, <2>1 DEF LockInv, Inside
    <3> QED
      BY <1>3, <1>6, <3>1
  <2>2. \A j \in 1 .. i : buf'[d][j] = c
    <3>1. call[c].i \in 0 .. LEN /\ LEN \in Nat
      BY ConsoleAssumption DEF TypeOK, Call
    <3>2. \A j \in 1 .. call[c].i : buf[d][j] = c
      BY <1>1 DEF TextInv
    <3>3. \A j \in 1 .. i : j \in 1 .. LEN /\ (j = i \/ j \in 1 .. call[c].i)
      BY <1>1, <3>1
    <3> QED
      BY <1>3, <3>2, <3>3
  <2>3. call'[c].at = "format" => \A j \in 1 .. call'[c].i : buf'[call'[c].dev][j] = c
    BY <1>2, <2>2
  <2>4. call'[c].at = "puts" => \A j \in 1 .. LEN : buf'[call'[c].dev][j] = c
    BY <1>2, <2>2
  <2>5. ASSUME NEW e \in Ctxs, e # c
        PROVE  /\ call'[e].at = "format" => \A j \in 1 .. call'[e].i : buf'[call'[e].dev][j] = e
               /\ call'[e].at = "puts" => \A j \in 1 .. LEN : buf'[call'[e].dev][j] = e
    BY <1>2, <2>1, <2>5 DEF TextInv
  <2> QED
    BY <2>3, <2>4, <2>5 DEF TextInv
<1>9. KernelInv'
  BY <1>1, <1>2, KernelStays
<1> QED
  BY <1>4, <1>5, <1>7, <1>8, <1>9

LEMMA PutsKeeps ==
  ASSUME ConsoleInv, NEW c \in Ctxs, cur = c[1], mode[cur] = c[2], Puts(c)
  PROVE  ConsoleInv'
<1> USE DEF ConsoleInv
<1> DEFINE i == call[c].i + 1
<1>1. /\ call[c].at = "puts" /\ i \in 1 .. LEN
      /\ lock' = lock /\ cur' = cur /\ mode' = mode /\ buf' = buf
  BY ConsoleAssumption DEF Puts, TypeOK, Call, IndexInv
<1>2. /\ call' \in [Ctxs -> Call]
      /\ \A e \in Ctxs : e # c => call'[e] = call[e]
      /\ call'[c].dev = call[c].dev
      /\ \/ i = LEN /\ call'[c].at = "unlock" /\ call'[c].i = 0
         \/ i # LEN /\ call'[c].at = "puts" /\ call'[c].i = i
  <2>1. CASE i = LEN
    BY <1>1, <2>1, AtMoves, ConsoleAssumption DEF Puts
  <2>2. CASE i # LEN
    BY <1>1, <2>2, AtMoves, ConsoleAssumption DEF Puts
  <2> QED
    BY <2>1, <2>2
<1>3. TypeOK'
  BY <1>1, <1>2 DEF TypeOK
<1>4. IndexInv'
  BY <1>1, <1>2, ConsoleAssumption DEF IndexInv
<1>5. \A e \in Ctxs : (Inside(e)' <=> Inside(e)) /\ call'[e].dev = call[e].dev
  BY <1>1, <1>2 DEF Inside
<1>6. LockInv'
  BY <1>1, <1>5 DEF LockInv
<1>7. TextInv'
  BY <1>1, <1>2 DEF TextInv
<1>8. KernelInv'
  BY <1>1, <1>2, KernelStays
<1> QED
  BY <1>3, <1>4, <1>6, <1>7, <1>8

LEMMA unlockKeeps ==
  ASSUME ConsoleInv, NEW c \in Ctxs, cur = c[1], mode[cur] = c[2], spin_unlock(c)
  PROVE  ConsoleInv'
<1> USE DEF ConsoleInv
<1>1. /\ call[c].at = "unlock" /\ call[c].dev \in Devs
      /\ lock' = [lock EXCEPT ![call[c].dev] = 0]
      /\ cur' = cur /\ mode' = mode /\ buf' = buf
  BY DEF spin_unlock, Unlocked, TypeOK, Call
<1>2. /\ call' \in [Ctxs -> Call]
      /\ \A e \in Ctxs : e # c => call'[e] = call[e]
      /\ call'[c].at = "out" /\ call'[c].i = 0 /\ call'[c].dev = call[c].dev
  BY AtMoves, ConsoleAssumption DEF spin_unlock
<1>3. TypeOK'
  BY <1>1, <1>2 DEF TypeOK
<1>4. IndexInv'
  BY <1>2 DEF IndexInv
<1>5. LockInv'
  <2>1. \A e \in Ctxs : Inside(e) /\ call[e].dev = call[c].dev => e = c
    BY <1>1 DEF LockInv, Inside
  <2>2. \A e \in Ctxs : Inside(e)' <=> (e # c /\ Inside(e))
    BY <1>2 DEF Inside
  <2>3. \A e \in Ctxs : call'[e].dev = call[e].dev
    BY <1>2
  <2>4. \A d \in Devs : lock'[d] = IF d = call[c].dev THEN 0 ELSE lock[d]
    BY <1>1 DEF TypeOK
  <2>5. \A e \in Ctxs : call[e].dev \in Devs
    BY DEF TypeOK, Call
  <2> QED
    BY <2>1, <2>2, <2>3, <2>4, <2>5 DEF LockInv
<1>6. TextInv'
  BY <1>1, <1>2 DEF TextInv
<1>7. KernelInv'
  BY <1>1, <1>2, KernelStays
<1> QED
  BY <1>3, <1>4, <1>5, <1>6, <1>7

\* A task that is about to spin has the hart.
LEMMA vprintfKeeps ==
  ASSUME ConsoleInv, NEW p \in Procs, cur = p, NEW d \in Devs, vprintf(<<p, mode[p]>>, d)
  PROVE  ConsoleInv'
<1> USE DEF ConsoleInv
<1> DEFINE c == <<p, mode[p]>>
<1>1. /\ c \in Ctxs /\ c[1] = p /\ c[2] = mode[p] /\ mode[p] \in Modes
      /\ call[c].at = "out"
      /\ call' = [call EXCEPT ![c] = [at |-> "spin", dev |-> d, i |-> 0]]
      /\ cur' = cur /\ mode' = mode /\ lock' = lock /\ buf' = buf
      /\ May(c, d)
  BY DEF vprintf, TypeOK, Ctxs
<1> HIDE DEF c
<1>2. /\ call' \in [Ctxs -> Call]
      /\ \A e \in Ctxs : e # c => call'[e] = call[e]
      /\ call'[c].at = "spin" /\ call'[c].dev = d
  BY <1>1, ConsoleAssumption DEF TypeOK, Call
<1>3. TypeOK'
  BY <1>1, <1>2 DEF TypeOK
<1>4. IndexInv'
  BY <1>2 DEF IndexInv
<1>5. \A e \in Ctxs : /\ Inside(e)' <=> Inside(e)
                      /\ Inside(e) => call'[e].dev = call[e].dev
  BY <1>1, <1>2 DEF Inside
<1>6. LockInv'
  BY <1>1, <1>5 DEF LockInv
<1>7. TextInv'
  BY <1>1, <1>2 DEF TextInv
<1>8. KernelInv'
  <2>1. ASSUME NEW q \in Procs, call'[<<q, "kernel">>].at # "out"
        PROVE  cur' = q /\ mode'[q] = "kernel"
    <3>1. <<q, "kernel">> \in Ctxs
      BY DEF Ctxs, Modes
    <3>2. CASE <<q, "kernel">> = c
      BY <1>1, <3>2
    <3>3. CASE <<q, "kernel">> # c
      BY <1>1, <1>2, <2>1, <3>1, <3>3 DEF KernelInv
    <3> QED
      BY <3>2, <3>3
  <2>2. ASSUME NEW e \in Ctxs, KernelPrintf = FALSE, call'[e].at # "out"
        PROVE  call'[e].dev = IF e[2] = "user" THEN "STDOUT" ELSE "KOUT"
    <3>1. CASE e = c
      BY <1>1, <1>2, <2>2, <3>1 DEF May
    <3>2. CASE e # c
      BY <1>2, <2>2, <3>2 DEF KernelInv
    <3> QED
      BY <3>1, <3>2
  <2> QED
    BY <2>1, <2>2, Zenon DEF KernelInv
<1> QED
  BY <1>3, <1>4, <1>6, <1>7, <1>8

\* Traps and the scheduler leave calls, locks and buffers alone.
LEMMA SwitchKeeps ==
  ASSUME ConsoleInv, NEW p \in Procs,
         (cur = p /\ (Trap(p) \/ Return(p))) \/ schedule(p)
  PROVE  ConsoleInv'
<1> USE DEF ConsoleInv
<1>1. call' = call /\ lock' = lock /\ buf' = buf
  BY DEF Trap, Return, schedule
<1>2. cur' \in Procs /\ mode' \in [Procs -> Modes]
  BY DEF Trap, Return, schedule, TypeOK, Modes
<1>3. TypeOK'
  BY <1>1, <1>2 DEF TypeOK
<1>4. IndexInv' /\ TextInv'
  BY <1>1 DEF IndexInv, TextInv
<1>5. LockInv'
  BY <1>1 DEF LockInv, Inside
<1>6. ASSUME NEW q \in Procs, call[<<q, "kernel">>].at # "out"
      PROVE  cur' = q /\ mode'[q] = "kernel"
  <2>1. cur = q /\ mode[q] = "kernel"
    BY <1>6 DEF KernelInv
  <2> QED
    BY <1>6, <2>1 DEF Trap, Return, schedule, Preemptible, TypeOK
<1>7. KernelInv'
  BY <1>1, <1>6 DEF KernelInv
<1> QED
  BY <1>3, <1>4, <1>5, <1>7

LEMMA NextConsole == ConsoleInv /\ [Next]_vars => ConsoleInv'
<1> SUFFICES ASSUME ConsoleInv, [Next]_vars PROVE ConsoleInv'
  OBVIOUS
<1>1. CASE UNCHANGED vars
  BY <1>1 DEF ConsoleInv, TypeOK, IndexInv, LockInv, TextInv, KernelInv, Inside, vars
<1>2. ASSUME NEW c \in Ctxs, Step(c) PROVE ConsoleInv'
  BY <1>2, spinKeeps, FormatKeeps, PutsKeeps, unlockKeeps DEF Step
<1>3. ASSUME NEW p \in Procs, Enter(p) \/ Leave(p) \/ schedule(p) PROVE ConsoleInv'
  BY <1>3, vprintfKeeps, SwitchKeeps DEF Enter, Leave
<1> QED
  BY <1>1, <1>2, <1>3 DEF Next

\* Type correctness: the index of the character never leaves the buffer.
THEOREM ConsoleTypes == Spec => []TypeOK
<1>1. ConsoleInv => TypeOK
  BY DEF ConsoleInv
<1> QED
  BY <1>1, InitConsole, NextConsole, PTL DEF Spec

\* What printf() and printk() put on the screen is their own text, wherever the
\* calls of any number of tasks are preempted.
THEOREM TextsStayOwned == Spec => []TextOwned
<1>1. ConsoleInv => TextOwned
  BY DEF ConsoleInv, TextInv, TextOwned
<1> QED
  BY <1>1, InitConsole, NextConsole, PTL DEF Spec

\* If the kernel only calls printk(), it finds the lock free: no spin in the
\* kernel, where nobody else could run to give the lock back.
THEOREM PrintkNeverSpins == KernelPrintf = FALSE /\ Spec => []KernelNeverSpins
<1> DEFINE KInv == KernelPrintf = FALSE /\ ConsoleInv
<1>1. KernelPrintf = FALSE /\ Init => KInv
  BY InitConsole
<1>2. KInv /\ [Next]_vars => KInv'
  BY NextConsole
<1>3. KInv => KernelNeverSpins
  <2> SUFFICES ASSUME KInv, NEW p \in Procs, cur = p, call[<<p, "kernel">>].at = "spin",
                      lock[call[<<p, "kernel">>].dev] # 0
               PROVE  FALSE
    BY DEF KernelNeverSpins
  <2>1. <<p, "kernel">> \in Ctxs
    BY DEF Ctxs, Modes
  <2>2. call[<<p, "kernel">>].dev = "KOUT" /\ lock["KOUT"] = 1
    BY <2>1 DEF ConsoleInv, KernelInv, TypeOK, Devs
  <2>3. PICK e \in Ctxs : Inside(e) /\ call[e].dev = "KOUT"
    BY <2>2 DEF ConsoleInv, LockInv, Devs
  <2>4. e[2] # "user"
    BY <2>3 DEF ConsoleInv, KernelInv, Inside
  <2>5. PICK q \in Procs : e = <<q, "kernel">>
    BY <2>4 DEF Ctxs, Modes
  <2>6. q = p
    BY <2>3, <2>5 DEF ConsoleInv, KernelInv, Inside
  <2> QED
    BY <2>3, <2>5, <2>6 DEF Inside
<1> HIDE DEF KInv
<1> QED
  BY <1>1, <1>2, <1>3, PTL DEF Spec

-----------------------------------------------------------------------------
(* The page allocator *)

LastPage(b) == b.start + b.npages - 1

\* PageTypeOK and BlocksIntact of a heap H on which the blocks B are held.
HeapOK(H, B) ==
  /\ H \in [taken : SUBSET Pages, last : SUBSET Pages]
  /\ B \subseteq [start : Pages, npages : 1 .. NUM_PAGES]
  /\ \A b, c \in B : b # c => PagesOf(b) \cap PagesOf(c) = {}
  /\ H.taken = UNION {PagesOf(b) : b \in B}
  /\ H.last = {b.start + b.npages - 1 : b \in B}

PageInv == HeapOK(heap, blocks)

\* The loop of page_free() clears the block it was given, all of it and
\* nothing beyond.
LEMMA ClearedIsBlock ==
  ASSUME NEW H, NEW B, HeapOK(H, B), NEW b \in B
  PROVE  Cleared(H, b.start) = PagesOf(b)
<1>1. /\ b.start \in Pages /\ b.npages \in 1 .. NUM_PAGES
      /\ \A c \in B : c.start \in Pages /\ c.npages \in 1 .. NUM_PAGES
  BY DEF HeapOK
<1>2. LastPage(b) \in Pages
  <2>1. LastPage(b) \in PagesOf(b)
    BY <1>1, PageAssumption DEF LastPage, PagesOf, Pages
  <2> QED
    BY <2>1 DEF HeapOK
<1>3. ASSUME NEW q \in PagesOf(b) PROVE q \in Cleared(H, b.start)
  <2>1. q \in Pages /\ q >= b.start /\ q <= LastPage(b)
    BY <1>1, <1>2, PageAssumption DEF Pages, PagesOf, LastPage
  <2>2. b.start .. q \subseteq PagesOf(b)
    BY <1>1, <2>1, PageAssumption DEF Pages, PagesOf, LastPage
  <2>3. b.start .. q \subseteq H.taken
    BY <2>2 DEF HeapOK
  <2>4. ASSUME NEW k \in b.start .. q - 1, k \in H.last PROVE FALSE
    <3>1. PICK c \in B : k = c.start + c.npages - 1
      BY <2>4 DEF HeapOK
    <3>2. k \in PagesOf(c)
      BY <1>1, <3>1, PageAssumption DEF Pages, PagesOf
    <3>3. k \in PagesOf(b) /\ k # LastPage(b)
      BY <1>1, <2>1, <2>2, PageAssumption DEF Pages, LastPage
    <3>4. c = b
      BY <3>2, <3>3 DEF HeapOK
    <3> QED
      BY <3>1, <3>3, <3>4 DEF LastPage
  <2> QED
    BY <2>1, <2>3, <2>4 DEF Cleared
<1>4. ASSUME NEW q \in Cleared(H, b.start) PROVE q \in PagesOf(b)
  <2>1. q \in Pages /\ q >= b.start /\ \A k \in b.start .. q - 1 : k \notin H.last
    BY DEF Cleared
  <2>2. LastPage(b) \in H.last
    BY DEF HeapOK, LastPage
  <2>3. ~(LastPage(b) < q)
    BY <1>1, <1>2, <2>1, <2>2, PageAssumption DEF Pages, LastPage
  <2> QED
    BY <1>1, <1>2, <2>1, <2>3, PageAssumption DEF Pages, PagesOf, LastPage
<1> QED
  BY <1>3, <1>4

\* No block is held at first.
LEMMA InitPages == Init_page => PageInv
BY DEF Init_page, PageInv, HeapOK

\* A new block lies on free pages, so it meets no other.
LEMMA AllocKeeps ==
  ASSUME NEW H, NEW B, HeapOK(H, B), NEW n \in 1 .. NUM_PAGES, NEW i \in Found(H, n)
  PROVE  HeapOK(page_alloc(H, i, n), B \cup {[start |-> i, npages |-> n]})
<1> DEFINE new == [start |-> i, npages |-> n]
           G == page_alloc(H, i, n)
           C == B \cup {new}
<1>1. i \in Pages /\ Fits(H, i, n)
  BY DEF Found
<1>2. /\ n \in 1 .. NUM_PAGES /\ i + n - 1 \in Pages
      /\ i .. i + n - 1 \subseteq Pages
  BY <1>1, PageAssumption DEF Fits, Pages
<1>3. PagesOf(new) = i .. i + n - 1 /\ PagesOf(new) \cap H.taken = {}
  BY <1>1 DEF PagesOf, Fits
<1>4. new \in [start : Pages, npages : 1 .. NUM_PAGES]
      /\ new.start = i /\ new.npages = n
  BY <1>1, <1>2
<1>5. G.taken = H.taken \cup PagesOf(new) /\ G.last = H.last \cup {i + n - 1}
      /\ G \in [taken : SUBSET Pages, last : SUBSET Pages]
  BY <1>1, <1>2, <1>3 DEF page_alloc, HeapOK
<1>6. C = B \cup {new}
  OBVIOUS
<1> HIDE DEF new, G, C
<1>7. C \subseteq [start : Pages, npages : 1 .. NUM_PAGES]
  BY <1>4, <1>6 DEF HeapOK
<1>8. \A b \in B : PagesOf(b) \cap PagesOf(new) = {}
  BY <1>3 DEF HeapOK
<1>9. \A b, c \in C : b # c => PagesOf(b) \cap PagesOf(c) = {}
  BY <1>6, <1>8 DEF HeapOK
<1>10. G.taken = UNION {PagesOf(b) : b \in C}
  BY <1>5, <1>6 DEF HeapOK
<1>11. G.last = {b.start + b.npages - 1 : b \in C}
  BY <1>4, <1>5, <1>6 DEF HeapOK
<1>12. HeapOK(G, C)
  BY <1>5, <1>7, <1>9, <1>10, <1>11 DEF HeapOK
<1> QED
  BY <1>12 DEF G, C, new

\* page_free() clears one block, and the others stay as they are.
LEMMA FreeKeeps ==
  ASSUME NEW H, NEW B, HeapOK(H, B), NEW b \in B
  PROVE  HeapOK(page_free(H, b.start), B \ {b})
<1> DEFINE G == page_free(H, b.start)
           C == B \ {b}
<1>1. /\ G.taken = H.taken \ PagesOf(b)
      /\ G.last = H.last \ PagesOf(b)
      /\ G = [taken |-> H.taken \ PagesOf(b), last |-> H.last \ PagesOf(b)]
      /\ C = B \ {b}
  BY ClearedIsBlock DEF page_free
<1> HIDE DEF G, C
<1>2. G \in [taken : SUBSET Pages, last : SUBSET Pages]
  BY <1>1 DEF HeapOK
<1>3. \A c \in B : LastPage(c) \in PagesOf(c)
  BY PageAssumption DEF HeapOK, Pages, PagesOf, LastPage
<1>4. \A c \in B : c # b => PagesOf(c) \cap PagesOf(b) = {}
  BY DEF HeapOK
<1>5. \A c, d \in C : c # d => PagesOf(c) \cap PagesOf(d) = {}
  BY <1>1 DEF HeapOK
<1>6. G.taken = UNION {PagesOf(c) : c \in C}
  BY <1>1, <1>4 DEF HeapOK
<1>7. G.last = {LastPage(c) : c \in C}
  <2>1. H.last = {LastPage(c) : c \in B}
    BY DEF HeapOK, LastPage
  <2> QED
    BY <1>1, <1>3, <1>4, <2>1
<1>8. C \subseteq [start : Pages, npages : 1 .. NUM_PAGES]
  BY <1>1 DEF HeapOK
<1>9. HeapOK(G, C)
  BY <1>2, <1>5, <1>6, <1>7, <1>8 DEF HeapOK, LastPage
<1> QED
  BY <1>9 DEF G, C

\* Alloc and Free keep the invariant, and nothing else happens.
LEMMA NextKeeps == PageInv /\ [PageNext]_pageVars => PageInv'
<1> SUFFICES ASSUME PageInv, [PageNext]_pageVars PROVE PageInv'
  OBVIOUS
<1>1. ASSUME NEW n \in 1 .. MAX_NPAGES, Alloc(n) PROVE PageInv'
  <2>1. PICK i \in Found(heap, n) :
           /\ heap' = page_alloc(heap, i, n)
           /\ blocks' = blocks \cup {[start |-> i, npages |-> n]}
    BY <1>1 DEF Alloc
  <2>2. n \in 1 .. NUM_PAGES
    BY PageAssumption
  <2> QED
    BY <2>1, <2>2, AllocKeeps DEF PageInv
<1>2. ASSUME NEW b \in blocks, Free(b) PROVE PageInv'
  BY <1>2, FreeKeeps DEF PageInv, Free
<1>3. CASE UNCHANGED pageVars
  BY <1>3 DEF pageVars, PageInv
<1> QED
  BY <1>1, <1>2, <1>3 DEF PageNext, AllocFails

\* The flags stay sets of pages, and the blocks held stay within the heap.
THEOREM PageTypes == PageSpec => []PageTypeOK
<1>1. PageInv => PageTypeOK
  BY DEF PageInv, HeapOK, PageTypeOK
<1> QED
  BY <1>1, NextKeeps, InitPages, PTL DEF PageSpec

\* The allocator never gives a page to two callers, and page_free() gives back
\* exactly the pages page_alloc() took for that block.
THEOREM BlocksStayIntact == PageSpec => []BlocksIntact
<1>1. PageInv => BlocksIntact
  BY DEF PageInv, HeapOK, BlocksIntact
<1> QED
  BY <1>1, NextKeeps, InitPages, PTL DEF PageSpec

-----------------------------------------------------------------------------
(* The objects of a page *)

\* The objects of page p that are in use when V is, and the pages that have
\* such objects.
Objs(V, p) == {n \in 1 .. PAGE_SIZE : <<p, n>> \in V}
InUse(V) == {p \in Pages : Objs(V, p) # {}}

\* The objects O in use and the free objects F of a page share none, and c
\* counts the former.
Apart(O, F, c) ==
  /\ F \in Seq(1 .. PAGE_SIZE)
  /\ O \cap ToSet(F) = {}
  /\ IsInjective(F)
  /\ c = Cardinality(O)

\* A page without objects in use has been given back, or was never cut.
PageOK(O, F, c) == Apart(O, F, c) /\ (O = {} => F = << >>)

LEMMA ObjsFinite ==
  ASSUME NEW O \in SUBSET (1 .. PAGE_SIZE)
  PROVE  IsFiniteSet(O) /\ Cardinality(O) \in 0 .. PAGE_SIZE
<1>1. IsFiniteSet(1 .. PAGE_SIZE) /\ Cardinality(1 .. PAGE_SIZE) = PAGE_SIZE
  BY FS_Interval, MallocAssumption
<1>2. IsFiniteSet(O) /\ Cardinality(O) <= PAGE_SIZE
  BY <1>1, FS_Subset, Zenon
<1>3. Cardinality(O) \in Nat
  BY <1>2, FS_CardinalityType
<1> QED
  BY <1>2, <1>3, MallocAssumption

\* The first free object goes to a caller.
LEMMA PopOK ==
  ASSUME NEW O \in SUBSET (1 .. PAGE_SIZE), NEW F, NEW c, Apart(O, F, c), F # << >>
  PROVE  /\ Head(F) \in 1 .. PAGE_SIZE
         /\ PageOK(O \cup {Head(F)}, Tail(F), c + 1)
<1>1. F \in Seq(1 .. PAGE_SIZE) /\ Len(F) \in Nat \ {0}
      /\ DOMAIN F = 1 .. Len(F)
  BY DEF Apart
<1>2. /\ Head(F) \in 1 .. PAGE_SIZE /\ Head(F) = F[1]
      /\ Tail(F) \in Seq(1 .. PAGE_SIZE) /\ Len(Tail(F)) = Len(F) - 1
      /\ DOMAIN Tail(F) = 1 .. Len(F) - 1
      /\ \A i \in 1 .. Len(F) - 1 : Tail(F)[i] = F[i + 1]
  <2>1. /\ Head(F) \in 1 .. PAGE_SIZE
        /\ Tail(F) \in Seq(1 .. PAGE_SIZE)
        /\ Len(Tail(F)) = Len(F) - 1
        /\ \A i \in 1 .. Len(Tail(F)) : Tail(F)[i] = F[i + 1]
    BY <1>1, HeadTailProperties, Zenon
  <2>2. Head(F) = F[1]
    BY <1>1
  <2>3. DOMAIN Tail(F) = 1 .. Len(Tail(F))
    BY <2>1
  <2> QED
    BY <2>1, <2>2, <2>3
<1>3. ASSUME NEW i \in DOMAIN Tail(F)
      PROVE  i + 1 \in DOMAIN F /\ Tail(F)[i] = F[i + 1] /\ i + 1 # 1
  BY <1>1, <1>2
<1>4. \A i \in DOMAIN F : F[i] \notin O
  BY DEF Apart, ToSet
<1>5. \A i, j \in DOMAIN F : F[i] = F[j] => i = j
  BY DEF Apart, IsInjective
<1>6. 1 \in DOMAIN F
  BY <1>1
<1>7. (O \cup {Head(F)}) \cap ToSet(Tail(F)) = {}
  BY <1>2, <1>3, <1>4, <1>5, <1>6 DEF ToSet
<1>8. IsInjective(Tail(F))
  BY <1>2, <1>3, <1>5 DEF IsInjective
<1>9. Cardinality(O \cup {Head(F)}) = c + 1
  BY <1>2, <1>4, <1>6, ObjsFinite, FS_AddElement DEF Apart
<1> QED
  BY <1>2, <1>7, <1>8, <1>9 DEF Apart, PageOK

\* An object comes back, to the head of the free ones.
LEMMA PushOK ==
  ASSUME NEW O \in SUBSET (1 .. PAGE_SIZE), NEW F, NEW c, Apart(O, F, c), NEW n \in O
  PROVE  Apart(O \ {n}, <<n>> \o F, c - 1)
<1> DEFINE G == <<n>> \o F
<1>1. F \in Seq(1 .. PAGE_SIZE) /\ Len(F) \in Nat
      /\ DOMAIN F = 1 .. Len(F)
  BY DEF Apart
<1>2. /\ G \in Seq(1 .. PAGE_SIZE) /\ Len(G) = Len(F) + 1
      /\ DOMAIN G = 1 .. Len(F) + 1 /\ G[1] = n
      /\ \A i \in 2 .. Len(F) + 1 : G[i] = F[i - 1]
  BY <1>1
<1> HIDE DEF G
<1>3. ASSUME NEW i \in DOMAIN G, i # 1
      PROVE  i - 1 \in DOMAIN F /\ G[i] = F[i - 1]
  BY <1>1, <1>2, <1>3
<1>4. \A i \in DOMAIN F : F[i] \notin O
  BY DEF Apart, ToSet
<1>5. \A i, j \in DOMAIN F : F[i] = F[j] => i = j
  BY DEF Apart, IsInjective
<1>6. (O \ {n}) \cap ToSet(G) = {}
  BY <1>2, <1>3, <1>4 DEF ToSet
<1>7. IsInjective(G)
  <2> SUFFICES ASSUME NEW i \in DOMAIN G, NEW j \in DOMAIN G, G[i] = G[j]
               PROVE  i = j
    BY DEF IsInjective
  <2>1. CASE i # 1 /\ j # 1
    BY <1>2, <1>3, <1>5, <2>1
  <2>2. CASE i = 1 \/ j = 1
    BY <1>2, <1>3, <1>4, <2>2
  <2> QED
    BY <2>1, <2>2
<1>8. Cardinality(O \ {n}) = c - 1
  BY ObjsFinite, FS_RemoveElement DEF Apart
<1>9. Apart(O \ {n}, G, c - 1)
  BY <1>2, <1>6, <1>7, <1>8 DEF Apart
<1> QED
  BY <1>9 DEF G

\* A new page is cut into objects 1, 2, ...; there is at least one.
LEMMA CutOK ==
  ASSUME NEW s \in SIZES
  PROVE  LET F == [n \in 1 .. PAGE_SIZE \div s |-> n]
         IN  Apart({}, F, 0) /\ F # << >> /\ Head(F) = 1
<1> DEFINE k == PAGE_SIZE \div s
           F == [n \in 1 .. k |-> n]
<1>1. s \in 1 .. PAGE_SIZE /\ PAGE_SIZE \in Nat
  BY MallocAssumption
<1>2. k \in 1 .. PAGE_SIZE
  BY <1>1
<1> HIDE DEF k
<1>3. F \in Seq(1 .. PAGE_SIZE) /\ Len(F) = k /\ DOMAIN F = 1 .. k /\ F[1] = 1
  BY <1>1, <1>2
<1>4. F # << >> /\ Head(F) = 1
  BY <1>2, <1>3
<1>5. IsInjective(F)
  BY <1>3 DEF IsInjective
<1>6. Apart({}, F, 0)
  BY <1>3, <1>5, FS_EmptySet DEF Apart
<1> QED
  BY <1>4, <1>6 DEF k

-----------------------------------------------------------------------------
(* The pages of the buckets *)

\* V, F and C describe the objects of every page.
TablesOK(V, F, C) ==
  /\ V \subseteq Pages \X (1 .. PAGE_SIZE)
  /\ F \in [Pages -> Seq(1 .. PAGE_SIZE)]
  /\ C \in [Pages -> Nat]
  /\ \A p \in Pages : PageOK(Objs(V, p), F[p], C[p])

\* The lists L hold pages of U, each once and in one list.
ListsOK(L, U) ==
  /\ L \in [SIZES -> Seq(Pages)]
  /\ \A s \in SIZES : \A m \in DOMAIN L[s] : L[s][m] \in U
  /\ \A s, t \in SIZES : \A m \in DOMAIN L[s], n \in DOMAIN L[t] :
       L[s][m] = L[t][n] => s = t /\ m = n

\* malloc() holds single pages, among them those of U.
HeldOK(B, U) ==
  /\ \A b \in B : b = Page(b.start)
  /\ \A p \in U : Page(p) \in B

\* The pages that were cut into descriptors.
Descs(B, U) == {b \in B : b.start \notin U}

\* Every descriptor is free or has a page of U.
DescsOK(B, U, d) ==
  /\ d \in Nat
  /\ d + Cardinality(U) = NDESC * Cardinality(Descs(B, U))

\* Handing an object of page p out.
LEMMA HandoutOK ==
  ASSUME TablesOK(live, freeptr, blocnt), NEW p \in Pages, NEW F, NEW c,
         Apart(Objs(live, p), F, c), F # << >>, Handout(p, F, c)
  PROVE  /\ TablesOK(live', freeptr', blocnt')
         /\ InUse(live') = InUse(live) \cup {p}
<1> DEFINE n == Head(F)
<1>1. /\ live' = live \cup {<<p, n>>}
      /\ freeptr' = [freeptr EXCEPT ![p] = Tail(F)]
      /\ blocnt' = [blocnt EXCEPT ![p] = c + 1]
  BY DEF Handout
<1>2. /\ live \subseteq Pages \X (1 .. PAGE_SIZE)
      /\ freeptr \in [Pages -> Seq(1 .. PAGE_SIZE)]
      /\ blocnt \in [Pages -> Nat]
      /\ \A q \in Pages : PageOK(Objs(live, q), freeptr[q], blocnt[q])
  BY DEF TablesOK
<1>3. Objs(live, p) \in SUBSET (1 .. PAGE_SIZE)
  BY DEF Objs
<1>4. n \in 1 .. PAGE_SIZE /\ PageOK(Objs(live, p) \cup {n}, Tail(F), c + 1)
  BY <1>3, PopOK
<1> HIDE DEF n
<1>5. Objs(live', p) = Objs(live, p) \cup {n}
  BY <1>1, <1>4 DEF Objs
<1>6. \A q \in Pages : q # p => Objs(live', q) = Objs(live, q)
  BY <1>1 DEF Objs
<1>7. Tail(F) \in Seq(1 .. PAGE_SIZE) /\ c + 1 \in Nat
  <2>1. c + 1 = Cardinality(Objs(live', p)) /\ Tail(F) \in Seq(1 .. PAGE_SIZE)
    BY <1>4, <1>5 DEF PageOK, Apart
  <2>2. Objs(live', p) \in SUBSET (1 .. PAGE_SIZE)
    BY DEF Objs
  <2> QED
    BY <2>1, <2>2, ObjsFinite
<1>8. ASSUME NEW q \in Pages
      PROVE  PageOK(Objs(live', q), freeptr'[q], blocnt'[q])
  <2>1. CASE q = p
    BY <1>1, <1>2, <1>4, <1>5, <2>1, Zenon
  <2>2. CASE q # p
    <3>1. freeptr'[q] = freeptr[q] /\ blocnt'[q] = blocnt[q]
      BY <1>1, <1>2, <2>2
    <3> QED
      BY <1>2, <1>6, <2>2, <3>1
  <2> QED
    BY <2>1, <2>2
<1>9. /\ live' \subseteq Pages \X (1 .. PAGE_SIZE)
      /\ freeptr' \in [Pages -> Seq(1 .. PAGE_SIZE)]
      /\ blocnt' \in [Pages -> Nat]
  BY <1>1, <1>2, <1>4, <1>7
<1>10. InUse(live') = InUse(live) \cup {p}
  BY <1>5, <1>6 DEF InUse
<1> QED
  BY <1>8, <1>9, <1>10 DEF TablesOK

\* A page that is in no list goes to the head of one.
LEMMA LinkOK ==
  ASSUME NEW L, NEW U, ListsOK(L, U), NEW s \in SIZES, NEW P \in Pages, P \notin U
  PROVE  ListsOK([L EXCEPT ![s] = <<P>> \o @], U \cup {P})
<1> DEFINE N == <<P>> \o L[s]
           M == [L EXCEPT ![s] = N]
<1>1. /\ L \in [SIZES -> Seq(Pages)]
      /\ \A t \in SIZES : \A m \in DOMAIN L[t] : L[t][m] \in U
      /\ \A t, u \in SIZES : \A m \in DOMAIN L[t], n \in DOMAIN L[u] :
           L[t][m] = L[u][n] => t = u /\ m = n
  BY DEF ListsOK
<1>2. L[s] \in Seq(Pages) /\ Len(L[s]) \in Nat /\ DOMAIN L[s] = 1 .. Len(L[s])
  BY <1>1
<1>3. /\ N \in Seq(Pages) /\ DOMAIN N = 1 .. Len(L[s]) + 1
      /\ N[1] = P /\ \A k \in 2 .. Len(L[s]) + 1 : N[k] = L[s][k - 1]
  BY <1>2
<1>4. ASSUME NEW k \in DOMAIN N, k # 1
      PROVE  k - 1 \in DOMAIN L[s] /\ N[k] = L[s][k - 1] /\ N[k] \in U
  <2>1. k - 1 \in DOMAIN L[s] /\ N[k] = L[s][k - 1]
    BY <1>2, <1>3, <1>4
  <2> QED
    BY <1>1, <2>1
<1> HIDE DEF N
<1>5. /\ M \in [SIZES -> Seq(Pages)] /\ M[s] = N
      /\ \A t \in SIZES : t # s => M[t] = L[t]
  BY <1>1, <1>3
<1> HIDE DEF M
<1>6. ASSUME NEW t \in SIZES, NEW m \in DOMAIN M[t]
      PROVE  /\ M[t][m] \in U \cup {P}
             /\ M[t][m] = P => t = s /\ m = 1
  <2>1. CASE t = s /\ m = 1
    BY <1>3, <1>5, <2>1
  <2>2. CASE t = s /\ m # 1
    BY <1>4, <1>5, <2>2
  <2>3. CASE t # s
    BY <1>1, <1>5, <2>3
  <2> QED
    BY <2>1, <2>2, <2>3
<1>7. ASSUME NEW t \in SIZES, NEW u \in SIZES, NEW m \in DOMAIN M[t], NEW n \in DOMAIN M[u],
             M[t][m] = M[u][n]
      PROVE  t = u /\ m = n
  <2>1. CASE M[t][m] = P
    BY <1>6, <1>7, <2>1, Zenon
  <2>2. CASE M[t][m] # P
    <3> DEFINE a == IF t = s THEN m - 1 ELSE m
               b == IF u = s THEN n - 1 ELSE n
    <3>1. a \in DOMAIN L[t] /\ M[t][m] = L[t][a]
      BY <1>3, <1>4, <1>5, <2>2
    <3>2. b \in DOMAIN L[u] /\ M[u][n] = L[u][b]
      BY <1>3, <1>4, <1>5, <1>7, <2>2
    <3> HIDE DEF a, b
    <3>3. t = u /\ a = b
      <4>1. L[t][a] = L[u][b]
        BY <1>7, <3>1, <3>2, Zenon
      <4>2. \A i \in DOMAIN L[t], j \in DOMAIN L[u] :
              L[t][i] = L[u][j] => t = u /\ i = j
        BY <1>1
      <4> QED
        BY <3>1, <3>2, <4>1, <4>2
    <3>4. t = s => m \in Int /\ n \in Int
      BY <1>2, <1>3, <1>5, <3>3
    <3> QED
      BY <3>3, <3>4 DEF a, b
  <2> QED
    BY <2>1, <2>2
<1>8. ListsOK(M, U \cup {P})
  BY <1>5, <1>6, <1>7 DEF ListsOK
<1> QED
  BY <1>8 DEF M, N

\* What _free_() leaves of a list are entries of it, each once, and not n.
LEMMA UnlinkLeaves ==
  ASSUME NEW S, NEW L \in Seq(S), NEW n \in DOMAIN L,
         \A i, j \in DOMAIN L : L[i] = L[j] => i = j
  PROVE  LET N == Unlink(L, n)
         IN  /\ N \in Seq(S)
             /\ \A k \in DOMAIN N : \E m \in DOMAIN L : m # n /\ N[k] = L[m]
             /\ \A i, j \in DOMAIN N : N[i] = N[j] => i = j
<1> DEFINE N == Unlink(L, n)
           gap == IF n = 1 THEN 1 ELSE n - 1
           Old(k) == IF n # 1 /\ k = 1 THEN 1 ELSE k + gap
<1>1. Len(L) \in Nat /\ DOMAIN L = 1 .. Len(L) /\ n \in 1 .. Len(L)
  OBVIOUS
<1>2. /\ N \in Seq(S) /\ DOMAIN N = 1 .. Len(L) - gap
      /\ \A k \in 1 .. Len(L) - gap : N[k] = L[Old(k)]
  <2>1. CASE n = 1
    <3>1. L # << >>
      BY <1>1
    <3>2. /\ Tail(L) \in Seq(S) /\ Len(Tail(L)) = Len(L) - 1
          /\ \A i \in 1 .. Len(Tail(L)) : Tail(L)[i] = L[i + 1]
      BY <3>1, HeadTailProperties
    <3>3. DOMAIN Tail(L) = 1 .. Len(L) - 1
      BY <3>2
    <3> QED
      BY <1>1, <2>1, <3>2, <3>3 DEF Unlink
  <2>2. CASE n # 1
    <3> DEFINE R == SubSeq(L, n + 1, Len(L))
    <3>1. /\ R \in Seq(S) /\ Len(R) = Len(L) - n
          /\ \A i \in 1 .. Len(L) - n : R[i] = L[n + i]
      BY <1>1, SubSeqProperties
    <3>2. L[1] \in S
      BY <1>1
    <3> HIDE DEF R
    <3>3. /\ <<L[1]>> \o R \in Seq(S)
          /\ Len(<<L[1]>> \o R) = Len(L) - n + 1
          /\ (<<L[1]>> \o R)[1] = L[1]
          /\ \A k \in 2 .. Len(L) - n + 1 : (<<L[1]>> \o R)[k] = R[k - 1]
      BY <1>1, <3>1, <3>2
    <3>4. N = <<L[1]>> \o R
      BY <2>2, Zenon DEF Unlink, R
    <3> HIDE DEF N
    <3>5. ASSUME NEW k \in 2 .. Len(L) - n + 1 PROVE N[k] = L[k + n - 1]
      <4>1. k - 1 \in 1 .. Len(L) - n /\ n + (k - 1) = k + n - 1
        BY <1>1
      <4>2. N[k] = R[k - 1]
        BY <3>3, <3>4
      <4>3. R[k - 1] = L[n + (k - 1)]
        BY <3>1, <4>1
      <4> QED
        BY <4>1, <4>2, <4>3
    <3>6. DOMAIN N = 1 .. Len(L) - n + 1
      BY <3>3, <3>4
    <3> QED
      BY <1>1, <2>2, <3>3, <3>4, <3>5, <3>6
  <2> QED
    BY <2>1, <2>2
<1>3. ASSUME NEW k \in 1 .. Len(L) - gap
      PROVE  Old(k) \in DOMAIN L /\ Old(k) # n
  BY <1>1
<1>4. ASSUME NEW i \in 1 .. Len(L) - gap, NEW j \in 1 .. Len(L) - gap, Old(i) = Old(j)
      PROVE  i = j
  BY <1>1, <1>4
<1> HIDE DEF N, Old, gap
<1>5. \A k \in DOMAIN N : \E m \in DOMAIN L : m # n /\ N[k] = L[m]
  BY <1>2, <1>3
<1>6. \A i, j \in DOMAIN N : N[i] = N[j] => i = j
  BY <1>2, <1>3, <1>4
<1> QED
  BY <1>2, <1>5, <1>6 DEF N

\* The page p leaves its list, and the other lists stay.
LEMMA DropOK ==
  ASSUME NEW L, NEW U, ListsOK(L, U), NEW s \in SIZES, NEW n \in DOMAIN L[s]
  PROVE  ListsOK([L EXCEPT ![s] = Unlink(@, n)], U \ {L[s][n]})
<1> DEFINE N == Unlink(L[s], n)
           M == [L EXCEPT ![s] = N]
           W == U \ {L[s][n]}
<1>1. /\ L \in [SIZES -> Seq(Pages)]
      /\ \A t \in SIZES : \A m \in DOMAIN L[t] : L[t][m] \in U
      /\ \A t, u \in SIZES : \A m \in DOMAIN L[t], k \in DOMAIN L[u] :
           L[t][m] = L[u][k] => t = u /\ m = k
  BY DEF ListsOK
<1>2. /\ N \in Seq(Pages)
      /\ \A k \in DOMAIN N : \E m \in DOMAIN L[s] : m # n /\ N[k] = L[s][m]
      /\ \A i, j \in DOMAIN N : N[i] = N[j] => i = j
  <2>1. L[s] \in Seq(Pages)
    BY <1>1
  <2>2. \A i, j \in DOMAIN L[s] : L[s][i] = L[s][j] => i = j
    BY <1>1
  <2> QED
    BY <2>1, <2>2, UnlinkLeaves
<1> HIDE DEF N
<1>3. /\ M \in [SIZES -> Seq(Pages)] /\ M[s] = N
      /\ \A t \in SIZES : t # s => M[t] = L[t]
  BY <1>1, <1>2
<1> HIDE DEF M
<1>4. ASSUME NEW t \in SIZES, NEW k \in DOMAIN M[t]
      PROVE  \E m \in DOMAIN L[t] : M[t][k] = L[t][m] /\ (t = s => m # n)
  BY <1>2, <1>3
<1>5. ASSUME NEW t \in SIZES, NEW k \in DOMAIN M[t]
      PROVE  M[t][k] \in W
  <2>1. PICK m \in DOMAIN L[t] : M[t][k] = L[t][m] /\ (t = s => m # n)
    BY <1>4
  <2>2. L[t][m] \in U
    BY <1>1
  <2>3. L[t][m] # L[s][n]
    BY <1>1, <2>1
  <2> QED
    BY <2>1, <2>2, <2>3
<1>6. ASSUME NEW t \in SIZES, NEW u \in SIZES, NEW i \in DOMAIN M[t], NEW j \in DOMAIN M[u],
             M[t][i] = M[u][j]
      PROVE  t = u /\ i = j
  <2>1. PICK m \in DOMAIN L[t] : M[t][i] = L[t][m]
    BY <1>4
  <2>2. PICK k \in DOMAIN L[u] : M[u][j] = L[u][k]
    BY <1>4
  <2>3. t = u /\ m = k
    <3>1. L[t][m] = L[u][k]
      BY <1>6, <2>1, <2>2, Zenon
    <3>2. \A a \in DOMAIN L[t], b \in DOMAIN L[u] :
            L[t][a] = L[u][b] => t = u /\ a = b
      BY <1>1
    <3> QED
      BY <3>1, <3>2
  <2>4. CASE t = s
    BY <1>2, <1>3, <1>6, <2>3, <2>4
  <2>5. CASE t # s
    <3>1. M[t] = L[t] /\ M[u] = L[u]
      BY <1>3, <2>3, <2>5
    <3> QED
      BY <1>1, <1>6, <2>3, <3>1
  <2> QED
    BY <2>4, <2>5
<1>7. ListsOK(M, W)
  BY <1>3, <1>5, <1>6 DEF ListsOK
<1> QED
  BY <1>7 DEF M, N, W

\* There are no more blocks than pages when each is a single page.
LEMMA BlocksFinite ==
  ASSUME NEW H, NEW B, NEW U, HeapOK(H, B), HeldOK(B, U), U \subseteq Pages
  PROVE  /\ IsFiniteSet(U) /\ Cardinality(U) \in Nat
         /\ IsFiniteSet(Descs(B, U))
         /\ Cardinality(Descs(B, U)) \in 0 .. NUM_PAGES
<1>1. IsFiniteSet(Pages) /\ Cardinality(Pages) = NUM_PAGES
  BY FS_Interval, PageAssumption DEF Pages
<1>2. IsFiniteSet(U) /\ Cardinality(U) \in Nat
  BY <1>1, FS_Subset, FS_CardinalityType
<1> DEFINE D == Descs(B, U)
           f == [b \in D |-> b.start]
<1>3. f \in Injection(D, Pages)
  BY DEF HeapOK, HeldOK, Descs, Injection, IsInjective
<1>4. IsFiniteSet(D) /\ Cardinality(D) <= NUM_PAGES
  BY <1>1, <1>3, FS_Injection
<1>5. Cardinality(D) \in Nat
  BY <1>4, FS_CardinalityType
<1> QED
  BY <1>2, <1>4, <1>5, PageAssumption

\* A free page is in no block, and so not in use.
LEMMA FoundFree ==
  ASSUME NEW H, NEW B, NEW U, HeapOK(H, B), HeldOK(B, U), NEW P \in Found(H, 1)
  PROVE  /\ P \in Pages /\ P \notin U
         /\ \A b \in B : b.start # P
         /\ Page(P).start = P
<1>1. P \in Pages /\ P \notin H.taken
  BY PageAssumption DEF Found, Fits, Pages
<1>2. ASSUME NEW b \in B, b.start = P PROVE FALSE
  <2>1. b.start \in PagesOf(b)
    BY PageAssumption DEF HeapOK, PagesOf, Pages
  <2> QED
    BY <1>1, <1>2, <2>1 DEF HeapOK
<1>3. Page(P).start = P
  BY DEF Page
<1>4. P \notin U
  BY <1>2, <1>3 DEF HeldOK
<1> QED
  BY <1>1, <1>2, <1>3, <1>4

\* It makes a block of one page.
LEMMA PageTaken ==
  ASSUME NEW H, NEW B, HeapOK(H, B), NEW P \in Found(H, 1)
  PROVE  HeapOK(page_alloc(H, P, 1), B \cup {Page(P)})
<1>1. 1 \in 1 .. NUM_PAGES
  BY PageAssumption
<1> QED
  BY <1>1, AllocKeeps DEF Page

\* Init_block_desc() takes a page and cuts it into NDESC descriptors.
LEMMA MoreDescs ==
  ASSUME NEW H, NEW B, NEW U \in SUBSET Pages, NEW d, HeapOK(H, B), HeldOK(B, U),
         DescsOK(B, U, d), NEW D \in Found(H, 1)
  PROVE  /\ HeldOK(B \cup {Page(D)}, U)
         /\ DescsOK(B \cup {Page(D)}, U, d + NDESC)
<1>1. /\ D \in Pages /\ D \notin U /\ Page(D).start = D
      /\ \A b \in B : b.start # D
  BY FoundFree
<1>2. HeldOK(B \cup {Page(D)}, U)
  BY <1>1 DEF HeldOK
<1>3. /\ IsFiniteSet(Descs(B, U)) /\ Cardinality(Descs(B, U)) \in Nat
      /\ Cardinality(U) \in Nat
  BY BlocksFinite
<1>4. Descs(B \cup {Page(D)}, U) = Descs(B, U) \cup {Page(D)}
  BY <1>1 DEF Descs
<1>5. Page(D) \notin Descs(B, U)
  BY <1>1 DEF Descs
<1>6. Cardinality(Descs(B \cup {Page(D)}, U)) = Cardinality(Descs(B, U)) + 1
  BY <1>3, <1>4, <1>5, FS_AddElement, Zenon
<1>7. NDESC \in Nat /\ d \in Nat /\ d + Cardinality(U) = NDESC * Cardinality(Descs(B, U))
  BY MallocAssumption DEF DescsOK
<1>8. NDESC * (Cardinality(Descs(B, U)) + 1) = NDESC * Cardinality(Descs(B, U)) + NDESC
  BY <1>3, <1>7
<1>9. /\ d + NDESC \in Nat
      /\ (d + NDESC) + Cardinality(U) = NDESC * Cardinality(Descs(B \cup {Page(D)}, U))
  BY <1>3, <1>6, <1>7, <1>8
<1> QED
  BY <1>2, <1>9 DEF DescsOK

\* A page goes to a bucket, with one of the free descriptors.
LEMMA TakeOK ==
  ASSUME NEW H, NEW B, NEW U \in SUBSET Pages, NEW d, HeapOK(H, B), HeldOK(B, U),
         DescsOK(B, U, d), d # 0, NEW P \in Found(H, 1)
  PROVE  /\ HeldOK(B \cup {Page(P)}, U \cup {P})
         /\ DescsOK(B \cup {Page(P)}, U \cup {P}, d - 1)
<1>1. /\ P \in Pages /\ P \notin U /\ Page(P).start = P
      /\ \A b \in B : b.start # P
  BY FoundFree
<1>2. HeldOK(B \cup {Page(P)}, U \cup {P})
  BY <1>1 DEF HeldOK
<1>3. IsFiniteSet(U) /\ Cardinality(U) \in Nat
  BY BlocksFinite
<1>4. Descs(B \cup {Page(P)}, U \cup {P}) = Descs(B, U)
  BY <1>1 DEF Descs
<1>5. Cardinality(U \cup {P}) = Cardinality(U) + 1
  BY <1>1, <1>3, FS_AddElement, Zenon
<1>6. d \in Nat /\ d + Cardinality(U) = NDESC * Cardinality(Descs(B, U))
  BY DEF DescsOK
<1>7. d - 1 \in Nat /\ (d - 1) + (Cardinality(U) + 1) = d + Cardinality(U)
  BY <1>3, <1>6
<1> QED
  BY <1>2, <1>4, <1>5, <1>6, <1>7 DEF DescsOK

\* The page p goes back, and its descriptor to the free ones.
LEMMA ReturnOK ==
  ASSUME NEW H, NEW B, NEW U \in SUBSET Pages, NEW d, HeapOK(H, B), HeldOK(B, U),
         DescsOK(B, U, d), NEW p \in U
  PROVE  /\ HeapOK(page_free(H, p), B \ {Page(p)})
         /\ HeldOK(B \ {Page(p)}, U \ {p})
         /\ DescsOK(B \ {Page(p)}, U \ {p}, d + 1)
<1>1. Page(p) \in B /\ Page(p).start = p /\ \A b \in B : b = Page(b.start)
  BY DEF HeldOK, Page
<1>2. HeapOK(page_free(H, p), B \ {Page(p)})
  BY <1>1, FreeKeeps
<1>3. \A q \in U \ {p} : Page(q) # Page(p)
  BY DEF Page
<1>4. HeldOK(B \ {Page(p)}, U \ {p})
  BY <1>3 DEF HeldOK
<1>5. IsFiniteSet(U) /\ Cardinality(U) \in Nat
  BY BlocksFinite
<1>6. Descs(B \ {Page(p)}, U \ {p}) = Descs(B, U)
  BY <1>1 DEF Descs
<1>7. Cardinality(U \ {p}) = Cardinality(U) - 1
  BY <1>5, FS_RemoveElement, Zenon
<1>8. d \in Nat /\ d + Cardinality(U) = NDESC * Cardinality(Descs(B, U))
  BY DEF DescsOK
<1>9. d + 1 \in Nat /\ (d + 1) + (Cardinality(U) - 1) = d + Cardinality(U)
  BY <1>5, <1>8
<1> QED
  BY <1>2, <1>4, <1>6, <1>7, <1>8, <1>9 DEF DescsOK

\* The object <<p, n>> comes back, and G are the free objects of p after it.
LEMMA PutBackOK ==
  ASSUME TablesOK(live, freeptr, blocnt), NEW p \in Pages, NEW n, <<p, n>> \in live,
         NEW G, PageOK(Objs(live, p) \ {n}, G, blocnt[p] - 1),
         live' = live \ {<<p, n>>},
         freeptr' = [freeptr EXCEPT ![p] = G],
         blocnt' = [blocnt EXCEPT ![p] = blocnt[p] - 1]
  PROVE  /\ TablesOK(live', freeptr', blocnt')
         /\ InUse(live') = IF blocnt[p] - 1 = 0 THEN InUse(live) \ {p} ELSE InUse(live)
<1>1. /\ live \subseteq Pages \X (1 .. PAGE_SIZE)
      /\ freeptr \in [Pages -> Seq(1 .. PAGE_SIZE)]
      /\ blocnt \in [Pages -> Nat]
      /\ \A q \in Pages : PageOK(Objs(live, q), freeptr[q], blocnt[q])
  BY DEF TablesOK
<1>2. Objs(live', p) = Objs(live, p) \ {n}
  BY DEF Objs
<1>3. \A q \in Pages : q # p => Objs(live', q) = Objs(live, q)
  BY DEF Objs
<1>4. Objs(live', p) \in SUBSET (1 .. PAGE_SIZE) /\ n \in Objs(live, p)
  BY <1>1 DEF Objs
<1>5. /\ blocnt[p] - 1 = Cardinality(Objs(live', p)) /\ G \in Seq(1 .. PAGE_SIZE)
      /\ IsFiniteSet(Objs(live', p)) /\ blocnt[p] - 1 \in Nat
  <2>1. blocnt[p] - 1 = Cardinality(Objs(live', p)) /\ G \in Seq(1 .. PAGE_SIZE)
    BY <1>2, Zenon DEF PageOK, Apart
  <2>2. IsFiniteSet(Objs(live', p)) /\ Cardinality(Objs(live', p)) \in 0 .. PAGE_SIZE
    BY <1>4, ObjsFinite, Zenon
  <2> QED
    BY <2>1, <2>2, MallocAssumption
<1>6. blocnt[p] - 1 = 0 <=> Objs(live', p) = {}
  BY <1>5, FS_EmptySet, Zenon
<1>7. ASSUME NEW q \in Pages
      PROVE  PageOK(Objs(live', q), freeptr'[q], blocnt'[q])
  <2>1. CASE q = p
    BY <1>1, <1>2, <2>1, Zenon
  <2>2. CASE q # p
    <3>1. freeptr'[q] = freeptr[q] /\ blocnt'[q] = blocnt[q]
      BY <1>1, <2>2
    <3> QED
      BY <1>1, <1>3, <2>2, <3>1, Zenon
  <2> QED
    BY <2>1, <2>2
<1>8. /\ live' \subseteq Pages \X (1 .. PAGE_SIZE)
      /\ freeptr' \in [Pages -> Seq(1 .. PAGE_SIZE)]
      /\ blocnt' \in [Pages -> Nat]
  BY <1>1, <1>5
<1>9. InUse(live') = IF blocnt[p] - 1 = 0 THEN InUse(live) \ {p} ELSE InUse(live)
  BY <1>3, <1>4, <1>6, Zenon DEF InUse
<1> QED
  BY <1>7, <1>8, <1>9, Zenon DEF TablesOK

-----------------------------------------------------------------------------
(* malloc() and free() *)

\* The inductive invariant: the page allocator's, and that every descriptor,
\* list, free list and count agrees with the objects in use.
MInv ==
  /\ PageInv
  /\ TablesOK(live, freeptr, blocnt)
  /\ ListsOK(list, InUse(live))
  /\ HeldOK(blocks, InUse(live))
  /\ DescsOK(blocks, InUse(live), ndesc)
  /\ halted \in {"no", "bad arg", "out of memory", "free"}

LEMMA InUsePages == ASSUME NEW V PROVE InUse(V) \in SUBSET Pages
BY DEF InUse

\* malloc() finds a page with a free object.
LEMMA ReuseStep ==
  ASSUME MInv, NEW s \in SIZES, NEW n \in Usable(s),
         Handout(list[s][n], freeptr[list[s][n]], blocnt[list[s][n]]),
         UNCHANGED <<pageVars, list, ndesc, halted>>
  PROVE  MInv'
<1> DEFINE p == list[s][n]
<1>1. n \in DOMAIN list[s] /\ freeptr[p] # << >>
  BY DEF Usable
<1>2. p \in InUse(live) /\ p \in Pages
  BY <1>1, InUsePages DEF MInv, ListsOK
<1>3. Apart(Objs(live, p), freeptr[p], blocnt[p])
  BY <1>2 DEF MInv, TablesOK, PageOK
<1>4. Handout(p, freeptr[p], blocnt[p])
  OBVIOUS
<1> HIDE DEF p
<1>5. TablesOK(live', freeptr', blocnt') /\ InUse(live') = InUse(live) \cup {p}
  BY <1>1, <1>2, <1>3, <1>4, HandoutOK DEF MInv
<1>6. InUse(live') = InUse(live)
  BY <1>2, <1>5
<1> QED
  BY <1>5, <1>6 DEF MInv, PageInv, pageVars

\* malloc() takes a new page, after one for descriptors when there are none.
LEMMA NewPageStep ==
  ASSUME MInv, NEW s \in SIZES, NewPage(s), UNCHANGED halted
  PROVE  MInv'
<1> DEFINE U == InUse(live)
           F == [n \in 1 .. PAGE_SIZE \div s |-> n]
           d == IF ndesc = 0 THEN NDESC ELSE ndesc
<1>1. PICK D \in IF ndesc = 0 THEN Found(heap, 1) ELSE {NUM_PAGES} :
        \E P \in Found(IF ndesc = 0 THEN page_alloc(heap, D, 1) ELSE heap, 1) :
          /\ heap' = page_alloc(IF ndesc = 0 THEN page_alloc(heap, D, 1) ELSE heap, P, 1)
          /\ blocks' = blocks \cup {Page(q) : q \in {D, P} \cap Pages}
          /\ ndesc' = (IF ndesc = 0 THEN NDESC ELSE ndesc) - 1
          /\ list' = [list EXCEPT ![s] = <<P>> \o @]
          /\ Handout(P, [n \in 1 .. PAGE_SIZE \div s |-> n], 0)
  BY Zenon DEF NewPage
<1> DEFINE H == IF ndesc = 0 THEN page_alloc(heap, D, 1) ELSE heap
           B == IF ndesc = 0 THEN blocks \cup {Page(D)} ELSE blocks
<1>2. PICK P \in Found(H, 1) :
        /\ heap' = page_alloc(H, P, 1)
        /\ blocks' = blocks \cup {Page(q) : q \in {D, P} \cap Pages}
        /\ ndesc' = d - 1
        /\ list' = [list EXCEPT ![s] = <<P>> \o @]
        /\ Handout(P, F, 0)
  BY <1>1, Zenon
<1>3. U \in SUBSET Pages
  BY InUsePages
<1>4. HeapOK(heap, blocks) /\ HeldOK(blocks, U) /\ DescsOK(blocks, U, ndesc)
  BY DEF MInv, PageInv
<1>5. HeapOK(H, B) /\ HeldOK(B, U) /\ DescsOK(B, U, d) /\ d # 0
  <2>1. CASE ndesc = 0
    <3>1. D \in Found(heap, 1)
      BY <1>1, <2>1
    <3>2. HeapOK(page_alloc(heap, D, 1), blocks \cup {Page(D)})
      BY <1>4, <3>1, PageTaken
    <3>3. /\ HeldOK(blocks \cup {Page(D)}, U)
          /\ DescsOK(blocks \cup {Page(D)}, U, ndesc + NDESC)
      BY <1>3, <1>4, <3>1, MoreDescs
    <3>4. ndesc + NDESC = NDESC /\ NDESC # 0
      BY <2>1, MallocAssumption
    <3> QED
      BY <2>1, <3>2, <3>3, <3>4
  <2>2. CASE ndesc # 0
    BY <1>4, <2>2
  <2> QED
    BY <2>1, <2>2
<1>6. blocks' = B \cup {Page(P)}
  <2>1. P \in Pages /\ (ndesc = 0 => D \in Pages) /\ (ndesc # 0 => D \notin Pages)
    <3>1. ndesc = 0 => D \in Found(heap, 1)
      BY <1>1
    <3>2. ndesc # 0 => D = NUM_PAGES
      BY <1>1
    <3> QED
      BY <3>1, <3>2, PageAssumption DEF Found, Pages
  <2>2. CASE ndesc = 0
    BY <1>2, <2>1, <2>2
  <2>3. CASE ndesc # 0
    BY <1>2, <2>1, <2>3
  <2> QED
    BY <2>2, <2>3
<1> HIDE DEF U, F, d, H, B
<1>7. P \in Pages /\ P \notin U /\ HeapOK(page_alloc(H, P, 1), B \cup {Page(P)})
  BY <1>5, FoundFree, PageTaken
<1>8. HeldOK(B \cup {Page(P)}, U \cup {P}) /\ DescsOK(B \cup {Page(P)}, U \cup {P}, d - 1)
  BY <1>3, <1>5, TakeOK
<1>9. ListsOK(list', U \cup {P})
  <2>1. ListsOK(list, U)
    BY DEF MInv, U
  <2> QED
    BY <1>2, <1>7, <2>1, LinkOK, Zenon
<1>10. Objs(live, P) = {}
  BY <1>7 DEF InUse, U
<1>11. Apart(Objs(live, P), F, 0) /\ F # << >>
  BY <1>10, CutOK DEF F
<1>12. TablesOK(live', freeptr', blocnt') /\ InUse(live') = U \cup {P}
  BY <1>2, <1>7, <1>11, HandoutOK DEF MInv, U
<1> QED
  BY <1>2, <1>6, <1>7, <1>8, <1>9, <1>12 DEF MInv, PageInv

\* free() of an object whose page is found in a list.
LEMMA FreeStep ==
  ASSUME MInv, NEW o \in live, NEW h \in Holding(o[1]), UNCHANGED halted,
         live' = live \ {o},
         blocnt' = [blocnt EXCEPT ![o[1]] = blocnt[o[1]] - 1],
         IF Emptied(blocnt[o[1]] - 1)
         THEN /\ list' = [list EXCEPT ![h[1]] = Unlink(@, h[2])]
              /\ heap' = page_free(heap, o[1])
              /\ blocks' = blocks \ {Page(o[1])}
              /\ freeptr' = [freeptr EXCEPT ![o[1]] = << >>]
              /\ ndesc' = ndesc + 1
         ELSE /\ freeptr' = [freeptr EXCEPT ![o[1]] = <<o[2]>> \o @]
              /\ UNCHANGED <<pageVars, list, ndesc>>
  PROVE  MInv'
<1>1. PICK p \in Pages, n \in 1 .. PAGE_SIZE : o = <<p, n>>
  <2>1. o \in Pages \X (1 .. PAGE_SIZE)
    BY DEF MInv, TablesOK
  <2> QED
    BY <2>1
<1>2. o[1] = p /\ o[2] = n
  BY <1>1
<1>3. n \in Objs(live, p) /\ p \in InUse(live)
  BY <1>1 DEF Objs, InUse
<1>4. Objs(live, p) \in SUBSET (1 .. PAGE_SIZE)
  BY DEF Objs
<1>5. Apart(Objs(live, p), freeptr[p], blocnt[p])
  BY DEF MInv, TablesOK, PageOK
<1>6. Apart(Objs(live, p) \ {n}, <<n>> \o freeptr[p], blocnt[p] - 1)
  BY <1>3, <1>4, <1>5, PushOK
<1>7. IsFiniteSet(Objs(live, p) \ {n})
  <2>1. Objs(live, p) \ {n} \in SUBSET (1 .. PAGE_SIZE)
    BY <1>4
  <2> QED
    BY <2>1, ObjsFinite
<1>8. blocnt[p] - 1 = 0 <=> Objs(live, p) \ {n} = {}
  BY <1>6, <1>7, FS_EmptySet, Zenon DEF Apart
<1>9. live' = live \ {<<p, n>>} /\ blocnt' = [blocnt EXCEPT ![p] = blocnt[p] - 1]
  BY <1>1, <1>2
<1>10. TablesOK(live, freeptr, blocnt) /\ <<p, n>> \in live
  BY <1>1 DEF MInv
<1>11. CASE Emptied(blocnt[p] - 1)
  <2>1. /\ list' = [list EXCEPT ![h[1]] = Unlink(@, h[2])]
        /\ heap' = page_free(heap, p)
        /\ blocks' = blocks \ {Page(p)}
        /\ freeptr' = [freeptr EXCEPT ![p] = << >>]
        /\ ndesc' = ndesc + 1
    BY <1>2, <1>11
  <2>2. blocnt[p] - 1 = 0
    BY <1>11 DEF Emptied
  <2>3. PageOK(Objs(live, p) \ {n}, << >>, blocnt[p] - 1)
    <3>1. << >> \in Seq(1 .. PAGE_SIZE) /\ IsInjective(<< >>) /\ ToSet(<< >>) = {}
      BY DEF IsInjective, ToSet
    <3>2. blocnt[p] - 1 = Cardinality(Objs(live, p) \ {n})
      BY <1>6 DEF Apart
    <3> QED
      BY <3>1, <3>2 DEF PageOK, Apart
  <2>4. TablesOK(live', freeptr', blocnt') /\ InUse(live') = InUse(live) \ {p}
    BY <1>9, <1>10, <2>1, <2>2, <2>3, PutBackOK, Zenon
  <2>5. /\ HeapOK(heap', blocks') /\ HeldOK(blocks', InUse(live) \ {p})
        /\ DescsOK(blocks', InUse(live) \ {p}, ndesc')
    <3>1. HeapOK(heap, blocks) /\ HeldOK(blocks, InUse(live))
          /\ DescsOK(blocks, InUse(live), ndesc) /\ InUse(live) \in SUBSET Pages
      BY InUsePages DEF MInv, PageInv
    <3> QED
      BY <1>3, <2>1, <3>1, ReturnOK, Zenon
  <2>6. ListsOK(list', InUse(live) \ {p})
    <3>1. h[1] \in SIZES /\ h[2] \in DOMAIN list[h[1]] /\ list[h[1]][h[2]] = p
      BY <1>2 DEF Holding
    <3>2. ListsOK(list, InUse(live))
      BY DEF MInv
    <3> QED
      BY <2>1, <3>1, <3>2, DropOK
  <2> QED
    BY <2>4, <2>5, <2>6 DEF MInv, PageInv
<1>12. CASE ~Emptied(blocnt[p] - 1)
  <2>1. /\ freeptr' = [freeptr EXCEPT ![p] = <<n>> \o freeptr[p]]
        /\ UNCHANGED <<pageVars, list, ndesc>>
    BY <1>2, <1>12
  <2>2. blocnt[p] - 1 # 0
    BY <1>12 DEF Emptied
  <2>3. PageOK(Objs(live, p) \ {n}, <<n>> \o freeptr[p], blocnt[p] - 1)
    BY <1>6, <1>8, <2>2 DEF PageOK
  <2>4. TablesOK(live', freeptr', blocnt') /\ InUse(live') = InUse(live)
    BY <1>9, <1>10, <2>1, <2>2, <2>3, PutBackOK, Zenon
  <2> QED
    BY <2>1, <2>4 DEF MInv, PageInv, pageVars
<1> QED
  BY <1>11, <1>12

\* The heap is empty at first.
LEMMA InitMalloc == MallocInit => MInv
<1> SUFFICES ASSUME MallocInit PROVE MInv
  OBVIOUS
<1>1. PageInv
  BY InitPages DEF MallocInit
<1>2. /\ list = [s \in SIZES |-> << >>] /\ freeptr = [p \in Pages |-> << >>]
      /\ blocnt = [p \in Pages |-> 0] /\ ndesc = 0 /\ live = {} /\ blocks = {}
      /\ halted = "no"
  BY DEF MallocInit, Init_page
<1>3. \A p : Objs(live, p) = {}
  BY <1>2 DEF Objs
<1>4. InUse(live) = {}
  BY <1>3 DEF InUse
<1>5. TablesOK(live, freeptr, blocnt)
  <2>1. PageOK({}, << >>, 0)
    BY FS_EmptySet DEF PageOK, Apart, IsInjective, ToSet
  <2>2. << >> \in Seq(1 .. PAGE_SIZE)
    OBVIOUS
  <2>3. freeptr \in [Pages -> Seq(1 .. PAGE_SIZE)] /\ blocnt \in [Pages -> Nat]
    BY <1>2, <2>2
  <2>4. \A p \in Pages : freeptr[p] = << >> /\ blocnt[p] = 0
    BY <1>2
  <2> QED
    BY <1>2, <1>3, <2>1, <2>3, <2>4, Zenon DEF TablesOK
<1>6. ListsOK(list, {})
  BY <1>2 DEF ListsOK
<1>7. HeldOK(blocks, {}) /\ DescsOK(blocks, {}, ndesc)
  <2>1. Descs(blocks, {}) = {}
    BY <1>2 DEF Descs
  <2> QED
    BY <1>2, <2>1, FS_EmptySet, MallocAssumption DEF HeldOK, DescsOK
<1> QED
  BY <1>1, <1>2, <1>4, <1>5, <1>6, <1>7 DEF MInv

\* Every call of malloc() and free() keeps the invariant.
LEMMA NextMalloc == MInv /\ [MallocNext]_mallocVars => MInv'
<1> SUFFICES ASSUME MInv, [MallocNext]_mallocVars PROVE MInv'
  OBVIOUS
<1>1. ASSUME NEW why \in {"bad arg", "out of memory", "free"}, panic(why) PROVE MInv'
  BY <1>1 DEF panic, pageVars, bucketVars, MInv, PageInv
<1>2. ASSUME NEW length \in 1 .. PAGE_SIZE + 1, malloc(length) PROVE MInv'
  <2>1. CASE Bucket(length) = {}
    BY <1>1, <1>2, <2>1 DEF malloc
  <2>2. CASE Bucket(length) # {}
    <3>1. PICK s \in Bucket(length) :
            IF Usable(s) # {}
            THEN /\ \E n \in Usable(s) :
                      Handout(list[s][n], freeptr[list[s][n]], blocnt[list[s][n]])
                 /\ UNCHANGED <<pageVars, list, ndesc, halted>>
            ELSE IF OutOfPages THEN panic("out of memory")
            ELSE NewPage(s) /\ UNCHANGED halted
      BY <1>2, <2>2 DEF malloc
    <3>2. s \in SIZES
      BY DEF Bucket
    <3>3. CASE Usable(s) # {}
      BY <3>1, <3>2, <3>3, ReuseStep
    <3>4. CASE Usable(s) = {} /\ OutOfPages
      BY <1>1, <3>1, <3>4
    <3>5. CASE Usable(s) = {} /\ ~OutOfPages
      BY <3>1, <3>2, <3>5, NewPageStep
    <3> QED
      BY <3>3, <3>4, <3>5
  <2> QED
    BY <2>1, <2>2
<1>3. ASSUME NEW o \in live, free(o) PROVE MInv'
  <2>1. CASE Holding(o[1]) = {}
    BY <1>1, <1>3, <2>1 DEF free
  <2>2. CASE Holding(o[1]) # {}
    BY <1>3, <2>2, FreeStep DEF free
  <2> QED
    BY <2>1, <2>2
<1>4. CASE UNCHANGED mallocVars
  BY <1>4 DEF mallocVars, bucketVars, pageVars, MInv, PageInv
<1> QED
  BY <1>2, <1>3, <1>4 DEF MallocNext

LEMMA AlwaysMalloc == MallocSpec => []MInv
BY InitMalloc, NextMalloc, PTL DEF MallocSpec

\* malloc() and free() keep the page allocator's flags and blocks in
\* agreement, whatever they are asked for and in whatever order.
THEOREM MallocKeepsBlocks == MallocSpec => []BlocksIntact
<1>1. MInv => BlocksIntact
  BY DEF MInv, PageInv, HeapOK, BlocksIntact
<1> QED
  BY <1>1, AlwaysMalloc, PTL

\* malloc() never hands out an object that is in use, whatever the number of
\* pages, the size of a page and the sizes of the buckets; the lists lose
\* pages (see Unlink), but no object of a lost page is handed out again.
THEOREM ObjectsStayApart == MallocSpec => []ObjectsApart
<1>1. MInv => ObjectsApart
  <2> SUFFICES ASSUME MInv PROVE ObjectsApart
    OBVIOUS
  <2>1. \A p \in Pages : Apart(LiveIn(p), freeptr[p], blocnt[p])
    BY DEF MInv, TablesOK, PageOK, Objs, LiveIn
  <2>2. \A p \in Pages : Cardinality(LiveIn(p)) \in 0 .. PAGE_SIZE
    BY ObjsFinite, Zenon DEF LiveIn
  <2>3. blocnt \in [Pages -> 0 .. PAGE_SIZE]
    BY <2>1, <2>2 DEF MInv, TablesOK, Apart
  <2>4. ndesc \in 0 .. NDESC * NUM_PAGES
    <3> DEFINE u == Cardinality(InUse(live))
               c == Cardinality(Descs(blocks, InUse(live)))
    <3>1. u \in Nat /\ c \in 0 .. NUM_PAGES
      BY InUsePages, BlocksFinite DEF MInv, PageInv
    <3>2. ndesc \in Nat /\ ndesc + u = NDESC * c
      BY DEF MInv, DescsOK
    <3> HIDE DEF u, c
    <3>3. NDESC * c <= NDESC * NUM_PAGES /\ NDESC * c \in Nat /\ NDESC * NUM_PAGES \in Nat
      BY <3>1, MallocAssumption, PageAssumption
    <3> QED
      BY <3>1, <3>2, <3>3
  <2>5. PageTypeOK
    BY DEF MInv, PageInv, HeapOK, PageTypeOK
  <2>6. MallocTypeOK
    BY <2>3, <2>4, <2>5 DEF MInv, TablesOK, ListsOK, MallocTypeOK
  <2> QED
    BY <2>1, <2>6 DEF ObjectsApart, Apart
<1> QED
  BY <1>1, AlwaysMalloc, PTL

\* page_free() takes no page away under a caller, and a page serves one bucket.
THEOREM LivePagesStayHeld == MallocSpec => []LivePagesHeld
<1>1. MInv => LivePagesHeld
  <2> SUFFICES ASSUME MInv PROVE LivePagesHeld
    OBVIOUS
  <2>1. ASSUME NEW o \in live PROVE Page(o[1]) \in blocks
    <3>1. o[1] \in InUse(live)
      <4>1. o \in Pages \X (1 .. PAGE_SIZE)
        BY DEF MInv, TablesOK
      <4>2. o[1] \in Pages /\ o[2] \in 1 .. PAGE_SIZE /\ <<o[1], o[2]>> \in live
        BY <4>1
      <4> QED
        BY <4>2 DEF InUse, Objs
    <3> QED
      BY <3>1 DEF MInv, HeldOK
  <2>2. ASSUME NEW p \in Pages PROVE Cardinality(Holding(p)) <= 1
    <3>1. ASSUME NEW g \in Holding(p), NEW h \in Holding(p) PROVE g = h
      <4>1. /\ g \in SIZES \X (1 .. NUM_PAGES) /\ h \in SIZES \X (1 .. NUM_PAGES)
            /\ g[2] \in DOMAIN list[g[1]] /\ h[2] \in DOMAIN list[h[1]]
            /\ list[g[1]][g[2]] = list[h[1]][h[2]]
        BY DEF Holding
      <4>2. g[1] = h[1] /\ g[2] = h[2]
        <5>1. g[1] \in SIZES /\ h[1] \in SIZES
          BY <4>1
        <5>2. \A m \in DOMAIN list[g[1]], n \in DOMAIN list[h[1]] :
                list[g[1]][m] = list[h[1]][n] => g[1] = h[1] /\ m = n
          BY <5>1 DEF MInv, ListsOK
        <5> QED
          BY <4>1, <5>2
      <4> QED
        BY <4>1, <4>2
    <3>2. CASE Holding(p) = {}
      BY <3>2, FS_EmptySet
    <3>3. CASE Holding(p) # {}
      <4>1. PICK h \in Holding(p) : TRUE
        BY <3>3
      <4>2. Holding(p) = {h}
        BY <3>1, <4>1
      <4>3. Cardinality({h}) = 1
        BY FS_Singleton
      <4> QED
        BY <4>2, <4>3
    <3> QED
      BY <3>2, <3>3
  <2> QED
    BY <2>1, <2>2 DEF LivePagesHeld
<1> QED
  BY <1>1, AlwaysMalloc, PTL
=============================================================================
