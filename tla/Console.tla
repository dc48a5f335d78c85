------------------------------ MODULE Console ------------------------------
(***************************************************************************)
(* printf() and printk() of 404OS on one hart (print/, kernel/lock/): each *)
(* has a spin lock and a buffer.  User mode calls printf() and may be      *)
(* preempted anywhere; the kernel calls printk(), and is not preempted,    *)
(* although a system call may sleep between two calls.  dirlookup(),       *)
(* ASSERT and panic() call printf() in the kernel.                         *)
(***************************************************************************)
EXTENDS Naturals

CONSTANTS
  Procs,
  KernelPrintf,   \* does the kernel call printf()?
  LEN,            \* the characters of a text
  NONE

ASSUME ConsoleAssumption ==
  /\ KernelPrintf \in BOOLEAN /\ LEN \in Nat \ {0} /\ NONE \notin Procs \X {"user", "kernel"}

VARIABLES
  cur,     \* the task that runs
  mode,    \* task -> "user" or "kernel"
  call,    \* task and mode -> where it is in _vprintf()
  lock,    \* file_lock: STDOUT and KOUT
  buf      \* out_buf and buff: who wrote the characters

vars == <<cur, mode, call, lock, buf>>

Devs == {"STDOUT", "KOUT"}
Modes == {"user", "kernel"}
Ctxs == Procs \X Modes
Call == [at : {"out", "spin", "format", "puts", "unlock"}, dev : Devs, i : 0 .. LEN]

Init ==
  /\ cur \in Procs
  /\ mode = [p \in Procs |-> "user"]
  /\ call = [c \in Ctxs |-> [at |-> "out", dev |-> "STDOUT", i |-> 0]]
  /\ lock = [d \in Devs |-> 0]
  /\ buf = [d \in Devs |-> [i \in 1 .. LEN |-> NONE]]

\* A trap from user mode, wherever a printf() is; and its return.
Trap(p) ==
  /\ mode[p] = "user"
  /\ mode' = [mode EXCEPT ![p] = "kernel"]
  /\ UNCHANGED <<cur, call, lock, buf>>

Return(p) ==
  /\ mode[p] = "kernel" /\ call[p, "kernel"].at = "out"
  /\ mode' = [mode EXCEPT ![p] = "user"]
  /\ UNCHANGED <<cur, call, lock, buf>>

\* The device of a call: printf() or printk().
May(c, d) ==
  IF c[2] = "user" THEN d = "STDOUT" ELSE d = "KOUT" \/ KernelPrintf

At(c, at, i) == call' = [call EXCEPT ![c].at = at, ![c].i = i]

vprintf(c, d) ==
  /\ call[c].at = "out" /\ May(c, d)
  /\ call' = [call EXCEPT ![c] = [at |-> "spin", dev |-> d, i |-> 0]]
  /\ UNCHANGED <<cur, mode, lock, buf>>

\* Mutant: the lock is taken whatever its old value.
Taken_any(d) == TRUE

\* amoswap.w returns the old value: 0 is success.
Taken(d) == lock[d] = 0

spin_lock(c) ==
  LET d == call[c].dev IN
  /\ call[c].at = "spin"
  /\ Taken(d)
  /\ lock' = [lock EXCEPT ![d] = 1]
  /\ At(c, "format", 0)
  /\ UNCHANGED <<cur, mode, buf>>

\* The second _vsnprintf() writes the buffer, uart_puts() reads it.
Format(c) ==
  LET i == call[c].i + 1 IN
  /\ call[c].at = "format"
  /\ buf' = [buf EXCEPT ![call[c].dev][i] = c]
  /\ IF i = LEN THEN At(c, "puts", 0) ELSE At(c, "format", i)
  /\ UNCHANGED <<cur, mode, lock>>

Puts(c) ==
  LET i == call[c].i + 1 IN
  /\ call[c].at = "puts"
  /\ IF i = LEN THEN At(c, "unlock", 0) ELSE At(c, "puts", i)
  /\ UNCHANGED <<cur, mode, lock, buf>>

\* Mutant: only KOUT is given back.
Unlocked_kout(d) == IF d = "KOUT" THEN [lock EXCEPT ![d] = 0] ELSE lock

Unlocked(d) == [lock EXCEPT ![d] = 0]

spin_unlock(c) ==
  /\ call[c].at = "unlock"
  /\ lock' = Unlocked(call[c].dev)
  /\ At(c, "out", 0)
  /\ UNCHANGED <<cur, mode, buf>>

Step(c) ==
  /\ cur = c[1] /\ mode[cur] = c[2]
  /\ spin_lock(c) \/ Format(c) \/ Puts(c) \/ spin_unlock(c)

Leave(p) == cur = p /\ Return(p)

Enter(p) == cur = p /\ (Trap(p) \/ \E d \in Devs : vprintf(<<p, mode[p]>>, d))

\* Mutant: the scheduler takes the hart from a task in the kernel too.
Preemptible_any(p) == TRUE

\* The tick takes user mode; in the kernel a task gives the hart up itself.
Preemptible(p) == mode[p] = "user" \/ call[p, "kernel"].at = "out"

schedule(q) ==
  /\ q # cur /\ Preemptible(cur)
  /\ cur' = q
  /\ UNCHANGED <<mode, call, lock, buf>>

Next ==
  \/ \E c \in Ctxs : Step(c)
  \/ \E p \in Procs : Enter(p) \/ Leave(p) \/ schedule(p)

Spec == Init /\ [][Next]_vars

\* Tasks get their turn again and again, a slice is long enough for a step, and
\* traps end.
FairSpec ==
  /\ Spec
  /\ \A c \in Ctxs : SF_vars(Step(c))
  /\ \A p \in Procs : SF_vars(Leave(p)) /\ SF_vars(schedule(p))

-----------------------------------------------------------------------------
(* Properties *)

\* Variables have their types.
TypeOK ==
  /\ cur \in Procs
  /\ mode \in [Procs -> Modes]
  /\ call \in [Ctxs -> Call]
  /\ lock \in [Devs -> {0, 1}]
  /\ buf \in [Devs -> [1 .. LEN -> Ctxs \cup {NONE}]]

\* What a call puts on the screen is its own text: from the lock to the unlock
\* nobody else writes the buffer, wherever it is interrupted.
TextOwned ==
  \A c \in Ctxs : call[c].at = "puts" => \A i \in 1 .. LEN : buf[call[c].dev][i] = c

\* The kernel never spins on a lock that a task has: nobody could give it back,
\* since the kernel is not preempted.
KernelNeverSpins ==
  \A p \in Procs :
    LET c == call[p, "kernel"] IN cur = p /\ c.at = "spin" => lock[c.dev] = 0

\* A lock that is taken is given back.
LocksReleased == \A d \in Devs : lock[d] = 1 ~> lock[d] = 0
=============================================================================
