------------------------------ MODULE Context -------------------------------
(***************************************************************************)
(* Registers and stacks of the tasks on one hart: trap_vector and the two  *)
(* ways back to user mode, switch_to, and the contexts that fork and       *)
(* execve make (kernel/switch.S, fork.c, exec.c, sys.c, trap.c).           *)
(*                                                                         *)
(* The kernel has no stack of its own: a trap runs on the stack of the     *)
(* task it interrupts.  Stacks are D words each, side by side, addressed   *)
(* by word numbers.  A register of DataRegs stands for its kind: "s11" for *)
(* s1 to s11, "t5" for t0 to t5 and gp and tp, "a0" for a0 to a7.          *)
(*                                                                         *)
(* User code is built without optimisation, as common.mk has it: every     *)
(* function saves s0 in its frame and reaches its local through s0.        *)
(***************************************************************************)
EXTENDS Integers

CONSTANTS
  NTASK,    \* bound: tasks; task t is the one with pcb_id t - 1
  CALLS,    \* bound: nested user functions
  PcMax,    \* bound: user instructions of a program
  Inlined   \* the fork wrapper has no frame of its own (its `inline' is heeded)

ASSUME ContextAssumption ==
  /\ NTASK \in Nat \ {0}
  /\ CALLS \in Nat \ {0}
  /\ Inlined \in BOOLEAN

Tasks == 1 .. NTASK
Vals == {1}
DataRegs == {"ra", "s11", "a0", "t5", "t6"}

\* Words of a stack: the user frames, trap_handler's word, schedule's two
\* and the three that switch_to makes room for.
D == 2 * CALLS + 6

Base(t) == t * D
Top(t) == Base(t) + D

VARIABLES
  cur,        \* the current task
  MODE,       \* 0: user code runs, 1: the kernel
  live,       \* tasks that exist
  pc, reg,    \* the hart: pc, and [sp, s0, data] with data the other registers
  sscratch,   \* the task whose context sscratch points to
  context,    \* task -> saved [epc, sp, s0, data, temp]
  mem         \* the words of all stacks

vars == <<cur, MODE, live, pc, reg, sscratch, context, mem>>

Local(v) == <<"local", v>>
Addr(a) == <<"addr", a>>
Frame(epc, cause) == <<"frame", epc, cause>>

\* What C code in the kernel leaves in the registers it uses.
Clobbered(t) == [r \in DataRegs |-> <<r, t, 2>>]

Zeros == [r \in DataRegs |-> <<r, 0, 0>>]

ContextInit ==
  /\ cur = 1
  /\ MODE = 0
  /\ live = {1}
  /\ pc = 1
  /\ reg = [sp |-> Top(1) - 2, s0 |-> Top(1), data |-> Zeros]
  /\ sscratch = 1
  /\ context = [t \in Tasks |->
                  [epc |-> 0, sp |-> Top(t), s0 |-> 0, data |-> Zeros, temp |-> 0]]
  /\ mem = [a \in Base(1) .. (Top(NTASK) - 1) |->
              IF a = Top(1) - 1 THEN Addr(0) ELSE Local(0)]

-----------------------------------------------------------------------------
(* User code: whatever its functions do with registers and their locals. *)

InUser == MODE = 0 /\ pc < PcMax

Compute(v) ==
  /\ InUser
  /\ reg' = [reg EXCEPT !.data = [r \in DataRegs |-> <<r, cur, v>>]]
  /\ pc' = pc + 1
  /\ UNCHANGED <<cur, MODE, live, sscratch, context, mem>>

Call ==
  /\ InUser
  /\ reg.sp > Top(cur) - 2 * CALLS
  /\ mem' = [mem EXCEPT ![reg.sp - 1] = Addr(reg.s0), ![reg.sp - 2] = Local(0)]
  /\ reg' = [reg EXCEPT !.sp = @ - 2, !.s0 = reg.sp]
  /\ pc' = pc + 1
  /\ UNCHANGED <<cur, MODE, live, sscratch, context>>

Leave ==
  /\ InUser
  /\ reg.sp < Top(cur) - 2
  /\ reg' = [reg EXCEPT !.sp = @ + 2, !.s0 = mem[reg.sp + 1][2]]
  /\ pc' = pc + 1
  /\ UNCHANGED <<cur, MODE, live, sscratch, context, mem>>

Store(v) ==
  /\ InUser
  /\ reg.s0 # 0
  /\ mem' = [mem EXCEPT ![reg.s0 - 2] = Local(v)]
  /\ pc' = pc + 1
  /\ UNCHANGED <<cur, MODE, live, reg, sscratch, context>>

-----------------------------------------------------------------------------
(* Traps. *)

\* reg_save with t6 as base, then the old t6 and sepc.
Saved(c) == [c EXCEPT !.epc = pc, !.sp = reg.sp, !.s0 = reg.s0, !.data = reg.data]

\* trap_vector and the entry of trap_handler, which keeps cause and epc in its
\* frame on the interrupted stack.  (Dect_stack accepts every sp here.)
Trap(cause) ==
  /\ MODE = 0
  /\ MODE' = 1
  /\ context' = [context EXCEPT ![sscratch] = Saved(@)]
  /\ mem' = [mem EXCEPT ![reg.sp - 1] = Frame(pc, cause)]
  /\ reg' = [sp |-> reg.sp - 1, s0 |-> reg.sp, data |-> Clobbered(cur)]
  /\ UNCHANGED <<cur, live, pc, sscratch>>

Interrupt == Trap("interrupt")
Ecall == InUser /\ reg.sp < Top(cur) /\ Trap("ecall")

\* trap_handler's cause and epc.
Cause == mem[reg.s0 - 1][3]
Epc == mem[reg.s0 - 1][2]
InSyscall == MODE = 1 /\ Cause = "ecall"

\* do_syscall stores the result, then trap_handler steps over the ecall.
WithResult(c, v) == [c EXCEPT !.data["a0"] = <<"a0", 0, v>>]
Stepped(m) == [m EXCEPT ![reg.s0 - 1] = Frame(Epc + 1, "done")]

do_syscall(v) ==
  /\ InSyscall
  /\ context' = [context EXCEPT ![sscratch] = WithResult(@, v)]
  /\ mem' = Stepped(mem)
  /\ UNCHANGED <<cur, MODE, live, pc, reg, sscratch>>

\* Registers and pc after reg_restore and sret.
Restore(c) ==
  /\ reg' = [sp |-> c.sp, s0 |-> c.s0, data |-> c.data]
  /\ pc' = c.epc
  /\ MODE' = 0

\* trap_handler returns epc to ret_from_exception.
Return ==
  /\ MODE = 1
  /\ Cause # "ecall"
  /\ LET c == [context[sscratch] EXCEPT !.epc = Epc]
     IN  /\ context' = [context EXCEPT ![sscratch] = c]
         /\ Restore(c)
  /\ UNCHANGED <<cur, live, sscratch, mem>>

-----------------------------------------------------------------------------
(* switch_to. *)

\* context_save after sp moved down by 13 words, 14 are stored: here 3 and 4.
\* The last lands on the lowest word of schedule's frame, a dead local.
\* schedule's frame is two words, its saved s0 on top.
SwitchFrame(m) ==
  LET sp == reg.sp - 5
  IN  [m EXCEPT ![reg.sp - 1] = Addr(reg.s0),
                ![sp] = reg.data["ra"],
                ![sp + 1] = Addr(sp),
                ![sp + 2] = Addr(reg.sp),
                ![sp + 3] = reg.data["s11"]]

\* Mutant: s11 is not restored.
Resumed_s11(m, temp) ==
  LET sp == m[temp + 1][2] + 3
  IN  [sp |-> sp + 2, s0 |-> m[sp + 1][2],
       data |-> [reg.data EXCEPT !["ra"] = m[temp]]]

\* context_restore from the stack at temp, then the end of schedule.
Resumed(m, temp) ==
  LET sp == m[temp + 1][2] + 3
  IN  [sp |-> sp + 2, s0 |-> m[sp + 1][2],
       data |-> [reg.data EXCEPT !["ra"] = m[temp], !["s11"] = m[temp + 3]]]

\* schedule() in the kernel of cur chooses n: a task that was switched out goes
\* on in the kernel, one with temp = 0 goes to user mode.
switch_to(n) ==
  /\ MODE = 1
  /\ n \in live \ {cur}
  /\ mem' = SwitchFrame(mem)
  /\ context' = [context EXCEPT ![cur].temp = reg.sp - 5]
  /\ cur' = n
  /\ sscratch' = n
  /\ IF context[n].temp = 0
     THEN Restore(context[n])
     ELSE reg' = Resumed(mem, context[n].temp) /\ UNCHANGED <<pc, MODE>>
  /\ UNCHANGED live

-----------------------------------------------------------------------------
(* fork and execve. *)

\* The address at the same distance from the top of u's stack.
Rebased(a, t, u) == Top(u) - (Top(t) - a)

ChildContext(c, t, u) ==
  [epc |-> c.epc + 1, sp |-> Rebased(c.sp, t, u), s0 |-> Rebased(c.s0, t, u),
   data |-> [c.data EXCEPT !["a0"] = <<"a0", 0, 0>>], temp |-> 0]

\* The whole stack is copied, kernel frames included.
copy_memory(m, t, u) ==
  [a \in DOMAIN m |-> IF a \in Base(u) .. (Top(u) - 1) THEN m[Rebased(a, u, t)] ELSE m[a]]

\* sys_fork, its result stored and its ecall stepped over.
copy_process(u) ==
  /\ InSyscall
  /\ Inlined => context[cur].sp = Top(cur) - 2
  /\ u \in Tasks \ live
  /\ live' = live \cup {u}
  /\ context' = [context EXCEPT ![u] = ChildContext(context[cur], cur, u),
                                ![sscratch] = WithResult(@, u)]
  /\ mem' = Stepped(copy_memory(mem, cur, u))
  /\ UNCHANGED <<cur, MODE, pc, reg, sscratch>>

\* Mutant: temp is left as it is.
NewContext_temp(c, t) ==
  [epc |-> 0, sp |-> Top(t), s0 |-> 0, data |-> Zeros, temp |-> c.temp]

\* ra is exit, a0 and a1 are argc and argv, the rest is cleared.
NewContext(c, t) ==
  [epc |-> 0, sp |-> Top(t), s0 |-> 0, data |-> Zeros, temp |-> 0]

\* do_execve from `context_restore': its switch_to(0, ..) saves nothing.
execve ==
  /\ InSyscall
  /\ LET c == NewContext(context[cur], cur)
     IN  /\ context' = [context EXCEPT ![cur] = c]
         /\ IF c.temp = 0
            THEN Restore(c)
            ELSE reg' = Resumed(mem, c.temp) /\ UNCHANGED <<pc, MODE>>
  /\ sscratch' = cur
  /\ UNCHANGED <<cur, live, mem>>

Next ==
  \/ \E v \in Vals : Compute(v) \/ Store(v) \/ do_syscall(v)
  \/ Call \/ Leave
  \/ Interrupt \/ Ecall \/ Return \/ execve
  \/ \E n \in Tasks : switch_to(n) \/ copy_process(n)

Spec == ContextInit /\ [][Next]_vars

-----------------------------------------------------------------------------
(* Properties. *)

\* Type correctness.  s0 is an address or 0, sscratch is the current task's.
TypeOK ==
  /\ cur \in live
  /\ live \subseteq Tasks
  /\ MODE \in {0, 1}
  /\ sscratch = cur
  /\ pc \in Nat
  /\ reg.sp \in Base(cur) .. Top(cur)
  /\ \A t \in live : context[t].sp \in Base(t) .. Top(t)

\* Kernel code that slept in schedule() goes on with its own registers and on
\* its own frame: switch_to gives the callee-saved registers back.
KernelKept ==
  /\ TypeOK
  /\ MODE = 1 => /\ reg.data["s11"] = Clobbered(cur)["s11"]
                 /\ reg.data["ra"] = Clobbered(cur)["ra"]
                 /\ reg.s0 = context[cur].sp
                 /\ reg.sp = reg.s0 - 1
                 /\ mem[reg.s0 - 1][1] = "frame"

\* fork.c:78: the child's locals are its own copies.  A function running in
\* user mode reaches its local in the stack of its own task.
LocalsOwned ==
  MODE = 0 /\ reg.s0 # 0 => reg.s0 \in (Base(cur) + 2) .. Top(cur)

Rel(t, a) == IF a = 0 THEN 0 ELSE a - Base(t)
RelWord(t, w) == IF w[1] = "addr" THEN Addr(Rel(t, w[2])) ELSE w

\* What task t will find when it next runs in user mode.
View(t) ==
  LET user == t = cur /\ MODE = 0
      c == context[t]
      regs == IF user THEN reg ELSE [sp |-> c.sp, s0 |-> c.s0, data |-> c.data]
  IN  [pc |-> IF user THEN pc
              ELSE IF t = cur \/ c.temp # 0 THEN mem[c.sp - 1][2]
              ELSE c.epc,
       sp |-> Rel(t, regs.sp), s0 |-> Rel(t, regs.s0), reg |-> regs.data,
       stack |-> [a \in Rel(t, regs.sp) .. (D - 1) |-> RelWord(t, mem[Base(t) + a])]]

NoView == [pc |-> 0, sp |-> 0, s0 |-> 0, reg |-> Zeros, stack |-> [a \in {} |-> 0]]

Cpu == INSTANCE Machine WITH machine <- [t \in Tasks |-> IF t \in live THEN View(t) ELSE NoView]

\* Every task has the registers and the stack of a machine of its own: traps,
\* interrupts and switches are invisible to it, a system call changes its a0
\* only, fork gives the child a copy of the father's machine.
EachItsMachine == Cpu!MachineSpec
=============================================================================
