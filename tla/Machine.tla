------------------------------ MODULE Machine -------------------------------
(***************************************************************************)
(* What traps, context switches, fork and execve promise to user code:     *)
(* every task has a machine of its own, registers and a stack, that only   *)
(* its own instructions and system calls change.  Stack addresses are      *)
(* offsets in the task's own stack, which ends at D; `stack' holds the     *)
(* words from sp to the end.                                               *)
(***************************************************************************)
EXTENDS Integers

CONSTANTS Tasks, D, DataRegs, Vals

VARIABLE machine   \* task -> its [pc, sp, s0, reg, stack], NoMachine if there is no such task

NoMachine == [pc |-> 0, sp |-> 0, s0 |-> 0,
              reg |-> [r \in DataRegs |-> <<r, 0, 0>>], stack |-> [a \in {} |-> 0]]

Local(v) == <<"local", v>>

\* Register values tell the register, the task and the value apart.
Tagged(t, v) == [r \in DataRegs |-> <<r, t, v>>]

Fill(t, m, v) == [m EXCEPT !.pc = @ + 1, !.reg = Tagged(t, v)]

\* A function is entered: it saves s0 and clears its local.
Call(m) ==
  [m EXCEPT
     !.pc = @ + 1, !.sp = m.sp - 2, !.s0 = m.sp,
     !.stack = [a \in (m.sp - 2) .. (D - 1) |->
                  CASE a = m.sp - 1 -> <<"addr", m.s0>>
                    [] a = m.sp - 2 -> Local(0)
                    [] OTHER        -> m.stack[a]]]

Leave(m) ==
  [m EXCEPT
     !.pc = @ + 1, !.sp = m.sp + 2, !.s0 = m.stack[m.sp + 1][2],
     !.stack = [a \in (m.sp + 2) .. (D - 1) |-> m.stack[a]]]

\* The local of the running function is assigned.
Store(m, v) == [m EXCEPT !.pc = @ + 1, !.stack[m.s0 - 2] = Local(v)]

\* A system call returns v.
Result(m, v) == [m EXCEPT !.pc = @ + 1, !.reg["a0"] = <<"a0", 0, v>>]

\* A program is started.
Start == [NoMachine EXCEPT !.sp = D]

Instructions(t, m) ==
  {Fill(t, m, v) : v \in Vals} \cup {Result(m, v) : v \in Vals} \cup {Call(m), Start}
  \cup (IF m.sp < D - 2 THEN {Leave(m)} ELSE {})
  \cup (IF m.s0 = 0 THEN {} ELSE {Store(m, v) : v \in Vals})

Exist(m) == {t \in Tasks : m[t] # NoMachine}

\* One task makes one instruction or system call.
Steps(m) ==
  UNION {{[m EXCEPT ![t] = n] : n \in Instructions(t, m[t])} : t \in Exist(m)}

\* fork returns the new task in the father and 0 in the child.
Forks(m) ==
  {[m EXCEPT ![p[1]] = Result(m[p[1]], p[2]), ![p[2]] = Result(m[p[1]], 0)] :
     p \in Exist(m) \X (Tasks \ Exist(m))}

MachineInit ==
  \E t \in Tasks :
    machine = [u \in Tasks |-> IF u = t THEN Call(Start) ELSE NoMachine]

MachineNext == \E m \in {machine} : machine' \in Steps(m) \cup Forks(m)

MachineSpec == MachineInit /\ [][MachineNext]_machine
=============================================================================
