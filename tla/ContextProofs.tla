--------------------------- MODULE ContextProofs ----------------------------
(***************************************************************************)
(* For every number of tasks and any depth of calls: kernel code that was  *)
(* switched out goes on with its own registers and frame, and every task   *)
(* has the registers and the stack of a machine of its own.                *)
(***************************************************************************)
EXTENDS Context, TLAPS

-----------------------------------------------------------------------------
(* Stacks *)

\* The words of the stack of task t, and of all stacks.
Stack(t) == Base(t) .. (Top(t) - 1)
AllWords == Base(1) .. (Top(NTASK) - 1)

LEMMA DIs ==
  D \in Nat /\ D = 2 * CALLS + 6 /\ D > 6
  BY ContextAssumption DEF D

LEMMA BaseIs ==
  ASSUME NEW t \in Int
  PROVE  Base(t) \in Int /\ Top(t) \in Int /\ Top(t) = Base(t) + D /\ Top(t) = Base(t + 1)
<1>1. D \in Int
  BY DIs
<1>2. t * D \in Int /\ (t + 1) * D = t * D + D
  BY <1>1
<1> QED
  BY <1>1, <1>2 DEF Base, Top

LEMMA BaseGrows ==
  ASSUME NEW t \in Nat, NEW u \in Nat, t <= u
  PROVE  Base(t) <= Base(u)
<1>1. D \in Nat
  BY DIs
<1>2. PICK k \in Nat : u = t + k
  <2>1. u - t \in Nat /\ u = t + (u - t)
    OBVIOUS
  <2> QED
    BY <2>1
<1>3. t * D \in Int /\ k * D \in Nat /\ (t + k) * D = t * D + k * D
  BY <1>1
<1> QED
  BY <1>2, <1>3 DEF Base

\* Where a stack is: all stacks are apart, and none is at address 0.
LEMMA StackIs ==
  ASSUME NEW t \in Tasks
  PROVE  /\ Base(t) \in Int /\ Top(t) \in Int /\ Top(t) = Base(t) + D /\ Base(t) > 0
         /\ Stack(t) \subseteq AllWords
<1>1. t \in Nat /\ 1 <= t /\ t <= NTASK /\ NTASK \in Nat /\ 1 \in Nat /\ t + 1 \in Nat
  BY ContextAssumption DEF Tasks
<1>2. Base(1) = D
  BY DIs DEF Base
<1>3. Base(1) <= Base(t) /\ Base(t + 1) <= Base(NTASK + 1)
  BY <1>1, BaseGrows
<1>4. /\ Base(t) \in Int /\ Top(t) \in Int /\ Top(t) = Base(t) + D /\ Top(t) = Base(t + 1)
      /\ Base(NTASK) \in Int /\ Top(NTASK) \in Int /\ Top(NTASK) = Base(NTASK + 1)
  BY <1>1, BaseIs
<1> QED
  BY <1>2, <1>3, <1>4, DIs DEF Stack, AllWords

LEMMA StacksApart ==
  ASSUME NEW t \in Tasks, NEW u \in Tasks, t # u
  PROVE  Stack(t) \cap Stack(u) = {}
<1>1. t \in Nat /\ u \in Nat /\ t + 1 \in Nat /\ u + 1 \in Nat /\ (t + 1 <= u \/ u + 1 <= t)
  BY ContextAssumption DEF Tasks
<1>2. Top(t) <= Base(u) \/ Top(u) <= Base(t)
  BY <1>1, BaseGrows, BaseIs
<1> QED
  BY <1>1, <1>2, BaseIs DEF Stack

-----------------------------------------------------------------------------
(* Frames of user functions *)

LEMMA WordIs ==
  /\ \A a : Addr(a)[1] = "addr" /\ Addr(a)[2] = a
  /\ \A v : Local(v)[1] = "local"
  /\ \A e, c : Frame(e, c)[1] = "frame" /\ Frame(e, c)[2] = e /\ Frame(e, c)[3] = c
  BY DEF Addr, Local, Frame

\* Memory n has what m has in the stack of t.
Agree(m, n, t) == \A a \in Stack(t) : n[a] = m[a]

\* s0 in the k-th of the nested functions of t; before the first it is 0.
Fp(t, k) == IF k = 0 THEN 0 ELSE Top(t) - 2 * k + 2

\* The frames of k nested functions: a local and the s0 of the caller each.
Frames(m, t, k) ==
  \A j \in 1 .. k : /\ m[Top(t) - 2 * j][1] = "local"
                    /\ m[Top(t) - 2 * j + 1] = Addr(Fp(t, j - 1))

\* The registers and the stack with which t runs, or will run, in user mode.
UserAt(m, t, sp, s0) ==
  \E k \in 0 .. CALLS : sp = Top(t) - 2 * k /\ s0 = Fp(t, k) /\ Frames(m, t, k)

LEMMA UserIs ==
  ASSUME NEW m, NEW t \in Tasks, NEW sp, NEW s0, UserAt(m, t, sp, s0)
  PROVE  /\ sp \in Int /\ s0 \in Int /\ Base(t) + 6 <= sp /\ sp <= Top(t)
         /\ s0 # 0 => s0 = sp + 2 /\ sp + 2 <= Top(t) /\ sp \in Stack(t) /\ sp + 1 \in Stack(t)
<1>1. PICK k \in 0 .. CALLS : sp = Top(t) - 2 * k /\ s0 = Fp(t, k)
  BY DEF UserAt
<1>2. k \in Nat /\ k <= CALLS /\ CALLS \in Nat
  BY ContextAssumption
<1>3. Top(t) \in Int /\ Base(t) \in Int /\ Top(t) = Base(t) + D /\ D = 2 * CALLS + 6
  BY StackIs, DIs
<1> QED
  BY <1>1, <1>2, <1>3 DEF Fp, Stack

LEMMA UserSame ==
  ASSUME NEW m, NEW n, NEW t \in Tasks, NEW sp, NEW s0, UserAt(m, t, sp, s0),
         \A a \in Stack(t) : a >= sp => n[a] = m[a]
  PROVE  UserAt(n, t, sp, s0)
<1>1. PICK k \in 0 .. CALLS : sp = Top(t) - 2 * k /\ s0 = Fp(t, k) /\ Frames(m, t, k)
  BY DEF UserAt
<1>2. k \in Nat /\ k <= CALLS /\ CALLS \in Nat
  BY ContextAssumption
<1>3. Top(t) \in Int /\ Base(t) \in Int /\ Top(t) = Base(t) + D /\ D = 2 * CALLS + 6
  BY StackIs, DIs
<1>4. ASSUME NEW j \in 1 .. k
      PROVE  n[Top(t) - 2 * j] = m[Top(t) - 2 * j] /\ n[Top(t) - 2 * j + 1] = m[Top(t) - 2 * j + 1]
  <2>1. /\ Top(t) - 2 * j \in Stack(t) /\ Top(t) - 2 * j >= sp
        /\ Top(t) - 2 * j + 1 \in Stack(t) /\ Top(t) - 2 * j + 1 >= sp
    BY <1>1, <1>2, <1>3 DEF Stack
  <2> QED
    BY <2>1
<1>5. Frames(n, t, k)
  BY <1>1, <1>4 DEF Frames
<1> QED
  BY <1>1, <1>5 DEF UserAt

\* A function is called.
LEMMA UserCall ==
  ASSUME NEW m, NEW n, NEW t \in Tasks, NEW sp, NEW s0, UserAt(m, t, sp, s0),
         sp > Top(t) - 2 * CALLS, n[sp - 1] = Addr(s0), n[sp - 2] = Local(0),
         \A a \in Stack(t) : a >= sp => n[a] = m[a]
  PROVE  UserAt(n, t, sp - 2, sp) /\ sp - 1 \in Stack(t) /\ sp - 2 \in Stack(t)
<1>1. PICK k \in 0 .. CALLS : sp = Top(t) - 2 * k /\ s0 = Fp(t, k) /\ Frames(m, t, k)
  BY DEF UserAt
<1>2. k \in Nat /\ k <= CALLS /\ CALLS \in Nat
  BY ContextAssumption
<1>3. Top(t) \in Int /\ Base(t) \in Int /\ Top(t) = Base(t) + D /\ D = 2 * CALLS + 6
  BY StackIs, DIs
<1>4. k + 1 \in 0 .. CALLS /\ sp - 2 = Top(t) - 2 * (k + 1) /\ sp - 1 = Top(t) - 2 * (k + 1) + 1
  BY <1>1, <1>2, <1>3
<1>5. sp = Fp(t, k + 1)
  BY <1>1, <1>2, <1>3 DEF Fp
<1>6. ASSUME NEW j \in 1 .. k + 1
      PROVE  /\ n[Top(t) - 2 * j][1] = "local"
             /\ n[Top(t) - 2 * j + 1] = Addr(Fp(t, j - 1))
  <2>1. CASE j = k + 1
    <3>1. j - 1 = k
      BY <1>2, <2>1
    <3> QED
      BY <1>1, <1>4, <2>1, <3>1, WordIs
  <2>2. CASE j # k + 1
    <3>1. j \in 1 .. k
      BY <1>2, <2>2
    <3>2. /\ Top(t) - 2 * j \in Stack(t) /\ Top(t) - 2 * j >= sp
          /\ Top(t) - 2 * j + 1 \in Stack(t) /\ Top(t) - 2 * j + 1 >= sp
      BY <1>1, <1>2, <1>3, <3>1 DEF Stack
    <3> QED
      BY <1>1, <3>1, <3>2 DEF Frames
  <2> QED
    BY <2>1, <2>2
<1>7. Frames(n, t, k + 1)
  BY <1>6 DEF Frames
<1>8. sp - 1 \in Stack(t) /\ sp - 2 \in Stack(t)
  BY <1>1, <1>2, <1>3, <1>4 DEF Stack
<1> QED
  BY <1>4, <1>5, <1>7, <1>8 DEF UserAt

\* It returns to its caller.
LEMMA UserLeave ==
  ASSUME NEW m, NEW t \in Tasks, NEW sp, NEW s0, UserAt(m, t, sp, s0), sp < Top(t) - 2
  PROVE  /\ UserAt(m, t, sp + 2, m[sp + 1][2])
         /\ sp + 1 \in Stack(t) /\ m[sp + 1][1] = "addr"
<1>1. PICK k \in 0 .. CALLS : sp = Top(t) - 2 * k /\ s0 = Fp(t, k) /\ Frames(m, t, k)
  BY DEF UserAt
<1>2. k \in Nat /\ k <= CALLS /\ CALLS \in Nat
  BY ContextAssumption
<1>3. Top(t) \in Int /\ Base(t) \in Int /\ Top(t) = Base(t) + D /\ D = 2 * CALLS + 6
  BY StackIs, DIs
<1>4. /\ k \in 1 .. k /\ k - 1 \in 0 .. CALLS /\ sp + 2 = Top(t) - 2 * (k - 1)
      /\ sp + 1 = Top(t) - 2 * k + 1 /\ sp + 1 \in Stack(t)
  BY <1>1, <1>2, <1>3 DEF Stack
<1>5. m[sp + 1] = Addr(Fp(t, k - 1))
  BY <1>1, <1>4 DEF Frames
<1>6. m[sp + 1][1] = "addr" /\ m[sp + 1][2] = Fp(t, k - 1)
  BY <1>5, WordIs
<1>7. Frames(m, t, k - 1)
  <2>1. \A j \in 1 .. k - 1 : j \in 1 .. k
    BY <1>2
  <2> QED
    BY <1>1, <2>1 DEF Frames
<1> QED
  BY <1>4, <1>6, <1>7 DEF UserAt

\* Its local, the word at sp, is assigned.
LEMMA UserStore ==
  ASSUME NEW m, NEW n, NEW t \in Tasks, NEW sp, NEW s0, UserAt(m, t, sp, s0), s0 # 0,
         n[sp][1] = "local", \A a \in Stack(t) : a # sp => n[a] = m[a]
  PROVE  UserAt(n, t, sp, s0)
<1>1. PICK k \in 0 .. CALLS : sp = Top(t) - 2 * k /\ s0 = Fp(t, k) /\ Frames(m, t, k)
  BY DEF UserAt
<1>2. k \in Nat /\ k <= CALLS /\ CALLS \in Nat
  BY ContextAssumption
<1>3. Top(t) \in Int /\ Base(t) \in Int /\ Top(t) = Base(t) + D /\ D = 2 * CALLS + 6
  BY StackIs, DIs
<1>4. ASSUME NEW j \in 1 .. k
      PROVE  /\ n[Top(t) - 2 * j][1] = "local"
             /\ n[Top(t) - 2 * j + 1] = Addr(Fp(t, j - 1))
  <2>1. /\ Top(t) - 2 * j \in Stack(t) /\ Top(t) - 2 * j + 1 \in Stack(t)
        /\ Top(t) - 2 * j + 1 # sp
    BY <1>1, <1>2, <1>3 DEF Stack
  <2> QED
    BY <1>1, <2>1 DEF Frames
<1>5. Frames(n, t, k)
  BY <1>4 DEF Frames
<1> QED
  BY <1>1, <1>5 DEF UserAt

-----------------------------------------------------------------------------
(* What a task finds in user mode, as the state of a machine *)

RecordOf(e, sp, s0, d, st) == [pc |-> e, sp |-> sp, s0 |-> s0, reg |-> d, stack |-> st]

\* The words of the stack of t from sp on, with offsets for addresses.
StackOf(t, sp, m) == [a \in (sp - Base(t)) .. (D - 1) |-> RelWord(t, m[Base(t) + a])]

ViewOf(t, e, sp, s0, d, m) == RecordOf(e, Rel(t, sp), Rel(t, s0), d, StackOf(t, sp, m))

LEMMA RecordIs ==
  ASSUME NEW e, NEW sp, NEW s0, NEW d, NEW st
  PROVE  LET r == RecordOf(e, sp, s0, d, st)
         IN  r.pc = e /\ r.sp = sp /\ r.s0 = s0 /\ r.reg = d /\ r.stack = st
  BY DEF RecordOf

LEMMA RelIs ==
  ASSUME NEW m, NEW t \in Tasks, NEW sp, NEW s0, UserAt(m, t, sp, s0)
  PROVE  /\ Rel(t, sp) = sp - Base(t) /\ Rel(t, sp) \in Int /\ Rel(t, sp) >= 6 /\ Rel(t, sp) <= D
         /\ s0 # 0 => Rel(t, s0) = sp - Base(t) + 2
         /\ s0 = 0 => Rel(t, s0) = 0
<1>1. /\ Top(t) \in Int /\ Base(t) \in Int /\ Top(t) = Base(t) + D /\ D = 2 * CALLS + 6
      /\ Base(t) > 0 /\ D \in Int
  BY StackIs, DIs
<1>2. /\ sp \in Int /\ s0 \in Int /\ Base(t) + 6 <= sp /\ sp <= Top(t)
      /\ s0 # 0 => s0 = sp + 2
  BY UserIs
<1> QED
  BY <1>1, <1>2 DEF Rel

\* Memory n has what m has in the part of t's stack that is in use.
SameAbove(m, n, t, sp) == \A a \in Stack(t) : a >= sp => n[a] = m[a]

LEMMA StackSame ==
  ASSUME NEW t \in Tasks, NEW sp \in Int, sp >= Base(t), NEW m, NEW n, SameAbove(m, n, t, sp)
  PROVE  StackOf(t, sp, n) = StackOf(t, sp, m)
<1>1. Top(t) \in Int /\ Base(t) \in Int /\ Top(t) = Base(t) + D /\ D \in Int
  BY StackIs, DIs
<1>2. ASSUME NEW a \in (sp - Base(t)) .. (D - 1) PROVE n[Base(t) + a] = m[Base(t) + a]
  <2>1. Base(t) + a \in Stack(t) /\ Base(t) + a >= sp
    BY <1>1 DEF Stack
  <2> QED
    BY <2>1 DEF SameAbove
<1> QED
  BY <1>2 DEF StackOf

LEMMA ViewExists ==
  ASSUME NEW m, NEW t \in Tasks, NEW e, NEW sp, NEW s0, NEW d, UserAt(m, t, sp, s0)
  PROVE  ViewOf(t, e, sp, s0, d, m) # Cpu!NoMachine
<1>1. ViewOf(t, e, sp, s0, d, m).sp = Rel(t, sp)
  BY RecordIs DEF ViewOf
<1>2. Cpu!NoMachine.sp = 0
  BY DEF Cpu!NoMachine
<1>3. Rel(t, sp) # 0
  BY RelIs
<1> QED
  BY <1>1, <1>2, <1>3

\* A record with other fields.
PutReg(r, f, g) == [r EXCEPT !.pc = f, !.reg = g]
PutStack(r, f, h) == [r EXCEPT !.pc = f, !.stack = h]
PutSp(r, b) == [r EXCEPT !.sp = b]
PutFrame(r, f, b, c, h) == [r EXCEPT !.pc = f, !.sp = b, !.s0 = c, !.stack = h]

LEMMA PutRegIs ==
  ASSUME NEW e, NEW sp, NEW s0, NEW d, NEW st, NEW r, r = RecordOf(e, sp, s0, d, st),
         NEW f, NEW g
  PROVE  PutReg(r, f, g) = RecordOf(f, sp, s0, g, st)
<1> DEFINE F == {"pc", "sp", "s0", "reg", "stack"}
           x == PutReg(r, f, g)
<1>1. /\ r = [k \in F |-> r[k]]
      /\ r.pc = e /\ r.sp = sp /\ r.s0 = s0 /\ r.reg = d /\ r.stack = st
  BY DEF RecordOf
<1>2. /\ x = [k \in F |-> x[k]]
      /\ x.pc = f /\ x.sp = sp /\ x.s0 = s0 /\ x.reg = g /\ x.stack = st
  BY <1>1, Zenon DEF PutReg
<1> HIDE DEF x
<1>3. x = RecordOf(f, sp, s0, g, st)
  BY <1>2 DEF RecordOf
<1> QED
  BY <1>3 DEF x

LEMMA PutStackIs ==
  ASSUME NEW e, NEW sp, NEW s0, NEW d, NEW st, NEW r, r = RecordOf(e, sp, s0, d, st),
         NEW f, NEW h
  PROVE  PutStack(r, f, h) = RecordOf(f, sp, s0, d, h)
<1> DEFINE F == {"pc", "sp", "s0", "reg", "stack"}
           x == PutStack(r, f, h)
<1>1. /\ r = [k \in F |-> r[k]]
      /\ r.pc = e /\ r.sp = sp /\ r.s0 = s0 /\ r.reg = d /\ r.stack = st
  BY DEF RecordOf
<1>2. /\ x = [k \in F |-> x[k]]
      /\ x.pc = f /\ x.sp = sp /\ x.s0 = s0 /\ x.reg = d /\ x.stack = h
  BY <1>1, Zenon DEF PutStack
<1> HIDE DEF x
<1>3. x = RecordOf(f, sp, s0, d, h)
  BY <1>2 DEF RecordOf
<1> QED
  BY <1>3 DEF x

LEMMA PutSpIs ==
  ASSUME NEW e, NEW sp, NEW s0, NEW d, NEW st, NEW r, r = RecordOf(e, sp, s0, d, st),
         NEW b
  PROVE  PutSp(r, b) = RecordOf(e, b, s0, d, st)
<1> DEFINE F == {"pc", "sp", "s0", "reg", "stack"}
           x == PutSp(r, b)
<1>1. /\ r = [k \in F |-> r[k]]
      /\ r.pc = e /\ r.sp = sp /\ r.s0 = s0 /\ r.reg = d /\ r.stack = st
  BY DEF RecordOf
<1>2. /\ x = [k \in F |-> x[k]]
      /\ x.pc = e /\ x.sp = b /\ x.s0 = s0 /\ x.reg = d /\ x.stack = st
  BY <1>1 DEF PutSp
<1> HIDE DEF x
<1>3. x = RecordOf(e, b, s0, d, st)
  BY <1>2 DEF RecordOf
<1> QED
  BY <1>3 DEF x

LEMMA PutFrameIs ==
  ASSUME NEW e, NEW sp, NEW s0, NEW d, NEW st, NEW r, r = RecordOf(e, sp, s0, d, st),
         NEW f, NEW b, NEW c, NEW h
  PROVE  PutFrame(r, f, b, c, h) = RecordOf(f, b, c, d, h)
<1> DEFINE F == {"pc", "sp", "s0", "reg", "stack"}
           x == PutFrame(r, f, b, c, h)
<1>1. /\ r = [k \in F |-> r[k]]
      /\ r.pc = e /\ r.sp = sp /\ r.s0 = s0 /\ r.reg = d /\ r.stack = st
  BY DEF RecordOf
<1>2. /\ x = [k \in F |-> x[k]]
      /\ x.pc = f /\ x.sp = b /\ x.s0 = c /\ x.reg = d /\ x.stack = h
  BY <1>1, Zenon DEF PutFrame
<1> HIDE DEF x
<1>3. x = RecordOf(f, b, c, d, h)
  BY <1>2 DEF RecordOf
<1> QED
  BY <1>3 DEF x

\* Registers that C code or user code of t has filled.
Filled(t, v) == [r \in DataRegs |-> <<r, t, v>>]

LEMMA ViewFill ==
  ASSUME NEW m, NEW t \in Tasks, NEW e, NEW sp, NEW s0, NEW d, NEW v
  PROVE  Cpu!Fill(t, ViewOf(t, e, sp, s0, d, m), v)
           = ViewOf(t, e + 1, sp, s0, Filled(t, v), m)
<1> DEFINE r == ViewOf(t, e, sp, s0, d, m)
           g == Cpu!Tagged(t, v)
           f == e + 1
<1>1. r = RecordOf(e, Rel(t, sp), Rel(t, s0), d, StackOf(t, sp, m)) /\ r.pc = e
  BY RecordIs DEF ViewOf
<1> HIDE DEF r
<1>2. Cpu!Fill(t, r, v) = PutReg(r, f, g)
  BY <1>1 DEF Cpu!Fill, PutReg
<1> HIDE DEF f, g
<1>3. Cpu!Fill(t, r, v) = RecordOf(f, Rel(t, sp), Rel(t, s0), g, StackOf(t, sp, m))
  BY <1>1, <1>2, PutRegIs
<1> QED
  BY <1>3 DEF r, f, g, ViewOf, Cpu!Tagged, Filled

\* The registers d after a system call that returned v.
Returned(d, v) == [d EXCEPT !["a0"] = <<"a0", 0, v>>]

LEMMA ViewResult ==
  ASSUME NEW m, NEW t \in Tasks, NEW e, NEW sp, NEW s0, NEW d, NEW v
  PROVE  Cpu!Result(ViewOf(t, e, sp, s0, d, m), v)
           = ViewOf(t, e + 1, sp, s0, Returned(d, v), m)
<1> DEFINE r == ViewOf(t, e, sp, s0, d, m)
           g == Returned(d, v)
           f == e + 1
<1>1. /\ r = RecordOf(e, Rel(t, sp), Rel(t, s0), d, StackOf(t, sp, m))
      /\ r.pc = e /\ r.reg = d
  BY RecordIs DEF ViewOf
<1> HIDE DEF r
<1>2. Cpu!Result(r, v) = PutReg(r, f, g)
  BY <1>1, Zenon DEF Cpu!Result, PutReg, Returned
<1> HIDE DEF f, g
<1>3. Cpu!Result(r, v) = RecordOf(f, Rel(t, sp), Rel(t, s0), g, StackOf(t, sp, m))
  BY <1>1, <1>2, PutRegIs
<1> QED
  BY <1>3 DEF r, f, g, ViewOf

\* The state of a program that is started.
LEMMA ViewStart ==
  ASSUME NEW m, NEW t \in Tasks
  PROVE  ViewOf(t, 0, Top(t), 0, Zeros, m) = Cpu!Start
<1>1. Top(t) \in Int /\ Base(t) \in Int /\ Top(t) = Base(t) + D /\ Base(t) > 0 /\ D \in Int
  BY StackIs, DIs
<1>2. Rel(t, Top(t)) = D /\ Rel(t, 0) = 0
  BY <1>1, DIs DEF Rel
<1>3. StackOf(t, Top(t), m) = [a \in {} |-> 0]
  <2>1. (Top(t) - Base(t)) .. (D - 1) = {}
    BY <1>1
  <2> QED
    BY <2>1 DEF StackOf
<1>4. Cpu!NoMachine = RecordOf(0, 0, 0, Zeros, [a \in {} |-> 0])
  BY DEF Cpu!NoMachine, RecordOf, Zeros
<1>5. Cpu!Start = RecordOf(0, D, 0, Zeros, [a \in {} |-> 0])
  <2>1. Cpu!Start = PutSp(Cpu!NoMachine, D)
    BY DEF Cpu!Start, PutSp
  <2> QED
    BY <1>4, <2>1, PutSpIs
<1> QED
  BY <1>2, <1>3, <1>5 DEF ViewOf

LEMMA ViewCall ==
  ASSUME NEW m, NEW n, NEW t \in Tasks, NEW e, NEW sp, NEW s0, NEW d, UserAt(m, t, sp, s0),
         sp > Top(t) - 2 * CALLS, n[sp - 1] = Addr(s0), n[sp - 2] = Local(0),
         \A a \in Stack(t) : a >= sp => n[a] = m[a]
  PROVE  Cpu!Call(ViewOf(t, e, sp, s0, d, m)) = ViewOf(t, e + 1, sp - 2, sp, d, n)
<1> DEFINE r == sp - Base(t)
           st == StackOf(t, sp, m)
<1>1. /\ Top(t) \in Int /\ Base(t) \in Int /\ Top(t) = Base(t) + D /\ D = 2 * CALLS + 6
      /\ Base(t) > 0 /\ D \in Int
  BY StackIs, DIs
<1>2. sp \in Int /\ Base(t) + 6 <= sp /\ sp <= Top(t)
  BY UserIs
<1>3. Rel(t, sp) = r /\ Rel(t, sp - 2) = r - 2 /\ r \in Int
  BY <1>1, <1>2 DEF Rel
<1> DEFINE new == [a \in (r - 2) .. (D - 1) |->
                     CASE a = r - 1 -> <<"addr", Rel(t, s0)>>
                       [] a = r - 2 -> Cpu!Local(0)
                       [] OTHER     -> st[a]]
<1>4. StackOf(t, sp - 2, n) = new
  <2>1. (sp - 2) - Base(t) = r - 2
    BY <1>1, <1>2
  <2>2. ASSUME NEW a \in (r - 2) .. (D - 1)
        PROVE  RelWord(t, n[Base(t) + a]) = new[a]
    <3>1. CASE a = r - 1
      <4>1. Base(t) + a = sp - 1
        BY <1>1, <1>2, <3>1
      <4>2. RelWord(t, n[Base(t) + a]) = Addr(Rel(t, s0))
        BY <4>1, WordIs DEF RelWord
      <4> QED
        BY <1>3, <3>1, <4>2 DEF Addr
    <3>2. CASE a = r - 2
      <4>1. Base(t) + a = sp - 2 /\ r - 2 # r - 1
        BY <1>1, <1>2, <3>2
      <4>2. RelWord(t, n[Base(t) + a]) = Local(0)
        BY <4>1, WordIs DEF RelWord
      <4> QED
        BY <3>2, <4>1, <4>2 DEF Local, Cpu!Local
    <3>3. CASE a # r - 1 /\ a # r - 2
      <4>1. a \in r .. (D - 1) /\ Base(t) + a \in Stack(t) /\ Base(t) + a >= sp
        BY <1>1, <1>2, <1>3, <3>3 DEF Stack
      <4>2. st[a] = RelWord(t, m[Base(t) + a])
        BY <4>1 DEF StackOf
      <4> HIDE DEF st
      <4> QED
        BY <3>3, <4>1, <4>2
    <3> QED
      BY <3>1, <3>2, <3>3
  <2> HIDE DEF new
  <2>3. StackOf(t, sp - 2, n) = [a \in (r - 2) .. (D - 1) |-> RelWord(t, n[Base(t) + a])]
    BY <2>1 DEF StackOf
  <2>4. new = [a \in (r - 2) .. (D - 1) |-> new[a]]
    BY DEF new
  <2> QED
    BY <2>2, <2>3, <2>4, Zenon
<1> HIDE DEF new, r, st
<1>5. ViewOf(t, e, sp, s0, d, m) = RecordOf(e, r, Rel(t, s0), d, st)
  BY <1>3 DEF ViewOf, st
<1>6. Cpu!Call(RecordOf(e, r, Rel(t, s0), d, st)) = RecordOf(e + 1, r - 2, r, d, new)
  <2> DEFINE R == RecordOf(e, r, Rel(t, s0), d, st)
             f == e + 1
             b == r - 2
  <2>1. R.pc = e /\ R.sp = r /\ R.s0 = Rel(t, s0) /\ R.reg = d /\ R.stack = st
    BY RecordIs
  <2>2. R = RecordOf(e, r, Rel(t, s0), d, st)
    OBVIOUS
  <2> HIDE DEF R
  <2>3. Cpu!Call(R) = PutFrame(R, f, b, r, new)
    BY <2>1 DEF Cpu!Call, PutFrame, new
  <2> HIDE DEF f, b
  <2>4. Cpu!Call(R) = RecordOf(f, b, r, d, new)
    BY <2>2, <2>3, PutFrameIs
  <2> QED
    BY <2>4 DEF R, f, b
<1>7. ViewOf(t, e + 1, sp - 2, sp, d, n) = RecordOf(e + 1, r - 2, r, d, new)
  BY <1>3, <1>4 DEF ViewOf
<1> QED
  BY <1>5, <1>6, <1>7

LEMMA ViewLeave ==
  ASSUME NEW m, NEW t \in Tasks, NEW e, NEW sp, NEW s0, NEW d, UserAt(m, t, sp, s0),
         sp < Top(t) - 2
  PROVE  Cpu!Leave(ViewOf(t, e, sp, s0, d, m)) = ViewOf(t, e + 1, sp + 2, m[sp + 1][2], d, m)
<1> DEFINE r == sp - Base(t)
           st == StackOf(t, sp, m)
           new == [a \in (r + 2) .. (D - 1) |-> st[a]]
           R == RecordOf(e, r, Rel(t, s0), d, st)
           f == e + 1
           b == r + 2
           c == Rel(t, m[sp + 1][2])
<1>1. /\ Top(t) \in Int /\ Base(t) \in Int /\ Top(t) = Base(t) + D /\ Base(t) > 0 /\ D \in Int
  BY StackIs, DIs
<1>2. sp \in Int /\ Base(t) + 6 <= sp /\ sp <= Top(t)
  BY UserIs
<1>3. Rel(t, sp) = r /\ Rel(t, sp + 2) = b /\ r \in Int
  BY <1>1, <1>2 DEF Rel
<1>4. st[r + 1][2] = c
  <2>1. r + 1 \in r .. (D - 1) /\ Base(t) + (r + 1) = sp + 1
    BY <1>1, <1>2
  <2>2. st[r + 1] = RelWord(t, m[sp + 1])
    BY <2>1 DEF StackOf
  <2>3. m[sp + 1][1] = "addr"
    BY UserLeave
  <2> QED
    BY <2>2, <2>3, WordIs DEF RelWord
<1>5. StackOf(t, sp + 2, m) = new
  <2>1. (sp + 2) - Base(t) = r + 2 /\ \A a \in (r + 2) .. (D - 1) : a \in r .. (D - 1)
    BY <1>1, <1>2
  <2> QED
    BY <2>1 DEF StackOf
<1>6. R.pc = e /\ R.sp = r /\ R.s0 = Rel(t, s0) /\ R.reg = d /\ R.stack = st
  BY RecordIs
<1>7. R = ViewOf(t, e, sp, s0, d, m)
  BY <1>3 DEF ViewOf
<1>10. R = RecordOf(e, r, Rel(t, s0), d, st)
  OBVIOUS
<1> HIDE DEF R, st, r, c
<1>8. Cpu!Leave(R) = PutFrame(R, f, b, c, new)
  BY <1>4, <1>6, Zenon DEF Cpu!Leave, PutFrame
<1> HIDE DEF f, b, new
<1>9. Cpu!Leave(R) = RecordOf(f, b, c, d, new)
  <2>1. PutFrame(R, f, b, c, new) = RecordOf(f, b, c, d, new)
    BY <1>10, PutFrameIs
  <2> QED
    BY <1>8, <2>1
<1> QED
  BY <1>3, <1>5, <1>7, <1>9 DEF ViewOf, f, c

LEMMA ViewStore ==
  ASSUME NEW m, NEW n, NEW t \in Tasks, NEW e, NEW sp, NEW s0, NEW d, NEW v,
         UserAt(m, t, sp, s0), s0 # 0, n[sp] = Local(v),
         \A a \in Stack(t) : a # sp => n[a] = m[a]
  PROVE  Cpu!Store(ViewOf(t, e, sp, s0, d, m), v) = ViewOf(t, e + 1, sp, s0, d, n)
<1> DEFINE r == sp - Base(t)
           st == StackOf(t, sp, m)
           new == [st EXCEPT ![r] = Cpu!Local(v)]
           R == RecordOf(e, r, Rel(t, s0), d, st)
           f == e + 1
<1>1. /\ Top(t) \in Int /\ Base(t) \in Int /\ Top(t) = Base(t) + D /\ Base(t) > 0 /\ D \in Int
  BY StackIs, DIs
<1>2. sp \in Int /\ Base(t) + 6 <= sp /\ sp <= Top(t)
  BY UserIs
<1>3. Rel(t, sp) = r /\ Rel(t, s0) = r + 2 /\ (r + 2) - 2 = r /\ r \in Int
  BY <1>1, <1>2, RelIs
<1>4. StackOf(t, sp, n) = new
  <2>1. ASSUME NEW a \in r .. (D - 1)
        PROVE  RelWord(t, n[Base(t) + a]) = IF a = r THEN Cpu!Local(v) ELSE RelWord(t, m[Base(t) + a])
    <3>1. CASE a = r
      <4>1. Base(t) + a = sp
        BY <1>1, <1>2, <3>1
      <4>2. RelWord(t, n[Base(t) + a]) = Local(v)
        BY <4>1, WordIs DEF RelWord
      <4> QED
        BY <3>1, <4>2 DEF Local, Cpu!Local
    <3>2. CASE a # r
      <4>1. Base(t) + a # sp /\ Base(t) + a \in Stack(t)
        BY <1>1, <1>2, <3>2 DEF Stack
      <4> QED
        BY <3>2, <4>1
    <3> QED
      BY <3>1, <3>2
  <2> QED
    BY <2>1, Zenon DEF StackOf
<1>5. R.pc = e /\ R.sp = r /\ R.s0 = r + 2 /\ R.reg = d /\ R.stack = st
  BY <1>3, RecordIs
<1>6. R = ViewOf(t, e, sp, s0, d, m)
  BY <1>3 DEF ViewOf
<1>10. R = RecordOf(e, r, Rel(t, s0), d, st)
  OBVIOUS
<1> HIDE DEF R, st, r
<1>7. Cpu!Store(R, v) = PutStack(R, f, new)
  BY <1>3, <1>5, Zenon DEF Cpu!Store, PutStack
<1> HIDE DEF f, new
<1>8. Cpu!Store(R, v) = RecordOf(f, r, Rel(t, s0), d, new)
  <2>1. PutStack(R, f, new) = RecordOf(f, r, Rel(t, s0), d, new)
    BY <1>10, PutStackIs
  <2> QED
    BY <1>7, <2>1
<1> QED
  BY <1>3, <1>4, <1>6, <1>8 DEF ViewOf, f

-----------------------------------------------------------------------------
(* The invariant *)

RegFile == [DataRegs -> DataRegs \X Nat \X Nat]
Regs == [sp : Int, s0 : Int, data : RegFile]
Contexts == [epc : Nat, sp : Int, s0 : Int, data : RegFile, temp : Int]

\* trap_handler's frame, below the sp of the task it interrupted.
Trapped(c, m) ==
  /\ m[c.sp - 1][1] = "frame" /\ m[c.sp - 1][2] \in Nat
  /\ m[c.sp - 1][3] = "ecall" => m[c.sp - 1][2] = c.epc

\* The frames of schedule and switch_to below it.
Slept(c, m, t) ==
  /\ c.temp = c.sp - 6
  /\ m[c.temp] = Clobbered(t)["ra"] /\ m[c.temp + 1] = Addr(c.temp)
  /\ m[c.temp + 3] = Clobbered(t)["s11"] /\ m[c.temp + 4] = Addr(c.sp)

\* A task that does not run: switched out in the kernel, or new.
Parked(c, m, t) ==
  /\ UserAt(m, t, c.sp, c.s0)
  /\ c.temp # 0 => Slept(c, m, t) /\ Trapped(c, m)

\* The task that runs, in the kernel.
InKernel(r, c, m, t) ==
  /\ UserAt(m, t, c.sp, c.s0)
  /\ Trapped(c, m)
  /\ r.s0 = c.sp /\ r.sp = c.sp - 1
  /\ r.data["ra"] = Clobbered(t)["ra"] /\ r.data["s11"] = Clobbered(t)["s11"]

Words(m) == m = [a \in AllWords |-> m[a]]

Typed ==
  /\ cur \in live /\ live \subseteq Tasks /\ MODE \in {0, 1} /\ sscratch = cur /\ pc \in Nat
  /\ reg \in Regs /\ context \in [Tasks -> Contexts] /\ Words(mem)
  /\ \A t \in Tasks : context[t].sp \in Base(t) .. Top(t)

\* The inductive invariant.
Inv ==
  /\ Typed
  /\ \A t \in live \ {cur} : Parked(context[t], mem, t)
  /\ MODE = 0 => UserAt(mem, cur, reg.sp, reg.s0)
  /\ MODE = 1 => InKernel(reg, context[cur], mem, cur)

\* View with the state as parameters.
ViewAt(at, mode, e, r, ctx, m, t) ==
  LET user == t = at /\ mode = 0
      c == ctx[t]
      regs == IF user THEN r ELSE [sp |-> c.sp, s0 |-> c.s0, data |-> c.data]
  IN  [pc |-> IF user THEN e
              ELSE IF t = at \/ c.temp # 0 THEN m[c.sp - 1][2]
              ELSE c.epc,
       sp |-> Rel(t, regs.sp), s0 |-> Rel(t, regs.s0), reg |-> regs.data,
       stack |-> [a \in Rel(t, regs.sp) .. (D - 1) |-> RelWord(t, m[Base(t) + a])]]

ViewNow(t) == ViewAt(cur, MODE, pc, reg, context, mem, t)

LEMMA ViewUser ==
  ASSUME NEW m, NEW t \in Tasks, NEW e, NEW r, NEW ctx, UserAt(m, t, r.sp, r.s0)
  PROVE  ViewAt(t, 0, e, r, ctx, m, t) = ViewOf(t, e, r.sp, r.s0, r.data, m)
<1>1. Rel(t, r.sp) = r.sp - Base(t)
  BY RelIs
<1>2. ViewAt(t, 0, e, r, ctx, m, t)
        = [pc |-> e, sp |-> Rel(t, r.sp), s0 |-> Rel(t, r.s0), reg |-> r.data,
           stack |-> [a \in Rel(t, r.sp) .. (D - 1) |-> RelWord(t, m[Base(t) + a])]]
  BY Zenon DEF ViewAt
<1> QED
  BY <1>1, <1>2 DEF ViewOf, RecordOf, StackOf

LEMMA ViewKernel ==
  ASSUME NEW m, NEW t \in Tasks, NEW e, NEW r, NEW ctx, UserAt(m, t, ctx[t].sp, ctx[t].s0)
  PROVE  ViewAt(t, 1, e, r, ctx, m, t)
           = ViewOf(t, m[ctx[t].sp - 1][2], ctx[t].sp, ctx[t].s0, ctx[t].data, m)
<1>1. Rel(t, ctx[t].sp) = ctx[t].sp - Base(t) /\ 1 # 0
  BY RelIs
<1> DEFINE c == ctx[t]
           regs == [sp |-> c.sp, s0 |-> c.s0, data |-> c.data]
<1>2. ViewAt(t, 1, e, r, ctx, m, t)
        = [pc |-> m[c.sp - 1][2], sp |-> Rel(t, regs.sp), s0 |-> Rel(t, regs.s0),
           reg |-> regs.data,
           stack |-> [a \in Rel(t, regs.sp) .. (D - 1) |-> RelWord(t, m[Base(t) + a])]]
  BY <1>1, Zenon DEF ViewAt
<1>3. regs.sp = c.sp /\ regs.s0 = c.s0 /\ regs.data = c.data
  OBVIOUS
<1> HIDE DEF regs
<1> QED
  BY <1>1, <1>2, <1>3 DEF ViewOf, RecordOf, StackOf

\* The pc at which a task that does not run will go on.
ParkedPc(c, m) == IF c.temp # 0 THEN m[c.sp - 1][2] ELSE c.epc

LEMMA ViewParked ==
  ASSUME NEW m, NEW t \in Tasks, NEW at, at # t, NEW mode, NEW e, NEW r, NEW ctx,
         UserAt(m, t, ctx[t].sp, ctx[t].s0)
  PROVE  ViewAt(at, mode, e, r, ctx, m, t)
           = ViewOf(t, ParkedPc(ctx[t], m), ctx[t].sp, ctx[t].s0, ctx[t].data, m)
<1>1. Rel(t, ctx[t].sp) = ctx[t].sp - Base(t)
  BY RelIs
<1> QED
  BY <1>1, Zenon DEF ViewAt, ViewOf, RecordOf, StackOf, ParkedPc

\* The same after a step.
LEMMA NextKernel ==
  ASSUME NEW t \in Tasks, NEW c, context'[t] = c, UserAt(mem', t, c.sp, c.s0)
  PROVE  ViewAt(t, 1, pc', reg', context', mem', t)
           = ViewOf(t, mem'[c.sp - 1][2], c.sp, c.s0, c.data, mem')
  BY ViewKernel, Zenon

LEMMA NextParked ==
  ASSUME NEW t \in Tasks, NEW at, at # t, NEW c, context'[t] = c, UserAt(mem', t, c.sp, c.s0)
  PROVE  ViewAt(at, MODE', pc', reg', context', mem', t)
           = ViewOf(t, ParkedPc(c, mem'), c.sp, c.s0, c.data, mem')
  BY ViewParked, Zenon

\* A task that does not run is not touched.
LEMMA ParkedKept ==
  ASSUME NEW c, NEW m, NEW n, NEW t \in Tasks, Parked(c, m, t), Agree(m, n, t)
  PROVE  /\ Parked(c, n, t)
         /\ ViewOf(t, ParkedPc(c, n), c.sp, c.s0, c.data, n)
              = ViewOf(t, ParkedPc(c, m), c.sp, c.s0, c.data, m)
<1>1. /\ c.sp \in Int /\ Base(t) + 6 <= c.sp /\ c.sp <= Top(t) /\ UserAt(m, t, c.sp, c.s0)
      /\ Base(t) \in Int /\ Top(t) \in Int
  BY UserIs, StackIs DEF Parked
<1>2. UserAt(n, t, c.sp, c.s0)
  BY <1>1, UserSame DEF Agree
<1>3. \A k \in 1 .. 6 : n[c.sp - k] = m[c.sp - k]
  BY <1>1 DEF Agree, Stack
<1>4. n[c.sp - 1] = m[c.sp - 1]
  BY <1>3
<1>5. c.temp # 0 => Trapped(c, n)
  BY <1>4 DEF Trapped, Parked
<1>6. c.temp # 0 => Slept(c, n, t)
  <2> SUFFICES ASSUME c.temp # 0 PROVE Slept(c, n, t)
    OBVIOUS
  <2>1. Slept(c, m, t)
    BY DEF Parked
  <2>2. c.temp = c.sp - 6 /\ c.temp + 1 = c.sp - 5 /\ c.temp + 3 = c.sp - 3 /\ c.temp + 4 = c.sp - 2
    BY <1>1, <2>1 DEF Slept
  <2>3. /\ n[c.sp - 6] = m[c.sp - 6] /\ n[c.sp - 5] = m[c.sp - 5]
        /\ n[c.sp - 3] = m[c.sp - 3] /\ n[c.sp - 2] = m[c.sp - 2]
    BY <1>3
  <2> QED
    BY <2>1, <2>2, <2>3 DEF Slept
<1>7. StackOf(t, c.sp, n) = StackOf(t, c.sp, m)
  <2>1. SameAbove(m, n, t, c.sp)
    BY DEF Agree, SameAbove
  <2> QED
    BY <1>1, <2>1, StackSame
<1>8. ParkedPc(c, n) = ParkedPc(c, m)
  BY <1>4 DEF ParkedPc
<1> QED
  BY <1>2, <1>5, <1>6, <1>7, <1>8 DEF Parked, ViewOf

-----------------------------------------------------------------------------
(* Steps of the task that runs *)

\* Words are written in the stack of t only.
Writes(t) == Words(mem') /\ \A a \in AllWords : a \notin Stack(t) => mem'[a] = mem[a]

LEMMA WritesAgree ==
  ASSUME NEW t \in Tasks, NEW u \in Tasks, t # u, Writes(t)
  PROVE  Agree(mem, mem', u)
  BY StackIs, StacksApart DEF Writes, Agree

LEMMA Facts ==
  ASSUME Inv
  PROVE  /\ cur \in Tasks /\ context[cur] \in Contexts /\ reg \in Regs /\ pc \in Nat
         /\ reg.sp \in Int /\ reg.s0 \in Int /\ reg.data \in RegFile
         /\ context[cur].sp \in Int /\ context[cur].epc \in Nat /\ context[cur].data \in RegFile
         /\ Base(cur) \in Int /\ Top(cur) \in Int /\ Top(cur) = Base(cur) + D /\ Base(cur) > 0
         /\ D \in Int /\ D > 6 /\ Stack(cur) \subseteq AllWords
<1>1. cur \in Tasks /\ reg \in Regs /\ context \in [Tasks -> Contexts] /\ pc \in Nat
  BY DEF Inv, Typed
<1>2. context[cur] \in Contexts
  BY <1>1
<1>3. reg.sp \in Int /\ reg.s0 \in Int /\ reg.data \in RegFile
  BY <1>1 DEF Regs
<1>4. context[cur].sp \in Int /\ context[cur].epc \in Nat /\ context[cur].data \in RegFile
  BY <1>2 DEF Contexts
<1> QED
  BY <1>1, <1>2, <1>3, <1>4, StackIs, DIs

\* What is left to show of a step in which the same task goes on.
CurStep(c) ==
  /\ UNCHANGED <<cur, live, sscratch>>
  /\ MODE' \in {0, 1} /\ pc' \in Nat /\ reg' \in Regs
  /\ c \in Contexts /\ c.sp \in Base(cur) .. Top(cur)
  /\ context' = [context EXCEPT ![cur] = c]
  /\ Writes(cur)
  /\ MODE' = 0 => UserAt(mem', cur, reg'.sp, reg'.s0)
  /\ MODE' = 1 => InKernel(reg', c, mem', cur)

LEMMA CurKeeps ==
  ASSUME Inv, NEW c, CurStep(c)
  PROVE  /\ Inv' /\ context'[cur] = c
         /\ \A t \in live \ {cur} : ViewNow(t)' = ViewNow(t)
<1>1. /\ cur' = cur /\ live' = live /\ sscratch' = sscratch
      /\ MODE' \in {0, 1} /\ pc' \in Nat /\ reg' \in Regs
      /\ c \in Contexts /\ c.sp \in Base(cur) .. Top(cur)
      /\ context' = [context EXCEPT ![cur] = c] /\ Words(mem')
  BY DEF CurStep, Writes
<1>2. /\ cur \in live /\ live \subseteq Tasks /\ cur \in Tasks /\ sscratch = cur
      /\ context \in [Tasks -> Contexts]
      /\ \A t \in Tasks : context[t].sp \in Base(t) .. Top(t)
  BY DEF Inv, Typed
<1>3. /\ context' \in [Tasks -> Contexts] /\ context'[cur] = c
      /\ \A t \in Tasks : t # cur => context'[t] = context[t]
  BY <1>1, <1>2
<1>4. Typed'
  <2>1. \A t \in Tasks : context'[t].sp \in Base(t) .. Top(t)
    BY <1>1, <1>2, <1>3
  <2> QED
    BY <1>1, <1>2, <1>3, <2>1 DEF Typed
<1>5. ASSUME NEW t \in live \ {cur}
      PROVE  Parked(context'[t], mem', t) /\ ViewNow(t)' = ViewNow(t)
  <2>1. t \in Tasks /\ t # cur /\ context'[t] = context[t] /\ Parked(context[t], mem, t)
    BY <1>2, <1>3 DEF Inv
  <2>2. Agree(mem, mem', t)
    BY <1>2, <2>1, WritesAgree DEF CurStep
  <2> DEFINE k == context[t]
  <2> HIDE DEF k
  <2>3. /\ Parked(k, mem', t)
        /\ ViewOf(t, ParkedPc(k, mem'), k.sp, k.s0, k.data, mem')
             = ViewOf(t, ParkedPc(k, mem), k.sp, k.s0, k.data, mem)
    BY <2>1, <2>2, ParkedKept DEF k
  <2>4. ViewNow(t) = ViewOf(t, ParkedPc(k, mem), k.sp, k.s0, k.data, mem)
    BY <2>1, ViewParked DEF k, ViewNow, Parked
  <2>5. ViewNow(t)' = ViewOf(t, ParkedPc(k, mem'), k.sp, k.s0, k.data, mem')
    <3>1. UserAt(mem', t, context'[t].sp, context'[t].s0) /\ cur' # t
      BY <1>1, <2>1, <2>3 DEF k, Parked
    <3>2. ViewAt(cur', MODE', pc', reg', context', mem', t)
            = ViewOf(t, ParkedPc(k, mem'), k.sp, k.s0, k.data, mem')
      BY <2>1, <3>1, NextParked, Zenon DEF k
    <3> QED
      BY <3>2 DEF ViewNow
  <2> QED
    BY <2>1, <2>3, <2>4, <2>5 DEF k
<1>6. Inv'
  BY <1>1, <1>3, <1>4, <1>5 DEF Inv, CurStep
<1> QED
  BY <1>3, <1>5, <1>6

\* A step of user code.
LEMMA UserKeeps ==
  ASSUME Inv, MODE = 0, UNCHANGED <<cur, MODE, live, sscratch, context>>, pc' = pc + 1,
         NEW r \in Regs, reg' = r, Writes(cur), UserAt(mem', cur, r.sp, r.s0)
  PROVE  /\ Inv'
         /\ \A t \in live \ {cur} : ViewNow(t)' = ViewNow(t)
         /\ ViewNow(cur) = ViewOf(cur, pc, reg.sp, reg.s0, reg.data, mem)
         /\ ViewNow(cur)' = ViewOf(cur, pc + 1, r.sp, r.s0, r.data, mem')
<1> DEFINE c == context[cur]
<1>1. CurStep(c)
  <2>1. pc \in Nat /\ cur \in Tasks /\ c \in Contexts /\ c.sp \in Base(cur) .. Top(cur)
        /\ context \in [Tasks -> Contexts]
    BY Facts DEF Inv, Typed
  <2>2. context' = [context EXCEPT ![cur] = c]
    BY <2>1
  <2>3. MODE' = 0 /\ MODE' # 1 /\ pc' \in Nat
    BY <2>1
  <2>4. reg' \in Regs /\ UserAt(mem', cur, reg'.sp, reg'.s0)
    OBVIOUS
  <2> HIDE DEF c
  <2> QED
    BY <2>1, <2>2, <2>3, <2>4, Zenon DEF CurStep
<1>2. cur \in Tasks /\ UserAt(mem, cur, reg.sp, reg.s0)
  BY DEF Inv, Typed
<1>3. ViewNow(cur) = ViewOf(cur, pc, reg.sp, reg.s0, reg.data, mem)
  BY <1>2, ViewUser DEF ViewNow
<1>4. ViewNow(cur)' = ViewOf(cur, pc + 1, r.sp, r.s0, r.data, mem')
  <2>1. ViewAt(cur, 0, pc + 1, r, context, mem', cur) = ViewOf(cur, pc + 1, r.sp, r.s0, r.data, mem')
    BY <1>2, ViewUser
  <2> QED
    BY <2>1 DEF ViewNow
<1> QED
  BY <1>1, <1>3, <1>4, CurKeeps

\* The task that runs gets the machine n, the others keep theirs.
Own(n) ==
  /\ Inv' /\ live' = live
  /\ \A t \in live \ {cur} : ViewNow(t)' = ViewNow(t)
  /\ ViewNow(cur)' = n

\* q is r with other pointers.
Pointed(r, q, a, b) == q = [r EXCEPT !.sp = a, !.s0 = b]

LEMMA RegsPut ==
  ASSUME NEW r \in Regs, NEW a \in Int, NEW b \in Int, NEW q, Pointed(r, q, a, b)
  PROVE  q \in Regs /\ q.sp = a /\ q.s0 = b /\ q.data = r.data
<1> DEFINE F == {"sp", "s0", "data"}
<1>1. r = [k \in F |-> r[k]] /\ r.data \in RegFile
  BY DEF Regs
<1>2. q = [k \in F |-> q[k]] /\ q.sp = a /\ q.s0 = b /\ q.data = r.data
  BY <1>1, Zenon DEF Pointed
<1>3. q = [sp |-> a, s0 |-> b, data |-> r.data]
  BY <1>2
<1> QED
  BY <1>1, <1>2, <1>3 DEF Regs

\* n is m with two words written.
Written(m, n, x, v, y, w) == n = [m EXCEPT ![x] = v, ![y] = w]

LEMMA WordsPut ==
  ASSUME NEW m, Words(m), NEW x \in AllWords, NEW y \in AllWords, x # y, NEW v, NEW w,
         NEW n, Written(m, n, x, v, y, w)
  PROVE  Words(n) /\ n[x] = v /\ n[y] = w /\ \A a \in AllWords : a # x /\ a # y => n[a] = m[a]
<1> DEFINE k == [m EXCEPT ![x] = v]
<1>1. Words(k) /\ k[x] = v /\ \A a \in AllWords : a # x => k[a] = m[a]
  BY DEF Words
<1>2. n = [k EXCEPT ![y] = w]
  BY DEF Written
<1> HIDE DEF k
<1>3. Words(n) /\ n[y] = w /\ \A a \in AllWords : a # y => n[a] = k[a]
  BY <1>1, <1>2 DEF Words
<1> QED
  BY <1>1, <1>3

LEMMA FilledIs ==
  ASSUME NEW t \in Tasks, NEW v \in Nat
  PROVE  Filled(t, v) \in RegFile
<1>1. t \in Nat
  BY DEF Tasks
<1> QED
  BY <1>1 DEF RegFile, Filled

LEMMA ComputeStep ==
  ASSUME Inv, NEW v \in Vals, Compute(v)
  PROVE  Own(Cpu!Fill(cur, ViewNow(cur), v))
<1> DEFINE g == Filled(cur, v)
           r == [reg EXCEPT !.data = g]
<1>1. cur \in Tasks /\ v \in Nat /\ reg \in Regs /\ UserAt(mem, cur, reg.sp, reg.s0)
  BY Facts DEF Inv, Compute, InUser, Vals
<1>2. g \in RegFile
  BY <1>1, FilledIs
<1>3. /\ MODE = 0 /\ UNCHANGED <<cur, MODE, live, sscratch, context, mem>>
      /\ pc' = pc + 1 /\ reg' = r
  BY DEF Compute, InUser, Filled
<1> HIDE DEF g
<1>4. r \in Regs /\ r.sp = reg.sp /\ r.s0 = reg.s0 /\ r.data = g
  BY <1>1, <1>2 DEF Regs
<1> HIDE DEF r
<1>5. Writes(cur)
  BY <1>3 DEF Inv, Typed, Writes
<1>6. UserAt(mem', cur, r.sp, r.s0)
  BY <1>1, <1>3, <1>4
<1>7. /\ Inv' /\ \A t \in live \ {cur} : ViewNow(t)' = ViewNow(t)
      /\ ViewNow(cur) = ViewOf(cur, pc, reg.sp, reg.s0, reg.data, mem)
      /\ ViewNow(cur)' = ViewOf(cur, pc + 1, r.sp, r.s0, r.data, mem')
  BY <1>3, <1>4, <1>5, <1>6, UserKeeps
<1>8. Cpu!Fill(cur, ViewNow(cur), v) = ViewOf(cur, pc + 1, reg.sp, reg.s0, g, mem)
  <2>1. cur \in Tasks
    BY <1>1
  <2>2. Cpu!Fill(cur, ViewOf(cur, pc, reg.sp, reg.s0, reg.data, mem), v)
          = ViewOf(cur, pc + 1, reg.sp, reg.s0, g, mem)
    BY <2>1, ViewFill DEF g
  <2> QED
    BY <1>7, <2>2
<1> QED
  BY <1>3, <1>4, <1>7, <1>8 DEF Own

LEMMA CallStep ==
  ASSUME Inv, Call
  PROVE  Own(Cpu!Call(ViewNow(cur)))
<1> DEFINE r == [reg EXCEPT !.sp = reg.sp - 2, !.s0 = reg.sp]
<1>1. /\ cur \in Tasks /\ reg \in Regs /\ UserAt(mem, cur, reg.sp, reg.s0) /\ Words(mem)
      /\ reg.sp \in Int /\ Stack(cur) \subseteq AllWords /\ reg.sp > Top(cur) - 2 * CALLS
  BY Facts DEF Inv, Typed, Call, InUser
<1>2. /\ MODE = 0 /\ UNCHANGED <<cur, MODE, live, sscratch, context>>
      /\ pc' = pc + 1 /\ reg' = r
      /\ mem' = [mem EXCEPT ![reg.sp - 1] = Addr(reg.s0), ![reg.sp - 2] = Local(0)]
  BY DEF Call, InUser
<1>3. r \in Regs /\ r.sp = reg.sp - 2 /\ r.s0 = reg.sp /\ r.data = reg.data
  <2>1. Pointed(reg, r, reg.sp - 2, reg.sp) /\ reg.sp - 2 \in Int
    BY <1>1 DEF Pointed
  <2> HIDE DEF r
  <2> QED
    BY <1>1, <2>1, RegsPut
<1> HIDE DEF r
<1>4. reg.sp - 1 \in Stack(cur) /\ reg.sp - 2 \in Stack(cur)
  <2>1. /\ Base(cur) + 6 <= reg.sp /\ reg.sp <= Top(cur) /\ Base(cur) \in Int /\ Top(cur) \in Int
    BY <1>1, UserIs, StackIs
  <2> QED
    BY <1>1, <2>1 DEF Stack
<1>5. /\ mem'[reg.sp - 1] = Addr(reg.s0) /\ mem'[reg.sp - 2] = Local(0)
      /\ \A a \in AllWords : a # reg.sp - 1 /\ a # reg.sp - 2 => mem'[a] = mem[a]
      /\ Words(mem')
  <2>1. reg.sp - 1 # reg.sp - 2 /\ reg.sp - 1 \in AllWords /\ reg.sp - 2 \in AllWords
    BY <1>1, <1>4
  <2>2. Written(mem, mem', reg.sp - 1, Addr(reg.s0), reg.sp - 2, Local(0))
    BY <1>2 DEF Written
  <2> QED
    BY <1>1, <2>1, <2>2, WordsPut
<1>6. Writes(cur)
  BY <1>4, <1>5 DEF Writes
<1>7. \A a \in Stack(cur) : a >= reg.sp => mem'[a] = mem[a]
  <2>1. \A a \in Stack(cur) : a \in AllWords /\ a \in Int
    BY <1>1 DEF Stack
  <2> QED
    BY <1>1, <1>5, <2>1
<1>8. UserAt(mem', cur, r.sp, r.s0)
  BY <1>1, <1>3, <1>5, <1>7, UserCall
<1>9. /\ Inv' /\ \A t \in live \ {cur} : ViewNow(t)' = ViewNow(t)
      /\ ViewNow(cur) = ViewOf(cur, pc, reg.sp, reg.s0, reg.data, mem)
      /\ ViewNow(cur)' = ViewOf(cur, pc + 1, r.sp, r.s0, r.data, mem')
  BY <1>2, <1>3, <1>6, <1>8, UserKeeps, Zenon
<1>10. Cpu!Call(ViewNow(cur)) = ViewOf(cur, pc + 1, reg.sp - 2, reg.sp, reg.data, mem')
  BY <1>1, <1>5, <1>7, <1>9, ViewCall
<1> QED
  BY <1>2, <1>3, <1>9, <1>10 DEF Own

LEMMA LeaveStep ==
  ASSUME Inv, Leave
  PROVE  Own(Cpu!Leave(ViewNow(cur))) /\ reg.sp < Top(cur) - 2
<1> DEFINE s == mem[reg.sp + 1][2]
           r == [reg EXCEPT !.sp = reg.sp + 2, !.s0 = s]
<1>1. /\ cur \in Tasks /\ reg \in Regs /\ UserAt(mem, cur, reg.sp, reg.s0)
      /\ reg.sp \in Int /\ reg.sp < Top(cur) - 2
  BY Facts DEF Inv, Typed, Leave, InUser
<1>2. /\ MODE = 0 /\ UNCHANGED <<cur, MODE, live, sscratch, context, mem>>
      /\ pc' = pc + 1 /\ reg' = r
  BY DEF Leave, InUser
<1>3. UserAt(mem, cur, reg.sp + 2, s) /\ s \in Int
  BY <1>1, UserLeave, UserIs
<1> HIDE DEF s
<1>4. r \in Regs /\ r.sp = reg.sp + 2 /\ r.s0 = s /\ r.data = reg.data
  <2>1. Pointed(reg, r, reg.sp + 2, s) /\ reg.sp + 2 \in Int
    BY <1>1 DEF Pointed
  <2> HIDE DEF r
  <2> QED
    BY <1>1, <1>3, <2>1, RegsPut
<1> HIDE DEF r
<1>5. Writes(cur)
  BY <1>2 DEF Inv, Typed, Writes
<1>6. UserAt(mem', cur, r.sp, r.s0)
  BY <1>2, <1>3, <1>4
<1>7. /\ Inv' /\ \A t \in live \ {cur} : ViewNow(t)' = ViewNow(t)
      /\ ViewNow(cur) = ViewOf(cur, pc, reg.sp, reg.s0, reg.data, mem)
      /\ ViewNow(cur)' = ViewOf(cur, pc + 1, r.sp, r.s0, r.data, mem')
  BY <1>2, <1>4, <1>5, <1>6, UserKeeps
<1>8. Cpu!Leave(ViewNow(cur)) = ViewOf(cur, pc + 1, reg.sp + 2, s, reg.data, mem)
  BY <1>1, <1>7, ViewLeave DEF s
<1> QED
  BY <1>1, <1>2, <1>4, <1>7, <1>8 DEF Own

LEMMA StoreStep ==
  ASSUME Inv, NEW v \in Vals, Store(v)
  PROVE  Own(Cpu!Store(ViewNow(cur), v)) /\ reg.s0 # 0
<1>1. /\ cur \in Tasks /\ reg \in Regs /\ UserAt(mem, cur, reg.sp, reg.s0) /\ Words(mem)
      /\ reg.sp \in Int /\ Stack(cur) \subseteq AllWords /\ reg.s0 # 0
  BY Facts DEF Inv, Typed, Store, InUser
<1>2. reg.s0 - 2 = reg.sp /\ reg.sp \in Stack(cur)
  BY <1>1, UserIs
<1>3. /\ MODE = 0 /\ UNCHANGED <<cur, MODE, live, reg, sscratch, context>>
      /\ pc' = pc + 1 /\ mem' = [mem EXCEPT ![reg.sp] = Local(v)]
  BY <1>2, Zenon DEF Store, InUser
<1>4. /\ mem'[reg.sp] = Local(v) /\ \A a \in AllWords : a # reg.sp => mem'[a] = mem[a]
      /\ Words(mem')
  BY <1>1, <1>2, <1>3 DEF Words
<1>5. Writes(cur)
  BY <1>2, <1>4 DEF Writes
<1>6. UserAt(mem', cur, reg.sp, reg.s0)
  BY <1>1, <1>4, WordIs, UserStore
<1>7. /\ Inv' /\ \A t \in live \ {cur} : ViewNow(t)' = ViewNow(t)
      /\ ViewNow(cur) = ViewOf(cur, pc, reg.sp, reg.s0, reg.data, mem)
      /\ ViewNow(cur)' = ViewOf(cur, pc + 1, reg.sp, reg.s0, reg.data, mem')
  BY <1>1, <1>3, <1>5, <1>6, UserKeeps, Zenon
<1>8. Cpu!Store(ViewNow(cur), v) = ViewOf(cur, pc + 1, reg.sp, reg.s0, reg.data, mem')
  BY <1>1, <1>4, <1>7, ViewStore
<1> QED
  BY <1>1, <1>3, <1>7, <1>8 DEF Own

-----------------------------------------------------------------------------
(* Traps *)

\* What is known in the kernel.
LEMMA KernelFacts ==
  ASSUME Inv, MODE = 1
  PROVE  LET c == context[cur]
         IN  /\ cur \in Tasks /\ c \in Contexts /\ c.sp \in Int /\ c.s0 \in Int /\ c.epc \in Nat
             /\ c.data \in RegFile /\ c.sp \in Base(cur) .. Top(cur)
             /\ UserAt(mem, cur, c.sp, c.s0) /\ Trapped(c, mem) /\ InKernel(reg, c, mem, cur)
             /\ reg.s0 = c.sp /\ reg.sp = c.sp - 1 /\ c.sp - 1 \in Stack(cur)
             /\ Base(cur) \in Int /\ Base(cur) + 6 <= c.sp
             /\ ViewNow(cur) = ViewOf(cur, mem[c.sp - 1][2], c.sp, c.s0, c.data, mem)
<1> DEFINE c == context[cur]
<1>1. cur \in Tasks /\ c \in Contexts /\ InKernel(reg, c, mem, cur) /\ c.sp \in Base(cur) .. Top(cur)
  BY DEF Inv, Typed
<1>2. /\ UserAt(mem, cur, c.sp, c.s0) /\ Trapped(c, mem) /\ reg.s0 = c.sp /\ reg.sp = c.sp - 1
  BY <1>1 DEF InKernel
<1>3. c.epc \in Nat /\ c.data \in RegFile
  BY <1>1 DEF Contexts
<1>4. /\ c.sp \in Int /\ c.s0 \in Int /\ Base(cur) + 6 <= c.sp /\ c.sp <= Top(cur)
      /\ Base(cur) \in Int /\ Top(cur) \in Int
  BY <1>1, <1>2, UserIs, StackIs
<1>5. c.sp - 1 \in Stack(cur)
  BY <1>4 DEF Stack
<1>6. ViewNow(cur) = ViewOf(cur, mem[c.sp - 1][2], c.sp, c.s0, c.data, mem)
  BY <1>1, <1>2, ViewKernel DEF ViewNow
<1> QED
  BY <1>1, <1>2, <1>3, <1>4, <1>5, <1>6

\* One word, below sp, is written in the stack of the task that runs.
LEMMA PushBelow ==
  ASSUME Inv, NEW sp, NEW s0, UserAt(mem, cur, sp, s0), NEW w,
         mem' = [mem EXCEPT ![sp - 1] = w]
  PROVE  /\ Writes(cur) /\ UserAt(mem', cur, sp, s0) /\ mem'[sp - 1] = w
         /\ StackOf(cur, sp, mem') = StackOf(cur, sp, mem)
<1>1. /\ cur \in Tasks /\ Words(mem) /\ Stack(cur) \subseteq AllWords
  BY Facts DEF Inv, Typed
<1>2. sp \in Int /\ Base(cur) + 6 <= sp /\ sp <= Top(cur) /\ Base(cur) \in Int /\ Top(cur) \in Int
  BY <1>1, UserIs, StackIs
<1>3. sp - 1 \in Stack(cur)
  BY <1>2 DEF Stack
<1>4. Words(mem') /\ mem'[sp - 1] = w /\ \A a \in AllWords : a # sp - 1 => mem'[a] = mem[a]
  BY <1>1, <1>3 DEF Words
<1>5. Writes(cur)
  BY <1>3, <1>4 DEF Writes
<1>6. \A a \in Stack(cur) : a >= sp => mem'[a] = mem[a]
  <2>1. \A a \in Stack(cur) : a \in AllWords /\ a \in Int
    BY <1>1 DEF Stack
  <2> QED
    BY <1>2, <1>4, <2>1
<1>7. UserAt(mem', cur, sp, s0)
  BY <1>1, <1>6, UserSame, Zenon
<1>8. StackOf(cur, sp, mem') = StackOf(cur, sp, mem)
  <2>1. cur \in Tasks /\ sp \in Int /\ sp >= Base(cur)
    BY <1>1, <1>2
  <2> QED
    <3>1. SameAbove(mem, mem', cur, sp)
      BY <1>6, Zenon DEF SameAbove
    <3> QED
      BY <2>1, <3>1, StackSame, Zenon
<1> QED
  BY <1>4, <1>5, <1>7, <1>8

LEMMA SavedIs ==
  ASSUME NEW c \in Contexts, pc \in Nat, reg \in Regs
  PROVE  LET k == Saved(c)
         IN  /\ k \in Contexts /\ k.epc = pc /\ k.sp = reg.sp /\ k.s0 = reg.s0
             /\ k.data = reg.data
<1> DEFINE F == {"epc", "sp", "s0", "data", "temp"}
           k == Saved(c)
<1>1. c = [f \in F |-> c[f]] /\ c.temp \in Int
  BY DEF Contexts
<1>2. reg.sp \in Int /\ reg.s0 \in Int /\ reg.data \in RegFile
  BY DEF Regs
<1>3. /\ k = [f \in F |-> k[f]] /\ k.epc = pc /\ k.sp = reg.sp /\ k.s0 = reg.s0
      /\ k.data = reg.data /\ k.temp = c.temp
  BY <1>1, Zenon DEF Saved
<1> HIDE DEF k
<1>4. k = [epc |-> pc, sp |-> reg.sp, s0 |-> reg.s0, data |-> reg.data, temp |-> c.temp]
  BY <1>3
<1>5. k \in Contexts
  BY <1>1, <1>2, <1>4 DEF Contexts
<1> QED
  BY <1>3, <1>5 DEF k

\* The kernel's own values in its callee-saved registers.
LEMMA ClobberedIs ==
  ASSUME NEW t \in Tasks
  PROVE  Clobbered(t) \in RegFile
  BY FilledIs DEF Clobbered, Filled

LEMMA TrapStep ==
  ASSUME Inv, NEW cause \in {"interrupt", "ecall"}, Trap(cause)
  PROVE  Own(ViewNow(cur))
<1> DEFINE c == Saved(context[cur])
           r == [sp |-> reg.sp - 1, s0 |-> reg.sp, data |-> Clobbered(cur)]
<1>1. /\ MODE = 0 /\ MODE' = 1 /\ UNCHANGED <<cur, live, pc, sscratch>>
      /\ context' = [context EXCEPT ![cur] = c] /\ reg' = r
      /\ mem' = [mem EXCEPT ![reg.sp - 1] = Frame(pc, cause)]
  <2>1. sscratch = cur /\ context \in [Tasks -> Contexts] /\ cur \in Tasks
    BY DEF Inv, Typed
  <2> QED
    BY <2>1 DEF Trap
<1>2. /\ cur \in Tasks /\ UserAt(mem, cur, reg.sp, reg.s0) /\ reg.sp \in Int /\ pc \in Nat
      /\ context[cur] \in Contexts /\ reg \in Regs
  BY <1>1, Facts DEF Inv
<1>3. /\ Writes(cur) /\ UserAt(mem', cur, reg.sp, reg.s0) /\ mem'[reg.sp - 1] = Frame(pc, cause)
      /\ StackOf(cur, reg.sp, mem') = StackOf(cur, reg.sp, mem)
  BY <1>1, <1>2, PushBelow, Zenon
<1>4. /\ c \in Contexts /\ c.epc = pc /\ c.sp = reg.sp /\ c.s0 = reg.s0 /\ c.data = reg.data
  BY <1>2, SavedIs
<1>5. /\ r \in Regs /\ r.sp = c.sp - 1 /\ r.s0 = c.sp /\ r.data = Clobbered(cur)
  BY <1>2, <1>4, ClobberedIs DEF Regs
<1> HIDE DEF c, r
<1>6. c.sp \in Base(cur) .. Top(cur)
  BY <1>2, <1>4, UserIs, StackIs
<1>7. Trapped(c, mem')
  BY <1>2, <1>3, <1>4, WordIs DEF Trapped
<1>8. InKernel(reg', c, mem', cur)
  BY <1>1, <1>3, <1>4, <1>5, <1>7 DEF InKernel
<1>9. CurStep(c)
  <2>1. MODE' \in {0, 1} /\ pc' \in Nat /\ reg' \in Regs /\ ~(MODE' = 0)
    BY <1>1, <1>2, <1>5
  <2> QED
    BY <1>1, <1>3, <1>4, <1>6, <1>8, <2>1, Zenon DEF CurStep
<1>10. /\ Inv' /\ context'[cur] = c /\ \A t \in live \ {cur} : ViewNow(t)' = ViewNow(t)
  BY <1>9, CurKeeps
<1>11. ViewNow(cur) = ViewOf(cur, pc, reg.sp, reg.s0, reg.data, mem)
  BY <1>1, <1>2, ViewUser DEF ViewNow
<1>12. ViewNow(cur)' = ViewOf(cur, mem'[c.sp - 1][2], c.sp, c.s0, c.data, mem')
  <2>1. ViewAt(cur, 1, pc', reg', context', mem', cur)
          = ViewOf(cur, mem'[c.sp - 1][2], c.sp, c.s0, c.data, mem')
    <3>1. UserAt(mem', cur, c.sp, c.s0)
      BY <1>3, <1>4
    <3> QED
      BY <1>2, <1>10, <3>1, NextKernel, Zenon
  <2> QED
    BY <1>1, <2>1 DEF ViewNow
<1>13. ViewNow(cur)' = ViewNow(cur)
  <2>1. mem'[c.sp - 1][2] = pc
    <3>1. c.sp - 1 = reg.sp - 1 /\ mem'[reg.sp - 1] = Frame(pc, cause)
      BY <1>3, <1>4
    <3>2. Frame(pc, cause)[2] = pc
      BY WordIs, Zenon
    <3> QED
      BY <3>1, <3>2, Zenon
  <2>2. ViewNow(cur)' = ViewOf(cur, pc, reg.sp, reg.s0, reg.data, mem')
    BY <1>4, <1>12, <2>1
  <2> QED
    BY <1>3, <1>11, <2>2 DEF ViewOf
<1> QED
  BY <1>1, <1>10, <1>13 DEF Own

-----------------------------------------------------------------------------
(* System calls and the way back *)

LEMMA ResultIs ==
  ASSUME NEW c \in Contexts, NEW v \in Nat
  PROVE  LET k == WithResult(c, v)
         IN  /\ k \in Contexts /\ k.epc = c.epc /\ k.sp = c.sp /\ k.s0 = c.s0 /\ k.temp = c.temp
             /\ k.data = Returned(c.data, v)
<1> DEFINE F == {"epc", "sp", "s0", "data", "temp"}
           k == WithResult(c, v)
           d == Returned(c.data, v)
<1>1. /\ c = [f \in F |-> c[f]] /\ c.temp \in Int /\ c.epc \in Nat /\ c.sp \in Int /\ c.s0 \in Int
      /\ c.data \in RegFile
  BY DEF Contexts
<1>2. d \in RegFile
  <2>1. <<"a0", 0, v>> \in DataRegs \X Nat \X Nat
    BY DEF DataRegs
  <2> QED
    BY <1>1, <2>1 DEF RegFile, Returned
<1>3. k = [c EXCEPT !.data = d]
  BY DEF WithResult, Returned
<1> HIDE DEF k, d
<1>4. /\ k = [f \in F |-> k[f]] /\ k.epc = c.epc /\ k.sp = c.sp /\ k.s0 = c.s0
      /\ k.data = d /\ k.temp = c.temp
  BY <1>1, <1>3
<1>5. k = [epc |-> c.epc, sp |-> c.sp, s0 |-> c.s0, data |-> d, temp |-> c.temp]
  BY <1>4
<1>6. k \in Contexts
  BY <1>1, <1>2, <1>5 DEF Contexts
<1> QED
  BY <1>4, <1>6 DEF k, d

\* The task that runs goes on in the kernel, from a call that returns v.
LEMMA ResultStep ==
  ASSUME Inv, NEW v \in Vals, do_syscall(v)
  PROVE  Own(Cpu!Result(ViewNow(cur), v))
<1> DEFINE o == context[cur]
           c == WithResult(o, v)
           e == mem[o.sp - 1][2]
<1>1. MODE = 1 /\ v \in Nat
  BY DEF do_syscall, InSyscall, Vals
<1>2. /\ cur \in Tasks /\ o \in Contexts /\ o.sp \in Int /\ o.sp \in Base(cur) .. Top(cur)
      /\ UserAt(mem, cur, o.sp, o.s0) /\ Trapped(o, mem) /\ InKernel(reg, o, mem, cur)
      /\ reg.s0 = o.sp /\ ViewNow(cur) = ViewOf(cur, e, o.sp, o.s0, o.data, mem)
  BY <1>1, KernelFacts
<1>3. /\ UNCHANGED <<cur, MODE, live, pc, reg, sscratch>>
      /\ context' = [context EXCEPT ![cur] = c]
      /\ mem' = [mem EXCEPT ![o.sp - 1] = Frame(e + 1, "done")]
  <2>1. sscratch = cur /\ context \in [Tasks -> Contexts]
    BY DEF Inv, Typed
  <2> QED
    BY <1>2, <2>1 DEF do_syscall, Stepped, Epc
<1>4. /\ c \in Contexts /\ c.epc = o.epc /\ c.sp = o.sp /\ c.s0 = o.s0
      /\ c.data = Returned(o.data, v)
  BY <1>1, <1>2, ResultIs, Zenon
<1>5. e \in Nat /\ e + 1 \in Nat
  <2>1. e \in Nat
    BY <1>2, Zenon DEF Trapped
  <2> HIDE DEF e
  <2> QED
    BY <2>1
<1> HIDE DEF c, e, o
<1>6. /\ Writes(cur) /\ UserAt(mem', cur, o.sp, o.s0) /\ mem'[o.sp - 1] = Frame(e + 1, "done")
      /\ StackOf(cur, o.sp, mem') = StackOf(cur, o.sp, mem)
  BY <1>2, <1>3, PushBelow, Zenon
<1>7. Trapped(c, mem')
  <2>1. mem'[c.sp - 1] = Frame(e + 1, "done")
    BY <1>4, <1>6
  <2>2. mem'[c.sp - 1][1] = "frame" /\ mem'[c.sp - 1][2] = e + 1 /\ mem'[c.sp - 1][3] # "ecall"
    BY <2>1, WordIs
  <2> QED
    BY <1>5, <2>2 DEF Trapped
<1>8. InKernel(reg', c, mem', cur)
  BY <1>2, <1>3, <1>4, <1>6, <1>7 DEF InKernel
<1>9. CurStep(c)
  BY <1>1, <1>2, <1>3, <1>4, <1>6, <1>8 DEF CurStep, Inv, Typed
<1>10. /\ Inv' /\ context'[cur] = c /\ \A t \in live \ {cur} : ViewNow(t)' = ViewNow(t)
  BY <1>9, CurKeeps
<1>11. ViewNow(cur)' = ViewOf(cur, mem'[c.sp - 1][2], c.sp, c.s0, c.data, mem')
  <2>1. ViewAt(cur, 1, pc', reg', context', mem', cur)
          = ViewOf(cur, mem'[c.sp - 1][2], c.sp, c.s0, c.data, mem')
    <3>1. UserAt(mem', cur, c.sp, c.s0)
      BY <1>4, <1>6
    <3> QED
      BY <1>2, <1>10, <3>1, NextKernel, Zenon
  <2> QED
    BY <1>1, <1>3, <2>1 DEF ViewNow
<1>12. ViewNow(cur)' = ViewOf(cur, e + 1, o.sp, o.s0, Returned(o.data, v), mem)
  <2>1. mem'[c.sp - 1][2] = e + 1
    BY <1>4, <1>6, WordIs
  <2>2. ViewNow(cur)' = ViewOf(cur, e + 1, o.sp, o.s0, Returned(o.data, v), mem')
    BY <1>4, <1>11, <2>1
  <2> QED
    BY <1>6, <2>2 DEF ViewOf
<1>13. ViewNow(cur)' = Cpu!Result(ViewNow(cur), v)
  <2>1. Cpu!Result(ViewOf(cur, e, o.sp, o.s0, o.data, mem), v)
          = ViewOf(cur, e + 1, o.sp, o.s0, Returned(o.data, v), mem)
    <3>1. cur \in Tasks
      BY <1>2
    <3> QED
      BY <3>1, ViewResult
  <2> QED
    BY <1>2, <1>12, <2>1
<1> QED
  BY <1>3, <1>10, <1>13 DEF Own

\* trap_handler returns: user code goes on as if nothing had been.
LEMMA ReturnStep ==
  ASSUME Inv, Return
  PROVE  Own(ViewNow(cur))
<1> DEFINE o == context[cur]
           e == mem[o.sp - 1][2]
           c == [o EXCEPT !.epc = e]
           r == [sp |-> c.sp, s0 |-> c.s0, data |-> c.data]
<1>1. MODE = 1
  BY DEF Return
<1>2. /\ cur \in Tasks /\ o \in Contexts /\ o.sp \in Int /\ o.sp \in Base(cur) .. Top(cur)
      /\ UserAt(mem, cur, o.sp, o.s0) /\ Trapped(o, mem) /\ o.s0 \in Int /\ o.data \in RegFile
      /\ reg.s0 = o.sp /\ ViewNow(cur) = ViewOf(cur, e, o.sp, o.s0, o.data, mem)
  BY <1>1, KernelFacts
<1>3. /\ UNCHANGED <<cur, live, sscratch, mem>> /\ MODE' = 0 /\ pc' = c.epc /\ reg' = r
      /\ context' = [context EXCEPT ![cur] = c]
  <2>1. sscratch = cur /\ context \in [Tasks -> Contexts]
    BY DEF Inv, Typed
  <2> QED
    BY <1>2, <2>1 DEF Return, Restore, Epc
<1>4. e \in Nat
  BY <1>2 DEF Trapped
<1>5. /\ c \in Contexts /\ c.epc = e /\ c.sp = o.sp /\ c.s0 = o.s0 /\ c.data = o.data
  BY <1>2, <1>4 DEF Contexts
<1> HIDE DEF c, e, o
<1>6. r \in Regs /\ r.sp = o.sp /\ r.s0 = o.s0 /\ r.data = o.data
  BY <1>2, <1>5 DEF Regs
<1> HIDE DEF r
<1>7. Writes(cur)
  BY <1>3 DEF Inv, Typed, Writes
<1>8. UserAt(mem', cur, reg'.sp, reg'.s0)
  BY <1>2, <1>3, <1>6
<1>9. CurStep(c)
  <2>1. /\ MODE' \in {0, 1} /\ MODE' # 1 /\ pc' \in Nat /\ reg' \in Regs
        /\ c.sp \in Base(cur) .. Top(cur)
    BY <1>2, <1>3, <1>4, <1>5, <1>6
  <2> QED
    BY <1>3, <1>5, <1>7, <1>8, <2>1, Zenon DEF CurStep
<1>10. /\ Inv' /\ \A t \in live \ {cur} : ViewNow(t)' = ViewNow(t)
  BY <1>9, CurKeeps
<1>11. ViewNow(cur)' = ViewOf(cur, e, o.sp, o.s0, o.data, mem)
  <2>1. ViewAt(cur, 0, pc', r, context', mem, cur) = ViewOf(cur, pc', r.sp, r.s0, r.data, mem)
    BY <1>2, <1>6, ViewUser
  <2> QED
    BY <1>3, <1>5, <1>6, <2>1 DEF ViewNow
<1> QED
  BY <1>2, <1>3, <1>10, <1>11 DEF Own

\* execve() gives the task a new machine.
LEMMA execveStep ==
  ASSUME Inv, execve
  PROVE  Own(Cpu!Start)
<1> DEFINE c == NewContext(context[cur], cur)
           r == [sp |-> c.sp, s0 |-> c.s0, data |-> c.data]
<1>1. /\ cur \in Tasks /\ sscratch = cur /\ Top(cur) \in Int /\ Base(cur) \in Int
      /\ Top(cur) = Base(cur) + D /\ D \in Nat
  BY Facts, DIs DEF Inv, Typed
<1>2. Zeros \in RegFile
  BY DEF Zeros, RegFile
<1>3. /\ c \in Contexts /\ c.sp = Top(cur) /\ c.s0 = 0 /\ c.data = Zeros /\ c.epc = 0 /\ c.temp = 0
  BY <1>1, <1>2 DEF NewContext, Contexts
<1> HIDE DEF c
<1>4. r \in Regs /\ r.sp = Top(cur) /\ r.s0 = 0 /\ r.data = Zeros
  BY <1>1, <1>2, <1>3 DEF Regs
<1>5. /\ UNCHANGED <<cur, live, sscratch, mem>> /\ MODE' = 0 /\ pc' = 0 /\ reg' = r
      /\ context' = [context EXCEPT ![cur] = c]
  BY <1>1, <1>3 DEF execve, Restore, c
<1> HIDE DEF r
<1>6. Writes(cur)
  BY <1>5 DEF Inv, Typed, Writes
<1>7. UserAt(mem, cur, Top(cur), 0)
  <2>1. 0 \in 0 .. CALLS /\ Top(cur) = Top(cur) - 2 * 0 /\ Fp(cur, 0) = 0 /\ 1 .. 0 = {}
    BY <1>1, ContextAssumption DEF Fp
  <2> QED
    BY <2>1 DEF UserAt, Frames
<1>8. c.sp \in Base(cur) .. Top(cur)
  BY <1>1, <1>3
<1>9. UserAt(mem', cur, reg'.sp, reg'.s0)
  BY <1>4, <1>5, <1>7
<1>10. CurStep(c)
  <2>1. MODE' \in {0, 1} /\ pc' \in Nat /\ reg' \in Regs /\ ~(MODE' = 1)
    BY <1>4, <1>5
  <2> QED
    BY <1>3, <1>5, <1>6, <1>8, <1>9, <2>1, Zenon DEF CurStep
<1>11. /\ Inv' /\ \A t \in live \ {cur} : ViewNow(t)' = ViewNow(t)
  BY <1>10, CurKeeps
<1>12. ViewNow(cur)' = ViewOf(cur, 0, Top(cur), 0, Zeros, mem)
  <2>1. ViewAt(cur, 0, 0, r, context', mem, cur) = ViewOf(cur, 0, r.sp, r.s0, r.data, mem)
    BY <1>1, <1>4, <1>7, ViewUser
  <2> QED
    BY <1>4, <1>5, <2>1 DEF ViewNow
<1>13. ViewNow(cur)' = Cpu!Start
  BY <1>1, <1>12, ViewStart
<1> QED
  BY <1>5, <1>11, <1>13 DEF Own

-----------------------------------------------------------------------------
(* switch_to *)

LEMMA SwitchFrameIs ==
  ASSUME Words(mem), NEW sp \in Int, reg.sp = sp, \A k \in 1 .. 5 : sp - k \in AllWords,
         NEW n, n = SwitchFrame(mem)
  PROVE  /\ Words(n)
         /\ n[sp - 1] = Addr(reg.s0) /\ n[sp - 5] = reg.data["ra"] /\ n[sp - 4] = Addr(sp - 5)
         /\ n[sp - 2] = reg.data["s11"]
         /\ \A a \in AllWords : a \notin (sp - 5) .. (sp - 1) => n[a] = mem[a]
<1> DEFINE k1 == [mem EXCEPT ![sp - 1] = Addr(reg.s0)]
           k2 == [k1 EXCEPT ![sp - 5] = reg.data["ra"]]
           k3 == [k2 EXCEPT ![sp - 5 + 1] = Addr(sp - 5)]
           k4 == [k3 EXCEPT ![sp - 5 + 2] = Addr(sp)]
<1>1. /\ sp - 1 \in AllWords /\ sp - 2 \in AllWords /\ sp - 3 \in AllWords
      /\ sp - 4 \in AllWords /\ sp - 5 \in AllWords
      /\ sp - 5 + 1 = sp - 4 /\ sp - 5 + 2 = sp - 3 /\ sp - 5 + 3 = sp - 2
  OBVIOUS
<1>2. n = [k4 EXCEPT ![sp - 5 + 3] = reg.data["s11"]]
  BY DEF SwitchFrame
<1>3. Words(k1) /\ k1[sp - 1] = Addr(reg.s0) /\ \A a \in AllWords : a # sp - 1 => k1[a] = mem[a]
  BY <1>1 DEF Words
<1> HIDE DEF k1
<1>4. Words(k2) /\ k2[sp - 5] = reg.data["ra"] /\ \A a \in AllWords : a # sp - 5 => k2[a] = k1[a]
  BY <1>1, <1>3 DEF Words
<1> HIDE DEF k2
<1>5. Words(k3) /\ k3[sp - 4] = Addr(sp - 5) /\ \A a \in AllWords : a # sp - 4 => k3[a] = k2[a]
  BY <1>1, <1>4 DEF Words
<1> HIDE DEF k3
<1>6. Words(k4) /\ \A a \in AllWords : a # sp - 3 => k4[a] = k3[a]
  BY <1>1, <1>5 DEF Words
<1> HIDE DEF k4
<1>7. Words(n) /\ n[sp - 2] = reg.data["s11"] /\ \A a \in AllWords : a # sp - 2 => n[a] = k4[a]
  BY <1>1, <1>2, <1>6 DEF Words
<1> QED
  BY <1>1, <1>3, <1>4, <1>5, <1>6, <1>7

\* All tasks keep their machines.
Kept ==
  /\ Inv' /\ live' = live
  /\ \A t \in live : ViewNow(t)' = ViewNow(t)

\* The task that is switched out.
LEMMA SwitchedOut ==
  ASSUME Inv, NEW n \in Tasks, switch_to(n), NEW t0 \in Tasks, t0 = cur
  PROVE  /\ Writes(cur) /\ context' \in [Tasks -> Contexts]
         /\ Parked(context'[t0], mem', t0) /\ ViewNow(t0)' = ViewNow(t0)
         /\ \A t \in Tasks : context'[t].sp = context[t].sp
         /\ \A t \in Tasks : t # cur => context'[t] = context[t]
<1> DEFINE o == context[cur]
           c == [o EXCEPT !.temp = reg.sp - 5]
           e == mem[o.sp - 1][2]
<1>1. MODE = 1 /\ cur' = n /\ n # cur /\ mem' = SwitchFrame(mem)
  BY DEF switch_to
<1>2. /\ cur \in Tasks /\ o \in Contexts /\ o.sp \in Int /\ o.sp \in Base(cur) .. Top(cur)
      /\ UserAt(mem, cur, o.sp, o.s0) /\ Trapped(o, mem) /\ InKernel(reg, o, mem, cur)
      /\ reg.s0 = o.sp /\ reg.sp = o.sp - 1 /\ Base(cur) \in Int /\ Base(cur) + 6 <= o.sp
      /\ ViewNow(cur) = ViewOf(cur, e, o.sp, o.s0, o.data, mem)
  BY <1>1, KernelFacts
<1>3. context \in [Tasks -> Contexts] /\ Words(mem) /\ Base(cur) > 0 /\ Stack(cur) \subseteq AllWords
      /\ Top(cur) \in Int
  BY Facts DEF Inv, Typed
<1>4. context' = [context EXCEPT ![cur] = c]
  BY <1>2, <1>3 DEF switch_to
<1>5. reg.sp - 5 \in Int
  <2>1. o.sp \in Int /\ reg.sp = o.sp - 1
    BY <1>2, Zenon
  <2> HIDE DEF o
  <2> QED
    BY <2>1
<1>6. /\ c \in Contexts /\ c.epc = o.epc /\ c.sp = o.sp /\ c.s0 = o.s0 /\ c.data = o.data
      /\ c.temp = o.sp - 6
  BY <1>2, <1>5 DEF Contexts
<1> HIDE DEF c, e, o
<1>7. /\ context' \in [Tasks -> Contexts] /\ context'[cur] = c
      /\ \A t \in Tasks : t # cur => context'[t] = context[t]
  BY <1>2, <1>3, <1>4, <1>6
<1>8. \A t \in Tasks : context'[t].sp = context[t].sp
  BY <1>6, <1>7 DEF o
<1> DEFINE sp == reg.sp
<1>9. /\ sp \in Int /\ sp = o.sp - 1 /\ \A k \in 1 .. 5 : sp - k \in Stack(cur)
  BY <1>2, <1>3 DEF Stack
<1>10. /\ Words(mem') /\ mem'[sp - 1] = Addr(o.sp) /\ mem'[sp - 5] = reg.data["ra"]
       /\ mem'[sp - 4] = Addr(sp - 5) /\ mem'[sp - 2] = reg.data["s11"]
       /\ \A a \in AllWords : a \notin (sp - 5) .. (sp - 1) => mem'[a] = mem[a]
  BY <1>1, <1>2, <1>3, <1>9, SwitchFrameIs
<1> HIDE DEF sp
<1>11. \A a \in (sp - 5) .. (sp - 1) : a \in Stack(cur)
  BY <1>2, <1>3, <1>9 DEF Stack
<1>12. Writes(cur)
  BY <1>10, <1>11 DEF Writes
<1>13. \A a \in Stack(cur) : a >= sp => mem'[a] = mem[a]
  <2>1. \A a \in Stack(cur) : a \in AllWords /\ a \in Int
    BY <1>3 DEF Stack
  <2> QED
    BY <1>9, <1>10, <2>1
<1>14. \A a \in Stack(cur) : a >= o.sp => mem'[a] = mem[a]
  <2>1. \A a \in Stack(cur) : a \in Int
    BY DEF Stack
  <2> QED
    <3>1. \A a \in Int : a >= o.sp => a >= sp
      BY <1>2, <1>9
    <3> QED
      BY <1>13, <2>1, <3>1
<1>15. mem'[o.sp - 1] = mem[o.sp - 1]
  <2>1. o.sp - 1 \in Stack(cur) /\ o.sp - 1 >= sp
    BY <1>2, <1>3, <1>9 DEF Stack
  <2> QED
    BY <1>13, <2>1
<1>16. UserAt(mem', cur, o.sp, o.s0)
  BY <1>2, <1>14, UserSame
<1>17. Trapped(c, mem')
  BY <1>2, <1>6, <1>15 DEF Trapped
<1>18. Slept(c, mem', cur)
  <2>1. c.temp = sp - 5 /\ c.temp + 1 = sp - 4 /\ c.temp + 3 = sp - 2 /\ c.temp + 4 = sp - 1
    BY <1>2, <1>6, <1>9
  <2>2. reg.data["ra"] = Clobbered(cur)["ra"] /\ reg.data["s11"] = Clobbered(cur)["s11"]
    BY <1>2 DEF InKernel
  <2> QED
    BY <1>6, <1>9, <1>10, <2>1, <2>2 DEF Slept
<1>19. Parked(c, mem', cur)
  BY <1>6, <1>16, <1>17, <1>18 DEF Parked
<1>20. c.temp # 0
  BY <1>2, <1>3, <1>6
<1>21. StackOf(cur, o.sp, mem') = StackOf(cur, o.sp, mem)
  <2>1. o.sp >= Base(cur)
    BY <1>2
  <2> QED
    <3>1. SameAbove(mem, mem', cur, o.sp) /\ cur \in Tasks /\ o.sp \in Int
      BY <1>2, <1>14, Zenon DEF SameAbove
    <3> QED
      BY <2>1, <3>1, StackSame
<1>22. ViewNow(t0)' = ViewOf(cur, ParkedPc(c, mem'), c.sp, c.s0, c.data, mem')
  <2>1. ViewAt(n, MODE', pc', reg', context', mem', cur)
          = ViewOf(cur, ParkedPc(c, mem'), c.sp, c.s0, c.data, mem')
    <3>1. UserAt(mem', cur, c.sp, c.s0)
      BY <1>6, <1>16
    <3> QED
      BY <1>1, <1>2, <1>7, <3>1, NextParked, Zenon
  <2> QED
    BY <1>1, <2>1 DEF ViewNow
<1>23. ParkedPc(c, mem') = e
  BY <1>6, <1>15, <1>20 DEF ParkedPc, e
<1> QED
  BY <1>2, <1>6, <1>7, <1>8, <1>12, <1>19, <1>21, <1>22, <1>23 DEF ViewOf

\* The task that is switched to.
LEMMA SwitchedIn ==
  ASSUME Inv, NEW n \in Tasks, switch_to(n)
  PROVE  /\ pc' \in Nat /\ reg' \in Regs /\ MODE' \in {0, 1}
         /\ MODE' = 0 => UserAt(mem', n, reg'.sp, reg'.s0)
         /\ MODE' = 1 => InKernel(reg', context'[n], mem', n)
         /\ ViewNow(n)' = ViewNow(n)
<1> DEFINE c == context[n]
<1>1. /\ MODE = 1 /\ cur' = n /\ n # cur /\ cur \in Tasks /\ c \in Contexts /\ Parked(c, mem, n)
      /\ reg \in Regs /\ pc \in Nat
  BY DEF switch_to, Inv, Typed
<1>2. Writes(cur) /\ context'[n] = c
  BY <1>1, SwitchedOut
<1>3. Agree(mem, mem', n)
  BY <1>1, <1>2, WritesAgree
<1> HIDE DEF c
<1>4. /\ Parked(c, mem', n)
      /\ ViewOf(n, ParkedPc(c, mem'), c.sp, c.s0, c.data, mem')
           = ViewOf(n, ParkedPc(c, mem), c.sp, c.s0, c.data, mem)
  BY <1>1, <1>3, ParkedKept
<1>5. ViewNow(n) = ViewOf(n, ParkedPc(c, mem), c.sp, c.s0, c.data, mem)
  BY <1>1, ViewParked DEF c, ViewNow, Parked
<1>6. UserAt(mem', n, c.sp, c.s0)
  BY <1>4 DEF Parked
<1>7. CASE c.temp = 0
  <2> DEFINE r == [sp |-> c.sp, s0 |-> c.s0, data |-> c.data]
  <2>1. reg' = r /\ pc' = c.epc /\ MODE' = 0
    BY <1>7, Zenon DEF switch_to, Restore, c
  <2>2. r \in Regs /\ r.sp = c.sp /\ r.s0 = c.s0 /\ r.data = c.data /\ c.epc \in Nat
    BY <1>1 DEF Regs, Contexts
  <2> HIDE DEF r
  <2>3. ViewAt(n, 0, c.epc, r, context', mem', n) = ViewOf(n, c.epc, c.sp, c.s0, c.data, mem')
    BY <1>6, <2>2, ViewUser
  <2>4. ParkedPc(c, mem') = c.epc
    BY <1>7 DEF ParkedPc
  <2>5. ViewNow(n)' = ViewNow(n)
    BY <1>1, <1>4, <1>5, <2>1, <2>3, <2>4 DEF ViewNow
  <2> QED
    BY <1>6, <2>1, <2>2, <2>5
<1>8. CASE c.temp # 0
  <2> DEFINE r == Resumed(mem, c.temp)
  <2>1. reg' = r /\ pc' = pc /\ MODE' = 1
    BY <1>1, <1>8, Zenon DEF switch_to, c
  <2>2. Slept(c, mem, n) /\ Trapped(c, mem') /\ c.sp \in Int
    BY <1>1, <1>4, <1>8 DEF Parked, Contexts
  <2>3. mem[c.temp + 1][2] + 3 = c.temp + 3 /\ c.temp + 3 + 1 = c.temp + 4 /\ c.temp = c.sp - 6
    BY <2>2, WordIs DEF Slept
  <2> DEFINE d == [reg.data EXCEPT !["ra"] = mem[c.temp], !["s11"] = mem[c.temp + 3]]
  <2>4. r = [sp |-> c.temp + 3 + 2, s0 |-> mem[c.temp + 4][2], data |-> d]
    BY <2>3 DEF Resumed
  <2>5. d \in RegFile /\ d["ra"] = Clobbered(n)["ra"] /\ d["s11"] = Clobbered(n)["s11"]
    <3>1. reg.data \in RegFile
      BY <1>1 DEF Regs
    <3>2. Clobbered(n)["ra"] \in DataRegs \X Nat \X Nat /\ Clobbered(n)["s11"] \in DataRegs \X Nat \X Nat
      <4>1. Clobbered(n) \in RegFile /\ "ra" \in DataRegs /\ "s11" \in DataRegs
        BY ClobberedIs DEF DataRegs
      <4> QED
        BY <4>1 DEF RegFile
    <3>3. mem[c.temp] = Clobbered(n)["ra"] /\ mem[c.temp + 3] = Clobbered(n)["s11"]
      BY <2>2 DEF Slept
    <3>4. "ra" \in DataRegs /\ "s11" \in DataRegs /\ "ra" # "s11"
      BY DEF DataRegs
    <3> QED
      BY <3>1, <3>2, <3>3, <3>4 DEF RegFile
  <2> HIDE DEF d
  <2>6. mem[c.temp + 4][2] = c.sp
    BY <2>2, WordIs DEF Slept
  <2>7. r \in Regs /\ r.sp = c.sp - 1 /\ r.s0 = c.sp /\ r.data = d
    <3>1. c.sp - 1 \in Int /\ c.sp \in Int /\ c.temp + 3 + 2 = c.sp - 1
      BY <2>2, <2>3
    <3>2. r = [sp |-> c.sp - 1, s0 |-> c.sp, data |-> d]
      BY <2>4, <2>6, <3>1
    <3> QED
      BY <2>5, <3>1, <3>2 DEF Regs
  <2> HIDE DEF r
  <2>8. InKernel(r, c, mem', n)
    BY <1>6, <2>2, <2>5, <2>7 DEF InKernel
  <2>9. ViewAt(n, 1, pc', r, context', mem', n)
          = ViewOf(n, mem'[c.sp - 1][2], c.sp, c.s0, c.data, mem')
    BY <1>2, <1>6, ViewKernel
  <2>10. ParkedPc(c, mem') = mem'[c.sp - 1][2]
    BY <1>8 DEF ParkedPc
  <2>11. ViewNow(n)' = ViewNow(n)
    BY <1>1, <1>4, <1>5, <2>1, <2>9, <2>10 DEF ViewNow
  <2>12. pc' \in Nat /\ reg' \in Regs /\ MODE' \in {0, 1} /\ MODE' # 0
    BY <1>1, <2>1, <2>7
  <2> QED
    BY <1>2, <2>1, <2>8, <2>11, <2>12, Zenon
<1> QED
  BY <1>7, <1>8

LEMMA SwitchStep ==
  ASSUME Inv, NEW n \in Tasks, switch_to(n)
  PROVE  Kept
<1>1. /\ cur' = n /\ sscratch' = n /\ live' = live /\ n \in live /\ n # cur
      /\ live \subseteq Tasks /\ cur \in Tasks
      /\ \A t \in Tasks : context[t].sp \in Base(t) .. Top(t)
  BY DEF switch_to, Inv, Typed
<1>2. /\ Writes(cur) /\ context' \in [Tasks -> Contexts]
      /\ \A t \in Tasks : context'[t].sp = context[t].sp
      /\ \A t \in Tasks : t # cur => context'[t] = context[t]
  BY <1>1, SwitchedOut
<1>3. /\ pc' \in Nat /\ reg' \in Regs /\ MODE' \in {0, 1}
      /\ MODE' = 0 => UserAt(mem', n, reg'.sp, reg'.s0)
      /\ MODE' = 1 => InKernel(reg', context'[n], mem', n)
      /\ ViewNow(n)' = ViewNow(n)
  BY SwitchedIn
<1>4. Typed'
  BY <1>1, <1>2, <1>3 DEF Typed, Writes
<1>5. ASSUME NEW t \in live, t # n
      PROVE  Parked(context'[t], mem', t) /\ ViewNow(t)' = ViewNow(t)
  <2>1. CASE t = cur
    BY <1>1, <2>1, SwitchedOut
  <2>2. CASE t # cur
    <3> DEFINE c == context[t]
    <3>1. t \in Tasks /\ context'[t] = c /\ Parked(c, mem, t) /\ Agree(mem, mem', t)
      BY <1>1, <1>2, <2>2, WritesAgree DEF Inv
    <3> HIDE DEF c
    <3>2. /\ Parked(c, mem', t)
          /\ ViewOf(t, ParkedPc(c, mem'), c.sp, c.s0, c.data, mem')
               = ViewOf(t, ParkedPc(c, mem), c.sp, c.s0, c.data, mem)
      BY <3>1, ParkedKept
    <3>3. ViewNow(t) = ViewOf(t, ParkedPc(c, mem), c.sp, c.s0, c.data, mem)
      BY <2>2, <3>1, ViewParked DEF c, ViewNow, Parked
    <3>4. ViewAt(n, MODE', pc', reg', context', mem', t)
            = ViewOf(t, ParkedPc(c, mem'), c.sp, c.s0, c.data, mem')
      BY <1>5, <3>1, <3>2, NextParked, Zenon DEF Parked
    <3> QED
      BY <1>1, <3>1, <3>2, <3>3, <3>4 DEF ViewNow
  <2> QED
    BY <2>1, <2>2
<1>6. Inv'
  BY <1>1, <1>3, <1>4, <1>5 DEF Inv
<1> QED
  BY <1>1, <1>3, <1>5, <1>6 DEF Kept

-----------------------------------------------------------------------------
(* fork *)

\* The stack of u is a copy of the stack of t, and one more word of t changes.
Copied(m, n, t, u, x, w) == n = [copy_memory(m, t, u) EXCEPT ![x] = w]

LEMMA CopiedIs ==
  ASSUME NEW m, Words(m), NEW t \in Tasks, NEW u \in Tasks, t # u, NEW x \in Stack(t), NEW w,
         NEW n, Copied(m, n, t, u, x, w)
  PROVE  /\ Words(n) /\ n[x] = w
         /\ \A a \in Stack(u) : n[a] = m[Rebased(a, u, t)]
         /\ \A a \in AllWords : a \notin Stack(u) /\ a # x => n[a] = m[a]
<1> DEFINE k == copy_memory(m, t, u)
<1>1. Stack(t) \subseteq AllWords /\ Stack(u) \subseteq AllWords /\ Stack(t) \cap Stack(u) = {}
  BY StackIs, StacksApart
<1>2. DOMAIN m = AllWords
  BY DEF Words
<1>3. /\ Words(k) /\ \A a \in Stack(u) : k[a] = m[Rebased(a, u, t)]
      /\ \A a \in AllWords : a \notin Stack(u) => k[a] = m[a]
  BY <1>1, <1>2 DEF Words, copy_memory, Stack
<1>4. n = [k EXCEPT ![x] = w]
  BY DEF Copied
<1> HIDE DEF k
<1>5. Words(n) /\ n[x] = w /\ \A a \in AllWords : a # x => n[a] = k[a]
  BY <1>1, <1>3, <1>4 DEF Words
<1> QED
  BY <1>1, <1>3, <1>5

\* Memory n has in the stack of u what m has in that of t.
Mirrors(m, n, t, u) == \A a \in Stack(u) : n[a] = m[Rebased(a, u, t)]

\* The father is in its outermost function: its child has a frame of its own.
LEMMA ChildFrame ==
  ASSUME NEW m, NEW n, NEW t \in Tasks, NEW u \in Tasks, NEW sp, NEW s0,
         UserAt(m, t, sp, s0), sp = Top(t) - 2, Mirrors(m, n, t, u)
  PROVE  /\ s0 = Top(t) /\ Rebased(sp, t, u) = Top(u) - 2 /\ Rebased(s0, t, u) = Top(u)
         /\ UserAt(n, u, Top(u) - 2, Top(u))
         /\ StackOf(u, Top(u) - 2, n) = StackOf(t, sp, m)
         /\ Rel(u, Top(u) - 2) = Rel(t, sp) /\ Rel(u, Top(u)) = Rel(t, s0)
<1>1. /\ Top(t) \in Int /\ Base(t) \in Int /\ Top(t) = Base(t) + D /\ D \in Int /\ D > 6
      /\ Top(u) \in Int /\ Base(u) \in Int /\ Top(u) = Base(u) + D /\ Base(t) > 0 /\ Base(u) > 0
  <2>1. D \in Int /\ D > 6
    BY DIs
  <2>2. Top(t) \in Int /\ Base(t) \in Int /\ Top(t) = Base(t) + D /\ Base(t) > 0
    BY StackIs, Zenon
  <2>3. Top(u) \in Int /\ Base(u) \in Int /\ Top(u) = Base(u) + D /\ Base(u) > 0
    BY StackIs, Zenon
  <2> QED
    BY <2>1, <2>2, <2>3, Zenon
<1>2. PICK k \in 0 .. CALLS : sp = Top(t) - 2 * k /\ s0 = Fp(t, k) /\ Frames(m, t, k)
  BY DEF UserAt
<1>3. k = 1 /\ CALLS \in Nat /\ 1 \in 0 .. CALLS
  BY <1>1, <1>2, ContextAssumption
<1>4. s0 = Top(t)
  BY <1>1, <1>2, <1>3 DEF Fp
<1>5. m[Top(t) - 2][1] = "local" /\ m[Top(t) - 1] = Addr(0)
  <2>1. 1 \in 1 .. k /\ Top(t) - 2 * 1 = Top(t) - 2 /\ Top(t) - 2 * 1 + 1 = Top(t) - 1
    BY <1>1, <1>3
  <2>2. Fp(t, 1 - 1) = 0
    BY DEF Fp
  <2> QED
    BY <1>2, <2>1, <2>2 DEF Frames
<1>6. Rebased(sp, t, u) = Top(u) - 2 /\ Rebased(s0, t, u) = Top(u)
  BY <1>1, <1>4 DEF Rebased
<1>7. n[Top(u) - 2] = m[Top(t) - 2] /\ n[Top(u) - 1] = m[Top(t) - 1]
  <2>1. Top(u) - 2 \in Stack(u) /\ Top(u) - 1 \in Stack(u)
    BY <1>1 DEF Stack
  <2>2. Rebased(Top(u) - 2, u, t) = Top(t) - 2 /\ Rebased(Top(u) - 1, u, t) = Top(t) - 1
    BY <1>1 DEF Rebased
  <2> QED
    BY <2>1, <2>2 DEF Mirrors
<1>8. UserAt(n, u, Top(u) - 2, Top(u))
  <2>1. Top(u) - 2 = Top(u) - 2 * 1 /\ Top(u) = Fp(u, 1)
    BY <1>1 DEF Fp
  <2>2. Frames(n, u, 1)
    <3>1. ASSUME NEW j \in 1 .. 1
          PROVE  /\ n[Top(u) - 2 * j][1] = "local"
                 /\ n[Top(u) - 2 * j + 1] = Addr(Fp(u, j - 1))
      <4>1. j = 1 /\ Top(u) - 2 * j = Top(u) - 2 /\ Top(u) - 2 * j + 1 = Top(u) - 1
        BY <1>1
      <4>2. Fp(u, j - 1) = 0
        BY <4>1 DEF Fp
      <4> QED
        BY <1>5, <1>7, <4>1, <4>2
    <3> QED
      BY <3>1 DEF Frames
  <2> QED
    BY <1>3, <2>1, <2>2 DEF UserAt
<1>9. StackOf(u, Top(u) - 2, n) = StackOf(t, sp, m)
  <2>1. Top(u) - 2 - Base(u) = D - 2 /\ sp - Base(t) = D - 2
    BY <1>1
  <2>2. ASSUME NEW a \in (D - 2) .. (D - 1)
        PROVE  RelWord(u, n[Base(u) + a]) = RelWord(t, m[Base(t) + a])
    <3>1. CASE a = D - 2
      <4>1. Base(u) + a = Top(u) - 2 /\ Base(t) + a = Top(t) - 2
        BY <1>1, <3>1
      <4> QED
        BY <1>5, <1>7, <4>1 DEF RelWord
    <3>2. CASE a = D - 1
      <4>1. Base(u) + a = Top(u) - 1 /\ Base(t) + a = Top(t) - 1
        BY <1>1, <3>2
      <4>2. RelWord(u, Addr(0)) = Addr(0) /\ RelWord(t, Addr(0)) = Addr(0)
        BY WordIs DEF RelWord, Rel
      <4> QED
        BY <1>5, <1>7, <4>1, <4>2
    <3>3. a = D - 2 \/ a = D - 1
      BY <1>1
    <3> QED
      BY <3>1, <3>2, <3>3, Zenon
  <2> QED
    BY <2>1, <2>2 DEF StackOf
<1>10. Rel(u, Top(u) - 2) = Rel(t, sp) /\ Rel(u, Top(u)) = Rel(t, s0)
  BY <1>1, <1>4 DEF Rel
<1> QED
  BY <1>4, <1>6, <1>8, <1>9, <1>10

\* fork has returned u in the task that runs and 0 in u.
Forked(u) ==
  /\ Inv' /\ u \notin live /\ live' = live \cup {u}
  /\ \A t \in live \ {cur} : ViewNow(t)' = ViewNow(t)
  /\ ViewNow(cur)' = Cpu!Result(ViewNow(cur), u)
  /\ ViewNow(u)' = Cpu!Result(ViewNow(cur), 0)

LEMMA ForkStep ==
  ASSUME Inlined, Inv, NEW u \in Tasks, copy_process(u)
  PROVE  Forked(u)
<1> DEFINE o == context[cur]
           c == WithResult(o, u)
           k == ChildContext(o, cur, u)
           e == mem[o.sp - 1][2]
           x == o.sp - 1
           w == Frame(e + 1, "done")
<1>1. MODE = 1 /\ u \in Nat /\ u \notin live /\ live' = live \cup {u} /\ cur \in live /\ u # cur
      /\ live \subseteq Tasks /\ sscratch = cur /\ context \in [Tasks -> Contexts]
      /\ Words(mem) /\ MODE' = 1 /\ UNCHANGED <<cur, pc, reg, sscratch>>
      /\ \A t \in Tasks : context[t].sp \in Base(t) .. Top(t)
  BY DEF copy_process, InSyscall, Inv, Typed, Tasks
<1>2. /\ cur \in Tasks /\ o \in Contexts /\ o.sp \in Int /\ o.sp \in Base(cur) .. Top(cur)
      /\ UserAt(mem, cur, o.sp, o.s0) /\ Trapped(o, mem) /\ InKernel(reg, o, mem, cur)
      /\ reg.s0 = o.sp /\ x \in Stack(cur) /\ o.epc \in Nat /\ o.data \in RegFile
      /\ ViewNow(cur) = ViewOf(cur, e, o.sp, o.s0, o.data, mem)
  BY <1>1, KernelFacts
<1>3. context' = [context EXCEPT ![u] = k, ![cur] = c] /\ Copied(mem, mem', cur, u, x, w)
  BY <1>1, <1>2 DEF copy_process, Stepped, Epc, Copied
<1>4. o.sp = Top(cur) - 2 /\ e = o.epc
  BY <1>2 DEF copy_process, InSyscall, Cause, Trapped
<1>5. /\ c \in Contexts /\ c.epc = o.epc /\ c.sp = o.sp /\ c.s0 = o.s0
      /\ c.data = Returned(o.data, u)
  BY <1>1, <1>2, ResultIs
<1> HIDE DEF c, e, o, w, x
<1>6. /\ Words(mem') /\ mem'[x] = w
      /\ \A a \in Stack(u) : mem'[a] = mem[Rebased(a, u, cur)]
      /\ \A a \in AllWords : a \notin Stack(u) /\ a # x => mem'[a] = mem[a]
  BY <1>1, <1>2, <1>3, CopiedIs
<1>7. /\ Rebased(o.sp, cur, u) = Top(u) - 2 /\ Rebased(o.s0, cur, u) = Top(u)
      /\ UserAt(mem', u, Top(u) - 2, Top(u))
      /\ StackOf(u, Top(u) - 2, mem') = StackOf(cur, o.sp, mem)
      /\ Rel(u, Top(u) - 2) = Rel(cur, o.sp) /\ Rel(u, Top(u)) = Rel(cur, o.s0)
  <2>1. Mirrors(mem, mem', cur, u)
    BY <1>6 DEF Mirrors
  <2> QED
    BY <1>2, <1>4, <2>1, ChildFrame
<1> DEFINE d0 == Returned(o.data, 0)
<1>8. /\ k \in Contexts /\ k.epc = e + 1 /\ k.sp = Top(u) - 2 /\ k.s0 = Top(u) /\ k.data = d0
      /\ k.temp = 0 /\ k.sp \in Base(u) .. Top(u)
  <2>1. /\ Top(u) \in Int /\ Base(u) \in Int /\ Top(u) = Base(u) + D /\ D \in Int /\ D > 6
    BY StackIs, DIs
  <2>2. d0 \in RegFile
    <3>1. <<"a0", 0, 0>> \in DataRegs \X Nat \X Nat
      BY DEF DataRegs
    <3> QED
      BY <1>2, <3>1 DEF RegFile, Returned
  <2> HIDE DEF d0
  <2>3. k = [epc |-> o.epc + 1, sp |-> Top(u) - 2, s0 |-> Top(u), data |-> d0, temp |-> 0]
    BY <1>7 DEF ChildContext, d0, Returned
  <2>4. o.epc + 1 \in Nat
    BY <1>2
  <2> QED
    BY <1>4, <2>1, <2>2, <2>3, <2>4 DEF Contexts
<1> HIDE DEF k, d0
<1>9. /\ context' \in [Tasks -> Contexts] /\ context'[cur] = c /\ context'[u] = k
      /\ \A t \in Tasks : t # cur /\ t # u => context'[t] = context[t]
  BY <1>1, <1>2, <1>3, <1>5, <1>8
<1>10. Typed'
  <2>1. \A t \in Tasks : context'[t].sp \in Base(t) .. Top(t)
    BY <1>1, <1>2, <1>5, <1>8, <1>9
  <2>2. pc' \in Nat /\ reg' \in Regs
    BY <1>1 DEF Inv, Typed
  <2> QED
    BY <1>1, <1>6, <1>9, <2>1, <2>2 DEF Typed
<1>11. \A a \in Stack(cur) : a >= o.sp => mem'[a] = mem[a]
  <2>1. \A a \in Stack(cur) : a \in AllWords /\ a \in Int /\ a \notin Stack(u)
    BY <1>1, <1>2, StackIs, StacksApart DEF Stack
  <2>2. \A a \in Stack(cur) : a >= o.sp => a # x
    BY <1>2, <2>1 DEF x
  <2> QED
    BY <1>6, <2>1, <2>2
<1>12. UserAt(mem', cur, o.sp, o.s0)
  BY <1>2, <1>11, UserSame
<1>13. StackOf(cur, o.sp, mem') = StackOf(cur, o.sp, mem)
  <2>1. o.sp >= Base(cur)
    BY <1>2, StackIs
  <2> QED
    <3>1. SameAbove(mem, mem', cur, o.sp) /\ cur \in Tasks /\ o.sp \in Int
      BY <1>2, <1>11, Zenon DEF SameAbove
    <3> QED
      BY <2>1, <3>1, StackSame, Zenon
<1>14. e \in Nat /\ e + 1 \in Nat
  BY <1>2, <1>4
<1>15. InKernel(reg', c, mem', cur)
  <2>1. Trapped(c, mem')
    <3>1. mem'[c.sp - 1] = Frame(e + 1, "done")
      BY <1>5, <1>6 DEF w, x
    <3>2. mem'[c.sp - 1][1] = "frame" /\ mem'[c.sp - 1][2] = e + 1 /\ mem'[c.sp - 1][3] # "ecall"
      BY <3>1, WordIs
    <3> QED
      BY <1>14, <3>2 DEF Trapped
  <2> QED
    BY <1>1, <1>2, <1>5, <1>12, <2>1 DEF InKernel
<1>16. Parked(k, mem', u)
  BY <1>7, <1>8 DEF Parked
<1>17. ASSUME NEW t \in live, t # cur
       PROVE  Parked(context'[t], mem', t) /\ ViewNow(t)' = ViewNow(t)
  <2> DEFINE g == context[t]
  <2>1. t \in Tasks /\ t # u /\ context'[t] = g /\ Parked(g, mem, t)
    BY <1>1, <1>9, <1>17 DEF Inv
  <2>2. Agree(mem, mem', t)
    <3>1. \A a \in Stack(t) : a \in AllWords /\ a \notin Stack(u) /\ a \notin Stack(cur)
      BY <1>2, <1>17, <2>1, StackIs, StacksApart
    <3> QED
      BY <1>2, <1>6, <3>1 DEF Agree
  <2> HIDE DEF g
  <2>3. /\ Parked(g, mem', t)
        /\ ViewOf(t, ParkedPc(g, mem'), g.sp, g.s0, g.data, mem')
             = ViewOf(t, ParkedPc(g, mem), g.sp, g.s0, g.data, mem)
    BY <2>1, <2>2, ParkedKept
  <2>4. ViewNow(t) = ViewOf(t, ParkedPc(g, mem), g.sp, g.s0, g.data, mem)
    BY <1>17, <2>1, ViewParked DEF g, ViewNow, Parked
  <2>5. ViewAt(cur, MODE', pc', reg', context', mem', t)
          = ViewOf(t, ParkedPc(g, mem'), g.sp, g.s0, g.data, mem')
    BY <1>17, <2>1, <2>3, NextParked, Zenon DEF Parked
  <2> QED
    BY <1>1, <2>1, <2>3, <2>4, <2>5 DEF ViewNow
<1>18. Inv'
  <2>1. ASSUME NEW t \in live', t # cur'
        PROVE  Parked(context'[t], mem', t)
    BY <1>1, <1>9, <1>16, <1>17, <2>1
  <2> QED
    BY <1>1, <1>9, <1>10, <1>15, <2>1 DEF Inv
<1>19. ViewNow(cur)' = Cpu!Result(ViewNow(cur), u)
  <2>1. ViewAt(cur, 1, pc', reg', context', mem', cur)
          = ViewOf(cur, mem'[c.sp - 1][2], c.sp, c.s0, c.data, mem')
    <3>1. UserAt(mem', cur, c.sp, c.s0)
      BY <1>5, <1>12
    <3> QED
      BY <1>2, <1>9, <3>1, NextKernel, Zenon
  <2>2. mem'[c.sp - 1][2] = e + 1
    <3>1. c.sp - 1 = x
      BY <1>5 DEF x
    <3>2. w[2] = e + 1
      BY WordIs, Zenon DEF w
    <3> QED
      BY <1>6, <3>1, <3>2, Zenon
  <2>3. ViewNow(cur)' = ViewOf(cur, e + 1, o.sp, o.s0, Returned(o.data, u), mem)
    BY <1>1, <1>5, <1>13, <2>1, <2>2 DEF ViewNow, ViewOf
  <2>4. Cpu!Result(ViewOf(cur, e, o.sp, o.s0, o.data, mem), u)
          = ViewOf(cur, e + 1, o.sp, o.s0, Returned(o.data, u), mem)
    <3>1. cur \in Tasks
      BY <1>2
    <3> QED
      BY <3>1, ViewResult
  <2> QED
    BY <1>2, <2>3, <2>4
<1>20. ViewNow(u)' = Cpu!Result(ViewNow(cur), 0)
  <2>1. ViewAt(cur, MODE', pc', reg', context', mem', u)
          = ViewOf(u, ParkedPc(k, mem'), k.sp, k.s0, k.data, mem')
    <3>1. UserAt(mem', u, k.sp, k.s0)
      BY <1>7, <1>8
    <3> QED
      BY <1>1, <1>9, <3>1, NextParked, Zenon
  <2>2. ParkedPc(k, mem') = e + 1
    BY <1>8 DEF ParkedPc
  <2>3. ViewNow(u)' = ViewOf(cur, e + 1, o.sp, o.s0, d0, mem)
    BY <1>1, <1>7, <1>8, <2>1, <2>2 DEF ViewNow, ViewOf
  <2>4. Cpu!Result(ViewOf(cur, e, o.sp, o.s0, o.data, mem), 0)
          = ViewOf(cur, e + 1, o.sp, o.s0, d0, mem)
    <3>1. cur \in Tasks
      BY <1>2
    <3> QED
      BY <3>1, ViewResult DEF d0
  <2> QED
    BY <1>2, <2>3, <2>4
<1> QED
  BY <1>1, <1>17, <1>18, <1>19, <1>20 DEF Forked

-----------------------------------------------------------------------------
(* The machines of all tasks *)

Mach == [t \in Tasks |-> IF t \in live THEN View(t) ELSE NoView]

MachFacts ==
  /\ \A t \in live : t \in Tasks /\ Mach[t] = ViewNow(t) /\ Mach[t] # Cpu!NoMachine
  /\ \A t \in Tasks : t \notin live => Mach[t] = Cpu!NoMachine
  /\ Cpu!Exist(Mach) = live

LEMMA MachIs ==
  ASSUME Inv
  PROVE  MachFacts
<1>1. live \subseteq Tasks /\ cur \in live /\ MODE \in {0, 1}
  BY DEF Inv, Typed
<1>2. \A t : View(t) = ViewNow(t)
  BY DEF View, ViewNow, ViewAt
<1>3. ASSUME NEW t \in live PROVE ViewNow(t) # Cpu!NoMachine
  <2>1. t \in Tasks
    BY <1>1
  <2>2. CASE t = cur /\ MODE = 0
    <3>1. UserAt(mem, t, reg.sp, reg.s0)
      BY <2>2 DEF Inv
    <3>2. ViewNow(t) = ViewOf(t, pc, reg.sp, reg.s0, reg.data, mem)
      BY <2>1, <2>2, <3>1, ViewUser DEF ViewNow
    <3> QED
      BY <2>1, <3>1, <3>2, ViewExists
  <2>3. CASE t = cur /\ MODE = 1
    <3> DEFINE c == context[t]
    <3>1. UserAt(mem, t, c.sp, c.s0)
      BY <2>3 DEF Inv, InKernel
    <3>2. ViewNow(t) = ViewOf(t, mem[c.sp - 1][2], c.sp, c.s0, c.data, mem)
      <4>1. ViewAt(t, 1, pc, reg, context, mem, t)
              = ViewOf(t, mem[c.sp - 1][2], c.sp, c.s0, c.data, mem)
        BY <2>1, <3>1, ViewKernel
      <4> QED
        BY <2>3, <4>1, Zenon DEF ViewNow
    <3> QED
      BY <2>1, <3>1, <3>2, ViewExists
  <2>4. CASE t # cur
    <3> DEFINE c == context[t]
    <3>1. UserAt(mem, t, c.sp, c.s0)
      BY <2>4 DEF Inv, Parked
    <3>2. ViewNow(t) = ViewOf(t, ParkedPc(c, mem), c.sp, c.s0, c.data, mem)
      BY <2>1, <2>4, <3>1, ViewParked DEF ViewNow
    <3> QED
      BY <2>1, <3>1, <3>2, ViewExists
  <2> QED
    BY <1>1, <2>2, <2>3, <2>4
<1>4. NoView = Cpu!NoMachine
  BY DEF NoView, Zeros, Cpu!NoMachine
<1>5. \A t \in live : t \in Tasks /\ Mach[t] = ViewNow(t) /\ Mach[t] # Cpu!NoMachine
  BY <1>1, <1>2, <1>3 DEF Mach
<1>6. \A t \in Tasks : t \notin live => Mach[t] = Cpu!NoMachine
  BY <1>4 DEF Mach
<1>7. Cpu!Exist(Mach) = live
  BY <1>1, <1>5, <1>6 DEF Cpu!Exist
<1> QED
  BY <1>5, <1>6, <1>7 DEF MachFacts

LEMMA MachNext == (Inv => MachFacts)'
<1>1. Inv => MachFacts
  BY MachIs
<1> QED
  BY <1>1, PTL

\* A step of the task that runs is a step of its machine, or none.
LEMMA OwnMach ==
  ASSUME Inv, cur' = cur, NEW n, Own(n)
  PROVE  Mach' = [Mach EXCEPT ![cur] = n]
<1>1. /\ Inv' /\ live' = live /\ ViewNow(cur)' = n
      /\ \A t \in live \ {cur} : ViewNow(t)' = ViewNow(t)
  BY DEF Own
<1>2. MachFacts /\ MachFacts' /\ cur \in live
  BY <1>1, MachIs, MachNext DEF Inv, Typed
<1>3. ASSUME NEW t \in Tasks PROVE Mach'[t] = IF t = cur THEN n ELSE Mach[t]
  BY <1>1, <1>2 DEF MachFacts
<1> QED
  BY <1>3, Zenon DEF Mach

LEMMA OneStep ==
  ASSUME Inv, cur' = cur, NEW n \in Cpu!Instructions(cur, ViewNow(cur)), Own(n)
  PROVE  Cpu!MachineNext
<1>1. Mach' = [Mach EXCEPT ![cur] = n]
  BY OwnMach
<1>2. cur \in live /\ Mach[cur] = ViewNow(cur) /\ cur \in Cpu!Exist(Mach)
  BY MachIs DEF MachFacts, Inv, Typed
<1>3. Mach' \in Cpu!Steps(Mach)
  <2>1. n \in Cpu!Instructions(cur, Mach[cur])
    BY <1>2
  <2> DEFINE S(t) == {[Mach EXCEPT ![t] = k] : k \in Cpu!Instructions(t, Mach[t])}
  <2>2. Mach' \in S(cur)
    BY <1>1, <2>1, Zenon
  <2>3. Cpu!Steps(Mach) = UNION {S(t) : t \in Cpu!Exist(Mach)}
    BY DEF Cpu!Steps
  <2> HIDE DEF S
  <2> QED
    BY <1>2, <2>2, <2>3
<1> QED
  BY <1>3 DEF Cpu!MachineNext, Mach

LEMMA NoStep ==
  ASSUME Inv, cur' = cur, Own(ViewNow(cur))
  PROVE  Mach' = Mach
<1>1. Mach' = [Mach EXCEPT ![cur] = ViewNow(cur)]
  BY OwnMach
<1>2. cur \in Tasks /\ Mach[cur] = ViewNow(cur)
  BY MachIs DEF MachFacts, Inv, Typed
<1> QED
  BY <1>1, <1>2, Zenon DEF Mach

LEMMA SwitchMach ==
  ASSUME Inv, Kept
  PROVE  Mach' = Mach
<1>1. MachFacts /\ MachFacts' /\ live' = live /\ \A t \in live : ViewNow(t)' = ViewNow(t)
  BY MachIs, MachNext DEF Kept
<1>2. ASSUME NEW t \in Tasks PROVE Mach'[t] = Mach[t]
  BY <1>1 DEF MachFacts
<1> QED
  BY <1>2 DEF Mach

LEMMA ForkMach ==
  ASSUME Inv, cur' = cur, NEW u \in Tasks, Forked(u)
  PROVE  Cpu!MachineNext
<1>1. /\ MachFacts /\ MachFacts' /\ live' = live \cup {u} /\ u \notin live
      /\ \A t \in live \ {cur} : ViewNow(t)' = ViewNow(t)
      /\ ViewNow(cur)' = Cpu!Result(ViewNow(cur), u)
      /\ ViewNow(u)' = Cpu!Result(ViewNow(cur), 0)
  BY MachIs, MachNext DEF Forked
<1>2. cur \in live /\ cur \in Tasks /\ u # cur /\ Mach[cur] = ViewNow(cur)
  BY <1>1 DEF MachFacts, Inv, Typed
<1> DEFINE f == Cpu!Result(Mach[cur], u)
           g == Cpu!Result(Mach[cur], 0)
           p == <<cur, u>>
<1>3. ASSUME NEW t \in Tasks
      PROVE  Mach'[t] = IF t = u THEN g ELSE IF t = cur THEN f ELSE Mach[t]
  BY <1>1, <1>2 DEF MachFacts
<1> HIDE DEF f, g
<1>4. Mach' = [Mach EXCEPT ![cur] = f, ![u] = g]
  BY <1>2, <1>3, Zenon DEF Mach
<1>5. p \in Cpu!Exist(Mach) \X (Tasks \ Cpu!Exist(Mach)) /\ p[1] = cur /\ p[2] = u
  BY <1>1, <1>2 DEF MachFacts
<1> HIDE DEF p
<1>6. Mach' = [Mach EXCEPT ![p[1]] = Cpu!Result(Mach[p[1]], p[2]),
                           ![p[2]] = Cpu!Result(Mach[p[1]], 0)]
  BY <1>4, <1>5 DEF f, g
<1>7. Mach' \in Cpu!Forks(Mach)
  BY <1>5, <1>6, Zenon DEF Cpu!Forks
<1> QED
  BY <1>7 DEF Cpu!MachineNext, Mach

-----------------------------------------------------------------------------
(* The theorems *)

LEMMA InitInv ==
  ASSUME ContextInit
  PROVE  Inv /\ Cpu!MachineInit
<1> DEFINE r == [sp |-> Top(1) - 2, s0 |-> Top(1), data |-> Zeros]
<1>1. /\ 1 \in Tasks /\ Top(1) \in Int /\ Base(1) \in Int /\ Top(1) = Base(1) + D /\ D \in Int
      /\ D = 2 * CALLS + 6 /\ CALLS \in Nat /\ CALLS >= 1 /\ Base(1) > 0 /\ Stack(1) \subseteq AllWords
  <2>1. 1 \in Tasks
    BY ContextAssumption DEF Tasks
  <2> QED
    BY <2>1, StackIs, DIs, ContextAssumption
<1>2. Zeros \in RegFile
  BY DEF Zeros, RegFile
<1>3. r \in Regs /\ r.sp = Top(1) - 2 /\ r.s0 = Top(1) /\ r.data = Zeros
  BY <1>1, <1>2 DEF Regs
<1> HIDE DEF r
<1>4. cur = 1 /\ MODE = 0 /\ live = {1} /\ pc = 1 /\ reg = r /\ sscratch = 1
  BY DEF ContextInit, r
<1>5. /\ context \in [Tasks -> Contexts]
      /\ \A t \in Tasks : context[t].sp \in Base(t) .. Top(t)
  <2>1. ASSUME NEW t \in Tasks
        PROVE  /\ [epc |-> 0, sp |-> Top(t), s0 |-> 0, data |-> Zeros, temp |-> 0] \in Contexts
               /\ Top(t) \in Base(t) .. Top(t)
    BY <1>2, StackIs, DIs DEF Contexts
  <2> QED
    BY <2>1 DEF ContextInit
<1>6. /\ Words(mem) /\ mem[Top(1) - 1] = Addr(0) /\ mem[Top(1) - 2] = Local(0)
  <2>1. Top(1) - 1 \in AllWords /\ Top(1) - 2 \in AllWords /\ Top(1) - 2 # Top(1) - 1
    BY <1>1 DEF Stack
  <2>2. mem = [a \in AllWords |-> IF a = Top(1) - 1 THEN Addr(0) ELSE Local(0)]
    BY DEF ContextInit, AllWords
  <2> QED
    BY <2>1, <2>2 DEF Words
<1>7. UserAt(mem, 1, Top(1), 0)
  <2>1. 0 \in 0 .. CALLS /\ Top(1) = Top(1) - 2 * 0 /\ Fp(1, 0) = 0 /\ 1 .. 0 = {}
    BY <1>1 DEF Fp
  <2> QED
    BY <2>1 DEF UserAt, Frames
<1>8. Top(1) > Top(1) - 2 * CALLS
  BY <1>1
<1>9. UserAt(mem, 1, Top(1) - 2, Top(1))
  BY <1>1, <1>6, <1>7, <1>8, UserCall
<1>10. Inv
  <2>1. Typed
    BY <1>1, <1>3, <1>4, <1>5, <1>6 DEF Typed
  <2> QED
    BY <1>3, <1>4, <1>9, <2>1 DEF Inv
<1>11. ViewNow(1) = Cpu!Call(Cpu!Start)
  <2>1. ViewNow(1) = ViewOf(1, 1, Top(1) - 2, Top(1), Zeros, mem)
    <3>1. ViewAt(1, 0, 1, r, context, mem, 1) = ViewOf(1, 1, r.sp, r.s0, r.data, mem)
      BY <1>1, <1>3, <1>9, ViewUser
    <3> QED
      BY <1>3, <1>4, <3>1 DEF ViewNow
  <2>2. Cpu!Call(ViewOf(1, 0, Top(1), 0, Zeros, mem)) = ViewOf(1, 0 + 1, Top(1) - 2, Top(1), Zeros, mem)
    BY <1>1, <1>6, <1>7, <1>8, ViewCall
  <2>3. ViewOf(1, 0, Top(1), 0, Zeros, mem) = Cpu!Start
    BY <1>1, ViewStart
  <2> QED
    BY <2>1, <2>2, <2>3
<1>12. MachFacts
  BY <1>10, MachIs
<1>13. ASSUME NEW t \in Tasks
       PROVE  Mach[t] = IF t = 1 THEN Cpu!Call(Cpu!Start) ELSE Cpu!NoMachine
  BY <1>4, <1>11, <1>12 DEF MachFacts
<1>14. Mach = [u \in Tasks |-> IF u = 1 THEN Cpu!Call(Cpu!Start) ELSE Cpu!NoMachine]
  BY <1>13 DEF Mach
<1>15. Cpu!MachineInit
  BY <1>1, <1>14 DEF Cpu!MachineInit, Mach
<1> QED
  BY <1>10, <1>15

\* What the machine of the task that runs may do.
LEMMA InstructionsAre ==
  ASSUME Inv
  PROVE  LET m == ViewNow(cur)
         IN  /\ \A v \in Vals : /\ Cpu!Fill(cur, m, v) \in Cpu!Instructions(cur, m)
                                /\ Cpu!Result(m, v) \in Cpu!Instructions(cur, m)
             /\ Cpu!Call(m) \in Cpu!Instructions(cur, m)
             /\ Cpu!Start \in Cpu!Instructions(cur, m)
             /\ MODE = 0 /\ reg.sp < Top(cur) - 2 => Cpu!Leave(m) \in Cpu!Instructions(cur, m)
             /\ MODE = 0 /\ reg.s0 # 0
                  => \A v \in Vals : Cpu!Store(m, v) \in Cpu!Instructions(cur, m)
<1> DEFINE m == ViewNow(cur)
<1>1. MODE = 0 => m = ViewOf(cur, pc, reg.sp, reg.s0, reg.data, mem) /\ UserAt(mem, cur, reg.sp, reg.s0)
  BY Facts, ViewUser DEF Inv, ViewNow
<1> HIDE DEF m
<1>2. MODE = 0 => m.sp = Rel(cur, reg.sp) /\ m.s0 = Rel(cur, reg.s0)
  <2> SUFFICES ASSUME MODE = 0 PROVE m.sp = Rel(cur, reg.sp) /\ m.s0 = Rel(cur, reg.s0)
    OBVIOUS
  <2>1. m = ViewOf(cur, pc, reg.sp, reg.s0, reg.data, mem)
    BY <1>1
  <2>2. m = RecordOf(pc, Rel(cur, reg.sp), Rel(cur, reg.s0), reg.data, StackOf(cur, reg.sp, mem))
    BY <2>1, Zenon DEF ViewOf
  <2> QED
    BY <2>2 DEF RecordOf
<1>3. /\ cur \in Tasks /\ Base(cur) \in Int /\ Top(cur) = Base(cur) + D /\ D \in Int /\ reg.sp \in Int
  BY Facts
<1>4. MODE = 0 => /\ m.sp = reg.sp - Base(cur)
                  /\ reg.s0 # 0 => m.s0 = reg.sp - Base(cur) + 2 /\ reg.sp - Base(cur) >= 6
  BY <1>1, <1>2, <1>3, RelIs
<1>5. /\ MODE = 0 /\ reg.sp < Top(cur) - 2 => m.sp < D - 2
      /\ MODE = 0 /\ reg.s0 # 0 => m.s0 # 0
  BY <1>3, <1>4
<1>6. \A v \in Vals : /\ Cpu!Fill(cur, m, v) \in Cpu!Instructions(cur, m)
                      /\ Cpu!Result(m, v) \in Cpu!Instructions(cur, m)
  BY Zenon DEF Cpu!Instructions
<1>7. Cpu!Call(m) \in Cpu!Instructions(cur, m) /\ Cpu!Start \in Cpu!Instructions(cur, m)
  BY Zenon DEF Cpu!Instructions
<1>8. m.sp < D - 2 => Cpu!Leave(m) \in Cpu!Instructions(cur, m)
  BY Zenon DEF Cpu!Instructions
<1>9. m.s0 # 0 => \A v \in Vals : Cpu!Store(m, v) \in Cpu!Instructions(cur, m)
  BY Zenon DEF Cpu!Instructions
<1> QED
  BY <1>5, <1>6, <1>7, <1>8, <1>9 DEF m

\* Each step keeps the invariant and is a step of the machines, or none.
LEMMA NextStep ==
  ASSUME Inlined, Inv, [Next]_vars
  PROVE  Inv' /\ [Cpu!MachineNext]_Mach
<1>1. ASSUME NEW v \in Vals, Compute(v) PROVE Inv' /\ Cpu!MachineNext
  <2>1. cur' = cur /\ Own(Cpu!Fill(cur, ViewNow(cur), v))
    BY <1>1, ComputeStep DEF Compute
  <2> QED
    BY <2>1, InstructionsAre, OneStep DEF Own
<1>2. ASSUME NEW v \in Vals, Store(v) PROVE Inv' /\ Cpu!MachineNext
  <2>1. cur' = cur /\ MODE = 0 /\ reg.s0 # 0 /\ Own(Cpu!Store(ViewNow(cur), v))
    BY <1>2, StoreStep, Zenon DEF Store, InUser
  <2> QED
    BY <2>1, InstructionsAre, OneStep DEF Own
<1>3. ASSUME NEW v \in Vals, do_syscall(v) PROVE Inv' /\ Cpu!MachineNext
  <2>1. cur' = cur /\ Own(Cpu!Result(ViewNow(cur), v))
    BY <1>3, ResultStep, Zenon DEF do_syscall
  <2> QED
    BY <2>1, InstructionsAre, OneStep DEF Own
<1>4. ASSUME Call PROVE Inv' /\ Cpu!MachineNext
  <2>1. cur' = cur /\ Own(Cpu!Call(ViewNow(cur)))
    BY <1>4, CallStep DEF Call
  <2> QED
    BY <2>1, InstructionsAre, OneStep DEF Own
<1>5. ASSUME Leave PROVE Inv' /\ Cpu!MachineNext
  <2>1. cur' = cur /\ MODE = 0 /\ reg.sp < Top(cur) - 2 /\ Own(Cpu!Leave(ViewNow(cur)))
    BY <1>5, LeaveStep DEF Leave, InUser
  <2> QED
    BY <2>1, InstructionsAre, OneStep DEF Own
<1>6. ASSUME Interrupt \/ Ecall PROVE Inv' /\ Mach' = Mach
  <2>1. PICK cause \in {"interrupt", "ecall"} : Trap(cause)
    BY <1>6 DEF Interrupt, Ecall
  <2>2. cur' = cur /\ Own(ViewNow(cur))
    BY <2>1, TrapStep, Zenon DEF Trap
  <2> QED
    BY <2>2, NoStep DEF Own
<1>7. ASSUME Return PROVE Inv' /\ Mach' = Mach
  <2>1. cur' = cur /\ Own(ViewNow(cur))
    BY <1>7, ReturnStep DEF Return
  <2> QED
    BY <2>1, NoStep DEF Own
<1>8. ASSUME execve PROVE Inv' /\ Cpu!MachineNext
  <2>1. cur' = cur /\ Own(Cpu!Start)
    BY <1>8, execveStep DEF execve
  <2> QED
    BY <2>1, InstructionsAre, OneStep DEF Own
<1>9. ASSUME NEW n \in Tasks, switch_to(n) PROVE Inv' /\ Mach' = Mach
  BY <1>9, SwitchStep, SwitchMach DEF Kept
<1>10. ASSUME NEW u \in Tasks, copy_process(u) PROVE Inv' /\ Cpu!MachineNext
  <2>1. cur' = cur /\ Forked(u)
    BY <1>10, ForkStep, Zenon DEF copy_process
  <2> QED
    BY <2>1, ForkMach DEF Forked
<1>11. ASSUME UNCHANGED vars PROVE Inv' /\ Mach' = Mach
  <2>1. Inv'
    BY <1>11 DEF vars, Inv, Typed, Parked, InKernel, Slept, Trapped
  <2>2. Mach' = Mach
    <3>1. live' = live /\ \A t : ViewNow(t)' = ViewNow(t)
      BY <1>11, Zenon DEF vars, ViewNow, ViewAt
    <3> QED
      BY <2>1, <3>1, SwitchMach DEF Kept
  <2> QED
    BY <2>1, <2>2
<1> QED
  BY <1>1, <1>2, <1>3, <1>4, <1>5, <1>6, <1>7, <1>8, <1>9, <1>10, <1>11 DEF Next

LEMMA Always ==
  ASSUME Inlined
  PROVE  Spec => []Inv
<1>1. ContextInit => Inv
  BY InitInv
<1>2. Inv /\ [Next]_vars => Inv'
  BY NextStep
<1> QED
  BY <1>1, <1>2, PTL DEF Spec

\* Kernel code that slept in schedule() goes on with its own registers and on
\* its own frame, whatever the other tasks did in the meantime.
THEOREM KernelCodeKept ==
  ASSUME Inlined
  PROVE  Spec => []KernelKept
<1>1. ASSUME Inv PROVE KernelKept
  <2>1. TypeOK
    <3>1. cur \in live /\ live \subseteq Tasks /\ MODE \in {0, 1} /\ sscratch = cur /\ pc \in Nat
          /\ \A t \in live : context[t].sp \in Base(t) .. Top(t)
      BY <1>1 DEF Inv, Typed
    <3>2. reg.sp \in Base(cur) .. Top(cur)
      <4>1. CASE MODE = 0
        <5>1. UserAt(mem, cur, reg.sp, reg.s0) /\ cur \in Tasks
          BY <1>1, <3>1, <4>1 DEF Inv
        <5>2. reg.sp \in Int /\ Base(cur) + 6 <= reg.sp /\ reg.sp <= Top(cur)
          BY <5>1, UserIs, Zenon
        <5>3. Base(cur) \in Int /\ Top(cur) \in Int
          BY <5>1, StackIs, Zenon
        <5> QED
          BY <5>2, <5>3
      <4>2. CASE MODE = 1
        <5> DEFINE a == context[cur].sp
        <5>1. reg.sp = a - 1 /\ a \in Int /\ Base(cur) + 6 <= a /\ a \in Base(cur) .. Top(cur)
          BY <1>1, <4>2, KernelFacts
        <5>2. Base(cur) \in Int /\ Top(cur) \in Int
          BY <1>1, Facts
        <5> HIDE DEF a
        <5> QED
          BY <5>1, <5>2
      <4> QED
        BY <3>1, <4>1, <4>2
    <3> QED
      BY <3>1, <3>2 DEF TypeOK
  <2>2. ASSUME MODE = 1
        PROVE  /\ reg.data["s11"] = Clobbered(cur)["s11"] /\ reg.data["ra"] = Clobbered(cur)["ra"]
               /\ reg.s0 = context[cur].sp /\ reg.sp = reg.s0 - 1
               /\ mem[reg.s0 - 1][1] = "frame"
    BY <1>1, <2>2 DEF Inv, InKernel, Trapped
  <2> QED
    BY <2>1, <2>2 DEF KernelKept
<1> QED
  BY <1>1, Always, PTL

\* fork.c:78, as long as the fork wrapper has no frame of its own: a function
\* running in user mode reaches its local in the stack of its own task.
THEOREM LocalsInOwnStack ==
  ASSUME Inlined
  PROVE  Spec => []LocalsOwned
<1>1. ASSUME Inv PROVE LocalsOwned
  <2> SUFFICES ASSUME MODE = 0, reg.s0 # 0 PROVE reg.s0 \in (Base(cur) + 2) .. Top(cur)
    BY DEF LocalsOwned
  <2>1. cur \in Tasks /\ UserAt(mem, cur, reg.sp, reg.s0)
    BY <1>1 DEF Inv, Typed
  <2> QED
    BY <2>1, UserIs, StackIs
<1> QED
  BY <1>1, Always, PTL

\* Traps, interrupts and context switches are invisible to user code: every
\* task has the registers and the stack of a machine that only its own
\* instructions, system calls, fork and execve change.
THEOREM ImplementsMachine ==
  ASSUME Inlined
  PROVE  Spec => EachItsMachine
<1>1. ContextInit => Cpu!MachineInit
  BY InitInv
<1>2. Inv /\ [Next]_vars => [Cpu!MachineNext]_Mach
  BY NextStep
<1> QED
  BY <1>1, <1>2, Always, PTL DEF Spec, EachItsMachine, Cpu!MachineSpec, Mach
====
