------------------------------ MODULE ProcLife ------------------------------
(***************************************************************************)
(* What fork, exit and waitpid promise about processes, without slots,     *)
(* queues or signals: pids are born in order, each process exits at most   *)
(* once, an orphan is handed to process 1, and a zombie is reaped once, by *)
(* its father, while that father is alive.                                 *)
(***************************************************************************)
EXTENDS Integers

CONSTANT MAX_PID

Procs == 1 .. MAX_PID

VARIABLES
  life,     \* pid -> "unborn", "alive", "zombie" or "reaped"
  father,   \* pid -> pid of the process that may reap it
  self      \* the process that runs

pvars == <<life, father, self>>

LifeInit ==
  /\ life = [p \in Procs |-> "unborn"]
  /\ father = [p \in Procs |-> 0]
  /\ self = 0

\* Process 1 is made by the boot task 0, every other one by a live process.
Beget(c) ==
  /\ life[c] = "unborn"
  /\ \A q \in Procs : q < c => life[q] # "unborn"
  /\ IF c = 1 THEN self = 0 ELSE self \in Procs /\ life[self] = "alive"
  /\ life' = [life EXCEPT ![c] = "alive"]
  /\ father' = [father EXCEPT ![c] = self]

Die ==
  /\ self \in Procs \ {1}
  /\ life[self] = "alive"
  /\ life' = [life EXCEPT ![self] = "zombie"]
  /\ father' = [c \in Procs |-> IF father[c] = self THEN 1 ELSE father[c]]

Reap(c) ==
  /\ self \in Procs
  /\ life[self] = "alive"
  /\ life[c] = "zombie"
  /\ father[c] = self
  /\ life' = [life EXCEPT ![c] = "reaped"]
  /\ father' = [father EXCEPT ![c] = 0]

\* Another process runs.
Switch == UNCHANGED <<life, father>>

LifeNext ==
  /\ (\E c \in Procs : Beget(c) \/ Reap(c)) \/ Die \/ Switch
  /\ self' \in 0 .. MAX_PID

LifeSpec == LifeInit /\ [][LifeNext]_pvars
=============================================================================
