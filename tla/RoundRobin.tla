----------------------------- MODULE RoundRobin -----------------------------
(***************************************************************************)
(* What the task layer of the kernel promises (spec.md 4.3): the live      *)
(* tasks form a round-robin ring in creation order; a new task joins at    *)
(* the tail; a timer tick hands the CPU to the successor of the current    *)
(* task, wrapping from the tail to the head; a terminated task leaves the  *)
(* ring and scheduling advances to a task still in it; terminating the     *)
(* last task halts the machine.  Each task has a program position that     *)
(* only moves while that task is the one running, so no preemption is      *)
(* visible to the task.                                                    *)
(***************************************************************************)
EXTENDS Naturals, Sequences, SequencesExt

CONSTANTS
  Tasks,   \* identities of tasks
  NULL,    \* "no task"
  MaxPc    \* bound on a task's program position

VARIABLES
  ring,     \* the live tasks in round-robin order
  cur,      \* the current task
  pcs,      \* pcs[t]: how far task t has run
  running   \* TRUE once user code runs, FALSE before the first task and after a halt

vars == <<ring, cur, pcs, running>>

\* The task that follows t in the ring, the head following the tail.
Successor(t) ==
  LET i == CHOOSE k \in 1..Len(ring) : ring[k] = t
  IN  IF i = Len(ring) THEN ring[1] ELSE ring[i + 1]

Init ==
  /\ ring = <<>>
  /\ cur = NULL
  /\ pcs = [t \in Tasks |-> 0]
  /\ running = FALSE

\* A process is loaded: its task joins at the tail, and becomes current if
\* it is the only one.
Spawn(t) ==
  /\ t \notin ToSet(ring)
  /\ ring' = Append(ring, t)
  /\ cur' = IF ring = <<>> THEN t ELSE cur
  /\ pcs' = [pcs EXCEPT ![t] = 0]
  /\ UNCHANGED running

\* The first task is started at the head of the ring.
Start ==
  /\ ~running
  /\ ring # <<>>
  /\ cur' = Head(ring)
  /\ running' = TRUE
  /\ UNCHANGED <<ring, pcs>>

\* The current task executes one more instruction.
Step ==
  /\ running
  /\ pcs[cur] < MaxPc
  /\ pcs' = [pcs EXCEPT ![cur] = @ + 1]
  /\ UNCHANGED <<ring, cur, running>>

\* A timer tick: the successor of the current task runs next.
Tick ==
  /\ running
  /\ cur' = Successor(cur)
  /\ UNCHANGED <<ring, pcs, running>>

\* The current task is terminated; some remaining task runs next.
Exit ==
  /\ running
  /\ Len(ring) > 1
  /\ ring' = Remove(ring, cur)
  /\ cur' \in ToSet(ring')
  /\ UNCHANGED <<pcs, running>>

\* The last task is terminated: nothing is left to run and the machine halts.
ExitLast ==
  /\ running
  /\ ring = <<cur>>
  /\ ring' = <<>>
  /\ cur' = NULL
  /\ running' = FALSE
  /\ UNCHANGED pcs

Next ==
  \/ \E t \in Tasks : Spawn(t)
  \/ Start
  \/ Step
  \/ Tick
  \/ Exit
  \/ ExitLast

Spec == Init /\ [][Next]_vars
=============================================================================
