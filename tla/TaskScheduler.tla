---------------------------- MODULE TaskScheduler ----------------------------
(***************************************************************************)
(* The task list and scheduler of src/task/task.c, driven by the interrupt *)
(* and syscall dispatch of src/idt/idt.c and by process loading.           *)
(*                                                                         *)
(* A Task record lives in a block of kernel heap memory; Slots are the     *)
(* addresses such a record can have.  kfree does not clear a block, so the *)
(* next/prev fields of a freed slot keep their last values, and a later    *)
(* kzalloc may hand the same slot to a new task.  Every handler runs with  *)
(* interrupts off (interrupt gates), so each handler is one atomic step.   *)
(* A task's user code is abstracted to a program position: cpu while the   *)
(* task runs, regs[t] once saved by task_save_state.                       *)
(***************************************************************************)
EXTENDS Naturals, Sequences, FiniteSets

CONSTANTS
  Slots,          \* heap addresses a struct Task can be allocated at
  NULL,           \* the null pointer
  KernelDir,      \* kernelPageDirectory (kernel.c:23)
  BootProcesses,  \* processes kernel_main loads before the first task runs
  MaxProcesses,   \* BIMBLEOS_MAX_PROCESSES: size of the process table
  MaxSpawns,      \* bound on processes loaded by syscalls
  MaxFaults,      \* bound on faults that terminate a process
  MaxPc,          \* bound on a task's program position
  Vectors,        \* interrupt numbers of the traps user code meets, besides 0x80
  TssBase, GdtInputs, Panic   \* the GDT kernel_main loads (module Gdt)

ASSUME BootProcesses \in 1..MaxProcesses
ASSUME MaxProcesses <= Cardinality(Slots)

VARIABLES
  allocated,  \* slots holding a live struct Task (kzalloc'd, not kfree'd)
  next,       \* next[s]: Task.next stored at slot s (kept after kfree)
  prev,       \* prev[s]: Task.prev stored at slot s (kept after kfree)
  head,       \* task_head
  tail,       \* task_tail
  current,    \* current_task
  active,     \* the page directory loaded in CR3 (a task's slot or KernelDir)
  running,    \* the task whose saved registers the CPU last returned to
  regs,       \* regs[s]: the saved Registers of the task at slot s
  cpu,        \* program position of the code the CPU is executing
  mode,       \* "boot" in kernel_main, "user" after task_return, "halted"
  loads,      \* processes loaded so far by kernel_main
  spawns,     \* processes loaded so far by syscalls
  faults      \* processes terminated so far by a fault

vars == <<allocated, next, prev, head, tail, current, active, running,
          regs, cpu, mode, loads, spawns, faults>>

Ptr == Slots \cup {NULL}

\* The globals of task.c and the links of every slot, as one value, so that
\* a handler can apply several task.c functions one after another.
List == [next |-> next, prev |-> prev, head |-> head, tail |-> tail,
         current |-> current]

SetList(l) ==
  /\ next' = l.next
  /\ prev' = l.prev
  /\ head' = l.head
  /\ tail' = l.tail
  /\ current' = l.current

(***************************************************************************)
(* task.c                                                                  *)
(***************************************************************************)

\* Seeded fault: no wrap; the tail keeps the CPU.
TaskGetNextNoWrap(l) ==
  IF l.next[l.current] = NULL THEN l.current ELSE l.next[l.current]

\* task_get_next: the successor of the current task, the head after the tail.
TaskGetNext(l) ==
  IF l.next[l.current] = NULL THEN l.head ELSE l.next[l.current]

\* task_list_remove: unlink t.  Only the predecessor's next pointer is
\* fixed; the successor's prev pointer is left as it was.  If t is current,
\* current moves to t's successor (t's own next is still readable).
TaskListRemove(l, t) ==
  LET nx  == IF l.prev[t] # NULL THEN [l.next EXCEPT ![l.prev[t]] = l.next[t]]
                                 ELSE l.next
      hd  == IF t = l.head THEN l.next[t] ELSE l.head
      tl  == IF t = l.tail THEN l.prev[t] ELSE l.tail
      mid == [l EXCEPT !.next = nx, !.head = hd, !.tail = tl]
  IN  IF t = l.current THEN [mid EXCEPT !.current = TaskGetNext(mid)] ELSE mid

\* Seeded fault: task_new appends without moving task_tail.
TaskNewKeepsTail(l, t) ==
  LET z == [l EXCEPT !.next[t] = NULL, !.prev[t] = NULL]
  IN  IF l.head = NULL
        THEN [z EXCEPT !.head = t, !.tail = t, !.current = t]
        ELSE [z EXCEPT !.next[l.tail] = t, !.prev[t] = l.tail]

\* task_new, after kzalloc returned slot t (zeroed, so t's links are NULL):
\* the first task becomes head, tail and current; later ones are appended
\* after task_tail.
TaskNew(l, t) ==
  LET z == [l EXCEPT !.next[t] = NULL, !.prev[t] = NULL]
  IN  IF l.head = NULL
        THEN [z EXCEPT !.head = t, !.tail = t, !.current = t]
        ELSE [z EXCEPT !.next[l.tail] = t, !.prev[t] = l.tail, !.tail = t]

\* task_init: registers zeroed, ip set to the program entry.  The program
\* position of a fresh task is 0.
TaskInit(t) == [regs EXCEPT ![t] = 0]

\* Seeded fault: the handler does not save the trap frame.
SaveCurrentStateMissing == regs

\* task_current_save_state / task_save_state: the trap frame is copied into
\* the current task's saved registers.
SaveCurrentState == [regs EXCEPT ![current] = cpu]

\* Seeded fault: task_switch without paging_switch.
TaskSwitchAndReturnNoPaging(t, savedRegs) ==
  /\ UNCHANGED active
  /\ running' = t
  /\ cpu' = savedRegs[t]
  /\ mode' = "user"

\* task_switch followed by task_return: t becomes current, its page
\* directory is loaded, and the CPU resumes at t's saved registers.
TaskSwitchAndReturn(t, savedRegs) ==
  /\ active' = t
  /\ running' = t
  /\ cpu' = savedRegs[t]
  /\ mode' = "user"

\* task_next: switch to task_get_next(); a NULL successor is a panic.
\* With current_task = NULL, task_get_next dereferences NULL: the build reads
\* a garbage pointer at address 0x38 and the machine faults; both outcomes
\* stop the machine.
TaskNext(l, savedRegs) ==
  IF l.current = NULL \/ TaskGetNext(l) = NULL
    THEN /\ mode' = "halted"
         /\ current' = l.current
         /\ UNCHANGED <<active, running, cpu>>
    ELSE /\ current' = TaskGetNext(l)
         /\ TaskSwitchAndReturn(TaskGetNext(l), savedRegs)

(***************************************************************************)
(* Boot: kernel_main loads the boot processes, then runs the first task.   *)
(***************************************************************************)

\* Seeded fault: kernel_main loads one process more than it runs with.
KernelLoadProcessExtra(t) ==
  /\ mode = "boot"
  /\ t \in Slots \ allocated
  /\ allocated' = allocated \cup {t}
  /\ SetList(TaskNew(List, t))
  /\ regs' = TaskInit(t)
  /\ loads' = loads + 1
  /\ UNCHANGED <<active, running, cpu, mode, spawns, faults>>

\* process_load_switch from kernel_main: a process and its task are created.
KernelLoadProcess(t) ==
  /\ mode = "boot"
  /\ loads < BootProcesses
  /\ t \in Slots \ allocated
  /\ allocated' = allocated \cup {t}
  /\ SetList(TaskNew(List, t))
  /\ regs' = TaskInit(t)
  /\ loads' = loads + 1
  /\ UNCHANGED <<active, running, cpu, mode, spawns, faults>>

\* task_run_first_ever_task: switch to task_head and drop to user mode.
TaskRunFirstEverTask ==
  /\ mode = "boot"
  /\ loads = BootProcesses
  /\ current # NULL
  /\ current' = head
  /\ TaskSwitchAndReturn(head, regs)
  /\ UNCHANGED <<allocated, next, prev, head, tail, regs, loads, spawns,
                 faults>>

(***************************************************************************)
(* User code and the traps that interrupt it.                              *)
(***************************************************************************)

\* The running task executes an instruction.
UserStep ==
  /\ mode = "user"
  /\ cpu < MaxPc
  /\ cpu' = cpu + 1
  /\ UNCHANGED <<allocated, next, prev, head, tail, current, active, running,
                 regs, mode, loads, spawns, faults>>

(***************************************************************************)
(* idt_init: the gate of every vector and interrupt_callbacks.  Every gate  *)
(* enters its interrupt_pointer_table wrapper, which calls                 *)
(* interrupt_handler, except vector 0 (divide_by_zero, a plain C function)  *)
(* and 0x80 (isr80h_wrapper).  Vectors 0 .. 0x1F get idt_handle_exception  *)
(* and 0x20 idt_clock; idt_register_interrupt_callback refuses numbers out  *)
(* of range and overwrites what a vector held.                             *)
(***************************************************************************)
Interrupts == 0 .. 255

\* idt_set for every vector, then for 0x0 and 0x80.
IdtGates ==
  [i \in Interrupts |-> CASE i = 0   -> "divide_by_zero"
                          [] i = 128 -> "isr80h_wrapper"
                          [] OTHER   -> "interrupt_pointer_table"]

\* idt_register_interrupt_callback
IdtRegisterInterruptCallback(cbs, i, cb) ==
  IF i < 0 \/ i >= 256 THEN cbs ELSE [cbs EXCEPT ![i] = cb]

\* The callbacks idt_init registers on the zeroed static table.
IdtCallbacks ==
  IdtRegisterInterruptCallback(
    [i \in Interrupts |-> IF i < 32 THEN "idt_handle_exception" ELSE NULL],
    32, "idt_clock")

\* interrupt_handler(0x20): kernel_page, save the current task, idt_clock
\* (acknowledge, task_next).  task_next never returns to the handler.
InterruptClock ==
  /\ mode = "user"
  /\ regs' = SaveCurrentState
  /\ TaskNext(List, regs')
  /\ UNCHANGED <<allocated, next, prev, head, tail, loads, spawns, faults>>

\* interrupt_handler(v < 0x20): kernel_page, save the current task, then
\* idt_handle_exception: process_terminate(current process), which frees the
\* task (task_free: paging_free, task_list_remove, kfree), then task_next.
InterruptException ==
  /\ mode = "user"
  /\ faults < MaxFaults
  /\ faults' = faults + 1
  /\ LET t  == current
         l1 == TaskListRemove(List, t)
     IN  /\ allocated' = allocated \ {t}
         /\ regs' = SaveCurrentState
         /\ next' = l1.next
         /\ prev' = l1.prev
         /\ head' = l1.head
         /\ tail' = l1.tail
         /\ TaskNext(l1, regs')
  /\ UNCHANGED <<loads, spawns>>

\* interrupt_handler(v) for a vector without a callback: kernel_page, then
\* task_page, and the interrupted task resumes untouched.
InterruptNoCallback ==
  /\ mode = "user"
  /\ active' = current
  /\ UNCHANGED <<allocated, next, prev, head, tail, current, running, regs,
                 cpu, mode, loads, spawns, faults>>

\* A trap on vector v whose gate enters interrupt_handler, which runs the
\* callback idt_init registered for v.
InterruptHandler(v) ==
  /\ IdtGates[v] = "interrupt_pointer_table"
  /\ CASE IdtCallbacks[v] = "idt_clock"            -> InterruptClock
       [] IdtCallbacks[v] = "idt_handle_exception" -> InterruptException
       [] OTHER                                    -> InterruptNoCallback

\* isr80h_handler for a command that loads a new process
\* (process_load_switch -> task_new into a free slot t), then task_page:
\* switch back to current_task's directory and iret to the caller's frame.
Isr80hProcessLoad(t) ==
  /\ mode = "user"
  /\ spawns < MaxSpawns
  /\ Cardinality(allocated) < MaxProcesses
  /\ t \in Slots \ allocated
  /\ LET l1 == TaskNew(List, t)
     IN  /\ SetList(l1)
         /\ active' = l1.current
  /\ allocated' = allocated \cup {t}
  /\ regs' = [SaveCurrentState EXCEPT ![t] = 0]
  /\ spawns' = spawns + 1
  /\ UNCHANGED <<running, cpu, mode, loads, faults>>

\* isr80h_handler for any other command (command 0, sum, or an unregistered
\* number): the caller's state is saved and it resumes where it trapped.
Isr80hCommand ==
  /\ mode = "user"
  /\ regs' = SaveCurrentState
  /\ active' = current
  /\ UNCHANGED <<allocated, next, prev, head, tail, current, running, cpu,
                 mode, loads, spawns, faults>>

Init ==
  /\ allocated = {}
  /\ next = [s \in Slots |-> NULL]
  /\ prev = [s \in Slots |-> NULL]
  /\ head = NULL
  /\ tail = NULL
  /\ current = NULL
  /\ active = KernelDir
  /\ running = NULL
  /\ regs = [s \in Slots |-> 0]
  /\ cpu = 0
  /\ mode = "boot"
  /\ loads = 0
  /\ spawns = 0
  /\ faults = 0

Next ==
  \/ \E t \in Slots : KernelLoadProcess(t)
  \/ TaskRunFirstEverTask
  \/ UserStep
  \/ \E v \in Vectors : InterruptHandler(v)
  \/ \E t \in Slots : Isr80hProcessLoad(t)
  \/ Isr80hCommand

\* The timer fires periodically whenever user code runs (the PIT is never
\* masked in user mode); nothing else is guaranteed to happen.
Spec == Init /\ [][Next]_vars /\ WF_vars(InterruptHandler(32))

(***************************************************************************)
(* Properties                                                              *)
(***************************************************************************)

TypeOK ==
  /\ allocated \subseteq Slots
  /\ next \in [Slots -> Ptr]
  /\ prev \in [Slots -> Ptr]
  /\ {head, tail, current, running} \subseteq Ptr
  /\ active \in Slots \cup {KernelDir}
  /\ regs \in [Slots -> 0..MaxPc]
  /\ cpu \in 0..MaxPc
  /\ mode \in {"boot", "user", "halted"}
  /\ loads \in 0..BootProcesses
  /\ spawns \in 0..MaxSpawns
  /\ faults \in 0..MaxFaults

\* The tasks reached from task_head by following next, at most one visit
\* per slot plus one (so that a cycle shows as a repeated task).
RECURSIVE Chain(_, _)
Chain(s, fuel) ==
  IF s = NULL \/ fuel = 0 THEN <<>> ELSE <<s>> \o Chain(next[s], fuel - 1)

TaskChain == Chain(head, Cardinality(Slots) + 1)

\* Whenever user code runs, it is the code of current_task, in current_task's
\* own address space, and current_task is a live task (not a freed Task
\* record whose page directory has been released).  This is what every
\* handler's kernel_page/task_page bracketing and the list updates of
\* task_new/task_free must together preserve.
RunsLiveTask ==
  mode = "user" => /\ current \in allocated
                   /\ running = current
                   /\ active = current

\* task_head..task_tail, following next, is exactly the set of live tasks,
\* each once, so task_get_next can reach every live task and no freed one.
ListIsLiveTasks ==
  mode # "halted" =>
    /\ Len(TaskChain) = Cardinality(allocated)
    /\ {TaskChain[i] : i \in 1..Len(TaskChain)} = allocated
    /\ tail = IF TaskChain = <<>> THEN NULL ELSE TaskChain[Len(TaskChain)]

\* Round-robin fairness of task_next: a live task is eventually resumed
\* unless it is terminated or the machine stops.
EveryTaskRuns ==
  \A t \in Slots :
    (mode = "user" /\ t \in allocated)
      ~> (mode = "user" /\ running = t) \/ t \notin allocated \/ mode = "halted"

\* The kernel implements the round-robin specification of spec.md 4.3 with
\* the ring read from the linked list and a task's program position read
\* from the CPU while it runs and from its saved registers otherwise.
\* kernel_main packs gdt_structured with gdt_structured_to_gdt before it
\* loads any process, and the table never changes after: every segment the
\* CPU reads from gdt_real is the one declared, and encodeGdtEntry encodes
\* every limit it accepts, on both sides of its 64 KiB granularity switch,
\* so that the CPU reads it back.
G == INSTANCE Gdt
GdtDescribesSegments == Init => G!EncodeAgrees

RR == INSTANCE RoundRobin WITH
        Tasks <- Slots,
        ring <- TaskChain,
        cur <- current,
        pcs <- [t \in Slots |-> IF mode = "user" /\ t = running THEN cpu
                                                               ELSE regs[t]],
        running <- mode = "user"

ImplementsRoundRobin == RR!Spec
=============================================================================
