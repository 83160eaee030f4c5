------------------------------- MODULE Paging -------------------------------
(***************************************************************************)
(* The two-level page tables of src/memory/paging/paging.c, driven by      *)
(* their callers in task.c and kernel.c.                                   *)
(*                                                                         *)
(* The address arithmetic is kept and the sizes are scaled down:           *)
(* Entries stands for PAGING_TOTAL_ENTRIES_PER_TABLE (1024), PageSize for  *)
(* PAGING_PAGE_SIZE (4096), and Space = Entries * Entries * PageSize for   *)
(* 2^32, the wrap of pointer arithmetic.  A table entry is the pair of its *)
(* frame address (entry & 0xfffff000) and its flag bits.  Each directory   *)
(* owns the Entries tables paging_new allocated for it; tables[d][i] is    *)
(* the table that directory[i] of d points to, so the pointer itself is    *)
(* not modelled.                                                           *)
(***************************************************************************)
EXTENDS Naturals, Integers

CONSTANTS
  Dirs,        \* page directories: the kernel's and the tasks'
  KernelDir,   \* kernelPageDirectory
  Entries,     \* PAGING_TOTAL_ENTRIES_PER_TABLE
  PageSize,    \* PAGING_PAGE_SIZE
  VirtAddrs,   \* virtual addresses callers pass to paging_map_to
  PhysAddrs,   \* physical addresses (start and end) callers pass to it
  MapFlags,    \* flag sets callers pass to it
  ScratchAddrs,\* what kzalloc(max) returns in copy_string_from_task (0: NULL)
  MaxArgs      \* max arguments of copy_string_from_task

ASSUME KernelDir \in Dirs
ASSUME Entries \in Nat \ {0} /\ PageSize \in Nat \ {0}

Space  == Entries * Entries * PageSize
Addr   == 0 .. Space - 1
Index  == 0 .. Entries - 1

\* paging.h flag bits.
PRESENT        == "PRESENT"
WRITEABLE      == "WRITEABLE"
ACCESS_FROM_ALL == "ACCESS_FROM_ALL"
Flag == {PRESENT, WRITEABLE, ACCESS_FROM_ALL}

EINVARG == -2

VARIABLES
  tables,            \* tables[d][i][j]: entry j of table i of directory d
  allocated,         \* directories paging_new returned and paging_free has not freed
  current_directory, \* current_directory (the loaded CR3)
  mode               \* "kernel" between kernel_page and task_page, else "user"

vars == <<tables, allocated, current_directory, mode>>

TableEntry(f, fl) == [frame |-> f, flags |-> fl]

(***************************************************************************)
(* paging.c                                                                *)
(***************************************************************************)

\* Seeded fault: offset is advanced before the table is filled.
PagingNewOffsetFirst(fl) ==
  [i \in Index |-> [j \in Index |-> TableEntry((i + 1) * Entries * PageSize + j * PageSize, fl)]]

\* paging_new: table i, entry j maps the frame at i*Entries*PageSize +
\* j*PageSize with the caller's flags.
PagingNew(fl) ==
  [i \in Index |-> [j \in Index |-> TableEntry(i * Entries * PageSize + j * PageSize, fl)]]

\* paging_is_aligned
PagingIsAligned(a) == a % PageSize = 0

\* Seeded fault: the two out-parameters are written the wrong way round.
PagingGetIndexesSwapped(v) ==
  IF ~PagingIsAligned(v) THEN [res |-> EINVARG, dir |-> 0, tbl |-> 0]
  ELSE [res |-> 0, dir |-> (v % (Entries * PageSize)) \div PageSize,
        tbl |-> v \div (Entries * PageSize)]

\* paging_get_indexes: on a misaligned address the out-parameters keep
\* the 0 the callers initialised them to.
PagingGetIndexes(v) ==
  IF ~PagingIsAligned(v) THEN [res |-> EINVARG, dir |-> 0, tbl |-> 0]
  ELSE [res |-> 0, dir |-> v \div (Entries * PageSize),
        tbl |-> (v % (Entries * PageSize)) \div PageSize]

\* paging_set: write val into v's slot of d's tables.
PagingSet(t, d, v, val) ==
  LET ix == PagingGetIndexes(v)
  IN  IF ~PagingIsAligned(v) \/ ix.res < 0 THEN [res |-> EINVARG, t |-> t]
      ELSE [res |-> 0, t |-> [t EXCEPT ![d][ix.dir][ix.tbl] = val]]

\* paging_get: the result of paging_get_indexes is not checked.
PagingGet(t, d, v) ==
  LET ix == PagingGetIndexes(v) IN t[d][ix.dir][ix.tbl]

\* paging_map: both addresses must be page aligned; writes phys | flags.
PagingMap(t, d, v, p, fl) ==
  IF ~PagingIsAligned(v) \/ ~PagingIsAligned(p) THEN [res |-> EINVARG, t |-> t]
  ELSE PagingSet(t, d, v, TableEntry(p, fl))

\* paging_map_range: count pages, stopping at the first failure; virt and
\* phys advance by a page as 32-bit pointers.
RECURSIVE PagingMapRange(_, _, _, _, _, _)
PagingMapRange(t, d, v, p, count, fl) ==
  IF count <= 0 THEN [res |-> 0, t |-> t]
  ELSE LET r == PagingMap(t, d, v, p, fl)
       IN  IF r.res < 0 THEN r
           ELSE PagingMapRange(r.t, d, (v + PageSize) % Space,
                               (p + PageSize) % Space, count - 1, fl)

\* paging_map_to: all three addresses aligned and phys_end >= phys.
PagingMapTo(t, d, v, p, pe, fl) ==
  IF \/ ~PagingIsAligned(v) \/ ~PagingIsAligned(p) \/ ~PagingIsAligned(pe)
     \/ pe < p
    THEN [res |-> EINVARG, t |-> t]
    ELSE PagingMapRange(t, d, v, p, (pe - p) \div PageSize, fl)

\* Seeded fault: rounds up (paging_align_address) instead of down.
PagingAlignAddressUp(a) ==
  IF a % PageSize # 0 THEN (a + PageSize - (a % PageSize)) % Space ELSE a

\* paging_align_to_lower_page
PagingAlignToLowerPage(a) == a - (a % PageSize)

\* paging_get_physical_address: the frame of the page plus the offset.
PagingGetPhysicalAddress(t, d, v) ==
  LET base == PagingAlignToLowerPage(v)
  IN  PagingGet(t, d, base).frame + (v - base)

(***************************************************************************)
(* The callers: kernel_main, task_init, task_free, copy_string_from_task,  *)
(* and the directory switches on every kernel entry and exit.             *)
(***************************************************************************)

\* kernel_main: kernelPageDirectory = paging_new(WRITEABLE | PRESENT |
\* ACCESS_FROM_ALL), paging_switch to it.  Directories not yet allocated
\* are zeroed memory.
Init ==
  /\ tables = [d \in Dirs |->
                 IF d = KernelDir THEN PagingNew({WRITEABLE, PRESENT, ACCESS_FROM_ALL})
                 ELSE [i \in Index |-> [j \in Index |-> TableEntry(0, {})]]]
  /\ allocated = {KernelDir}
  /\ current_directory = KernelDir
  /\ mode = "kernel"

\* task_init: task->page_directory = paging_new(PRESENT | ACCESS_FROM_ALL).
TaskInit(d) ==
  /\ mode = "kernel"
  /\ d \notin allocated
  /\ tables' = [tables EXCEPT ![d] = PagingNew({PRESENT, ACCESS_FROM_ALL})]
  /\ allocated' = allocated \cup {d}
  /\ UNCHANGED <<current_directory, mode>>

\* task_free: paging_free(task->page_directory) releases the tables and the
\* directory; their memory keeps its contents.
TaskFree(d) ==
  /\ mode = "kernel"
  /\ d \in allocated \ {KernelDir}
  /\ allocated' = allocated \ {d}
  /\ UNCHANGED <<tables, current_directory, mode>>

\* The loader mapping a program into a task's directory with paging_map_to
\* (process_map_memory is not in the repository).
ProcessMapMemory(d, v, p, pe, fl) ==
  /\ mode = "kernel"
  /\ d \in allocated \ {KernelDir}
  /\ tables' = PagingMapTo(tables, d, v, p, pe, fl).t
  /\ UNCHANGED <<allocated, current_directory, mode>>

\* Seeded fault: old_entry is read after the scratch page is mapped.
CopyStringFromTaskReadsLate(d, tmp, max) ==
  /\ mode = "kernel"
  /\ d \in allocated \ {KernelDir}
  /\ IF max >= PageSize \/ tmp = 0
       THEN UNCHANGED vars
       ELSE LET t1  == PagingMap(tables, d, tmp, tmp,
                                 {WRITEABLE, PRESENT, ACCESS_FROM_ALL}).t
                old == PagingGet(t1, d, tmp)
            IN  /\ tables' = PagingSet(t1, d, tmp, old).t
                /\ current_directory' = KernelDir
                /\ UNCHANGED <<allocated, mode>>

\* copy_string_from_task: max must be below a page and kzalloc(max) must
\* succeed; the scratch page tmp is mapped to itself in the task's
\* directory, paging_switch(task), strncpy, kernel_page, and the entry read
\* before the mapping is written back.  The -EIO path of paging_set cannot
\* be taken: tmp is a heap block, so it is page aligned.
CopyStringFromTask(d, tmp, max) ==
  /\ mode = "kernel"
  /\ d \in allocated \ {KernelDir}
  /\ IF max >= PageSize \/ tmp = 0
       THEN UNCHANGED vars
       ELSE LET old == PagingGet(tables, d, tmp)
                t1  == PagingMap(tables, d, tmp, tmp,
                                 {WRITEABLE, PRESENT, ACCESS_FROM_ALL}).t
                r   == PagingSet(t1, d, tmp, old)
            IN  /\ tables' = r.t
                /\ current_directory' = KernelDir
                /\ UNCHANGED <<allocated, mode>>

\* task_page / task_switch on the way out of the kernel: paging_switch to
\* the directory of the task that resumes.
TaskPage(d) ==
  /\ mode = "kernel"
  /\ d \in allocated \ {KernelDir}
  /\ current_directory' = d
  /\ mode' = "user"
  /\ UNCHANGED <<tables, allocated>>

\* kernel_page on every interrupt and system call entry.
KernelPage ==
  /\ mode = "user"
  /\ current_directory' = KernelDir
  /\ mode' = "kernel"
  /\ UNCHANGED <<tables, allocated>>

Next ==
  \/ \E d \in Dirs : TaskInit(d) \/ TaskFree(d) \/ TaskPage(d)
  \/ \E d \in Dirs, v \in VirtAddrs, p, pe \in PhysAddrs, fl \in MapFlags :
       ProcessMapMemory(d, v, p, pe, fl)
  \/ \E d \in Dirs, tmp \in ScratchAddrs, max \in MaxArgs :
       CopyStringFromTask(d, tmp, max)
  \/ KernelPage

Spec == Init /\ [][Next]_vars

(***************************************************************************)
(* Properties                                                              *)
(***************************************************************************)

\* Every entry maps a page-aligned frame inside the address space (spec.md
\* 2: every mapped address must be page aligned).
TypeOK ==
  /\ tables \in [Dirs -> [Index -> [Index ->
                   [frame : {a \in Addr : PagingIsAligned(a)}, flags : SUBSET Flag]]]]
  /\ allocated \subseteq Dirs /\ KernelDir \in allocated
  /\ current_directory \in Dirs
  /\ mode \in {"kernel", "user"}

\* The flat view of a directory: virtual page vp is entry vp % Entries of
\* table vp \div Entries.
Flat(d) == [vp \in 0 .. Entries * Entries - 1 |->
              tables[d][vp \div Entries][vp % Entries]]

AS == INSTANCE AddressSpaces WITH
        space <- [d \in Dirs |->
                    IF d \in allocated THEN Flat(d)
                    ELSE [vp \in 0 .. Entries * Entries - 1 |-> TableEntry(0, {})]],
        owned <- allocated,
        active <- current_directory,
        KernelFlags <- {WRITEABLE, PRESENT, ACCESS_FROM_ALL},
        NPages <- Entries * Entries

\* The two-level tables behave as spec.md 4.2's flat address spaces: new
\* directories are identity maps, paging_map_to writes exactly the run of
\* pages it is given (or nothing on an error), copy_string_from_task leaves
\* the task's space as it found it, and paging_free never releases the
\* directory loaded in CR3.
ImplementsAddressSpaces == AS!Spec

\* paging_get_physical_address translates every address of every live
\* directory as the flat space does: frame of its page plus its offset.
TranslationAgrees ==
  \A d \in allocated, v \in Addr :
    PagingGetPhysicalAddress(tables, d, v) = AS!Translate(d, v)

\* A copy_string_from_task leaves every directory exactly as it was and
\* returns with the kernel's directory loaded, whatever the task had mapped
\* at the scratch page.
CopyStringRestoresTaskSpace ==
  [][\A d \in Dirs, tmp \in ScratchAddrs, max \in MaxArgs :
       CopyStringFromTask(d, tmp, max) =>
         tables' = tables /\ current_directory' = KernelDir]_vars
====
