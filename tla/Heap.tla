-------------------------------- MODULE Heap --------------------------------
(***************************************************************************)
(* The block-table heap of src/memory/heap/heap.c, as used through kmalloc *)
(* and kfree (src/memory/heap/kheap.c).                                    *)
(*                                                                         *)
(* The table holds one entry byte per block; an entry is modelled as the   *)
(* set of its flag bits: {} is HEAP_BLOCK_TABLE_ENTRY_FREE, "TAKEN" is     *)
(* HEAP_BLOCK_TABLE_ENTRY_TAKEN (the entry type, entry & 0x0f), "FIRST"    *)
(* and "NEXT" are HEAP_BLOCK_IS_FIRST and HEAP_BLOCK_HAS_NEXT.  Addresses  *)
(* are block offsets from heap->saddr.  The callers' view is kept in live: *)
(* one record per pointer malloc returned and nobody has freed yet, told  *)
(* apart by an id so that two equal pointers are two records.              *)
(***************************************************************************)
EXTENDS Naturals, Integers, FiniteSets

CONSTANTS
  NBlocks,       \* table->total_entries: kheap_init's 104857600 / 4096
  BlockSize,     \* BIMBLEOS_HEAP_BLOCK_SIZE
  HeapAddress,   \* BIMBLEOS_HEAP_ADDRESS
  HeapSizeBytes, \* BIMBLEOS_HEAP_SIZE_BYTES
  Sizes,      \* request sizes, in bytes, that callers pass to kmalloc
  MaxLive     \* bound on the pointers callers hold at once

ASSUME NBlocks \in Nat \ {0}
ASSUME BlockSize \in Nat \ {0}
ASSUME Sizes \subseteq Nat

VARIABLES
  entries,  \* table->entries
  live,     \* allocations handed out and not freed: [id, start, blocks]
  halted    \* the machine has stopped (a runaway write loop faulted)

vars == <<entries, live, halted>>

Blocks == 0..NBlocks - 1
Flags  == {"TAKEN", "FIRST", "NEXT"}

\* SIZE_MAX of the 32-bit target: (size_t)(0 + 0 - 1).  TLC's integers end
\* at 2^31 - 1, which stands for it: both lie far past any block index.
SizeMax == 2147483647

(***************************************************************************)
(* heap.c                                                                  *)
(***************************************************************************)

\* heap_align_value_to_upper
HeapAlignValueToUpper(size) ==
  IF size % BlockSize = 0 THEN size ELSE size - (size % BlockSize) + BlockSize

\* heap_get_entry_type(e) == HEAP_BLOCK_TABLE_ENTRY_FREE
IsFree(e) == "TAKEN" \notin e

\* heap_get_start_block: scan from block 0, counting contiguous free blocks;
\* a non-free block resets the count.  The scan stops when the count
\* reaches total; when the table ends first, the start of the run being
\* counted is returned even though it is too short, and -ENOMEM (-1 here)
\* only when the table ends on a non-free block.
\* Seeded fault: the scan resets the count but not blockStart on a taken block.
RECURSIVE ScanKeepsStart(_, _, _, _, _)
ScanKeepsStart(e, total, i, count, start) ==
  IF i >= NBlocks THEN start
  ELSE IF ~IsFree(e[i]) THEN ScanKeepsStart(e, total, i + 1, 0, start)
  ELSE LET s == IF start = -1 THEN i ELSE start
       IN  IF count + 1 = total THEN s
           ELSE ScanKeepsStart(e, total, i + 1, count + 1, s)

\* Seeded fault: the scan has no break once the run is long enough.
RECURSIVE ScanNoBreak(_, _, _, _, _)
ScanNoBreak(e, total, i, count, start) ==
  IF i >= NBlocks THEN start
  ELSE IF ~IsFree(e[i]) THEN ScanNoBreak(e, total, i + 1, 0, -1)
  ELSE ScanNoBreak(e, total, i + 1, count + 1, IF start = -1 THEN i ELSE start)

RECURSIVE Scan(_, _, _, _, _)
Scan(e, total, i, count, start) ==
  IF i >= NBlocks THEN start
  ELSE IF ~IsFree(e[i]) THEN Scan(e, total, i + 1, 0, -1)
  ELSE LET s == IF start = -1 THEN i ELSE start
       IN  IF count + 1 = total THEN s ELSE Scan(e, total, i + 1, count + 1, s)

HeapGetStartBlock(e, total) == Scan(e, total, 0, 0, -1)

\* heap_mark_blocks_taken: the first entry is overwritten with IS_FIRST, the
\* entries before end_block get TAKEN and HAS_NEXT, end_block gets TAKEN.
\* end_block is a size_t: start + total - 1 wraps to SIZE_MAX for
\* start = total = 0.  Writes past the table land outside it.
EndBlock(start, total) == IF start + total = 0 THEN SizeMax ELSE start + total - 1

\* Seeded fault: end_block is not marked TAKEN.
HeapMarkBlocksTakenShort(e, start, total) ==
  LET last == EndBlock(start, total)
  IN  [i \in Blocks |->
         IF i = start THEN {"FIRST"} \cup (IF i < last THEN {"TAKEN", "NEXT"} ELSE {})
         ELSE IF start < i /\ i < last THEN e[i] \cup {"TAKEN", "NEXT"}
         ELSE e[i]]

HeapMarkBlocksTaken(e, start, total) ==
  LET last == EndBlock(start, total)
      base(i) == IF i = start THEN {"FIRST"} ELSE e[i]
  IN  [i \in Blocks |->
         IF start <= i /\ i < last THEN base(i) \cup {"TAKEN", "NEXT"}
         ELSE IF i = last THEN base(i) \cup {"TAKEN"}
         ELSE base(i)]

\* heap_mark_blocks_free: clear entries from block i on, stopping after an
\* entry that had no HAS_NEXT, or at the end of the table.
\* Seeded fault: the entry without HAS_NEXT ends the loop before it is cleared.
RECURSIVE HeapMarkBlocksFreeKeepsLast(_, _)
HeapMarkBlocksFreeKeepsLast(e, i) ==
  IF i >= NBlocks THEN e
  ELSE IF "NEXT" \in e[i] THEN HeapMarkBlocksFreeKeepsLast([e EXCEPT ![i] = {}], i + 1)
  ELSE e

RECURSIVE HeapMarkBlocksFree(_, _)
HeapMarkBlocksFree(e, i) ==
  IF i >= NBlocks THEN e
  ELSE LET e2 == [e EXCEPT ![i] = {}]
       IN  IF "NEXT" \in e[i] THEN HeapMarkBlocksFree(e2, i + 1) ELSE e2

\* heap_validate_alignment
HeapValidateAlignment(ptr) == ptr % BlockSize = 0

\* Seeded fault: the table is validated against an inclusive end.
HeapValidateTableInclusive(ptr, end, total) ==
  IF (end - ptr) \div BlockSize + 1 # total THEN -1 ELSE 0

\* heap_validate_table: -EINVARG (-1 here) unless the region holds exactly
\* total_entries blocks.
HeapValidateTable(ptr, end, total) ==
  IF (end - ptr) \div BlockSize # total THEN -1 ELSE 0

\* heap_create's result: both bounds aligned, then the table validated.
\* Only when it is 0 does heap_create clear the table's entries.
HeapCreate(ptr, end, total) ==
  IF ~HeapValidateAlignment(ptr) \/ ~HeapValidateAlignment(end) THEN -1
  ELSE HeapValidateTable(ptr, end, total)

\* The table kheap_init leaves: every entry FREE when heap_create succeeds.
\* When it fails kheap_init only prints, and the entries are whatever the
\* memory at BIMBLEOS_HEAP_TABLE_ADDRESS held.
InitialEntries ==
  IF HeapCreate(HeapAddress, HeapAddress + HeapSizeBytes, NBlocks) = 0
    THEN {[i \in Blocks |-> {}]}
    ELSE [Blocks -> SUBSET Flags]

(***************************************************************************)
(* Operations                                                              *)
(***************************************************************************)

\* kheap_init: heap_create on the heap region and the table.
Init ==
  /\ entries \in InitialEntries
  /\ live = {}
  /\ halted = FALSE

\* Seeded fault: heap_malloc_blocks without the check of a negative start.
KmallocNoNullCheck(size) ==
  LET total == HeapAlignValueToUpper(size) \div BlockSize
      start == HeapGetStartBlock(entries, total)
      id    == CHOOSE k \in 1..MaxLive : \A a \in live : a.id # k
  IN  /\ ~halted
      /\ Cardinality(live) < MaxLive
      /\ entries' = HeapMarkBlocksTaken(entries, start, total)
      /\ live' = live \cup {[id |-> id, start |-> start, blocks |-> total]}
      /\ halted' = (EndBlock(start, total) = SizeMax)

\* kmalloc(size) -> heap_malloc -> heap_malloc_blocks.  On a negative start
\* block kmalloc returns NULL and nothing changes.  With total = 0 and
\* start = 0, the marking loop runs to SIZE_MAX and writes over all memory
\* after the table: the machine faults.
Kmalloc(size) ==
  LET total == HeapAlignValueToUpper(size) \div BlockSize
      start == HeapGetStartBlock(entries, total)
      id    == CHOOSE k \in 1..MaxLive : \A a \in live : a.id # k
  IN  /\ ~halted
      /\ Cardinality(live) < MaxLive
      /\ IF start < 0
           THEN UNCHANGED <<entries, live, halted>>
           ELSE /\ entries' = HeapMarkBlocksTaken(entries, start, total)
                /\ live' = live \cup {[id |-> id, start |-> start,
                                       blocks |-> total]}
                /\ halted' = (EndBlock(start, total) = SizeMax)

\* kfree(ptr) -> heap_free: heap_address_to_block, then mark free.  The
\* caller passes a pointer kmalloc returned and has not freed.
Kfree(a) ==
  /\ ~halted
  /\ entries' = HeapMarkBlocksFree(entries, a.start)
  /\ live' = live \ {a}
  /\ UNCHANGED halted

Next ==
  \/ \E size \in Sizes : Kmalloc(size)
  \/ \E a \in live : Kfree(a)

Spec == Init /\ [][Next]_vars

(***************************************************************************)
(* Properties                                                              *)
(***************************************************************************)

TypeOK ==
  /\ entries \in [Blocks -> SUBSET Flags]
  /\ live \subseteq [id : 1..MaxLive, start : Blocks, blocks : Nat]
  /\ halted \in BOOLEAN

\* The blocks an allocation owns.
Span(a) == a.start .. a.start + a.blocks - 1

\* No block belongs to two allocations that are both still held by their
\* callers: what heap_get_start_block finds free and heap_mark_blocks_free
\* clears must never be a block someone else still uses.
NoOverlap ==
  \A a, b \in live : a # b => Span(a) \cap Span(b) = {}

\* Every block of the heap that a live allocation owns is marked TAKEN, so
\* the next scan cannot hand it out.
LiveBlocksTaken ==
  \A a \in live : \A i \in Span(a) \cap Blocks : ~IsFree(entries[i])

\* Every allocation lies inside the heap region (spec.md 4.1: a request no
\* free run can hold fails with OutOfMemory).
AllocationsInRegion ==
  \A a \in live : a.start + a.blocks <= NBlocks

\* Reference first fit: the lowest block that starts n free blocks.
Fits(e, s, n) == s + n <= NBlocks /\ \A i \in s .. s + n - 1 : IsFree(e[i])
FirstFit(e, n) == CHOOSE s \in Blocks : Fits(e, s, n) /\ \A r \in 0..s - 1 : ~Fits(e, r, n)

\* When a run of n free blocks exists, kmalloc of n blocks returns the
\* first such run (spec.md 8, first-fit determinism).
MallocIsFirstFit ==
  [][\A a \in live' \ live :
       (\E s \in Blocks : Fits(entries, s, a.blocks)) =>
         a.start = FirstFit(entries, a.blocks)]_vars

\* Freeing an allocation returns exactly its blocks to FREE and leaves every
\* other entry as it was (spec.md 8, allocator round trip).
FreeReleasesExactlyItsBlocks ==
  [][\A a \in live \ live' :
       \A i \in Blocks :
         IF i \in Span(a) THEN entries'[i] = {} ELSE entries'[i] = entries[i]]_vars
=============================================================================
