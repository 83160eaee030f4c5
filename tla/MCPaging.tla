------------------------------ MODULE MCPaging ------------------------------
(* Paging at Entries = 2 and PageSize = 2: an 8-byte address space of four *)
(* pages in two tables, enough for a run of pages to cross a table and to   *)
(* wrap past the top of the address space.                                 *)
EXTENDS Paging

CONSTANTS kd, d1, d2

MCDirs == {kd, d1, d2}
\* virtual starts: aligned in the first table, in the second table near the
\* top (a two-page run wraps to page 0), and misaligned
MCVirtAddrs == {2, 6, 1}
\* physical bounds: aligned, and misaligned
MCPhysAddrs == {0, 4, 1}
MCMapFlags == {{"PRESENT", "WRITEABLE", "ACCESS_FROM_ALL"}}
\* a heap block of the kernel, and NULL
MCScratchAddrs == {4, 0}
\* below a page, and a full page (rejected)
MCMaxArgs == {1, 2}
====
