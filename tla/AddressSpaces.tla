---------------------------- MODULE AddressSpaces ----------------------------
(***************************************************************************)
(* What the paging manager promises (spec.md 4.2), with no page tables:    *)
(* an address space is a flat map from virtual page numbers to entries    *)
(* (frame address and flag bits).  Exactly one space is active.  A new     *)
(* space maps every page to itself; map writes a run of consecutive        *)
(* pages; a space is released only when it is not the active one.  The    *)
(* address space is circular: advancing past the last page wraps to page *)
(* 0, as 32-bit address arithmetic does.                                   *)
(***************************************************************************)
EXTENDS Naturals

CONSTANTS
  Dirs,        \* directory handles
  KernelDir,   \* the kernel's space, created at boot
  KernelFlags, \* flag bits of the kernel's identity map
  NPages,      \* pages in the virtual address space
  PageSize     \* bytes per page

VARIABLES
  space,   \* space[d][vp]: the entry of virtual page vp in space d
  owned,   \* spaces that exist
  active   \* the space loaded in the paging root

vars == <<space, owned, active>>

Pages == 0 .. NPages - 1

\* A page mapped to frame address f with the given flag bits.
PageEntry(f, fl) == [frame |-> f, flags |-> fl]

\* The contents of a space nobody owns: zeroed memory.
Blank == [vp \in Pages |-> PageEntry(0, {})]

\* new_address_space: page vp maps to the frame at address vp * PageSize.
Identity(fl) == [vp \in Pages |-> PageEntry(vp * PageSize, fl)]

\* translate: the frame of v's page plus v's offset inside the page.
Translate(d, v) == space[d][v \div PageSize].frame + (v % PageSize)

Init ==
  /\ space = [d \in Dirs |-> IF d = KernelDir THEN Identity(KernelFlags) ELSE Blank]
  /\ owned = {KernelDir}
  /\ active = KernelDir

Create(d, fl) ==
  /\ d \notin owned
  /\ space' = [space EXCEPT ![d] = Identity(fl)]
  /\ owned' = owned \cup {d}
  /\ UNCHANGED active

Destroy(d) ==
  /\ d \in owned \ {active}
  /\ space' = [space EXCEPT ![d] = Blank]
  /\ owned' = owned \ {d}
  /\ UNCHANGED active

Activate(d) ==
  /\ d \in owned
  /\ active' = d
  /\ UNCHANGED <<space, owned>>

\* map_range: n consecutive pages from vp onto n consecutive frames from
\* page pp, every entry with the same flags.
MapRun(d, vp, pp, n, fl) ==
  /\ d \in owned
  /\ space' = [space EXCEPT ![d] =
                 [p \in Pages |->
                    IF \E k \in 0 .. n - 1 : p = (vp + k) % NPages
                      THEN LET k == CHOOSE k \in 0 .. n - 1 : p = (vp + k) % NPages
                           IN  PageEntry(((pp + k) % NPages) * PageSize, fl)
                      ELSE space[d][p]]]
  /\ UNCHANGED <<owned, active>>

Next ==
  \/ \E d \in Dirs, fl \in SUBSET {"PRESENT", "WRITEABLE", "ACCESS_FROM_ALL"} :
       Create(d, fl)
  \/ \E d \in Dirs : Destroy(d) \/ Activate(d)
  \/ \E d \in Dirs, vp, pp \in Pages, n \in 1 .. NPages,
        fl \in SUBSET {"PRESENT", "WRITEABLE", "ACCESS_FROM_ALL"} :
       MapRun(d, vp, pp, n, fl)

Spec == Init /\ [][Next]_vars
=============================================================================
