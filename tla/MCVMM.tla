------------------------------- MODULE MCVMM -------------------------------
(***************************************************************************)
(* Small machines for VMM: two entries a table, so sixteen virtual pages,  *)
(* the upper eight of them the 2 GiB above MEM_PHYS_OFFSET.  A tree this   *)
(* narrow takes almost a table for each page it maps, so the pages of the  *)
(* pool are numbered apart from the memory that is mapped.                 *)
(***************************************************************************)
EXTENDS VMM, TLC

CONSTANT RESERVED    \* any other stivale2 type

MCMmapTypes == {USABLE, KERNEL, RESERVED}

Entry(type, first, pages) ==
  [range |-> [base |-> first * PAGE_SIZE, length |-> pages * PAGE_SIZE],
   type  |-> type]

(* The kernel is followed by usable memory, as on a PC.                    *)
UsualMap == <<Entry(USABLE, 0, 1), Entry(KERNEL, 1, 1), Entry(USABLE, 2, 1)>>

(* The kernel's entry comes last.                                          *)
KernelLast == <<Entry(USABLE, 3, 2), Entry(KERNEL, 1, 1)>>

(* Memory above 2 GiB: its addresses wrap round to the low pages.          *)
BigMap == <<Entry(KERNEL, 1, 1), Entry(USABLE, 6, 1), Entry(RESERVED, 9, 0)>>

(* Mapping all of this takes more tables than the pool has pages.          *)
WideMap == <<Entry(USABLE, 0, 15)>>

MCBootInfos ==
  {stivale2_parse_mmap(EmptyMap, map) :
     map \in {UsualMap, KernelLast, BigMap, WideMap}}

MCPool == 101 .. 114

(* alloc_vmm's windows: the kernel's begins inside the identity mapping.   *)
MCWindow == [is_user \in BOOLEAN |->
               IF is_user THEN [start |-> 4, end |-> 8] ELSE [start |-> 1, end |-> 4]]

MCFreeRanges ==
  {[base |-> PAGE_SIZE, length |-> 2 * PAGE_SIZE],
   [base |-> 5 * PAGE_SIZE, length |-> PAGE_SIZE],
   [base |-> PAGE_SIZE, length |-> 1]}

=============================================================================
