------------------------------- MODULE MCPMM -------------------------------
(***************************************************************************)
(* Small machines for PMM.  The BootInfos are what stivale2_parse_mmap     *)
(* makes of small bootloader maps.                                         *)
(***************************************************************************)
EXTENDS PMM, TLC

Entry(type, first, pages) ==
  [range |-> [base |-> first * PAGE_SIZE, length |-> pages * PAGE_SIZE],
   type  |-> type]

CONSTANT KERNEL      \* STIVALE2_MMAP_KERNEL_AND_MODULES

MCMmapTypes == {USABLE, KERNEL}

(* One region after the first page: the bitmap lies in reach.              *)
LowMap == <<Entry(USABLE, 1, 4), Entry(KERNEL, 5, 2)>>

(* The bitmap goes to the last region that fits, above every page in reach.*)
SplitMap == <<Entry(USABLE, 1, 2), Entry(KERNEL, 3, 2), Entry(USABLE, 5, 3)>>

(* A usable region at address 0, and another one after it.                 *)
ZeroMap == <<Entry(USABLE, 0, 3), Entry(KERNEL, 3, 1), Entry(USABLE, 4, 3)>>

(* The only region that fits is at address 0, which is NULL.               *)
NullMap == <<Entry(KERNEL, 4, 2), Entry(USABLE, 0, 3)>>

(* One region with room for a run, the kernel's page behind it.            *)
RunMap == <<Entry(USABLE, 1, 4), Entry(KERNEL, 5, 1)>>

Parsed(maps) == {stivale2_parse_mmap(EmptyMap, map) : map \in maps}

SingleInfos == Parsed({LowMap, SplitMap, ZeroMap, NullMap})

Clear  == {{}}

(* A zeroed page, and one whose entries set some of the bits.              *)
Zeroed == {{}, {0, 2, 5}}

Single == {1}
None   == {}

(* Requests of several pages, and ranges for set_used_pmm: two of whole    *)
(* pages, one whose tests run past the pages, and one that is not aligned. *)
Runs == {0, 2, 3}

(* Nearly all pages usable: a long grant runs past memory.                 *)
TightMap == <<Entry(USABLE, 0, 2), Entry(USABLE, 2, 3)>>

RunInfos == Parsed({RunMap, TightMap})

RunRanges ==
  {[base |-> 0, length |-> 3 * PAGE_SIZE],
   [base |-> 3 * PAGE_SIZE, length |-> 3 * PAGE_SIZE],
   [base |-> PAGE_SIZE + 1, length |-> PAGE_SIZE]}

=============================================================================
