----------------------------- MODULE AddrRange -----------------------------
(***************************************************************************)
(* Byte ranges of memory and their rounding to pages (libk/range.c).       *)
(* Everything in the memory managers is phrased in these ranges: the       *)
(* bootloader's memory map is rounded with align_range before the physical *)
(* allocator sees it, and alloc_vmm rounds what it gets from alloc_pmm.    *)
(***************************************************************************)
EXTENDS Integers

CONSTANT PAGE_SIZE      \* bytes per page: 4096 in libk/const.h

ASSUME PageSizeAssumption == PAGE_SIZE \in Nat \ {0}

\* The C struct: both fields are unsigned.
AddrRanges == [base : Nat, length : Nat]

is_page_aligned(self) ==
  /\ self.base % PAGE_SIZE = 0
  /\ self.length % PAGE_SIZE = 0

align_range_lost_offset(self) ==
  LET align == self.base % PAGE_SIZE
  IN  [base   |-> self.base - align,
       length |-> self.length + (PAGE_SIZE - (self.length % PAGE_SIZE))]

\* The last statement pads a length that is a whole number of pages already
\* with one more page: PAGE_SIZE - 0 is added, not 0.
align_range(self) ==
  LET align == self.base % PAGE_SIZE
      grown == self.length + align
  IN  [base   |-> self.base - align,
       length |-> grown + (PAGE_SIZE - (grown % PAGE_SIZE))]

range_count_page(self) ==
  LET aligned == IF is_page_aligned(self) THEN self ELSE align_range(self)
  IN  aligned.length \div PAGE_SIZE

-----------------------------------------------------------------------------
(* The pages `base / PAGE_SIZE' up to `base / PAGE_SIZE + length /         *)
(* PAGE_SIZE' that the loops of pmm.c walk.                                *)
PageSpan(range) ==
  LET first == range.base \div PAGE_SIZE
  IN  first .. (first + range.length \div PAGE_SIZE - 1)

=============================================================================
