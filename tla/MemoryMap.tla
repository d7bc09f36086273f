----------------------------- MODULE MemoryMap -----------------------------
(***************************************************************************)
(* The memory map in BootInfo and how stivale2_parse_mmap fills it from    *)
(* the bootloader's entries (libk/bootinfo.c).  The index of the first     *)
(* free slot, memory_map_size, is the length of the sequence mmap.         *)
(***************************************************************************)
EXTENDS AddrRange, Sequences

CONSTANTS
  MmapTypes,    \* the stivale2 types of a memory-map entry
  USABLE        \* STIVALE2_MMAP_USABLE, one of them

MmapEntries == [range : AddrRanges, type : MmapTypes]

(* The fields stivale2_parse_header zeroes before it reads the tags.       *)
EmptyMap == [memory_usable |-> 0, usable_pages |-> 0, mmap |-> <<>>]

(* One turn of the loop: the usable bytes are counted as the bootloader    *)
(* gave them, the entry is stored rounded to pages.                        *)
parse_entry(self, entry) ==
  LET usable == IF entry.type = USABLE
                THEN self.memory_usable + entry.range.length
                ELSE self.memory_usable
  IN  [memory_usable |-> usable,
       usable_pages  |-> usable \div PAGE_SIZE,
       mmap          |-> Append(self.mmap, [entry EXCEPT !.range = align_range(@)])]

(* The entries of a second memory-map tag are added to those of the first. *)
stivale2_parse_mmap(self, memmap) ==
  LET parsed[i \in 0 .. Len(memmap)] ==
        IF i = 0 THEN self ELSE parse_entry(parsed[i-1], memmap[i])
  IN  parsed[Len(memmap)]

-----------------------------------------------------------------------------
UsableEntries(info) == {k \in DOMAIN info.mmap : info.mmap[k].type = USABLE}

UsablePages(info) ==
  UNION {PageSpan(info.mmap[k].range) : k \in UsableEntries(info)}

=============================================================================
