------------------------------ MODULE BootInfo ------------------------------
(***************************************************************************)
(* stivale2_parse_header (libk/bootinfo.c): the walk along the linked list *)
(* of tags the bootloader leaves, which fills the BootInfo the rest of the *)
(* kernel boots from.  The BootInfo lies on bootstrap's stack, so a field  *)
(* whose tag is missing keeps whatever was there.                          *)
(***************************************************************************)
EXTENDS MemoryMap, SequencesExt

CONSTANTS
  Structs,     \* the tag lists a bootloader may pass
  Garbage,     \* what a field of the BootInfo holds before it is set
  LIMIT_MEMORY_MAP_SIZE     \* slots of mmap

(* A tag: its identifier and what the parser takes from it.                *)
Known  == {"rsdp", "epoch", "framebuffer", "memmap"}

IsTag(tag) ==
  \/ tag.identifier # "memmap"
  \/ tag.value \in Seq(MmapEntries)

ASSUME LimitAssumption == LIMIT_MEMORY_MAP_SIZE \in Nat \ {0}

ASSUME StructsAssumption ==
  \A tags \in Structs :
    /\ Len(tags) \in Nat /\ DOMAIN tags = 1 .. Len(tags)
    /\ \A k \in DOMAIN tags : IsTag(tags[k])

(* mmap is the last field of BootInfo, and nothing tests its bound: an     *)
(* entry too many is stored behind it, on the stack of bootstrap.          *)
Overrun(map) == Len(map.mmap) > LIMIT_MEMORY_MAP_SIZE

VARIABLES
  stivale,      \* the list
  tag,          \* the tag the loop is at; past the last one is NULL
  self,         \* memory_usable, usable_pages and mmap
  rsdp,
  epoch,
  framebuffer,
  reported      \* the identifiers printed as unknown on the serial port

vars == <<stivale, tag, self, rsdp, epoch, framebuffer, reported>>

Init ==
  /\ stivale \in Structs
  /\ tag = 1
  /\ self = EmptyMap
  /\ rsdp = Garbage
  /\ epoch = Garbage
  /\ framebuffer = Garbage
  /\ reported = {}

(* The loop is at a tag with this identifier, and moves on.  What an entry *)
(* behind mmap destroys is not modelled: nothing follows it.               *)
At_skip(identifier) ==
  /\ tag \in DOMAIN stivale /\ ~Overrun(self)
  /\ stivale[tag].identifier = identifier
  /\ tag' = tag + 2
  /\ UNCHANGED stivale

At(identifier) ==
  /\ tag \in DOMAIN stivale /\ ~Overrun(self)
  /\ stivale[tag].identifier = identifier
  /\ tag' = tag + 1
  /\ UNCHANGED stivale

parse_rsdp ==
  /\ At("rsdp")
  /\ rsdp' = stivale[tag].value
  /\ UNCHANGED <<self, epoch, framebuffer, reported>>

parse_epoch ==
  /\ At("epoch")
  /\ epoch' = stivale[tag].value
  /\ UNCHANGED <<self, rsdp, framebuffer, reported>>

parse_framebuffer_keep ==
  /\ At("framebuffer")
  /\ framebuffer' = IF framebuffer = Garbage THEN stivale[tag].value ELSE framebuffer
  /\ UNCHANGED <<self, rsdp, epoch, reported>>

parse_framebuffer ==
  /\ At("framebuffer")
  /\ framebuffer' = stivale[tag].value
  /\ UNCHANGED <<self, rsdp, epoch, reported>>

parse_memmap_restart ==
  /\ At("memmap")
  /\ self' = stivale2_parse_mmap([EmptyMap EXCEPT !.mmap = self.mmap], stivale[tag].value)
  /\ reported' = reported \cup {"memmap"}
  /\ UNCHANGED <<rsdp, epoch, framebuffer>>

(* No break ends this case: the tag is reported as unknown too.            *)
parse_memmap ==
  /\ At("memmap")
  /\ self' = stivale2_parse_mmap(self, stivale[tag].value)
  /\ reported' = reported \cup {"memmap"}
  /\ UNCHANGED <<rsdp, epoch, framebuffer>>

parse_unknown(identifier) ==
  /\ identifier \notin Known
  /\ At(identifier)
  /\ reported' = reported \cup {identifier}
  /\ UNCHANGED <<self, rsdp, epoch, framebuffer>>

Returned ==
  /\ tag \notin DOMAIN stivale \/ Overrun(self)
  /\ UNCHANGED vars

Next ==
  \/ parse_rsdp
  \/ parse_epoch
  \/ parse_framebuffer
  \/ parse_memmap
  \/ \E k \in DOMAIN stivale : parse_unknown(stivale[k].identifier)
  \/ Returned

Spec == Init /\ [][Next]_vars

-----------------------------------------------------------------------------
(* The tags walked so far that have this identifier.                       *)
Seen(identifier) == {k \in 1 .. (tag - 1) : stivale[k].identifier = identifier}

(* The entries of the first n tags of a list, and those walked so far.     *)
EntriesOf(tags, n) ==
  LET upto[k \in 0 .. Len(tags)] ==
        IF k = 0 THEN <<>>
        ELSE IF tags[k].identifier = "memmap" THEN upto[k-1] \o tags[k].value
        ELSE upto[k-1]
  IN  upto[n]

Given == EntriesOf(stivale, tag - 1)

GivenUsable == {k \in DOMAIN Given : Given[k].type = USABLE}

End(range) == range.base + range.length

(* The pages that hold a byte of a usable entry.                           *)
Touched ==
  {b \div PAGE_SIZE :
     b \in UNION {Given[k].range.base .. (End(Given[k].range) - 1) : k \in GivenUsable}}

TypeOK ==
  /\ stivale \in Structs
  /\ tag \in 1 .. Len(stivale) + 1
  /\ self.memory_usable \in Nat
  /\ self.usable_pages \in Nat
  /\ self.mmap \in Seq(MmapEntries)
  /\ reported \subseteq {stivale[k].identifier : k \in DOMAIN stivale}

(* As long as the bootloader gives no more entries than mmap has slots,    *)
(* over all the map tags walked so far: mmap has every one of them, in     *)
(* order, each rounded outwards to pages, and nothing behind it is stored  *)
(* to; the usable bytes are those the bootloader gave, and usable_pages    *)
(* follows them.                                                           *)
MapIsComplete ==
  Len(Given) <= LIMIT_MEMORY_MAP_SIZE =>
    /\ Len(self.mmap) = Len(Given) /\ ~Overrun(self)
    /\ \A k \in DOMAIN Given :
         /\ self.mmap[k].type = Given[k].type
         /\ is_page_aligned(self.mmap[k].range)
         /\ self.mmap[k].range.base <= Given[k].range.base
         /\ End(self.mmap[k].range) > End(Given[k].range)
    /\ self.memory_usable = SumFunctionOnSet([k \in DOMAIN Given |-> Given[k].range.length], GivenUsable)
    /\ self.usable_pages = self.memory_usable \div PAGE_SIZE

(* What init_pmm makes of it: the pages it clears are those that hold a    *)
(* usable byte, and at most the page after each entry's last one.  That    *)
(* page may belong to the next entry, whatever its type.                   *)
PoolIsUsablePlusOne ==
  LET ends == {(End(Given[k].range) \div PAGE_SIZE) : k \in GivenUsable}
  IN  ~Overrun(self) =>
        /\ Touched \subseteq UsablePages(self)
        /\ UsablePages(self) \subseteq Touched \cup ends

(* A field is what the last tag for it said, and is left uninitialised     *)
(* only when the list has no such tag so far.                              *)
FieldsComeFromTags ==
  LET Latest(id) == IF Seen(id) = {} THEN Garbage ELSE stivale[Max(Seen(id))].value
  IN  <<rsdp, epoch, framebuffer>>
        = <<Latest("rsdp"), Latest("epoch"), Latest("framebuffer")>>

(* What the message "Unknown identifier" says of a tag.                    *)
ReportedAreUnknown == reported \cap Known = {}

=============================================================================
