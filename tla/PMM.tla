-------------------------------- MODULE PMM --------------------------------
(***************************************************************************)
(* The physical page allocator (kernel/mem/pmm.c): a bitmap with one bit   *)
(* per page, searched next-fit from `last_free_page'.                      *)
(*                                                                         *)
(* The kernel runs on one CPU with interrupts masked whenever it allocates,*)
(* so each call is one action.  The callers of alloc_pmm are modelled as   *)
(* an environment that owns what it was granted: it may write any page it  *)
(* holds, and it frees only pages it holds.  The bitmap lies in ordinary   *)
(* pages, so a caller that was granted one of them rewrites bits.          *)
(***************************************************************************)
EXTENDS MemoryMap, FiniteSets

CONSTANTS
  MaxPage,      \* the last page of memory
  BootInfos,    \* the BootInfo records init_pmm may be given
  Counts,       \* numbers of pages the callers ask alloc_pmm for
  UsedRanges,   \* ranges the callers pass to set_used_pmm
  Writes,       \* which bits a caller that writes a bitmap page leaves set
  MaxHolders,   \* bound: how many live grants may cover one page
  WORD          \* free_memory is a uint64_t: 2^64

Pages    == 0 .. MaxPage
NULL     == 0           \* a page can lie at address 0, the code's NULL
BYTE     == 8           \* bits per byte of the bitmap

(* What the unset loop adds to free_memory: a page that two entries share  *)
(* counts twice.                                                           *)
UsableBytes(boot) ==
  LET sum[k \in 0 .. Len(boot.mmap)] ==
        IF k = 0 THEN 0
        ELSE sum[k-1] + (IF k \in UsableEntries(boot)
                         THEN PAGE_SIZE * (boot.mmap[k].range.length \div PAGE_SIZE)
                         ELSE 0)
  IN  sum[Len(boot.mmap)]

(* The entries long enough for the bitmap; the loop keeps the last one.    *)
Fitting(boot) ==
  {k \in UsableEntries(boot) : boot.mmap[k].range.length >= boot.usable_pages}

BitmapBase(boot) ==
  {boot.mmap[k].range.base : k \in
     {j \in Fitting(boot) : \A i \in Fitting(boot) : i <= j}}

(* The pages of the last loop of init_pmm: i = 0, PAGE_SIZE, 2*PAGE_SIZE,  *)
(* ... while i <= usable_pages, the bitmap's length in bytes.              *)
BitmapSpan(base, boot) ==
  (base \div PAGE_SIZE) .. (base \div PAGE_SIZE + boot.usable_pages \div PAGE_SIZE)

-----------------------------------------------------------------------------
ASSUME MaxPageAssumption == MaxPage \in Nat

ASSUME CountsAssumption == Counts \subseteq Nat

ASSUME MaxHoldersAssumption == MaxHolders \in Nat

ASSUME WordAssumption == WORD \in Nat \ {0}

(* The machine's memory is Pages: the map and the bitmap lie in it, it has *)
(* as many pages as the map counts usable, and the usable_pages bytes of   *)
(* the bitmap have a bit for each page of it.                              *)
ASSUME BootInfosAssumption ==
  \A info \in BootInfos :
    /\ info.usable_pages \in Nat
    /\ info.mmap \in Seq(MmapEntries)
    /\ UsableBytes(info) \in Nat
    /\ UsablePages(info) \subseteq Pages
    /\ \A base \in BitmapBase(info) : BitmapSpan(base, info) \subseteq Pages
    /\ Pages \subseteq 0 .. (BYTE * info.usable_pages - 1)
    /\ info.usable_pages <= MaxPage + 1

ASSUME UsedRangesAssumption ==
  \A range \in UsedRanges : range \in AddrRanges /\ PageSpan(range) \subseteq Pages

ASSUME WritesAssumption == Writes \subseteq SUBSET Pages

-----------------------------------------------------------------------------
VARIABLES
  phase,           \* "boot" until init_pmm, then "ready"; "halted" by an assert
  info,            \* the BootInfo init_pmm is called with
  bitmap,          \* address of the bitmap, NULL before init_pmm
  marked,          \* the pages whose bit is 1
  free_memory,     \* a statistic: nothing reads it
  last_free_page,  \* where the next search starts
  usable_pages,
  holders,         \* ghost: how many live grants cover a page
  clobbered,       \* ghost: a caller wrote a page of the bitmap
  astray           \* ghost: a grant ran past the last page

vars == <<phase, info, bitmap, marked, free_memory, last_free_page, usable_pages,
          holders, clobbered, astray>>

Held == {p \in Pages : holders[p] > 0}

(* The pages the bitmap's usable_pages bytes lie in.                       *)
BitmapFrames ==
  (bitmap \div PAGE_SIZE) .. ((bitmap + usable_pages - 1) \div PAGE_SIZE)

(* The pages whose bits a page of the bitmap holds.                        *)
BitsIn(frame) == {p \in Pages : (bitmap + p \div BYTE) \div PAGE_SIZE = frame}

Init ==
  /\ phase = "boot"
  /\ info \in BootInfos
  /\ bitmap = NULL
  /\ marked = {}
  /\ free_memory = 0
  /\ last_free_page = 0
  /\ usable_pages = 0
  /\ holders = [p \in Pages |-> 0]
  /\ clobbered = FALSE
  /\ astray = FALSE

(* A failed assert prints, raises interrupt 1 and the handler halts.       *)
Halt == phase' = "halted"

-----------------------------------------------------------------------------
(* init_pmm: every bit is set, then the bits of the usable entries are     *)
(* cleared, then those of the bitmap itself are cleared too.               *)
FreeAtBoot(base, boot) == UsablePages(boot) \cup BitmapSpan(base, boot)

init_pmm_ok ==
  /\ phase = "boot"
  /\ \E base \in BitmapBase(info) :
       /\ base # NULL
       /\ bitmap' = base
       /\ marked' = Pages \ FreeAtBoot(base, info)
  /\ free_memory' = UsableBytes(info) % WORD
  /\ usable_pages' = info.usable_pages
  /\ phase' = "ready"
  /\ UNCHANGED <<info, last_free_page, holders, clobbered, astray>>

(* assert(bitmap != NULL) also fails for a region at address 0.            *)
init_pmm_no_bitmap ==
  /\ phase = "boot"
  /\ \A base \in BitmapBase(info) : base = NULL
  /\ usable_pages' = info.usable_pages
  /\ Halt
  /\ UNCHANGED <<info, bitmap, marked, free_memory, last_free_page, holders, clobbered,
                 astray>>

-----------------------------------------------------------------------------
(* find_free_pages: a pass from `start' counts consecutive clear bits and  *)
(* stops at the page where the count reaches `count': the LAST page of the *)
(* run.  No pass ever stops for count = 0.                                 *)
FreeRunEnds_no_reset(start, count) ==
  {i \in start .. (usable_pages - 1) :
     /\ count > 0
     /\ i \notin marked
     /\ Cardinality((start .. i) \ marked) = count}

FreeRunEnds_short_run(start, count) ==
  {i \in start .. (usable_pages - 1) :
     /\ count > 0
     /\ start <= i - count + 2
     /\ \A p \in (i - count + 2) .. i : p \notin marked}

FreeRunEnds_past_end(start, count) ==
  {i \in start .. usable_pages :
     /\ count > 0
     /\ start <= i - count + 1
     /\ \A p \in (i - count + 1) .. i : p \notin marked}

FreeRunEnds(start, count) ==
  {i \in start .. (usable_pages - 1) :
     /\ count > 0
     /\ start <= i - count + 1
     /\ \A p \in (i - count + 1) .. i : p \notin marked}

(* The search fails only after a pass from page 0.                         *)
Found_one_pass(count) == FreeRunEnds(last_free_page, count)

Found(count) ==
  IF FreeRunEnds(last_free_page, count) # {}
  THEN FreeRunEnds(last_free_page, count)
  ELSE FreeRunEnds(0, count)

(* set_pmm leaves the cursor at the page it marked, here the last one.     *)
LastMarked(page, count) == page + count - 1

(* alloc_pmm marks count pages from the page found on, and nothing tells   *)
(* whether there are so many: the bits of pages past the last one are kept *)
(* by nobody here, the search never comes to them.                         *)
alloc_pmm_grant(count) ==
  /\ phase = "ready"
  /\ \E page \in Found(count) :
       LET granted == page .. (page + count - 1) IN
       /\ \A other \in Found(count) : page <= other
       /\ \A p \in granted \cap Pages : holders[p] < MaxHolders
       /\ marked' = marked \cup (granted \cap Pages)
       /\ last_free_page' = LastMarked(page, count)
       /\ holders' = [p \in Pages |-> IF p \in granted THEN holders[p] + 1
                                                       ELSE holders[p]]
       /\ astray' = (astray \/ ~(granted \subseteq Pages))
  /\ UNCHANGED <<phase, info, bitmap, free_memory, usable_pages, clobbered>>

(* Nothing found from page 0 on either: assert(0).                         *)
alloc_pmm_exhausted(count) ==
  /\ phase = "ready"
  /\ Found(count) = {}
  /\ last_free_page' = 0
  /\ Halt
  /\ UNCHANGED <<info, bitmap, marked, free_memory, usable_pages, holders, clobbered, astray>>

(* free_pmm clears the bits; neither the cursor nor free_memory moves.  A  *)
(* caller frees pages it holds, some past the last one if it was granted   *)
(* such.                                                                   *)
Owns(range) ==
  /\ PageSpan(range) \cap Pages # {}
  /\ PageSpan(range) \cap Pages \subseteq Held
  /\ astray \/ PageSpan(range) \subseteq Pages

free_pmm_one_more(range) ==
  /\ phase = "ready"
  /\ Owns(range)
  /\ marked' = marked \ {p \in Pages : p \in PageSpan(range) \/ p - 1 \in PageSpan(range)}
  /\ holders' = [p \in Pages |-> IF p \in PageSpan(range) THEN holders[p] - 1
                                                          ELSE holders[p]]
  /\ UNCHANGED <<phase, info, bitmap, free_memory, last_free_page, usable_pages,
                 clobbered, astray>>

free_pmm_one_less(range) ==
  /\ phase = "ready"
  /\ Owns(range)
  /\ marked' = marked \ {p \in PageSpan(range) : p + 1 \in PageSpan(range)}
  /\ holders' = [p \in Pages |-> IF p \in PageSpan(range) THEN holders[p] - 1
                                                          ELSE holders[p]]
  /\ UNCHANGED <<phase, info, bitmap, free_memory, last_free_page, usable_pages,
                 clobbered, astray>>

free_pmm(range) ==
  /\ phase = "ready"
  /\ Owns(range)
  /\ marked' = marked \ PageSpan(range)
  /\ holders' = [p \in Pages |-> IF p \in PageSpan(range) THEN holders[p] - 1
                                                          ELSE holders[p]]
  /\ UNCHANGED <<phase, info, bitmap, free_memory, last_free_page, usable_pages,
                 clobbered, astray>>

-----------------------------------------------------------------------------
(* set_used_pmm counts pages in steps of PAGE_SIZE, so it visits one page  *)
(* in PAGE_SIZE, and it tests the bit numbered by the byte ADDRESS of the  *)
(* page.  A bit past the bitmap, or one past the last page once a caller   *)
(* wrote there or was granted such pages, is whatever that memory holds.   *)
(* The bits it sets are below all those it tests later.                    *)
Visited(range) ==
  LET first == range.base \div PAGE_SIZE
      n     == range.length \div PAGE_SIZE
  IN  {p \in PageSpan(range) : (p - first) * PAGE_SIZE < n}

Unknown(bit) ==
  \/ bit >= BYTE * usable_pages
  \/ (clobbered \/ astray) /\ bit \notin Pages

set_used_pmm(range) ==
  /\ phase = "ready"
  /\ is_page_aligned(range)
  /\ \E junk \in SUBSET {p \in Visited(range) : Unknown(p * PAGE_SIZE)} :
       LET hit == {p \in Visited(range) : p * PAGE_SIZE \in Pages \ marked} \cup junk IN
       /\ marked' = marked \cup hit
       /\ free_memory' = (free_memory - PAGE_SIZE * Cardinality(hit)) % WORD
       /\ \/ hit = {} /\ UNCHANGED last_free_page
          \/ \E last \in hit :
               /\ \A p \in hit : p <= last
               /\ last_free_page' = last
  /\ UNCHANGED <<phase, info, bitmap, usable_pages, holders, clobbered, astray>>

set_used_pmm_unaligned(range) ==
  /\ phase = "ready"
  /\ ~is_page_aligned(range)
  /\ Halt
  /\ UNCHANGED <<info, bitmap, marked, free_memory, last_free_page, usable_pages,
                 holders, clobbered, astray>>

(* The caller of alloc_pmm writes a page it holds: get_next_level zeroes   *)
(* the page and stores entries in it.  Only a page of the bitmap matters   *)
(* here: the bits it holds become what was written.                        *)
ClientWrite(frame, bits) ==
  /\ phase = "ready"
  /\ frame \in BitmapFrames \cap Held
  /\ marked' = (marked \ BitsIn(frame)) \cup (bits \cap BitsIn(frame))
  /\ clobbered' = TRUE
  /\ UNCHANGED <<phase, info, bitmap, free_memory, last_free_page, usable_pages,
                 holders, astray>>

(* cli; hlt in the interrupt handler.                                      *)
Halted == phase = "halted" /\ UNCHANGED vars

PageRun(p, n) == [base |-> p * PAGE_SIZE, length |-> n * PAGE_SIZE]

Next ==
  \/ init_pmm_ok
  \/ init_pmm_no_bitmap
  \/ \E count \in Counts : alloc_pmm_grant(count)
  \/ \E count \in Counts : alloc_pmm_exhausted(count)
  \/ \E p \in Pages, n \in Counts : free_pmm(PageRun(p, n))
  \/ \E range \in UsedRanges : set_used_pmm(range)
  \/ \E range \in UsedRanges : set_used_pmm_unaligned(range)
  \/ \E frame \in Pages, bits \in Writes : ClientWrite(frame, bits)
  \/ Halted

Spec == Init /\ [][Next]_vars

-----------------------------------------------------------------------------
(* The type of every variable.  Of the bits only those of pages are kept   *)
(* in marked: what set_used_pmm tests and alloc_pmm sets past them is not  *)
(* bounded here.  The cursor is on a page until a grant ran past the last. *)
TypeOK ==
  /\ phase \in {"boot", "ready", "halted"}
  /\ info \in BootInfos
  /\ bitmap \in Nat
  /\ marked \in SUBSET Pages
  /\ free_memory \in 0 .. (WORD - 1)
  /\ last_free_page \in Nat /\ (last_free_page \in Pages \/ astray)
  /\ usable_pages \in Nat
  /\ holders \in [Pages -> 0 .. MaxHolders]
  /\ clobbered \in BOOLEAN
  /\ astray \in BOOLEAN

(* Callers that ask for one page at a time (in vmm.c all do but alloc_vmm, *)
(* which asks for what its own caller does and has none) never share a     *)
(* page, and a page that is out keeps its bit set, until one of them       *)
(* writes to a page of the bitmap.                                         *)
HeldExclusively ==
  ~clobbered => /\ \A p \in Pages : holders[p] <= 1
                /\ Held \subseteq marked

(* The bitmap loses and invents no page: what init_pmm cleared is, for     *)
(* ever, what is free now together with what is out.                       *)
PagesConserved ==
  phase = "ready" /\ ~clobbered =>
    (Pages \ marked) \cup Held = FreeAtBoot(bitmap, info)

(* find_free_pages looks below usable_pages only, so a bitmap that lies    *)
(* above is never granted and never overwritten, whatever else happens.    *)
SafeOutOfReach ==
  phase = "ready" /\ (\A p \in BitmapFrames : p >= usable_pages) => ~clobbered

(* Nothing keeps the bitmap's own pages apart: this is what init_pmm's     *)
(* search for a place for the bitmap is meant to secure, and it is false.  *)
BitmapNeverGranted == phase = "ready" => BitmapFrames \cap Held = {}

(* What a request is given: the search returns the last page of the run it *)
(* found, so as many pages up to the first one granted were free as are    *)
(* granted, and the first granted is below usable_pages.  The pages after  *)
(* it are taken unseen.                                                    *)
GrantFollowsFreeRun ==
  [][LET granted == {p \in Pages : holders'[p] > holders[p]} IN
     \A first \in granted :
       (\A p \in granted : first <= p) =>
         /\ first < usable_pages
         /\ (first - Cardinality(granted) + 1) .. first \subseteq Pages \ marked]_vars

(* alloc_pmm's pages after the first lie above the run it found, and it    *)
(* tests no bound: they are all memory on a machine with so many pages     *)
(* past usable_pages as the longest request asks for, less two, whatever   *)
(* was marked, freed or overwritten before.                                *)
GrantsInMemory ==
  (\A count \in Counts : usable_pages + count - 2 <= MaxPage) => ~astray

-----------------------------------------------------------------------------
(* The loop of find_free_pages as it is written: the first page at which   *)
(* the count of consecutive clear bits reaches count, if any.              *)
scan(start, count) ==
  LET pass[i \in Nat] ==
        [page_found \in Nat |->
           IF i >= usable_pages THEN {}
           ELSE IF i \in marked THEN pass[i+1][0]
           ELSE IF page_found + 1 = count THEN {i}
           ELSE pass[i+1][page_found + 1]]
  IN  pass[start][0]

find_free_pages(count) ==
  LET page == scan(last_free_page, count)
  IN  IF page = {} /\ last_free_page # 0 THEN scan(0, count) ELSE page

(* The sets the actions choose from say what that loop finds, for every    *)
(* bitmap and cursor the allocator can be in.                              *)
LoopAgrees ==
  phase = "ready" =>
    \A count \in Counts :
      find_free_pages(count) =
        {page \in Found(count) : \A other \in Found(count) : page <= other}

-----------------------------------------------------------------------------
(* For callers that ask for one page at a time the module implements       *)
(* PageAllocator: the pool is what init_pmm cleared and the search reaches.*)
Pool ==
  IF bitmap = NULL THEN {}
  ELSE {p \in FreeAtBoot(bitmap, info) : p < usable_pages}

Notes == IF bitmap = NULL THEN {} ELSE BitmapFrames \cap Pages

Allocator == INSTANCE PageAllocator WITH
  state <- phase, pool <- Pool, notes <- Notes, held <- Held, broken <- clobbered

(* Every step of the bitmap allocator is one PageAllocator allows: a page  *)
(* is granted to one caller at a time, and alloc_pmm gives up only with    *)
(* the whole pool out.                                                     *)
ImplementsAllocator == Allocator!Spec

=============================================================================
