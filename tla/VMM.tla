-------------------------------- MODULE VMM --------------------------------
(***************************************************************************)
(* The virtual memory manager (kernel/mem/vmm.c): address spaces as trees  *)
(* of four levels of tables, each table in a page that alloc_pmm granted.  *)
(* Addresses are page numbers; a virtual one is cut to four table indices, *)
(* as the hardware and the shifts and masks of the code cut it.            *)
(*                                                                         *)
(* Pages come from a PageAllocator that nobody has broken.  Nothing is     *)
(* ever freed below, so next-fit search hands them out in ascending order. *)
(* The functions of vmm.c are operators from a memory m to a memory, the   *)
(* API calls are the actions; a call in which alloc_pmm runs out of pages  *)
(* halts the machine, and what it had written by then is not modelled.     *)
(***************************************************************************)
EXTENDS MemoryMap, SequencesExt

CONSTANTS
  W,               \* entries of a table: 512
  Pool,            \* the pages alloc_pmm can grant
  BootInfos,       \* the BootInfo records init_vmm may be given
  KERNEL,          \* STIVALE2_MMAP_KERNEL_AND_MODULES
  LowPages,        \* pages of the first 32 MiB (0x2000000)
  MEM_PHYS_OFFSET, \* page number of 0xffffffff80000000, cut to 48 bits
  kernel_virtual_start,  \* page number of the link address, 1 MiB above it
  Window,          \* [user -> [start, end]] of alloc_vmm, in pages
  FreeRanges,      \* ranges passed to free_vmm
  MaxSpaces        \* bound on the address spaces made

VPages == 0 .. (W * W * W * W - 1)
Index  == 0 .. (W - 1)

ASSUME TablesAssumption == W \in Nat \ {0}

ASSUME PoolAssumption == Pool \in SUBSET Nat /\ Pool # {} /\ IsFiniteSet(Pool)

(* Both windows lie below the direct mapping: the code's begin at 4 MiB    *)
(* and at 1 GiB.                                                           *)
ASSUME LayoutAssumption ==
  /\ LowPages \in Nat \ {0}
  /\ MEM_PHYS_OFFSET \in VPages /\ kernel_virtual_start \in VPages
  /\ MEM_PHYS_OFFSET <= kernel_virtual_start
  /\ Window \in [BOOLEAN -> [start : VPages, end : Nat]]
  /\ \A is_user \in BOOLEAN :
       Window[is_user].start <= Window[is_user].end /\ Window[is_user].start < MEM_PHYS_OFFSET
  /\ FreeRanges \subseteq AddrRanges

(* Physical addresses fit in the 48 bits of a virtual one, the kernel's    *)
(* even when they are mapped 1 MiB higher.                                 *)
ASSUME BootInfosAssumption ==
  \A boot \in BootInfos :
    /\ boot.mmap \in Seq(MmapEntries)
    /\ \A k \in DOMAIN boot.mmap : \A p \in PageSpan(boot.mmap[k].range) :
         /\ p \in VPages
         /\ boot.mmap[k].type = KERNEL =>
              p + (kernel_virtual_start - MEM_PHYS_OFFSET) \in VPages

(* The index into the table of a level: 3 for the plm4, 0 for the pt.      *)
entry(vaddr, level) ==
  CASE level = 3 -> (vaddr \div (W * W * W)) % W
    [] level = 2 -> (vaddr \div (W * W)) % W
    [] level = 1 -> (vaddr \div W) % W
    [] level = 0 -> vaddr % W

(* An entry that is zero, and a table of them.                             *)
None == [frame |-> 0, flags |-> {}]
Zero == [i \in Index |-> None]

Present(e) == "present" \in e.flags

(* A place m: the contents of the pages, the pages granted, whether a grant*)
(* failed, the table a walk is at, and whether the walk returned early.    *)
alloc_pmm_unmarked(m) == [m EXCEPT !.page = Min(Pool \ m.held)]

alloc_pmm(m) ==
  IF Pool \subseteq m.held THEN [m EXCEPT !.failed = TRUE]
  ELSE [m EXCEPT !.held = @ \cup {Min(Pool \ m.held)}, !.page = Min(Pool \ m.held)]

Zeroed(m) == [m EXCEPT !.mem[m.page] = Zero]

Linked(m, table, index) ==
  [m EXCEPT !.mem[table][index] =
     [frame |-> m.page, flags |-> {"present", "write", "user"}]]

new_level(m, index) == Linked(Zeroed(alloc_pmm(m)), m.page, index)

get_next_level(m, index) ==
  IF Present(m.mem[m.page][index])
  THEN [m EXCEPT !.page = m.mem[m.page][index].frame]
  ELSE new_level(m, index)

From(m, space) == [m EXCEPT !.page = space, !.returned = FALSE]

Stored(m, index, e) == [m EXCEPT !.mem[m.page][index] = e]

(* A loop: op applied to each element of a sequence in turn.               *)
Through(op(_, _), m, seq) ==
  LET after[k \in 0 .. Len(seq)] ==
        IF k = 0 THEN m ELSE op(after[k-1], seq[k])
  IN  after[Len(seq)]

Ascending(first, last) == [i \in 1 .. (last - first + 1) |-> first + i - 1]

-----------------------------------------------------------------------------
Leaf(frame, is_user) ==
  [frame |-> frame,
   flags |-> {"present", "user"} \cup (IF is_user THEN {"write"} ELSE {})]

map_vmm(m, space, frame, vaddr, is_user) ==
  Stored(get_next_level(get_next_level(get_next_level(From(m, space),
           entry(vaddr, 3)), entry(vaddr, 2)), entry(vaddr, 1)),
         entry(vaddr, 0), Leaf(frame, is_user))

(* The walk is_present_vmm and virt2phys share.  Its tests are the wrong   *)
(* way round: it returns at a level that is present, and makes a level     *)
(* that is not.                                                            *)
absent_level_unlinked(m, index) ==
  IF m.returned \/ Present(m.mem[m.page][index])
  THEN [m EXCEPT !.returned = TRUE]
  ELSE Zeroed(alloc_pmm(m))

absent_level_anew(m, index) == new_level(m, index)

absent_level(m, index) ==
  IF m.returned \/ Present(m.mem[m.page][index])
  THEN [m EXCEPT !.returned = TRUE]
  ELSE new_level(m, index)

walk(m, space, vaddr) ==
  absent_level(absent_level(absent_level(From(m, space),
    entry(vaddr, 3)), entry(vaddr, 2)), entry(vaddr, 1))

Found(m, vaddr) == IF m.returned THEN None ELSE m.mem[m.page][entry(vaddr, 0)]

is_present_vmm(m, vaddr) == Present(Found(m, vaddr))

virt2phys(m, vaddr) == Found(m, vaddr).frame

(* One turn of unmap_vmm's loop.  The second level is looked up in the     *)
(* address space itself.                                                   *)
second_level(m, space, index) ==
  IF m.returned \/ Present(m.mem[m.page][index])
  THEN [m EXCEPT !.returned = TRUE]
  ELSE get_next_level([m EXCEPT !.page = space], index)

unmap_page(m, space, vaddr) ==
  LET pt == absent_level(second_level(absent_level(From(m, space),
              entry(vaddr, 3)), space, entry(vaddr, 2)), entry(vaddr, 1))
  IN  IF pt.returned THEN pt ELSE Stored(pt, entry(vaddr, 0), None)

(* Its loop runs over range.base / PAGE_SIZE pages, not over the length.   *)
unmap_vmm(m, space, range) ==
  LET first == range.base \div PAGE_SIZE
  IN  Through(LAMBDA acc, vaddr : unmap_page(acc, space, vaddr),
              m, Ascending(first, 2 * first - 1))

(* One turn of free_vmm's loop: w is the walk of is_present_vmm, which     *)
(* halts the machine when pages run out.                                   *)
free_page(w, space, range, vaddr) ==
  IF w.failed \/ ~is_present_vmm(w, vaddr) THEN w
  ELSE LET v == walk(w, space, vaddr)
       IN  unmap_vmm([v EXCEPT !.held = @ \ {virt2phys(v, vaddr)}], space, range)

free_range(m, space, range) ==
  LET first == range.base \div PAGE_SIZE
      count == range.length \div PAGE_SIZE
  IN  Through(LAMBDA acc, vaddr : free_page(walk(acc, space, vaddr), space, range, vaddr),
              m, Ascending(first, first + count - 1))

(* alloc_vmm's search for `pages' absent pages; w is the walk of           *)
(* is_present_vmm, size is current_size in pages.                          *)
search_turn(acc, w, pages, i) ==
  IF acc.size = pages THEN acc
  ELSE IF is_present_vmm(w, i) THEN [acc EXCEPT !.m = w]
  ELSE [m     |-> w,
        size  |-> acc.size + 1,
        vaddr |-> IF acc.size = 0 THEN i ELSE acc.vaddr]

search(m, space, pages, window) ==
  Through(LAMBDA acc, i : search_turn(acc, walk(acc.m, space, i), pages, i),
          [m |-> m, size |-> 0, vaddr |-> 0],
          Ascending(window.start, window.end - 1))

(* What init_vmm maps, in order: the first 32 MiB at three places, then    *)
(* every entry of the memory map, that of the kernel at two.               *)
At(vaddr, frame) == <<[vaddr |-> vaddr, frame |-> frame]>>

LowMaps ==
  Through(LAMBDA acc, p : acc \o At(p, p)
                              \o At(MEM_PHYS_OFFSET + p, p)
                              \o At(kernel_virtual_start + p, p),
          <<>>, Ascending(0, LowPages - 1))

EntryMaps_short(e) ==
  LET first == e.range.base \div PAGE_SIZE
      count == e.range.length \div PAGE_SIZE
  IN  Through(LAMBDA acc, p : acc \o At(MEM_PHYS_OFFSET + p, p),
              <<>>, Ascending(first, first + count - 2))

EntryMaps(e) ==
  LET first == e.range.base \div PAGE_SIZE
      count == e.range.length \div PAGE_SIZE
  IN  Through(LAMBDA acc, p :
                acc \o At(MEM_PHYS_OFFSET + p, p)
                    \o (IF e.type = KERNEL THEN At(kernel_virtual_start + p, p) ELSE <<>>),
              <<>>, Ascending(first, first + count - 1))

BootMaps(boot) == Through(LAMBDA acc, e : acc \o EntryMaps(e), LowMaps, boot.mmap)

-----------------------------------------------------------------------------
VARIABLES
  phase,         \* "boot", "mapping" in init_vmm, "ready", "halted" by an assert
  info,          \* the BootInfo init_vmm is called with
  mem,           \* the contents of the pages alloc_pmm can grant, as tables
  held,          \* the pages granted
  todo,          \* the mappings init_vmm has yet to make
  kernel_plm4,   \* the kernel's address space, NULL (0) before init_vmm
  spaces,        \* ghost: the roots of the address spaces made
  data           \* ghost: the frames alloc_vmm took for its callers

vars == <<phase, info, mem, held, todo, kernel_plm4, spaces, data>>

Memory == [mem |-> mem, held |-> held, failed |-> FALSE, page |-> 0, returned |-> FALSE]

(* A granted page holds whatever was in it before: here, what would read   *)
(* as a table with every entry present.                                    *)
Stale == [i \in Index |-> [frame |-> Max(Pool), flags |-> {"present"}]]

Init ==
  /\ phase = "boot"
  /\ info \in BootInfos
  /\ mem = [page \in Pool |-> Stale]
  /\ held = {}
  /\ todo = <<>>
  /\ kernel_plm4 = 0
  /\ spaces = {}
  /\ data = {}

(* A call ends with memory m, or halts in an assert.                       *)
Becomes(m) == mem' = m.mem /\ held' = m.held

Halt(m) ==
  /\ m.failed
  /\ phase' = "halted"
  /\ UNCHANGED <<info, mem, held, todo, kernel_plm4, spaces, data>>

init_vmm ==
  /\ phase = "boot"
  /\ LET got == Zeroed(alloc_pmm(Memory)) IN
     /\ Becomes(got)
     /\ kernel_plm4' = got.page
     /\ spaces' = {got.page}
  /\ phase' = "mapping"
  /\ todo' = BootMaps(info)
  /\ UNCHANGED <<info, data>>

(* One turn of its loops.  load_cr3 at the end reads CR3: it changes       *)
(* nothing.                                                                *)
init_vmm_map ==
  /\ phase = "mapping"
  /\ LET m == map_vmm(Memory, kernel_plm4, Head(todo).frame, Head(todo).vaddr, FALSE) IN
     \/ /\ ~m.failed
        /\ Becomes(m)
        /\ todo' = Tail(todo)
        /\ phase' = IF todo' = <<>> THEN "ready" ELSE "mapping"
        /\ UNCHANGED <<info, kernel_plm4, spaces, data>>
     \/ Halt(m)

alloc_plm4 ==
  /\ phase = "ready"
  /\ Cardinality(spaces) < MaxSpaces
  /\ LET got == alloc_pmm(Memory) IN
     \/ /\ ~got.failed
        /\ Becomes(Zeroed(got))
        /\ spaces' = spaces \cup {got.page}
        /\ UNCHANGED <<phase, info, todo, kernel_plm4, data>>
     \/ Halt(got)

(* alloc_vmm for one page, the size alloc_pmm serves exactly.  align_range *)
(* makes it two, so two absent pages are looked for; one is mapped.        *)
Placed(got, space, range, is_user) ==
  LET pages == range.length \div PAGE_SIZE
      at    == search(got, space, pages, Window[is_user])
  IN  map_vmm([at.m EXCEPT !.failed = @ \/ at.size < pages],
              space, range.base \div PAGE_SIZE, at.vaddr, is_user)

OnePage(page) == [base |-> page * PAGE_SIZE, length |-> PAGE_SIZE]

alloc_vmm(space, is_user) ==
  /\ phase = "ready"
  /\ LET got == alloc_pmm(Memory)
         m   == Placed(got, space, align_range(OnePage(got.page)), is_user)
     IN
     \/ /\ ~m.failed
        /\ Becomes(m)
        /\ data' = data \cup {got.page}
        /\ UNCHANGED <<phase, info, todo, kernel_plm4, spaces>>
     \/ Halt(m)

free_vmm(space, range) ==
  /\ phase = "ready"
  /\ is_page_aligned(range)
  /\ LET m == free_range(Memory, space, range) IN
     \/ /\ ~m.failed
        /\ Becomes(m)
        /\ data' = data \cap m.held
        /\ UNCHANGED <<phase, info, todo, kernel_plm4, spaces>>
     \/ Halt(m)

free_vmm_unaligned(range) ==
  /\ phase = "ready"
  /\ ~is_page_aligned(range)
  /\ phase' = "halted"
  /\ UNCHANGED <<info, mem, held, todo, kernel_plm4, spaces, data>>

Halted == phase = "halted" /\ UNCHANGED vars

Next ==
  \/ init_vmm
  \/ init_vmm_map
  \/ alloc_plm4
  \/ \E space \in spaces, is_user \in BOOLEAN : alloc_vmm(space, is_user)
  \/ \E space \in spaces, range \in FreeRanges : free_vmm(space, range)
  \/ \E range \in FreeRanges : free_vmm_unaligned(range)
  \/ Halted

Spec == Init /\ [][Next]_vars

-----------------------------------------------------------------------------
(* What the hardware's walk finds for a virtual page.                      *)
Step(e, index) == IF Present(e) THEN mem[e.frame][index] ELSE None

Translate(space, vaddr) ==
  Step(Step(Step(mem[space][entry(vaddr, 3)], entry(vaddr, 2)), entry(vaddr, 1)),
       entry(vaddr, 0))

Links(tables) == {link \in tables \X Index : Present(mem[link[1]][link[2]])}

Below(tables) == {mem[link[1]][link[2]].frame : link \in Links(tables)}

TypeOK ==
  /\ phase \in {"boot", "mapping", "ready", "halted"}
  /\ info \in BootInfos
  /\ DOMAIN mem = Pool
  /\ \A page \in Pool : DOMAIN mem[page] = Index
  /\ held \subseteq Pool
  /\ spaces \subseteq held
  /\ kernel_plm4 \in spaces \cup {0}
  /\ data \subseteq held

(* The tables of the address spaces are trees: a table hangs from one      *)
(* entry, at one level, of one space, and no table is a page that was      *)
(* given to a caller.  No granted page is lost: each is a table or a       *)
(* caller's.                                                               *)
TablesAreTrees ==
  phase = "ready" =>
    LET pdpts == Below(spaces)
        pds   == Below(pdpts)
        pts   == Below(pds)
        tables == spaces \cup pdpts \cup pds \cup pts
    IN  /\ Cardinality(tables) =
             Cardinality(spaces) + Cardinality(Links(spaces))
               + Cardinality(Links(pdpts)) + Cardinality(Links(pds))
        /\ tables \cap data = {}
        /\ held = tables \cup data

(* An entry of the map after this one has the kernel's second mapping of   *)
(* page p - 1 MiB, which lands on the direct mapping of p.                 *)
Overmapped(k, p) ==
  \E j \in DOMAIN info.mmap :
    /\ j > k
    /\ info.mmap[j].type = KERNEL
    /\ p - (kernel_virtual_start - MEM_PHYS_OFFSET) \in PageSpan(info.mmap[j].range)

(* Every page of the memory map that lies within the 2 GiB above           *)
(* MEM_PHYS_OFFSET can be reached there, whatever alloc_vmm mapped since:  *)
(* get_next_level reaches each table through this mapping.  The mappings   *)
(* at kernel_virtual_start, 1 MiB higher, are all written over again, save *)
(* by a kernel entry that comes later.                                     *)
DirectMapHolds ==
  phase = "ready" =>
    \A k \in DOMAIN info.mmap : \A p \in PageSpan(info.mmap[k].range) :
      MEM_PHYS_OFFSET + p \in VPages /\ ~Overmapped(k, p) =>
        Translate(kernel_plm4, MEM_PHYS_OFFSET + p).frame = p

(* A page table entry with is_user FALSE is closed to user mode.           *)
KernelPagesAreKernel ==
  phase = "ready" /\ data = {} =>
    \A v \in VPages :
      Present(Translate(kernel_plm4, v)) => "user" \notin Translate(kernel_plm4, v).flags

(* is_present_vmm answers whether bit 0, "Present", of the page's entry is *)
(* set.                                                                    *)
PresentIsMapped ==
  phase = "ready" =>
    \A space \in spaces, v \in VPages :
      is_present_vmm(walk(Memory, space, v), v) = Present(Translate(space, v))

(* The calls keep what AddressSpaces promises.                             *)
AsSpaces == INSTANCE AddressSpaces WITH
  Nothing <- None,
  maps    <- IF todo # <<>> THEN <<>>
             ELSE [space \in spaces |-> [v \in VPages |-> Translate(space, v)]],
  owned   <- data

ImplementsSpaces == AsSpaces!Spec

=============================================================================
