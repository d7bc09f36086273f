# A TLA+ verification of the Navy kernel

Navy is a small x86-64 kernel in C, started by a stivale2 bootloader. This
directory models the parts of it that have logic worth checking: how it reads
what the bootloader says of the machine, how it keeps track of physical pages,
how it builds address spaces from them, the heap it carries, the console it
reports on, and the kernel as a whole: its bootstrap, log, asserts and
interrupts. TLC checks the models on small
machines; TLAPS proves the most important statements for machines of every
size.

## The system

| part | state | operations | hard because |
| --- | --- | --- | --- |
| address ranges (`libk/range.c`) | none | `is_page_aligned`, `align_range`, `range_count_page` | rounding at the boundary |
| boot information (`libk/bootinfo.c`) | a `BootInfo` on the stack of `bootstrap` | `stivale2_parse_header`, `stivale2_parse_mmap` | tags in any order, missing or repeated; entries that are not whole pages |
| physical pages (`kernel/mem/pmm.c`) | bitmap, cursor, `usable_pages`, `free_memory` | `init_pmm`, `alloc_pmm`, `free_pmm`, `set_used_pmm` | next-fit search, the bitmap lies in the memory it describes, long sequences of calls |
| virtual memory (`kernel/mem/vmm.c`) | `kernel_plm4`, tables in granted pages | `init_vmm`, `alloc_plm4`, `alloc_vmm`, `free_vmm` | shared tables, lookups that change the tables, overlapping mappings |
| debug log (`libk/debug.c`) | module name and one saved name | `__assert`, `module`, `module_push`, `module_pop`, `log_debug` | nested calls and one slot |
| interrupts (`kernel/int/`) | IDT, PIC, `tick`, the interrupt flag | `init_pic`, `init_idt`, `interrupts_handler`, `PIC_sendEOI` | asynchronous; panic inside output |
| console (`devices/framebuffer.c`) | `config`, escape state, number buffer | `init_fb`, `putc_fb`, `puts_fb`, `printf_fb` | state carried from one string to the next |
| serial port (`devices/serial.c`, `io.c`) | the device | `init_serial`, `putc_serial`, `printf_serial` | busy waiting |
| heap (`third-party/liballoc`) | major and minor blocks, `l_bestBet`, `lock_queue` | `malloc`, `free`, `calloc`, `realloc` | linked blocks, a lock that masks interrupts |
| C library (`libc/`) | none | `itoa`, `atoi`, `vsnprintf`, strings | boundaries |
| segments (`kernel/mem/gdt.c`) | a constant table | `init_gdt` | nothing: straight-line stores |
| bootstrap (`kernel/bootstrap.c`) | none | runs the initialisers in order | what may be used before it is ready |

They interact by direct calls on one CPU. `bootstrap` parses the tags, starts
console, serial port, segments, PIC and IDT, then calls `init_pmm` and
`init_vmm` with the same `BootInfo` and loops for ever. The virtual memory
manager is the only caller of the page allocator. Nothing in the code enables
interrupts before that loop (only the heap's unlock does, and nobody calls the
heap), so the memory managers are sequential programs. What is hard about them
is not scheduling but long sequences of legal calls, rounding, and that they
keep their records in the very memory they hand out. Scheduling is what is hard
about the rest: exceptions may break in anywhere, and once the heap is used,
interrupts between any two instructions outside its lock.

What makes each part correct:

* boot information: every entry of the map arrives, in order, and the usable
  memory counted is what the bootloader gave;
* physical pages: a page is out to one caller at a time, none is ever lost,
  and the allocator gives up only when all are out;
* virtual memory: an address space is a function from pages to frames, a call
  changes one page of one space, tables are never shared or handed to a caller;
* heap: blocks never overlap, the accounts it searches by are exact, and memory
  is taken from the system only when a request fits nowhere;
* console: colour and cursor follow the text, whatever was printed before, and
  the three-byte number buffer is never left;
* C library: a formatted text is what its conversions mean, within its buffer;
* log: each line carries the name of the module that logs it, whatever it calls;
* interrupts: every one is acknowledged, and no other with it; a panic is final;
  the heap is never entered twice, and holds up ticks but loses none;
* bootstrap: nothing is used before it is ready, and it comes to its end.

## Modules

| module | models | from |
| --- | --- | --- |
| `AddrRange` | ranges and their rounding | `libk/range.c` |
| `MemoryMap` | the map in `BootInfo`, `stivale2_parse_mmap` | `libk/bootinfo.c` |
| `BootInfo` | the walk of `stivale2_parse_header` along the tags | `libk/bootinfo.c` |
| `PageAllocator` | what a page allocator promises | (abstract) |
| `PMM` | the bitmap allocator and its callers | `kernel/mem/pmm.c` |
| `AddressSpaces` | what a virtual memory manager promises | (abstract) |
| `VMM` | page tables in memory, and the API | `kernel/mem/vmm.c` |
| `Blocks` | what a heap promises | (abstract) |
| `Heap` | majors, minors and the best bet | `third-party/liballoc/liballoc.c` |
| `Console` | escape machine, cursor, and panics that break in | `devices/framebuffer.c`, `kernel/int/interrupt.c` |
| `Libc` | strings in buffers, `itoa`, `atoi` | `libc/string.c`, `libc/stdlib.c` |
| `Conversions` | calls made of pieces, and what each piece ought to print | (abstract; the bases from `libc/stdio.c`) |
| `Format` | `vsnprintf`, turn by turn | `libc/stdio.c`, `libc/stdlib.c` |
| `DebugLog` | the name of the module that logs, and the one saved | `libk/debug.c` |
| `Interrupts` | gates, PICs, the handler step by step | `kernel/int/`, `kernel/mem/gdt.c` |
| `Kernel` | the bootstrap, log, asserts, serial port and heap lock as one program under interrupts | `kernel/bootstrap.c`, `libk/debug.c`, `devices/serial.c`, `liballoc/compat.c` |
| `MCBootInfo`, `MCPMM`, `MCVMM`, `MCHeap`, `MCConsole`, `MCFormat`, `MCKernel` | small instances for TLC | |
| `PMM_proofs`, `Kernel_proofs`, `Heap_proofs`, `VMM_proofs`, `BootInfo_proofs` (with `AddrRange`), `Console_proofs`, `Format_proofs` | theorems | |
| `FiniteLemmas` | lemmas about finite sets, sums, division and loops that the proofs share | |

`AddrRange` <- `MemoryMap` <- `BootInfo`, `PMM`, `VMM`, and `Libc` <- `Console`,
`DebugLog`, and `Libc` <- `Conversions` <- `Format` by EXTENDS; `Kernel` composes `Interrupts` and `DebugLog`.
`PMM` and `VMM` are given `BootInfo` records made by `stivale2_parse_mmap`, so what they
are checked on is what the parser produces.

An operator whose name is that of another one with a suffix, such as
`free_pmm_one_more` before `free_pmm`, is a deliberately wrong variant: no
specification uses it. Put in place of the right one it makes a property fail,
which shows that the property depends on that code.

### PMM

`marked` is the bitmap, as the set of pages whose bit is 1; `last_free_page`,
`usable_pages`, `free_memory` and `bitmap` are the statics of `pmm.c`;
`info` is the argument of `init_pmm`. Three ghosts: `holders` counts the live
grants that cover a page, `clobbered` says that a caller wrote a page in which
the bitmap lies, `astray` that a grant ran past the last page of memory, as one of
several pages may (`alloc_pmm` tests no bound). One action for each outcome of
each call:

* `init_pmm_ok`, `init_pmm_no_bitmap` - the last region that fits gets the
  bitmap; the assert fails when there is none, or when it is at address 0.
* `alloc_pmm_grant`, `alloc_pmm_exhausted` - the search from the cursor and
  then from 0. `FreeRunEnds` is the set of pages at which a pass may stop, the
  grant starts at the least. `LoopAgrees` compares it with the loop as written
  (`find_free_pages`, `scan`).
* `free_pmm`, `set_used_pmm`, `set_used_pmm_unaligned`.
* `ClientWrite` - a caller writes a page it holds that is a page of the
  bitmap: the bits there become what was written. Without it the model would
  hide that the bitmap is in ordinary memory.

A bit that is read past the bitmap is a nondeterministic choice, and so is one
past the last page once something may have been stored there (`Unknown`). That is
what `set_used_pmm` does: it takes addresses for page numbers, and marks what it then
marks. It has no caller in the repository and no text says what it should mark, so
no property says so either; it is in the model for any aligned range, and what
the others claim they claim after any number of its calls. A caller frees pages it holds, as `vmm.c` means to, those past the
last page included if it was granted such (`Owns`).

### VMM

A table is a function from indices to entries, `mem` the contents of the pages
of the allocator's pool, four levels reached by `entry(vaddr, level)`. The C
functions are operators from a memory record `m` to a memory record, with the
table a walk has reached in `m.page`; the API calls are the actions. The
lookups `is_present_vmm` and `virt2phys` are among those operators because they
make levels that they do not find.

The VMM assumes an allocator that nobody has broken, and, since `free_vmm` never
gets to free a page, one that hands pages out in ascending order. Requests of
several pages, for which `alloc_pmm` itself goes wrong (below), are left out:
`alloc_vmm` is for one page. A call in which pages run out halts the kernel, and
what it had written by then is not kept. A page of the pool begins with stale
entries that are all present.

### Heap

Majors are runs of pages from `liballoc_alloc`, kept in the list from
`l_memRoot` (a sequence); minors are the blocks in them, kept in the order of
their addresses (a set). One action per call: the lock of `compat.c` masks
interrupts for the time of a call, so nothing comes between its steps. The
search of `malloc` is split by idea: the order in which majors are visited
(`Order`), where in a major a minor fits (`Gaps`), what happens to the best bet
on the way (`Bet`), and the end of the list (`Extended`). `l_allocated` and
`l_inuse` are the totals a debug build prints. `Blocks` sees only the
addresses and sizes callers were given. `calloc` is `malloc` of the product; the
three outcomes of `realloc` are actions.

`liballoc_alloc` of `compat.c` always returns NULL - its body is commented out -
and so every `malloc` of this build refuses. The model lets it return NULL or a
free arena, as it is made to: the heap is checked as the code it is, not as
disconnected as it is. A request whose new major is too small after all asks it a
second time (`liballoc_alloc_again`).

The fields of a major and a minor and the argument of `allocate_new_page` are
`unsigned int`, and sizes are cut short where the code does so (`UINT`): a huge
request gets a major of a few pages, which may then look as if it had less than
nothing free (`Signed`). `malloc` places a block in a new major without looking
(`Place`, `Appended`). `outgrown` keeps the sizes whose block ran past its major, or
whose major is longer than its field can say: what such a call leaves behind is not
modelled, so the model ends there (`Becomes`, `Trampled`), and `Small` says of which
requests it never does. The two other places that wrap are left out: the `int` in which
`calloc` multiplies, and a `size_t` at its end.

Three things callers should know are in the model without a property against
them: `l_bestBet`, "the major with the most free memory" (`liballoc.c:99`), need
not be that one, since nothing judges it again after a block is placed in it; a `realloc` that cannot grow copies to NULL and frees the block, and a
request of 0 bytes gets a block, because the padding is added before the test
for 0.

### Console

A character per step: `puts_fb` takes the next character of the string and
`putc_fb` does one of `Escape`, `Digit`, `Bracket`, `Colour`, or draws. An
`exception` may come between any two characters, at most twice (a fault in the
handler's own output included): what was being printed is left for good, and the
handler prints its messages through the same state. `overrun` says that a digit
was stored behind `nbr`, and then `ptr`, which the code counts on all the same,
is `NBR + 1`; what that store destroys is not modelled (`Lost`), and
`atoi` of a full buffer, which reads on behind it, gives any colour. `said` and
`before` are ghosts: the text so far, and colour and cursor when it began.

An exception at the second digit of a colour leads to `overrun` when the handler
prints its own colour, since `printf_fb` resets `state` but not `ptr`. No text
promises otherwise, so it is not a finding; `NumberFits` says that it
takes an exception.

`TextsAssumption` is what the strings of the kernel have in common: an ESC comes
only at the head of a whole sequence whose number leaves room for a NUL in `nbr`.
All the sequences of the source are `\033[0m` and `\033[31m` to `\033[33m`
(`libk/debug.h:23`, `interrupt.c:99`). `ScreenAssumption`: a character is no wider
than the column the text begins at (8 and 10 in the code), so that no position is
negative.

### Format

One action per branch of `vsnprintf`'s loop, for one call at a time: `format`
and `ap` are what is left of the format and the arguments. The two ways of
storing are kept apart as in the code: characters and zeros go to `ptr`,
strings and numbers behind the first NUL. `overrun` stops the model, as in
`Console`. Words are of sixteen bits (`HALF` 256), so that a negative number
has two halves of two hexadecimal digits. In base 2 a half has eight, and
`itoa`'s local arrays have `HALF_SIZE` 8 bytes as the code's have 32: there is no
room for the NUL, and every negative number in base 2 is an overrun. Behind an
overrun the code's loop may run past the end of the format too (`*format || ptr >
size`); the model has stopped by then.

A call is a sequence of `Pieces`: a character of text, or one conversion with its
argument (`Conversions`). `MeansOf` is what a piece ought to print, by division
with powers of the base, independent of the loops of `itoa`; `RoomOf` is the room
any piece takes, plain or not (`Takes`), and `Outgrows` says of which pieces `itoa`
leaves its arrays. `KeepsToBuffer` and `NothingIsCut` hold the code's stores against
those two: it overruns exactly when they say so, but for a text that fills the
buffer to the last byte, of which neither speaks. A piece is `Plain` unless it is one on which the
code prints something else. Those are in the runs too, for every property but
`PrintsItsMeaning`: a negative number in base 2 (above), a
negative number in base 10 (-15 comes out as `/+-`: `value *= 1`), a negative
number in base 16 whose low half begins with a zero (the zero is lost), a number
longer than its padding (it gets the padding as zeros in front), and an unknown
conversion (nothing is printed). `%%` prints nothing and turns the character after
it into a conversion; no string of the kernel uses it, and no piece is one.
Nor is a `%c` of NUL, behind which the next string would be stored in front of `ptr`.
`HalfAssumption`: half a word is some number of hexadecimal digits long, fewer than
the bytes of the local arrays (8 and 32 in the code).

### BootInfo

One action per case of the switch. `self` holds the three fields the function
resets first and `mmap`; `memory_map_size` is the length of `mmap`. Fields whose
tag does not come keep `Garbage`. The code does not test the bound of `mmap`
(`LIMIT_MEMORY_MAP_SIZE`, 64 slots): an entry too many is an `Overrun`, which
ends the model.

### Interrupts

The stack is a sequence of frames, each with the vector, the flag to be
restored, and how far its handler has come: `entry` -> `panic` -> `hlt` for an
exception, `entry` -> `eoi` -> `iretq` for a line, `reset` when there is no gate
or no segment for it. The last frame runs; with none the main program does. The
CPU takes an interrupt at the next instruction when `flag` is set and the PICs
let one through (`Accepts`), so no other step is taken then.

The two 8259s are external and modelled by what the code expects of them: fixed
priorities with the slave behind input 2, both inputs in service for a line of
the slave, and an end of interrupt that names no input and ends the first one in
service. A device of a `Noisy` line may take its request back before it is
acknowledged; the PIC then delivers its last line, with nothing in service. Of
the exceptions only an NMI reaches a halted CPU, and not before the last NMI's
handler has returned.

Between `interrupts_handler`'s steps other interrupts may come where the gate
leaves the flag set: vectors 3 and 4 have trap gates, all the others interrupt
gates. That lines have interrupt gates is what `EoiEndsItsOwn` rests on; that a
panic turns interrupts off again before it halts is what `PanicIsFinal` rests on.

### DebugLog and Kernel

The main program is a sequence of steps, `todo`, taken from the front.
`bootstrap` is that of the boot, put together from those of the initialisers:
what they do to devices, tables, names and flag is kept, what `PMM`, `VMM` and
`BootInfo` model is not repeated. An assert may hold or fail, whatever it tests;
one that fails prints and raises vector 1. When the boot is done `todo` is empty
and the kernel loops. What it is there for is called from that loop: the heap
(`HeapCall`, `liballoc_realloc`, with one step for each instruction of the lock)
and drivers that name themselves, take a page and log. These callers are the
model's: the repository has none yet. Every initialiser of the repository logs
under a name of three letters. A driver's name of two would come back from the
allocator with a third (`AC` as `ACM`), since `strcpy` copies no NUL and
`module_pop` does not clear; `LogsOwnName` leaves such names out and the run
does not.

A text on the serial port is one character. `transmitter` is the port's empty
bit; the hardware sets it in its own time. Handlers print in a panic only.

`bootstrap` prints the size of memory, and the parser the tags it does not know,
before `init_serial`; the model has those two steps and `LogsAreSeen` speaks of
the log and of panics.

## Runs

| run | machine | shows |
| --- | --- | --- |
| `pmm_single` | nine pages of two bytes; a low region, two regions, a region at address 0, and only a region at address 0; requests of one page | `HeldExclusively`, `PagesConserved`, `SafeOutOfReach`, `ImplementsAllocator` |
| `pmm_runs` | six pages; a map with a page behind those that are searched and one without; requests of 0, 2 and 3 pages, aligned and unaligned ranges for `set_used_pmm` | `LoopAgrees`, `GrantsInMemory`, `GrantFollowsFreeRun` |
| `bootinfo` | every list of up to three tags out of ten, a map of four slots, pages of three bytes, unaligned, adjacent and empty entries | `TypeOK`, `MapIsComplete`, `PoolIsUsablePlusOne`, `FieldsComeFromTags` |
| `heap` | three arenas, majors of three pages of eight bytes, or four for larger requests, sizes cut short at 64; requests of 0, 3, 16, 46 and 79 bytes | `MinorsApart`, `UsageExact`, `MajorsInUse`, `OutgrowsOnlyHuge`, `NoNeedlessMajor`, `ImplementsBlocks` |
| `console` | three strings out of four, a screen of four lines, two exceptions | `TypeOK`, `ColourFollowsText`, `CursorFollowsText`, `NumberFits` |
| `format` | any two of 25 pieces, any three of six, a buffer of 17 bytes | `PtrIsLength`, `PrintsItsMeaning`, `KeepsToBuffer`, `NothingIsCut`, `Ends` |
| `vmm` | tables of two entries, sixteen virtual pages, a pool of fourteen; four layouts, among them one with memory beyond 2 GiB and one too large for the pool | `TypeOK`, `TablesAreTrees`, `DirectMapHolds`, `ImplementsSpaces` |
| `kernel` | the timer, line 1 and line 8, the last two noisy; an NMI or a breakpoint besides failing asserts; two pages for `init_vmm`; drivers with names of two and of four letters | `TypeOK`, `HeapExclusive`, `LogsOwnName`, `LogsAreSeen`, `AssertsAreCaught`, `EoiEndsItsOwn`, `PanicIsFinal`, `Acknowledged`, `HeldTicksCome`, `BootCompletes` |

Four more runs end in a counterexample, one for each place where the code does
not do what it says:

| run | what it shows |
| --- | --- |
| `pmm_bitmap_granted` | `init_pmm` frees the bitmap's own pages (`pmm.c:125`), so `alloc_pmm` hands them out |
| `bootinfo_reported` | the memory-map tag falls through to "Unknown identifier" (`bootinfo.c:82`) |
| `vmm_user` | `0x5 \| (is_user << 1)` is Present + User, not Present + Writeable (`vmm.c:72`) |
| `vmm_present` | `is_present_vmm` returns false at a level that IS present (`vmm.c:108`) |

Bounds. `MaxPage`: enough for two regions, a hole between them and the bitmap in
or out of reach of the search. `PAGE_SIZE` 2 or 3: small, so that a bitmap has
more than one page and that the boundaries of rounding are all met. `Counts`: 0
never ends a pass, 2 and 3 overrun the run found. `MaxHolders` 2: one more than
is ever right; it bounds the multi-page run, and in the single-page runs it is
never reached. `Writes`: a zeroed page and one with some bits set. `MaxSpaces`
2: the kernel's and one more, so that spaces can disturb each other. `Pool`: a
tree with two entries a table takes almost a table for each page mapped, so the
pages of the pool are numbered apart from those that are mapped; fourteen are
enough for each layout but the one that is meant to run out. `WORD` is the
width of `free_memory`, which wraps. `Arenas`: three majors are enough for the
best bet to be in the middle of the list and for a gap on either side of it; the
headers are of three and four bytes, so that alignment matters. `UINT` 64: of the
requests 46 is the first whose major an `unsigned int` does not count in whole pages
(its size becomes 0), and 79 is cut short itself: its major has four pages, too
few for it, which later calls fill with small blocks when it is refused another.
`MaxStrings` 3: with their newlines they reach the bottom of the screen.
`MaxExceptions` 2: the handler interrupted in its own output.
`LIMIT_MEMORY_MAP_SIZE` 4: two tags of three entries or less can overrun it, one
cannot. `Lines`: the timer comes first of all, line 1 is of the master, line 8 is
the first of the slave, at the boundary of the handler's test. `MaxPanics` 1: one
exception from outside, on top of one assert; that exceptions on top of panics
change nothing, to any depth, is proved (`Kernel_proofs`). `TICKS` 2 tells a tick counted
from one that is not. `LENGTH` 6: a byte more than the longest name and its NUL.
`LOCKS` 4: a `lock_queue` that has wrapped is neither 0 nor 1.

`Format` assumes weak fairness of its next step, since it is a loop that runs by
itself, and claims that it ends (`Ends`). `Kernel` assumes it of the processor -
which executes the program, the handlers and the acknowledgement of interrupts -
and of the serial port's transmitter, which `putc_serial` waits for; that a
device ever asks for service, or anyone calls the heap, is not assumed. It
claims `BootCompletes`, `Acknowledged` and `HeldTicksCome`; the last two except
in a panic, which is the end. Nowhere else is fairness assumed or liveness
claimed: the managers do what they are asked, within the call. Deadlock is
checked in every run; a halted kernel (`Halted`, `Stopped`), like a parser that
has returned and the loop of `bootstrap` (`loops`), stutters.

## Proofs

`PMM_proofs`, over all values of the constants:

* `TypeCorrect`: `Spec => []TypeOK`, with `TypeInv` (the type and what boot
  establishes) as inductive invariant. It bounds the live grants of a page and keeps
  the cursor on a page of memory as long as no grant has run past the last one.
* `GrantsStayInMemory`: no grant does, whatever was marked, freed or overwritten
  before, on a machine with as many pages behind `usable_pages` as the longest
  request asks for, less two. For requests of one page that is no more than what
  `BootInfosAssumption` says.
* `GrantsAreExclusive`, `NoPageIsLost`, `BitmapAboveReachIsSafe`: the three
  invariants of `pmm_single`, for callers that ask for single pages
  (`SinglePages`: `Counts = {1}`, no `set_used_pmm`) - as those of `vmm.c` do but for
  `alloc_vmm` (`vmm.c:257`), which asks for what its own caller does and has none.
  They hold together: `SingleInv` conjoins them with the facts that nothing is
  held before boot and that what is held lies below `usable_pages`. Exclusiveness
  needs conservation (a free bit is no holder's) and conservation needs
  exclusiveness (a freed page has no other holder), hence one invariant.
* `PMMImplementsAllocator`: under the same assumption every behaviour of `PMM`
  is one of `PageAllocator`, with the pool being what `init_pmm` cleared and the
  search reaches. A step of the abstract `Refuse` needs the search to have
  failed on every page from 0: this is where the wrap-around counts.
* `SearchFindsFirstRun` and `GrantsFollowFreeRuns`: the other two properties of
  `pmm_runs`, for requests of any size and all callers. The loop is a recursive
  function of page and count, and it is shown to have one solution: `Hits` says
  at which pages the count of a pass becomes `count`, a turn of the loop
  leaves the first hit as it is (`HitsTurn`), and two solutions agree from the
  last page downwards (`PassFinds`).

They rest on the ASSUMEs of `AddrRange` and `PMM`. `BootInfosAssumption` says
that the map, the bitmap and the pages that are searched lie in the pages modelled,
and that the bitmap has a bit for each: where a machine breaks it `init_pmm` writes
outside its bitmap and no statement about the bitmap means anything. Grants may run
past those pages. TLC
evaluates them on every run.

`Kernel_proofs`, for all lines, drivers, faults, tables and depths of nesting:

* `KernelTypeCorrect`, `LockedHeapIsAlone`, `LinesAreNamed`, `LinesAreSeen`,
  `AssertsFindAHandler`: the five invariants of the run `kernel`.
* `AcknowledgementsAreTheirOwn`, `PanicsAreFinal`: its two action properties.
* `CopiedString`, on which `LinesAreNamed` rests: `strcpy` copies no NUL, so a
  string is read back as it was written when the buffer has a NUL where its own
  would be.

The inductive invariant has two halves. `StackInv` says which frame can lie on
which: above the frame of an interrupt, and above a halted one, there are only
exceptions that came with the flag off; this is what makes the handler's end of
interrupt its own and a panic final. `Progress` says, for what is left of `todo`,
what is ready, named and locked by then: the steps left are always a suffix of
one of a few programs. Neither is inductive alone: a handler must find the
kernel set up (or a line would find no gate), and the main program must find its
flag as it left it. They meet in `Interruptible`: an interrupt finds the boot done and
the heap unlocked, or does not come. `KernelAssumption` has a name's buffer longer
than the three letters of the modules of the repository: 512 bytes in the code.

`Heap_proofs`, for all sizes of header, page and alignment, any number of arenas,
and requests whose majors an `unsigned int` can count (`Small`: every theorem assumes
it, and of requests that are not the run `heap` says what is left):

* `StaysSane`: the inductive invariant, `Sane` of the heap. Its parts are `Typed`,
  `Listed` (no major twice, none empty, the best bet is one), `Separate` (each
  block in its major, beside the others) and `Counted` (the accounts are sums).
* `NothingOutgrown`: no such request is given a major too small for it, so the
  model never stops. Every size that is written down is then what it was, which is
  what the remaining theorems need of `Small`.
* `MinorsStayApart`, `UsageStaysExact`, `MajorsStayInUse`, `MajorsAreNeeded`: other
  properties of the run `heap`. `HeapImplementsBlocks`: every step maps to one of
  `Blocks` or a stutter.

What a call does is told apart first (`MallocDoes`: it refuses, places a block in
a gap, or extends the list; `FreeDoes`: the major is kept or given back), and each
part is then shown to outlast each case. `Separate` needs `Listed`: blocks of two
majors are apart because the majors are. `NoNeedlessMajor` is the deep one. The
search does not look into a major that has too few bytes free, so a gap it missed
is ruled out by arithmetic: the blocks and the gap cannot be more than the major
holds, and that the account says how much the blocks are is `Counted`. The proofs rest on
`SizesAssumption` and `ArenasAssumption` (what `liballoc_alloc` returns does not
overlap what it returned before).

`FiniteLemmas`: sums over finite sets, least elements, division, loops. The induction
theorems of the library take an operator and cannot be used, so what needs
induction is proved by a smallest counterexample: `SmallestSet` gives a set of
least cardinality in any nonempty collection of finite sets.

`VMM_proofs`, for tables of any width, any pool, any windows below the direct
mapping, any ranges to free and every map of the bootloader:

* `VMMTyped`, `VMMKeepsTrees`, `VMMKeepsDirectMap`: the three invariants of the
  run `vmm`.
* `VMMImplementsSpaces`: its refinement of `AddressSpaces`, step by step:
  `init_vmm` and all its mappings but the last are stutters, the last is `Boot`,
  `alloc_plm4` is `Create`, `alloc_vmm` is `Map`, `free_vmm` is a stutter.

The inductive invariant is that the tables form a forest (`Forest`): there are
four levels `L[3]` (the spaces) to `L[0]`, apart from each other and from the
callers' pages; the present entries of each lead one to one onto the next; and
together they are what was granted. `TablesAreTrees` counts links instead, which
is not inductive: equal numbers do not say which table a new link may share.
From the forest `WalksMeet`: two walks that reach one page table began at one
root and at one page but for the last index. So a store into a page table
changes one translation (`StoringMaps`), and a fresh table hung from an absent
entry changes none (`HangingKeepsMaps`).

Every function of `vmm.c` is told by a lemma from those two (`WalkKeeps`,
`MapDoes`, `FreeRangeDoes`, `SearchDoes`, `PlacedDoes`), every action by one
from those (`StepDoes`). Loops are recursive functions over a sequence, and what
they do is a statement on their states: `LoopRuns` (of `FiniteLemmas`) gives the
states, `LoopKeeps` carries what each turn preserves to the end, by the least turn
at which it would fail. That `is_present_vmm` never answers yes (`WalkKeeps`; its run
`vmm_present` is the finding) is what makes `free_vmm` change no translation
and `alloc_vmm` map the first page of its window each time.

`DirectMapHolds` needs the order of `init_vmm`'s mappings: a page is `Settled` by
the first `n` of them when one maps it to its frame and no later one elsewhere.
`MapsInv` says that some `n` of them are made, the rest is `todo`, and the
kernel's space follows what those settle: all of it during `init_vmm`, and above
`MEM_PHYS_OFFSET` ever after, because `alloc_vmm`'s windows lie below. That the
whole settles each page of the map (`BootMapsSettle`) is where an entry's second
mapping of the kernel must be kept apart (`Overmapped`).

They rest on four ASSUMEs of `VMM`, evaluated by TLC in every run of it. Tables
have at least one entry; the pool is finite and not empty. `LayoutAssumption`:
the windows begin below the direct mapping, as 4 MiB and 1 GiB do below
0xffffffff80000000 (`vmm.c`, `vmm.h`), and the kernel is linked above it
(`link.ld`). `BootInfosAssumption`: physical pages lie in the 48 bits of a virtual
address, those of the kernel when shifted by 1 MiB too; a machine has no memory
beyond that. Nothing is assumed of the order of entries, or that they do not overlap.

`BootInfo_proofs`, for every list of tags, any entries, any number of slots and any
page size:

* `AlignRangeCovers` (the result of `align_range` is aligned and contains its
  argument) and `AlignRangePadsAligned` (an aligned range always grows by a page).
* `BootInfoTyped`, `MapCompleteAlways`, `PoolIsUsablePlusOneAlways`,
  `FieldsComeFromTagsAlways`: the four invariants of the run `bootinfo`.

`MapIsComplete` speaks of lists that fit in `mmap` and says what it holds, not how
it came about, so it is not inductive. The inductive invariant `Inv` is that the
map is the one the entries given so far are parsed to (`Parsed`, in closed form:
the sum of the usable lengths, that sum in pages, each entry rounded), and each
field what the latest tag for it said. That `stivale2_parse_mmap`, the loop, takes
`Parsed` of some entries to `Parsed` of those and its own is `MapParsed`: the closed
form is shown to satisfy the recursion, and what satisfies it is unique
(`SameValues`). `PoolIsUsablePlusOne` is then arithmetic: an entry rounded outwards
spans the pages from that of its first byte to that of its end (`RoundedSpan`),
all of which but the last hold a byte of it (`PageIsTouched`). The only
assumptions are that a list of tags is a sequence, with entries in its map tags,
and that there is a slot.

`Console_proofs`, for all strings as `TextsAssumption` has them, any font, any
screen, any number of strings and exceptions:

* `ConsoleTyped`, `ColourFollowsTextAlways`, `CursorFollowsTextAlways`,
  `NumberFitsAlways`: the four invariants of the run `console`.

They speak of the colour and the cursor at each character, but not of the machine that
leads there, so they are not inductive. The inductive invariant `Inv` adds that
the machine and its buffer are functions of the text so far (`said`): `OpenIn` has
the sequences it has begun and not ended, `Machine` gives the state from them,
`Buffered` the digits in `nbr` and their number. That what is left to print
completes the text to one of `Strings` (`Reading`) says what can come next: in a
sequence only '[', a digit that fits, or 'm' (`OpenIs`). So `putc_fb` has five
things to do (`PutcDoes`), and each is matched with what the character does to the
definition: `ColourNext` for `ColourOf`, which looks for the last of all
sequences, and `LineNext` for the sets of newlines and drawn characters. `Unbroken`
holds only until an exception, which leaves digits in the buffer; `ptr` then counts
past the buffer, by the one digit after which the model is `Lost`. `Machine` and the
cursor hold of the panic's own strings again, since `printf_fb` resets `state`.

`Format_proofs`, for every call made of pieces, any texts, widths and words, any size
of the buffer, and any size of a word that `HalfAssumption` allows:

* `PtrIsLengthAlways`, `KeepsToBufferAlways`, `NothingIsCutAlways`,
  `PrintsItsMeaningAlways`: the four invariants of the run `format`.

None is inductive: two of them speak of the end of the format only. The
inductive invariant, `IInv` (`AccountsAlways`), is that there are a list of pieces
and a text with which everything adds up: the buffer holds the text and NULs behind
it, `ptr` is its length, `format` and `ap` are what the pieces put there - from their
start, from behind a `%`, or from behind a width (`Awaits`) - and a plain call
ought to print the text and then what the pieces ought to print, any call takes the
room of the text and of those pieces, and outgrows `itoa`'s arrays only if one of
them does (`Promises`). A store that has left the buffer ends all of that but not
`KeepsToBuffer`, which is therefore a part of `IInv` of its own, as is what it says of
plain calls (`PlainKeeps`). `PieceDone` is the step: what is stored behind the
text is what the first piece ought to print or has its length, and the list loses
that piece.

How long a number is, is `ItoaLength`, signs and halves included. That it is right is
`PlainNumber`, where `itoa`'s loop and the definition by division meet. The loop is a recursive function over all naturals;
`LowestFirstIs` gives its digits in closed form, by the least number on which
the two differ. `PlaceCount` is what it takes to pass n with powers (`CountUnique`).
A negative number in base 16 is printed in halves, and these make the whole when
the low one has all its digits (`HalvesJoin`): this is why a low half that begins
with a zero is not plain. Widths are read by `atoi` (`DigitsAreNatural`) from where the
numerals end (`WidthEnds`).

Only model-checked: the liveness of `Kernel` and `Format` (`Acknowledged`,
`HeldTicksCome`, `BootCompletes`, `Ends`), which the provers cannot do; the heap
under huge requests, and with it `OutgrowsOnlyHuge`, of which `NothingOutgrown` is
the part without them; and the four runs that end in a counterexample. `BootInfosAssumption` of `PMM` and `VMM` states what
their proofs need of the parser's result, of which TLC's instances are made.

## Not modelled

The bits of segment and gate descriptors, the bytes `init_serial` writes, port
I/O, fonts and build scripts: constants, straight-line stores or no kernel state.
Wording of messages. `load_cr3`, which as written reads the register and changes
nothing. The heap's tests for a damaged block: callers keep to their blocks.
Pixels. The walk along the frames that a panic prints, which ends when the chain
of frames does. Requests of several pages to `alloc_vmm`.

Two hazards of the boot have no property, because what they destroy is not in
the source: the stack is one page (`bootstrap.c:59`) and each of `printf_serial`,
`printf_fb` and `log_debug` keeps 4096 bytes on it; and `config` is a pointer that
is never given storage, so the console's configuration lies at address 0.

## Plan

Every invariant and safety property of a passing run is proved but `OutgrowsOnlyHuge`.
What is left is that one, and the others of the heap without `Small`, where a major may
seem to have less than nothing free; to prove `BootInfosAssumption` of `stivale2_parse_mmap`, as
far as it is not about the machine; and to join the proofs of `PMM` and `VMM` into
one about requests of a page from a bitmap that lies in the memory it describes.
