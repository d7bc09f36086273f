----------------------------- MODULE PMM_proofs -----------------------------
(***************************************************************************)
(* Proofs about the physical page allocator.  What a grant is and when it  *)
(* stays in memory hold for requests of any size.  Exclusive grants,       *)
(* conservation of pages and the refinement of PageAllocator hold for      *)
(* callers that ask for one page at a time and do not call set_used_pmm,   *)
(* as all that is called in kernel/mem does.                               *)
(***************************************************************************)
EXTENDS PMM, FiniteLemmas, FiniteSetTheorems

(* What init_pmm leaves in the static variables.                           *)
Booted ==
  phase = "ready" => /\ usable_pages = info.usable_pages
                     /\ bitmap \in BitmapBase(info)
                     /\ bitmap # NULL

TypeInv == TypeOK /\ Booted

-----------------------------------------------------------------------------
(* The pages pmm.c walks for a run of n pages starting at page p.          *)
LEMMA PageSpanOfRun ==
  ASSUME NEW p \in Nat, NEW n \in Nat
  PROVE  PageSpan([base |-> p * PAGE_SIZE, length |-> n * PAGE_SIZE]) = p .. (p + n - 1)
<1>1. (PAGE_SIZE * p) \div PAGE_SIZE = p /\ (PAGE_SIZE * n) \div PAGE_SIZE = n
  BY MultipleDiv, PageSizeAssumption
<1>2. p * PAGE_SIZE = PAGE_SIZE * p /\ n * PAGE_SIZE = PAGE_SIZE * n
  BY PageSizeAssumption
<1>. QED
  BY <1>1, <1>2 DEF PageSpan

(* The bitmap lies at an address.                                          *)
LEMMA BaseIsNat ==
  ASSUME NEW boot \in BootInfos, NEW base \in BitmapBase(boot)
  PROVE  base \in Nat
<1>1. PICK k \in Fitting(boot) : base = boot.mmap[k].range.base
  BY DEF BitmapBase
<1>2. k \in DOMAIN boot.mmap
  BY DEF Fitting, UsableEntries
<1>3. boot.mmap \in Seq(MmapEntries)
  BY BootInfosAssumption
<1>4. boot.mmap[k] \in MmapEntries
  BY <1>2, <1>3
<1>. QED
  BY <1>1, <1>4 DEF MmapEntries, AddrRanges

(* What init_pmm frees are pages of memory.                                *)
LEMMA FreeAtBootInPages ==
  ASSUME NEW boot \in BootInfos, NEW base \in BitmapBase(boot)
  PROVE  FreeAtBoot(base, boot) \subseteq Pages
BY BootInfosAssumption DEF FreeAtBoot

(* What the search returns: a clear page below usable_pages.               *)
LEMMA FoundPage ==
  ASSUME TypeOK, NEW count \in Nat, NEW page \in Found(count)
  PROVE  /\ count > 0
         /\ page \in Nat /\ page < usable_pages
         /\ page \notin marked
<1>1. PICK start \in {0, last_free_page} : page \in FreeRunEnds(start, count)
  BY DEF Found
<1>2. start \in Nat
  BY MaxPageAssumption DEF TypeOK, Pages
<1>3. /\ page \in start .. (usable_pages - 1)
      /\ count > 0
      /\ \A p \in (page - count + 1) .. page : p \notin marked
  BY <1>1 DEF FreeRunEnds
<1>4. usable_pages \in Nat
  BY DEF TypeOK
<1>5. page \in (page - count + 1) .. page
  BY <1>2, <1>3, <1>4
<1>. QED
  BY <1>2, <1>3, <1>4, <1>5

(* The page found is a page of memory, and so are those after it where     *)
(* there are enough of them.                                               *)
LEMMA GrantInPages ==
  ASSUME TypeInv, phase = "ready", NEW count \in Counts, NEW page \in Found(count)
  PROVE  /\ page \in Pages /\ page + count - 1 \in Nat
         /\ page .. (page + count - 1) \subseteq Pages =>
              page + count - 1 \in Pages
         /\ usable_pages + count - 2 <= MaxPage =>
              page .. (page + count - 1) \subseteq Pages
<1>1. count \in Nat
  BY CountsAssumption
<1>2. page \in Nat /\ page < usable_pages /\ count > 0
  BY <1>1, FoundPage DEF TypeInv
<1>3. usable_pages = info.usable_pages /\ info \in BootInfos
  BY DEF TypeInv, Booted, TypeOK
<1>4. usable_pages \in Nat /\ usable_pages <= MaxPage + 1
  BY <1>3, BootInfosAssumption
<1>5. page + count - 1 \in page .. (page + count - 1)
  BY <1>1, <1>2
<1>. QED
  BY <1>1, <1>2, <1>4, <1>5, MaxPageAssumption DEF Pages

(* A set of pages can be counted.                                          *)
LEMMA FiniteInPages ==
  ASSUME NEW S \in SUBSET Pages
  PROVE  Cardinality(S) \in Nat
<1>1. IsFiniteSet(Pages)
  BY FS_Interval, MaxPageAssumption DEF Pages
<1>2. IsFiniteSet(S)
  BY <1>1, FS_Subset
<1>. QED
  BY <1>2, FS_CardinalityType

(* A counter of WORD values stays one.                                     *)
LEMMA WordMod ==
  ASSUME NEW n \in Int
  PROVE  n % WORD \in 0 .. (WORD - 1)
BY WordAssumption

-----------------------------------------------------------------------------
(* The type invariant holds before init_pmm.                               *)
LEMMA InitTypeInv == Init => TypeInv
<1>. SUFFICES ASSUME Init PROVE TypeInv
  OBVIOUS
<1>1. 0 \in Pages /\ 0 \in 0 .. (WORD - 1) /\ 0 \in 0 .. MaxHolders
  BY MaxPageAssumption, WordAssumption, MaxHoldersAssumption DEF Pages
<1>2. holders \in [Pages -> 0 .. MaxHolders]
  BY <1>1 DEF Init
<1>. QED
  BY <1>1, <1>2 DEF Init, TypeInv, TypeOK, Booted, NULL

(* Every call keeps the type invariant.                                    *)
LEMMA NextTypeInv == TypeInv /\ [Next]_vars => TypeInv'
<1>. SUFFICES ASSUME TypeInv, [Next]_vars PROVE TypeInv'
  OBVIOUS
<1>. USE DEF TypeInv
<1>1. CASE init_pmm_ok
  <2>1. PICK base \in BitmapBase(info) :
          base # NULL /\ bitmap' = base /\ marked' = Pages \ FreeAtBoot(base, info)
    BY <1>1 DEF init_pmm_ok
  <2>2. base \in Nat
    BY <2>1, BaseIsNat DEF TypeOK
  <2>3. UsableBytes(info) \in Nat /\ info.usable_pages \in Nat
    BY BootInfosAssumption DEF TypeOK
  <2>4. free_memory' \in 0 .. (WORD - 1)
    BY <1>1, <2>3, WordMod DEF init_pmm_ok
  <2>5. TypeOK'
    BY <1>1, <2>1, <2>2, <2>3, <2>4 DEF init_pmm_ok, TypeOK
  <2>6. Booted'
    BY <1>1, <2>1 DEF init_pmm_ok, Booted
  <2>. QED
    BY <2>5, <2>6
<1>2. CASE init_pmm_no_bitmap
  <2>1. info.usable_pages \in Nat
    BY BootInfosAssumption DEF TypeOK
  <2>. QED
    BY <1>2, <2>1 DEF init_pmm_no_bitmap, Halt, TypeOK, Booted
<1>3. ASSUME NEW count \in Counts, alloc_pmm_grant(count)
      PROVE  TypeInv'
  <2>1. PICK page \in Found(count) :
          /\ \A p \in (page .. (page + count - 1)) \cap Pages : holders[p] < MaxHolders
          /\ marked' = marked \cup ((page .. (page + count - 1)) \cap Pages)
          /\ last_free_page' = page + count - 1
          /\ holders' = [p \in Pages |-> IF p \in page .. (page + count - 1)
                                         THEN holders[p] + 1 ELSE holders[p]]
          /\ astray' = (astray \/ ~(page .. (page + count - 1) \subseteq Pages))
    BY <1>3 DEF alloc_pmm_grant, LastMarked
  <2>2. /\ page + count - 1 \in Nat
        /\ page .. (page + count - 1) \subseteq Pages => page + count - 1 \in Pages
    BY <1>3, GrantInPages DEF alloc_pmm_grant
  <2>3. holders' \in [Pages -> 0 .. MaxHolders]
    BY <2>1, MaxHoldersAssumption DEF TypeOK
  <2>4. last_free_page' \in Nat /\ (last_free_page' \in Pages \/ astray')
    BY <2>1, <2>2
  <2>5. astray' \in BOOLEAN
    BY <2>1 DEF TypeOK
  <2>6. TypeOK'
    BY <1>3, <2>1, <2>3, <2>4, <2>5 DEF alloc_pmm_grant, TypeOK
  <2>7. Booted'
    BY <1>3 DEF alloc_pmm_grant, Booted
  <2>. QED
    BY <2>6, <2>7
<1>4. ASSUME NEW count \in Counts, alloc_pmm_exhausted(count)
      PROVE  TypeInv'
  BY <1>4, MaxPageAssumption DEF alloc_pmm_exhausted, Halt, TypeOK, Booted, Pages
<1>5. ASSUME NEW range, free_pmm(range)
      PROVE  TypeInv'
  <2>1. \A p \in Pages : p \in PageSpan(range) => holders[p] > 0
    BY <1>5 DEF free_pmm, Owns, Held
  <2>2. holders' = [p \in Pages |-> IF p \in PageSpan(range) THEN holders[p] - 1
                                                            ELSE holders[p]]
    BY <1>5 DEF free_pmm
  <2>3. holders' \in [Pages -> 0 .. MaxHolders]
    BY <2>1, <2>2, MaxHoldersAssumption DEF TypeOK
  <2>. QED
    BY <1>5, <2>3 DEF free_pmm, TypeOK, Booted
<1>6. ASSUME NEW range \in UsedRanges, set_used_pmm(range)
      PROVE  TypeInv'
  <2>1. PICK hit \in SUBSET Visited(range) :
          /\ marked' = marked \cup hit
          /\ free_memory' = (free_memory - PAGE_SIZE * Cardinality(hit)) % WORD
          /\ UNCHANGED last_free_page \/ \E last \in hit : last_free_page' = last
    BY <1>6 DEF set_used_pmm
  <2>2. hit \subseteq Pages
    BY <2>1, UsedRangesAssumption DEF Visited
  <2>3. Cardinality(hit) \in Nat
    BY <2>2, FiniteInPages
  <2>4. free_memory - PAGE_SIZE * Cardinality(hit) \in Int
    BY <2>3, PageSizeAssumption, WordAssumption DEF TypeOK
  <2>5. free_memory' \in 0 .. (WORD - 1)
    BY <2>1, <2>4, WordMod
  <2>6. last_free_page' \in Nat /\ (last_free_page' \in Pages \/ astray)
    BY <2>1, <2>2, MaxPageAssumption DEF TypeOK, Pages
  <2>. QED
    BY <1>6, <2>1, <2>2, <2>5, <2>6 DEF set_used_pmm, TypeOK, Booted
<1>7. ASSUME NEW range \in UsedRanges, set_used_pmm_unaligned(range)
      PROVE  TypeInv'
  BY <1>7 DEF set_used_pmm_unaligned, Halt, TypeOK, Booted
<1>8. ASSUME NEW frame \in Pages, NEW bits \in Writes, ClientWrite(frame, bits)
      PROVE  TypeInv'
  <2>1. bits \subseteq Pages
    BY WritesAssumption
  <2>. QED
    BY <1>8, <2>1 DEF ClientWrite, TypeOK, Booted
<1>9. CASE UNCHANGED vars
  BY <1>9 DEF vars, TypeOK, Booted
<1>. QED
  BY <1>1, <1>2, <1>3, <1>4, <1>5, <1>6, <1>7, <1>8, <1>9 DEF Next, Halted

(* Every call keeps the types, and the cursor set_pmm leaves behind is a   *)
(* page as long as no grant has run past the last one.                     *)
THEOREM TypeCorrect == Spec => []TypeOK
<1>. QED
  BY InitTypeInv, NextTypeInv, PTL DEF Spec, TypeInv

(* What init_pmm was told decides whether a grant can run past memory.     *)
GrantsFit == phase # "boot" => usable_pages = info.usable_pages

InMemory == GrantsInMemory /\ GrantsFit /\ (phase = "boot" => ~astray)

(* On a machine with enough pages past usable_pages every page alloc_pmm   *)
(* grants is memory, whatever its callers ask for, free, mark or write.    *)
THEOREM GrantsStayInMemory == Spec => []GrantsInMemory
<1>1. Init => InMemory
  BY DEF Init, InMemory, GrantsInMemory, GrantsFit
<1>2. TypeInv /\ InMemory /\ [Next]_vars => InMemory'
  <2>. SUFFICES ASSUME TypeInv, InMemory, [Next]_vars PROVE InMemory'
    OBVIOUS
  <2>1. ASSUME NEW count \in Counts, alloc_pmm_grant(count) PROVE InMemory'
    <3>1. PICK page \in Found(count) :
            astray' = (astray \/ ~(page .. (page + count - 1) \subseteq Pages))
      BY <2>1 DEF alloc_pmm_grant
    <3>2. UNCHANGED <<phase, info, usable_pages>> /\ phase = "ready"
      BY <2>1 DEF alloc_pmm_grant
    <3>3. (\A n \in Counts : usable_pages + n - 2 <= MaxPage) => ~astray'
      BY <3>1, <3>2, GrantInPages DEF InMemory, GrantsInMemory
    <3>. QED
      BY <3>2, <3>3 DEF InMemory, GrantsInMemory, GrantsFit
  <2>2. CASE init_pmm_ok \/ init_pmm_no_bitmap
    BY <2>2 DEF init_pmm_ok, init_pmm_no_bitmap, Halt, InMemory, GrantsInMemory, GrantsFit
  <2>3. ASSUME UNCHANGED <<info, usable_pages, astray>>, phase # "boot" \/ phase' = phase,
               phase' # "boot" \/ phase' = phase
        PROVE  InMemory'
    BY <2>3 DEF InMemory, GrantsInMemory, GrantsFit
  <2>. QED
    BY <2>1, <2>2, <2>3
    DEF Next, alloc_pmm_exhausted, free_pmm, set_used_pmm, set_used_pmm_unaligned,
        ClientWrite, Halted, Halt, vars
<1>3. InMemory => GrantsInMemory
  BY DEF InMemory
<1>. QED
  BY <1>1, <1>2, <1>3, InitTypeInv, NextTypeInv, PTL DEF Spec

-----------------------------------------------------------------------------
(* Callers that ask for one page at a time, and no caller of set_used_pmm. *)
(* Nothing is held before init_pmm; after it, until a bitmap page has been *)
(* written, a held page is held once, has its bit set and is in reach, and *)
(* no page is lost.                                                        *)
SinglePages == Counts = {1} /\ UsedRanges = {}

NothingHeldAtBoot ==
  phase = "boot" => bitmap = NULL /\ Held = {} /\ ~clobbered

HeldInReach ==
  phase = "ready" /\ ~clobbered => \A p \in Held : p < usable_pages

SingleInv ==
  /\ TypeInv
  /\ NothingHeldAtBoot
  /\ HeldExclusively
  /\ PagesConserved
  /\ HeldInReach
  /\ SafeOutOfReach

(* Before init_pmm nothing is granted.                                     *)
LEMMA InitSingleInv == Init => SingleInv
<1>. SUFFICES ASSUME Init PROVE SingleInv
  OBVIOUS
<1>1. Held = {} /\ \A p \in Pages : holders[p] = 0
  BY DEF Init, Held
<1>. QED
  BY <1>1, InitTypeInv
  DEF Init, SingleInv, NothingHeldAtBoot, HeldExclusively, PagesConserved, HeldInReach,
      SafeOutOfReach

(* A grant of one page, as the callers see it.                             *)
LEMMA GrantStep ==
  ASSUME SinglePages, TypeInv, TypeInv', HeldExclusively, PagesConserved, ~clobbered,
         alloc_pmm_grant(1)
  PROVE  \E page \in Pages :
           /\ page < usable_pages
           /\ page \notin marked /\ page \notin Held
           /\ page \in FreeAtBoot(bitmap, info)
           /\ marked' = marked \cup {page}
           /\ Held' = Held \cup {page}
           /\ holders' = [p \in Pages |-> IF p = page THEN holders[p] + 1 ELSE holders[p]]
           /\ holders[page] = 0
<1>1. PICK page \in Found(1) :
        /\ marked' = marked \cup ((page .. (page + 1 - 1)) \cap Pages)
        /\ holders' = [p \in Pages |-> IF p \in page .. (page + 1 - 1)
                                       THEN holders[p] + 1 ELSE holders[p]]
        /\ last_free_page' = page + 1 - 1
  BY DEF alloc_pmm_grant, LastMarked
<1>2. page \in Nat /\ page < usable_pages /\ page \notin marked
  BY FoundPage DEF TypeInv
<1>3. page .. (page + 1 - 1) = {page} /\ page + 1 - 1 = page
  BY <1>2
<1>4. page \in Pages
  <2>. 1 \in Counts
    BY DEF SinglePages
  <2>. QED
    BY GrantInPages DEF alloc_pmm_grant
<1>5. page \notin Held
  BY <1>2 DEF HeldExclusively
<1>6. holders[page] = 0
  BY <1>4, <1>5, MaxHoldersAssumption DEF Held, TypeInv, TypeOK
<1>7. page \in FreeAtBoot(bitmap, info)
  BY <1>2, <1>4 DEF PagesConserved, alloc_pmm_grant
<1>8. /\ marked' = marked \cup {page}
      /\ holders' = [p \in Pages |-> IF p = page THEN holders[p] + 1 ELSE holders[p]]
  BY <1>1, <1>3, <1>4
<1>9. Held' = Held \cup {page}
  BY <1>4, <1>6, <1>8 DEF Held
<1>. QED
  BY <1>2, <1>4, <1>5, <1>6, <1>7, <1>8, <1>9

(* Freeing one page that is held once.                                     *)
LEMMA FreeStep ==
  ASSUME TypeInv, HeldExclusively, ~clobbered,
         NEW page \in Pages, free_pmm(PageRun(page, 1))
  PROVE  /\ page \in Held
         /\ marked' = marked \ {page}
         /\ Held' = Held \ {page}
         /\ holders' = [p \in Pages |-> IF p = page THEN holders[p] - 1 ELSE holders[p]]
<1>1. page \in Nat /\ page .. (page + 1 - 1) = {page}
  BY MaxPageAssumption DEF Pages
<1>2. PageSpan(PageRun(page, 1)) = {page}
  BY <1>1, PageSpanOfRun DEF PageRun
<1>3. /\ page \in Held
      /\ marked' = marked \ {page}
      /\ holders' = [p \in Pages |-> IF p = page THEN holders[p] - 1 ELSE holders[p]]
  BY <1>2 DEF free_pmm, Owns
<1>4. holders[page] = 1
  BY <1>3, MaxHoldersAssumption DEF HeldExclusively, Held, TypeInv, TypeOK
<1>5. Held' = Held \ {page}
  BY <1>3, <1>4 DEF Held
<1>. QED
  BY <1>3, <1>5

(* Every call by callers who ask for one page keeps the invariant.         *)
LEMMA NextSingleInv ==
  ASSUME SinglePages, SingleInv, [Next]_vars
  PROVE  SingleInv'
<1>. USE DEF SingleInv
<1>0. TypeInv'
  BY NextTypeInv
<1>1. CASE init_pmm_ok
  <2>1. PICK base \in BitmapBase(info) :
          bitmap' = base /\ marked' = Pages \ FreeAtBoot(base, info)
    BY <1>1 DEF init_pmm_ok
  <2>2. Held' = {} /\ \A p \in Pages : holders'[p] = 0
    <3>1. holders \in [Pages -> 0 .. MaxHolders] /\ Held = {}
      BY <1>1 DEF init_pmm_ok, NothingHeldAtBoot, TypeInv, TypeOK
    <3>2. \A p \in Pages : holders[p] = 0
      BY <3>1, MaxHoldersAssumption DEF Held
    <3>. QED
      BY <1>1, <3>2 DEF init_pmm_ok, Held
  <2>3. ~clobbered' /\ phase' = "ready" /\ info' = info
    BY <1>1 DEF init_pmm_ok, NothingHeldAtBoot
  <2>4. FreeAtBoot(base, info) \subseteq Pages
    BY FreeAtBootInPages DEF TypeInv, TypeOK
  <2>5. PagesConserved'
    BY <2>1, <2>2, <2>3, <2>4 DEF PagesConserved
  <2>. QED
    BY <1>0, <2>2, <2>3, <2>5
    DEF NothingHeldAtBoot, HeldExclusively, HeldInReach, SafeOutOfReach
<1>2. CASE init_pmm_no_bitmap
  <2>1. phase' = "halted" /\ UNCHANGED <<info, bitmap, marked, holders, clobbered>>
    BY <1>2 DEF init_pmm_no_bitmap, Halt
  <2>2. UNCHANGED Held
    BY <2>1 DEF Held
  <2>. QED
    BY <1>0, <2>1, <2>2
    DEF NothingHeldAtBoot, HeldExclusively, PagesConserved, HeldInReach, SafeOutOfReach
<1>3. CASE alloc_pmm_grant(1)
  <2>1. /\ phase' = "ready" /\ phase = "ready"
        /\ UNCHANGED <<info, bitmap, usable_pages, clobbered>>
    BY <1>3 DEF alloc_pmm_grant, LastMarked
  <2>2. SafeOutOfReach'
    BY <2>1 DEF SafeOutOfReach, BitmapFrames
  <2>3. CASE clobbered
    BY <1>0, <2>1, <2>2, <2>3
    DEF NothingHeldAtBoot, HeldExclusively, PagesConserved, HeldInReach
  <2>4. CASE ~clobbered
    <3>1. PICK page \in Pages :
            /\ page < usable_pages
            /\ page \in FreeAtBoot(bitmap, info)
            /\ marked' = marked \cup {page}
            /\ Held' = Held \cup {page}
            /\ holders' = [p \in Pages |-> IF p = page THEN holders[p] + 1 ELSE holders[p]]
            /\ holders[page] = 0
      BY <1>0, <1>3, <2>4, GrantStep
    <3>2. HeldExclusively'
      BY <2>4, <3>1 DEF HeldExclusively
    <3>3. PagesConserved'
      BY <2>1, <2>4, <3>1 DEF PagesConserved
    <3>4. HeldInReach'
      BY <2>1, <2>4, <3>1 DEF HeldInReach
    <3>. QED
      BY <1>0, <2>1, <2>2, <3>2, <3>3, <3>4 DEF NothingHeldAtBoot
  <2>. QED
    BY <2>3, <2>4
<1>4. CASE alloc_pmm_exhausted(1)
  <2>1. phase' = "halted" /\ UNCHANGED <<info, bitmap, marked, holders, clobbered>>
    BY <1>4 DEF alloc_pmm_exhausted, Halt
  <2>2. UNCHANGED Held
    BY <2>1 DEF Held
  <2>. QED
    BY <1>0, <2>1, <2>2
    DEF NothingHeldAtBoot, HeldExclusively, PagesConserved, HeldInReach, SafeOutOfReach
<1>5. ASSUME NEW page \in Pages, free_pmm(PageRun(page, 1))
      PROVE  SingleInv'
  <2>1. /\ phase' = "ready" /\ phase = "ready"
        /\ UNCHANGED <<info, bitmap, usable_pages, clobbered>>
    BY <1>5 DEF free_pmm
  <2>2. SafeOutOfReach'
    BY <2>1 DEF SafeOutOfReach, BitmapFrames
  <2>3. CASE clobbered
    BY <1>0, <2>1, <2>2, <2>3
    DEF NothingHeldAtBoot, HeldExclusively, PagesConserved, HeldInReach
  <2>4. CASE ~clobbered
    <3>1. /\ page \in Held
          /\ marked' = marked \ {page}
          /\ Held' = Held \ {page}
          /\ holders' = [p \in Pages |-> IF p = page THEN holders[p] - 1 ELSE holders[p]]
      BY <1>5, <2>4, FreeStep
    <3>2. \A p \in Pages : holders'[p] <= 1
      BY <2>4, <3>1, MaxHoldersAssumption DEF HeldExclusively, TypeInv, TypeOK
    <3>3. HeldExclusively'
      BY <2>4, <3>1, <3>2 DEF HeldExclusively
    <3>4. PagesConserved'
      BY <2>1, <2>4, <3>1 DEF PagesConserved
    <3>5. HeldInReach'
      BY <2>1, <2>4, <3>1 DEF HeldInReach
    <3>. QED
      BY <1>0, <2>1, <2>2, <3>3, <3>4, <3>5 DEF NothingHeldAtBoot
  <2>. QED
    BY <2>3, <2>4
<1>6. ASSUME NEW frame \in Pages, NEW bits \in Writes, ClientWrite(frame, bits)
      PROVE  SingleInv'
  <2>1. /\ phase' = "ready" /\ phase = "ready" /\ clobbered'
        /\ UNCHANGED <<bitmap, usable_pages>>
        /\ frame \in BitmapFrames /\ frame \in Held
    BY <1>6 DEF ClientWrite
  <2>2. BitmapFrames' = BitmapFrames
    BY <2>1 DEF BitmapFrames
  <2>3. SafeOutOfReach'
    <3>1. CASE clobbered
      BY <2>1, <2>2, <3>1 DEF SafeOutOfReach
    <3>2. CASE ~clobbered
      <4>1. frame < usable_pages /\ frame \in Nat /\ usable_pages \in Nat
        BY <2>1, <3>2, MaxPageAssumption DEF HeldInReach, Pages, TypeInv, TypeOK
      <4>. QED
        BY <2>1, <2>2, <4>1 DEF SafeOutOfReach
    <3>. QED
      BY <3>1, <3>2
  <2>. QED
    BY <1>0, <2>1, <2>3 DEF NothingHeldAtBoot, HeldExclusively, PagesConserved, HeldInReach
<1>7. CASE UNCHANGED vars
  BY <1>0, <1>7
  DEF vars, NothingHeldAtBoot, HeldExclusively, PagesConserved, HeldInReach, SafeOutOfReach,
      Held, BitmapFrames
<1>. QED
  BY <1>1, <1>2, <1>3, <1>4, <1>5, <1>6, <1>7 DEF Next, Halted, SinglePages

(* With single-page callers, free pages and granted ones are apart and     *)
(* together are all that init_pmm freed, in every behaviour.               *)
LEMMA SingleInvariant ==
  ASSUME SinglePages
  PROVE  Spec => []SingleInv
<1>1. SingleInv /\ [Next]_vars => SingleInv'
  BY NextSingleInv
<1>. QED
  BY <1>1, InitSingleInv, PTL DEF Spec

-----------------------------------------------------------------------------
(* What runs of kernel/mem/vmm.c asks alloc_pmm for single pages (only     *)
(* alloc_vmm, which nobody calls, may ask for more): no page is with two   *)
(* of its callers, and every page that is out has its bit set, until one   *)
(* of them writes to a page of the bitmap.                                 *)
THEOREM GrantsAreExclusive ==
  ASSUME SinglePages
  PROVE  Spec => []HeldExclusively
<1>1. SingleInv => HeldExclusively
  BY DEF SingleInv
<1>. QED
  BY <1>1, SingleInvariant, PTL

(* Allocation and freeing neither lose nor invent a page.                  *)
THEOREM NoPageIsLost ==
  ASSUME SinglePages
  PROVE  Spec => []PagesConserved
<1>1. SingleInv => PagesConserved
  BY DEF SingleInv
<1>. QED
  BY <1>1, SingleInvariant, PTL

(* On a machine whose map puts the bitmap above usable_pages the bitmap is *)
(* never written by a caller, so the two theorems above hold for ever.     *)
THEOREM BitmapAboveReachIsSafe ==
  ASSUME SinglePages
  PROVE  Spec => []SafeOutOfReach
<1>1. SingleInv => SafeOutOfReach
  BY DEF SingleInv
<1>. QED
  BY <1>1, SingleInvariant, PTL

-----------------------------------------------------------------------------
(* The initial states are those of PageAllocator.                          *)
LEMMA InitRefines == Init => Allocator!Init
<1>. SUFFICES ASSUME Init PROVE Allocator!Init
  OBVIOUS
<1>1. Held = {}
  BY DEF Init, Held
<1>. QED
  BY <1>1 DEF Init, Allocator!Init, Pool, Notes

(* alloc_pmm gives up only when the search has seen the whole pool.        *)
LEMMA ExhaustedMeansAllOut ==
  ASSUME SingleInv, ~clobbered, phase = "ready", Found(1) = {}
  PROVE  Pool \subseteq Held
<1>. SUFFICES ASSUME NEW p \in Pool, p \notin Held PROVE FALSE
  OBVIOUS
<1>1. /\ bitmap \in BitmapBase(info) /\ bitmap # NULL /\ info \in BootInfos
      /\ usable_pages \in Nat
  BY DEF SingleInv, TypeInv, TypeOK, Booted
<1>2. p \in FreeAtBoot(bitmap, info) /\ p < usable_pages
  BY <1>1 DEF Pool
<1>3. p \in Pages /\ p \in Nat
  BY <1>1, <1>2, FreeAtBootInPages, MaxPageAssumption DEF Pages
<1>4. p \notin marked
  BY <1>2 DEF SingleInv, PagesConserved
<1>5. /\ p \in 0 .. (usable_pages - 1)
      /\ 1 > 0
      /\ 0 <= p - 1 + 1
      /\ (p - 1 + 1) .. p = {p}
  BY <1>1, <1>2, <1>3
<1>6. p \in FreeRunEnds(0, 1)
  BY <1>4, <1>5 DEF FreeRunEnds
<1>. QED
  BY <1>6 DEF Found

(* Every step with single-page callers is one of PageAllocator or a        *)
(* stutter.                                                                *)
LEMMA NextRefines ==
  ASSUME SinglePages, SingleInv, SingleInv', [Next]_vars
  PROVE  [Allocator!Next]_(Allocator!vars)
<1>. USE DEF Allocator!Next, Allocator!vars
<1>1. CASE init_pmm_ok
  <2>1. /\ phase = "boot" /\ phase' = "ready" /\ info' = info
        /\ UNCHANGED <<holders, clobbered>>
        /\ bitmap' \in BitmapBase(info)
    BY <1>1 DEF init_pmm_ok
  <2>2. FreeAtBoot(bitmap', info) \subseteq Pages
    BY <2>1, FreeAtBootInPages DEF SingleInv, TypeInv, TypeOK
  <2>3. Pool' \in SUBSET Pages /\ Notes' \in SUBSET Pages
    BY <2>1, <2>2 DEF Pool, Notes
  <2>4. UNCHANGED Held
    BY <2>1 DEF Held
  <2>. QED
    BY <2>1, <2>3, <2>4 DEF Allocator!Start
<1>2. CASE init_pmm_no_bitmap
  <2>1. /\ phase = "boot" /\ phase' = "halted"
        /\ UNCHANGED <<info, bitmap, holders, clobbered>>
    BY <1>2 DEF init_pmm_no_bitmap, Halt
  <2>2. bitmap = NULL
    BY <2>1 DEF SingleInv, NothingHeldAtBoot
  <2>3. UNCHANGED <<Held, Pool, Notes>>
    BY <2>1, <2>2 DEF Held, Pool, Notes
  <2>. QED
    BY <2>1, <2>3 DEF Allocator!StartFails
<1>3. CASE alloc_pmm_grant(1)
  <2>1. /\ phase' = "ready" /\ phase = "ready"
        /\ UNCHANGED <<info, bitmap, usable_pages, clobbered>>
    BY <1>3 DEF alloc_pmm_grant, LastMarked
  <2>2. UNCHANGED <<Pool, Notes>>
    BY <2>1 DEF Pool, Notes, BitmapFrames
  <2>3. CASE clobbered
    <3>1. Held' \in SUBSET Pages
      BY DEF Held
    <3>. QED
      BY <2>1, <2>2, <2>3, <3>1 DEF Allocator!Chaos
  <2>4. CASE ~clobbered
    <3>1. PICK page \in Pages :
            /\ page < usable_pages
            /\ page \notin Held
            /\ page \in FreeAtBoot(bitmap, info)
            /\ Held' = Held \cup {page}
      BY <1>3, <2>4, GrantStep DEF SingleInv
    <3>2. page \in Pool \ Held
      BY <2>1, <3>1 DEF Pool, SingleInv, TypeInv, Booted
    <3>. QED
      BY <2>1, <2>2, <3>1, <3>2 DEF Allocator!Grant
  <2>. QED
    BY <2>3, <2>4
<1>4. CASE alloc_pmm_exhausted(1)
  <2>1. /\ phase = "ready" /\ phase' = "halted" /\ Found(1) = {}
        /\ UNCHANGED <<info, bitmap, usable_pages, holders, clobbered>>
    BY <1>4 DEF alloc_pmm_exhausted, Halt
  <2>2. UNCHANGED <<Held, Pool, Notes>>
    BY <2>1 DEF Held, Pool, Notes, BitmapFrames
  <2>3. CASE clobbered
    <3>1. Held' \in SUBSET Pages
      BY DEF Held
    <3>. QED
      BY <2>1, <2>2, <2>3, <3>1 DEF Allocator!Chaos
  <2>4. CASE ~clobbered
    BY <2>1, <2>2, <2>4, ExhaustedMeansAllOut DEF Allocator!Refuse
  <2>. QED
    BY <2>3, <2>4
<1>5. ASSUME NEW page \in Pages, free_pmm(PageRun(page, 1))
      PROVE  Allocator!Next
  <2>1. /\ phase' = "ready" /\ phase = "ready"
        /\ UNCHANGED <<info, bitmap, usable_pages, clobbered>>
    BY <1>5 DEF free_pmm
  <2>2. UNCHANGED <<Pool, Notes>>
    BY <2>1 DEF Pool, Notes, BitmapFrames
  <2>3. CASE clobbered
    <3>1. Held' \in SUBSET Pages
      BY DEF Held
    <3>. QED
      BY <2>1, <2>2, <2>3, <3>1 DEF Allocator!Chaos
  <2>4. CASE ~clobbered
    <3>1. page \in Held /\ Held' = Held \ {page}
      BY <1>5, <2>4, FreeStep DEF SingleInv
    <3>. QED
      BY <2>1, <2>2, <3>1 DEF Allocator!Release
  <2>. QED
    BY <2>3, <2>4
<1>6. ASSUME NEW frame \in Pages, NEW bits \in Writes, ClientWrite(frame, bits)
      PROVE  Allocator!Next
  <2>1. /\ phase' = "ready" /\ phase = "ready" /\ clobbered' = TRUE
        /\ UNCHANGED <<info, bitmap, usable_pages, holders>>
        /\ frame \in BitmapFrames /\ frame \in Held
    BY <1>6 DEF ClientWrite
  <2>2. UNCHANGED <<Held, Pool, Notes>>
    BY <2>1 DEF Held, Pool, Notes, BitmapFrames
  <2>3. frame \in Held \cap Notes
    BY <2>1 DEF Notes, SingleInv, TypeInv, Booted
  <2>. QED
    BY <2>1, <2>2, <2>3 DEF Allocator!Break
<1>7. CASE UNCHANGED vars
  BY <1>7 DEF vars, Held, Pool, Notes, BitmapFrames
<1>. QED
  BY <1>1, <1>2, <1>3, <1>4, <1>5, <1>6, <1>7 DEF Next, Halted, SinglePages

(* The bitmap allocator, asked for one page at a time, is a PageAllocator: *)
(* pages are handed to one caller at a time out of a fixed pool, and the   *)
(* machine halts on an empty search only with the whole pool out.          *)
THEOREM PMMImplementsAllocator ==
  ASSUME SinglePages
  PROVE  Spec => ImplementsAllocator
<1>1. SingleInv /\ SingleInv' /\ [Next]_vars => [Allocator!Next]_(Allocator!vars)
  BY NextRefines
<1>. QED
  BY <1>1, InitRefines, SingleInvariant, PTL DEF Spec, ImplementsAllocator, Allocator!Spec



-----------------------------------------------------------------------------
(* A request of any size is given a run of clear pages, as far as the      *)
(* pages before the first one granted go, whatever the callers mark, free  *)
(* or overwrite in between.                                                *)
THEOREM GrantsFollowFreeRuns == Spec => GrantFollowsFreeRun
<1>. DEFINE Given   == {p \in Pages : holders'[p] > holders[p]}
            Follows == \A first \in Given :
                         (\A p \in Given : first <= p) =>
                           /\ first < usable_pages
                           /\ (first - Cardinality(Given) + 1) .. first \subseteq Pages \ marked
<1>1. TypeInv /\ [Next]_vars => [Follows]_vars
  <2>. SUFFICES ASSUME TypeInv, Next PROVE Follows
    OBVIOUS
  <2>1. ASSUME NEW count \in Counts, alloc_pmm_grant(count) PROVE Follows
    <3>1. PICK page \in Found(count) :
            holders' = [p \in Pages |-> IF p \in page .. (page + count - 1)
                                        THEN holders[p] + 1 ELSE holders[p]]
      BY <2>1 DEF alloc_pmm_grant
    <3>2. count \in Nat /\ count > 0 /\ page \in Nat /\ page < usable_pages
      BY CountsAssumption, FoundPage DEF TypeInv
    <3>. DEFINE last == IF page + count - 1 <= MaxPage THEN page + count - 1 ELSE MaxPage
    <3>3. page \in Pages /\ last \in Int /\ page <= last /\ last <= page + count - 1
      BY <2>1, <3>2, GrantInPages, MaxPageAssumption DEF alloc_pmm_grant, Pages
    <3>4. \A p \in Pages : holders[p] \in Nat
      BY MaxHoldersAssumption DEF TypeInv, TypeOK
    <3>5. Given = page .. last
      <4>1. Given = (page .. (page + count - 1)) \cap Pages
        BY <3>1, <3>4
      <4>2. (page .. (page + count - 1)) \cap Pages = page .. last
        BY <3>2, MaxPageAssumption DEF Pages
      <4>. QED
        BY <4>1, <4>2
    <3>. HIDE DEF last
    <3>6. Cardinality(Given) \in 1 .. count
      <4>1. Cardinality(page .. last) = last - page + 1
        BY <3>2, <3>3, FS_Interval
      <4>2. last - page + 1 \in 1 .. count
        BY <3>2, <3>3
      <4>. HIDE DEF Given
      <4>. QED
        BY <3>5, <4>1, <4>2, Zenon
    <3>7. ASSUME NEW first \in Given, \A p \in Given : first <= p
          PROVE  first = page
      BY <3>2, <3>3, <3>5, <3>7
    <3>8. (page - count + 1) .. page \subseteq Pages \ marked
      <4>1. PICK start \in {0, last_free_page} : page \in FreeRunEnds(start, count)
        BY <3>1 DEF Found
      <4>2. start \in Nat
        BY MaxPageAssumption DEF TypeInv, TypeOK, Pages
      <4>3. /\ start <= page - count + 1
            /\ \A p \in (page - count + 1) .. page : p \notin marked
        BY <4>1 DEF FreeRunEnds
      <4>. QED
        BY <3>2, <3>3, <4>2, <4>3, MaxPageAssumption DEF Pages
    <3>9. (page - Cardinality(Given) + 1) .. page \subseteq (page - count + 1) .. page
      <4>. HIDE DEF Given
      <4>. QED
        BY <3>2, <3>6
    <3>. HIDE DEF Given
    <3>. QED
      BY <3>2, <3>7, <3>8, <3>9
  <2>2. ASSUME NEW p \in Pages, NEW n \in Counts, free_pmm(PageRun(p, n)) PROVE Follows
    <3>1. \A q \in Pages : holders'[q] = holders[q] - 1 \/ holders'[q] = holders[q]
      BY <2>2 DEF free_pmm
    <3>2. \A q \in Pages : holders[q] \in Nat
      BY MaxHoldersAssumption DEF TypeInv, TypeOK
    <3>3. Given = {}
      BY <3>1, <3>2
    <3>. QED
      BY <3>3
  <2>3. ASSUME UNCHANGED holders PROVE Follows
    <3>1. \A q \in Pages : holders[q] \in Nat
      BY MaxHoldersAssumption DEF TypeInv, TypeOK
    <3>2. Given = {}
      BY <2>3, <3>1
    <3>. QED
      BY <3>2
  <2>. QED
    BY <2>1, <2>2, <2>3
    DEF Next, init_pmm_ok, init_pmm_no_bitmap, alloc_pmm_exhausted, set_used_pmm,
        set_used_pmm_unaligned, ClientWrite, Halted, vars
<1>2. Spec => []TypeInv
  BY InitTypeInv, NextTypeInv, PTL DEF Spec
<1>. QED
  BY <1>1, <1>2, PTL DEF Spec, GrantFollowsFreeRun



-----------------------------------------------------------------------------
(* The pages at which the count of a pass reaches count, when it comes to  *)
(* page i with a count of f: so many clear pages from i on, or a marked    *)
(* page and then count clear ones.                                         *)
Clear(i, j) == \A p \in i .. j : p \notin marked

Hits(i, f, count) ==
  {j \in i .. (usable_pages - 1) :
     /\ count > 0
     /\ \/ Clear(i, j) /\ f + (j - i + 1) = count
        \/ i <= j - count /\ j - count \in marked /\ Clear(j - count + 1, j)}

Firsts(S) == {j \in S : \A k \in S : j <= k}

(* A turn of the pass.                                                     *)
LEMMA HitsTurn ==
  ASSUME usable_pages \in Nat, NEW count \in Nat, NEW i \in Nat, NEW f \in Nat
  PROVE  /\ i >= usable_pages => Hits(i, f, count) = {}
         /\ i < usable_pages /\ i \in marked => Hits(i, f, count) = Hits(i + 1, 0, count)
         /\ i < usable_pages /\ i \notin marked /\ f + 1 = count =>
              Firsts(Hits(i, f, count)) = {i}
         /\ i < usable_pages /\ i \notin marked /\ f + 1 # count =>
              Hits(i, f, count) = Hits(i + 1, f + 1, count)
<1>1. \A j \in Int : i <= j => (Clear(i, j) <=> i \notin marked /\ Clear(i + 1, j))
  BY DEF Clear
<1>2. i >= usable_pages => Hits(i, f, count) = {}
  BY DEF Hits
<1>3. \A j \in Int : j \notin (i + 1) .. (usable_pages - 1) /\ j \in i .. (usable_pages - 1) => j = i
  OBVIOUS
<1>4. ASSUME i < usable_pages, i \in marked
      PROVE  Hits(i, f, count) = Hits(i + 1, 0, count)
  <2>1. ASSUME NEW j \in Hits(i, f, count) PROVE j \in Hits(i + 1, 0, count)
    <3>1. /\ j \in i .. (usable_pages - 1) /\ count > 0
          /\ ~Clear(i, j)
          /\ i <= j - count /\ j - count \in marked /\ Clear(j - count + 1, j)
      BY <1>1, <1>4, <2>1 DEF Hits
    <3>2. CASE j - count = i
      BY <3>1, <3>2 DEF Hits
    <3>3. CASE j - count # i
      BY <3>1, <3>3 DEF Hits
    <3>. QED
      BY <3>2, <3>3
  <2>2. ASSUME NEW j \in Hits(i + 1, 0, count) PROVE j \in Hits(i, f, count)
    <3>1. j \in (i + 1) .. (usable_pages - 1) /\ count > 0
      BY <2>2 DEF Hits
    <3>2. CASE Clear(i + 1, j) /\ 0 + (j - (i + 1) + 1) = count
      <4>1. j - count = i
        BY <3>1, <3>2
      <4>. QED
        BY <1>4, <3>1, <3>2, <4>1 DEF Hits
    <3>3. CASE i + 1 <= j - count /\ j - count \in marked /\ Clear(j - count + 1, j)
      BY <3>1, <3>3 DEF Hits
    <3>. QED
      BY <2>2, <3>2, <3>3 DEF Hits
  <2>. QED
    BY <2>1, <2>2
<1>5. ASSUME i < usable_pages, i \notin marked, f + 1 = count
      PROVE  Firsts(Hits(i, f, count)) = {i}
  <2>1. Clear(i, i) /\ i \in i .. (usable_pages - 1) /\ f + (i - i + 1) = count /\ count > 0
    BY <1>5 DEF Clear
  <2>2. i \in Hits(i, f, count)
    BY <2>1 DEF Hits
  <2>3. \A j \in Hits(i, f, count) : j \in Int /\ i <= j
    BY DEF Hits
  <2>. QED
    BY <2>2, <2>3 DEF Firsts
<1>6. ASSUME i < usable_pages, i \notin marked, f + 1 # count
      PROVE  Hits(i, f, count) = Hits(i + 1, f + 1, count)
  <2>1. ASSUME NEW j \in Hits(i, f, count) PROVE j \in Hits(i + 1, f + 1, count)
    <3>1. j \in i .. (usable_pages - 1) /\ count > 0
      BY <2>1 DEF Hits
    <3>2. CASE Clear(i, j) /\ f + (j - i + 1) = count
      <4>1. j # i /\ (f + 1) + (j - (i + 1) + 1) = count
        BY <1>6, <3>1, <3>2
      <4>2. Clear(i + 1, j) /\ j \in (i + 1) .. (usable_pages - 1)
        BY <1>1, <3>1, <3>2, <4>1
      <4>. QED
        BY <3>1, <4>1, <4>2 DEF Hits
    <3>3. CASE i <= j - count /\ j - count \in marked /\ Clear(j - count + 1, j)
      <4>1. i + 1 <= j - count
        BY <1>6, <3>1, <3>3
      <4>. QED
        BY <3>1, <3>3, <4>1 DEF Hits
    <3>. QED
      BY <2>1, <3>2, <3>3 DEF Hits
  <2>2. ASSUME NEW j \in Hits(i + 1, f + 1, count) PROVE j \in Hits(i, f, count)
    <3>1. j \in (i + 1) .. (usable_pages - 1) /\ count > 0
      BY <2>2 DEF Hits
    <3>2. CASE Clear(i + 1, j) /\ (f + 1) + (j - (i + 1) + 1) = count
      <4>1. f + (j - i + 1) = count /\ j \in i .. (usable_pages - 1)
        BY <3>1, <3>2
      <4>2. Clear(i, j)
        BY <1>1, <1>6, <3>1, <3>2
      <4>. QED
        BY <3>1, <4>1, <4>2 DEF Hits
    <3>3. CASE i + 1 <= j - count /\ j - count \in marked /\ Clear(j - count + 1, j)
      BY <3>1, <3>3 DEF Hits
    <3>. QED
      BY <2>2, <3>2, <3>3 DEF Hits
  <2>. QED
    BY <2>1, <2>2
<1>. QED
  BY <1>2, <1>4, <1>5, <1>6


(* The passes of find_free_pages, from any page and any count on, are one  *)
(* function that calls itself.                                             *)
Turn(pass, count, i, f) ==
  IF i >= usable_pages THEN {}
  ELSE IF i \in marked THEN pass[i+1][0]
  ELSE IF f + 1 = count THEN {i}
  ELSE pass[i+1][f + 1]

IsPass(pass, count) == pass = [i \in Nat |-> [f \in Nat |-> Turn(pass, count, i, f)]]

Pass(count) == CHOOSE pass : IsPass(pass, count)

(* scan in those words.                                                    *)
LEMMA ScanIsPass ==
  ASSUME NEW start, NEW count
  PROVE  scan(start, count) = Pass(count)[start][0]
BY DEF scan, Pass, IsPass, Turn

(* The first hits are such a function, and there is no other.              *)
LEMMA PassFinds ==
  ASSUME usable_pages \in Nat, NEW count \in Nat, NEW start \in Nat
  PROVE  Pass(count)[start][0] = Firsts(Hits(start, 0, count))
<1>. DEFINE hits == [i \in Nat |-> [f \in Nat |-> Firsts(Hits(i, f, count))]]
<1>1. ASSUME NEW i \in Nat, NEW f \in Nat
      PROVE  Firsts(Hits(i, f, count)) = Turn(hits, count, i, f)
  <2>1. i + 1 \in Nat /\ f + 1 \in Nat /\ 0 \in Nat
    OBVIOUS
  <2>2. hits[i+1][0] = Firsts(Hits(i + 1, 0, count))
        /\ hits[i+1][f+1] = Firsts(Hits(i + 1, f + 1, count))
    BY <2>1
  <2>. HIDE DEF hits
  <2>3. Firsts({}) = {}
    BY DEF Firsts
  <2>4. i < usable_pages <=> ~(i >= usable_pages)
    OBVIOUS
  <2>5. /\ i >= usable_pages => Hits(i, f, count) = {}
        /\ i < usable_pages /\ i \in marked => Hits(i, f, count) = Hits(i + 1, 0, count)
        /\ i < usable_pages /\ i \notin marked /\ f + 1 = count =>
             Firsts(Hits(i, f, count)) = {i}
        /\ i < usable_pages /\ i \notin marked /\ f + 1 # count =>
             Hits(i, f, count) = Hits(i + 1, f + 1, count)
    BY HitsTurn
  <2>6. CASE i >= usable_pages
    BY <2>3, <2>5, <2>6, Zenon DEF Turn
  <2>7. CASE i < usable_pages /\ i \in marked
    BY <2>2, <2>4, <2>5, <2>7, Zenon DEF Turn
  <2>8. CASE i < usable_pages /\ i \notin marked /\ f + 1 = count
    BY <2>4, <2>5, <2>8, Zenon DEF Turn
  <2>9. CASE i < usable_pages /\ i \notin marked /\ f + 1 # count
    BY <2>2, <2>4, <2>5, <2>9, Zenon DEF Turn
  <2>. QED
    BY <2>4, <2>6, <2>7, <2>8, <2>9, Zenon
<1>2. IsPass(hits, count)
  <2>1. hits = [i \in Nat |-> [f \in Nat |-> Turn(hits, count, i, f)]]
    <3>. DEFINE turns == [i \in Nat |-> [f \in Nat |-> Turn(hits, count, i, f)]]
    <3>1. \A i \in Nat : hits[i] = turns[i]
      <4>. SUFFICES ASSUME NEW i \in Nat PROVE hits[i] = turns[i]
        OBVIOUS
      <4>1. hits[i] = [f \in Nat |-> Firsts(Hits(i, f, count))]
        BY Zenon
      <4>2. turns[i] = [f \in Nat |-> Turn(hits, count, i, f)]
        BY Zenon
      <4>. HIDE DEF hits, turns
      <4>. QED
        BY <1>1, <4>1, <4>2, Zenon
    <3>2. hits = [i \in Nat |-> hits[i]] /\ turns = [i \in Nat |-> turns[i]]
      BY Zenon
    <3>3. hits = turns
      <4>. HIDE DEF hits, turns
      <4>. QED
        BY <3>1, <3>2, Zenon
    <3>. QED
      BY <3>3
  <2>. HIDE DEF hits
  <2>. QED
    BY <2>1, Zenon DEF IsPass
<1>. HIDE DEF hits
<1>3. IsPass(Pass(count), count)
  BY <1>2, Zenon DEF Pass
<1>. DEFINE pass == Pass(count)
<1>. HIDE DEF pass
<1>4. \A i, f \in Nat : pass[i][f] = Turn(pass, count, i, f)
  <2>. SUFFICES ASSUME NEW i \in Nat, NEW f \in Nat PROVE pass[i][f] = Turn(pass, count, i, f)
    OBVIOUS
  <2>1. pass = [j \in Nat |-> [g \in Nat |-> Turn(pass, count, j, g)]]
    BY <1>3, Zenon DEF IsPass, pass
  <2>2. pass[i] = [g \in Nat |-> Turn(pass, count, i, g)]
    BY <2>1, Zenon
  <2>. QED
    BY <2>2, Zenon
<1>. DEFINE Agrees(i, f) == pass[i][f] = Firsts(Hits(i, f, count))
            bad == {usable_pages - i : i \in {k \in 0 .. usable_pages : \E f \in Nat : ~Agrees(k, f)}}
<1>5. ASSUME NEW i \in Nat, NEW f \in Nat,
             i < usable_pages => \A g \in Nat : Agrees(i + 1, g)
      PROVE  Agrees(i, f)
  <2>1. pass[i][f] = Turn(pass, count, i, f)
    BY <1>4
  <2>2. i < usable_pages => pass[i+1][0] = Firsts(Hits(i + 1, 0, count))
                            /\ pass[i+1][f+1] = Firsts(Hits(i + 1, f + 1, count))
    BY <1>5
  <2>3. Firsts({}) = {}
    BY DEF Firsts
  <2>4. i < usable_pages <=> ~(i >= usable_pages)
    OBVIOUS
  <2>5. /\ i >= usable_pages => Hits(i, f, count) = {}
        /\ i < usable_pages /\ i \in marked => Hits(i, f, count) = Hits(i + 1, 0, count)
        /\ i < usable_pages /\ i \notin marked /\ f + 1 = count =>
             Firsts(Hits(i, f, count)) = {i}
        /\ i < usable_pages /\ i \notin marked /\ f + 1 # count =>
             Hits(i, f, count) = Hits(i + 1, f + 1, count)
    BY HitsTurn
  <2>6. CASE i >= usable_pages
    BY <2>1, <2>3, <2>5, <2>6, Zenon DEF Turn
  <2>7. CASE i < usable_pages /\ i \in marked
    BY <2>1, <2>2, <2>4, <2>5, <2>7, Zenon DEF Turn
  <2>8. CASE i < usable_pages /\ i \notin marked /\ f + 1 = count
    BY <2>1, <2>4, <2>5, <2>8, Zenon DEF Turn
  <2>9. CASE i < usable_pages /\ i \notin marked /\ f + 1 # count
    BY <2>1, <2>2, <2>4, <2>5, <2>9, Zenon DEF Turn
  <2>. QED
    BY <2>4, <2>6, <2>7, <2>8, <2>9, Zenon
<1>. HIDE DEF Agrees
<1>6. bad = {}
  <2>. SUFFICES ASSUME bad # {} PROVE FALSE
    OBVIOUS
  <2>1. bad \in SUBSET Nat
    OBVIOUS
  <2>2. PICK m \in bad : \A n \in bad : m <= n
    <3>. HIDE DEF bad
    <3>. QED
      BY <2>1, LeastNatural, Zenon
  <2>3. PICK i \in 0 .. usable_pages : m = usable_pages - i /\ \E f \in Nat : ~Agrees(i, f)
    BY <2>2
  <2>4. PICK f \in Nat : ~Agrees(i, f)
    BY <2>3
  <2>5. i < usable_pages => \A g \in Nat : Agrees(i + 1, g)
    <3>. SUFFICES ASSUME i < usable_pages, NEW g \in Nat, ~Agrees(i + 1, g) PROVE FALSE
      OBVIOUS
    <3>1. i + 1 \in 0 .. usable_pages
      OBVIOUS
    <3>2. usable_pages - (i + 1) \in bad
      BY <3>1
    <3>. HIDE DEF bad
    <3>3. m <= usable_pages - (i + 1)
      BY <2>2, <3>2
    <3>. QED
      BY <2>3, <3>3
  <2>. QED
    BY <1>5, <2>4, <2>5
<1>7. Agrees(start, 0)
  <2>1. CASE start < usable_pages
    <3>1. start \in 0 .. usable_pages
      BY <2>1
    <3>2. ~Agrees(start, 0) => usable_pages - start \in bad
      BY <3>1
    <3>. HIDE DEF bad
    <3>. QED
      BY <1>6, <3>2
  <2>2. CASE ~(start < usable_pages)
    BY <1>5, <2>2
  <2>. QED
    BY <2>1, <2>2
<1>. QED
  BY <1>7 DEF Agrees, pass

(* The first hit from start on is where the first run ends.                *)
LEMMA FirstHitEndsRun ==
  ASSUME usable_pages \in Nat, NEW count \in Nat, NEW start \in Nat
  PROVE  Firsts(Hits(start, 0, count)) = Firsts(FreeRunEnds(start, count))
<1>. DEFINE hits == Hits(start, 0, count)
            ends == FreeRunEnds(start, count)
<1>1. \A j \in hits : j \in ends
  BY DEF Hits, Clear, FreeRunEnds
<1>2. ASSUME NEW j \in Firsts(ends) PROVE j \in hits
  <2>1. /\ j \in start .. (usable_pages - 1) /\ count > 0 /\ start <= j - count + 1
        /\ Clear(j - count + 1, j)
        /\ \A k \in ends : j <= k
    BY DEF Firsts, FreeRunEnds, Clear
  <2>2. CASE start = j - count + 1
    BY <2>1, <2>2 DEF Hits
  <2>3. CASE start # j - count + 1
    <3>1. start <= j - count /\ j - 1 \in start .. (usable_pages - 1) /\ start <= (j - 1) - count + 1
      BY <2>1, <2>3
    <3>2. ~Clear((j - 1) - count + 1, j - 1)
      <4>1. j - 1 \notin ends
        BY <2>1
      <4>. QED
        BY <2>1, <3>1, <4>1 DEF FreeRunEnds, Clear
    <3>3. j - count \in marked
      BY <2>1, <3>1, <3>2 DEF Clear
    <3>. QED
      BY <2>1, <3>1, <3>3 DEF Hits
  <2>. QED
    BY <2>2, <2>3
<1>3. \A j \in ends : j \in Nat
  BY DEF FreeRunEnds
<1>. HIDE DEF hits, ends
<1>4. ASSUME ends # {} PROVE \E j \in ends : \A k \in ends : j <= k
  <2>1. ends \in SUBSET Nat
    BY <1>3
  <2>. QED
    BY <1>4, <2>1, LeastNatural
<1>5. Firsts(hits) = Firsts(ends)
  <2>1. ASSUME NEW j \in Firsts(ends) PROVE j \in Firsts(hits)
    BY <1>1, <1>2, <2>1 DEF Firsts
  <2>2. ASSUME NEW j \in Firsts(hits) PROVE j \in Firsts(ends)
    <3>1. j \in hits /\ j \in ends /\ \A k \in hits : j <= k
      BY <1>1, <2>2 DEF Firsts
    <3>2. PICK first \in ends : \A k \in ends : first <= k
      BY <1>4, <3>1
    <3>3. first \in hits
      BY <1>2, <3>2 DEF Firsts
    <3>4. first = j
      BY <1>3, <3>1, <3>2, <3>3
    <3>. QED
      BY <3>1, <3>2, <3>4 DEF Firsts
  <2>. QED
    BY <2>1, <2>2
<1>. QED
  BY <1>5 DEF hits, ends

(* So the loop of find_free_pages, with its second pass, finds what the    *)
(* actions take: the end of the first run from the cursor on, or else of   *)
(* the first from page 0 on, and nothing for a request of no page.         *)
THEOREM SearchFindsFirstRun == Spec => []LoopAgrees
<1>1. TypeInv => LoopAgrees
  <2>. SUFFICES ASSUME TypeInv, NEW count \in Counts
                PROVE  find_free_pages(count) = Firsts(Found(count))
    BY DEF LoopAgrees, Firsts
  <2>1. usable_pages \in Nat /\ count \in Nat /\ last_free_page \in Nat
    BY CountsAssumption, MaxPageAssumption DEF TypeInv, TypeOK, Pages
  <2>2. \A start \in Nat : scan(start, count) = Firsts(FreeRunEnds(start, count))
    BY <2>1, ScanIsPass, PassFinds, FirstHitEndsRun
  <2>3. \A start \in Nat : Firsts(FreeRunEnds(start, count)) = {} => FreeRunEnds(start, count) = {}
    <3>. SUFFICES ASSUME NEW start \in Nat, FreeRunEnds(start, count) # {}
                  PROVE  Firsts(FreeRunEnds(start, count)) # {}
      OBVIOUS
    <3>1. FreeRunEnds(start, count) \in SUBSET Nat
      BY <2>1 DEF FreeRunEnds
    <3>. QED
      BY <3>1, LeastNatural DEF Firsts
  <2>4. Firsts({}) = {}
    BY DEF Firsts
  <2>. QED
    BY <2>1, <2>2, <2>3, <2>4 DEF find_free_pages, Found
<1>2. Spec => []TypeInv
  BY InitTypeInv, NextTypeInv, PTL DEF Spec
<1>. QED
  BY <1>1, <1>2, PTL

=============================================================================
