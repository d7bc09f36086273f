-------------------------------- MODULE Heap --------------------------------
(***************************************************************************)
(* The kernel's heap (third-party/liballoc): majors, runs of pages from    *)
(* liballoc_alloc, in a list that starts at l_memRoot; in each, minors,    *)
(* one for every block that malloc returned, in a list ordered by address. *)
(*                                                                         *)
(* Every function masks interrupts while it looks at the lists, and no     *)
(* interrupt handler calls one, so a call is one action: an operator from  *)
(* a heap h to a heap, with the address it returns.  The list of majors is *)
(* a sequence, the minors are a set, their order being that of their       *)
(* addresses.  The tests for a damaged block are left out: callers free and *)
(* resize blocks they have, and keep to them.                              *)
(*                                                                         *)
(* Requests are of type size_t, but what is written down about majors and  *)
(* minors is unsigned int, numbers below UINT.  A size that is cut short   *)
(* gets a major too small for it, and the block runs past the end; one     *)
(* that makes a major of UINT bytes has 0 written down for it.  outgrown   *)
(* keeps such sizes, and the model ends with the first, for the caller     *)
(* will write over whatever comes next.  Requests so near the end of what  *)
(* a size_t counts that Padded would wrap are left out.                    *)
(***************************************************************************)
EXTENDS Integers, SequencesExt

CONSTANTS
  ALIGNMENT, ALIGN_INFO,
  MAJOR, MINOR,     \* sizeof(struct liballoc_major), ... liballoc_minor
  l_pageSize,
  l_pageCount,      \* pages asked for at least
  UINT,             \* the numbers of an unsigned int, 2^32
  Arenas,           \* addresses liballoc_alloc may return beside NULL
  Requests          \* sizes the callers ask for

NULL == 0

ASSUME SizesAssumption ==
  /\ {ALIGNMENT, ALIGN_INFO, MAJOR, MINOR, l_pageSize, l_pageCount, UINT} \subseteq Nat \ {0}
  /\ Requests \subseteq Nat

-----------------------------------------------------------------------------
(* What malloc asks of a major for a request: room enough to align it.     *)
Padded(req) == req + ALIGNMENT + ALIGN_INFO

(* allocate_new_page: room for the request and both headers, in pages, of  *)
(* a size that is an unsigned int.                                         *)
Pages_no_minor(size) ==
  LET bytes == (size + MAJOR) % UINT
      st    == IF bytes % l_pageSize = 0 THEN bytes \div l_pageSize
               ELSE bytes \div l_pageSize + 1
  IN  Max({st, l_pageCount})

Pages(size) ==
  LET bytes == (size + MAJOR + MINOR) % UINT
      st    == IF bytes % l_pageSize = 0 THEN bytes \div l_pageSize
               ELSE bytes \div l_pageSize + 1
  IN  Max({st, l_pageCount})

(* Memory from one arena never reaches the next.                           *)
ASSUME ArenasAssumption ==
  /\ Arenas \subseteq Nat \ {NULL}
  /\ \A a \in Arenas, b \in Arenas, req \in Requests :
       a < b => a + Pages(Padded(req)) * l_pageSize <= b

(* The address ALIGN makes of the first byte after a minor.                *)
Pointer_unaligned(at) == at + MINOR + ALIGN_INFO

Pointer(at) ==
  LET q == at + MINOR + ALIGN_INFO
  IN  IF q % ALIGNMENT = 0 THEN q ELSE q + (ALIGNMENT - (q % ALIGNMENT))

(* What a minor takes of its major.                                        *)
Taken(minor) == minor.size + MINOR

End(minor) == minor.at + Taken(minor)

Free(major) == (major.size - major.usage) % UINT

(* An unsigned int read as an int.                                         *)
Signed(n) == IF n < UINT \div 2 THEN n ELSE n - UINT

In(h, base) == CHOOSE k \in DOMAIN h.majors : h.majors[k].base = base

Minors(h, major) == {m \in h.minors : m.block = major.base}

(* The room from an address to the next minor or the end of the major.     *)
Room(h, major, at) ==
  Min({m.at : m \in {n \in Minors(h, major) : n.at >= at}} \cup {major.base + major.size})
    - at

(* Cases 2 to 4: a minor fits at the start of the major, or after another. *)
Gaps_no_header(h, major, need) ==
  {at \in {major.base + MAJOR} \cup {End(m) : m \in Minors(h, major)} :
     Room(h, major, at) >= need - MINOR}

Gaps(h, major, need) ==
  {at \in {major.base + MAJOR} \cup {End(m) : m \in Minors(h, major)} :
     Room(h, major, at) >= need}

(* Case 1 passes over a major whose bytes, all told, are too few.          *)
Fits(h, k, need) ==
  /\ Free(h.majors[k]) >= need
  /\ Gaps(h, h.majors[k], need) # {}

Ascending(first, last) == [i \in 1 .. (last - first + 1) |-> first + i - 1]

(* The order in which the majors are visited: from the best bet to the     *)
(* end if it has more than enough, and then from the root.                 *)
Order_no_restart(h, need) ==
  IF h.bestBet # NULL /\ Free(h.majors[In(h, h.bestBet)]) > need
  THEN Ascending(In(h, h.bestBet), Len(h.majors))
  ELSE Ascending(1, Len(h.majors))

Order(h, need) ==
  IF h.bestBet # NULL /\ Free(h.majors[In(h, h.bestBet)]) > need
  THEN Ascending(In(h, h.bestBet), Len(h.majors)) \o Ascending(1, Len(h.majors))
  ELSE Ascending(1, Len(h.majors))

(* A major with more free bytes than the best bet becomes the best bet.    *)
Bet(h, visited) ==
  LET best == IF h.bestBet = NULL THEN 0 ELSE Free(h.majors[In(h, h.bestBet)])
      free(j) == Free(h.majors[visited[j]])
      betters == {j \in DOMAIN visited :
                    free(j) > best /\ \A i \in DOMAIN visited : free(i) <= free(j)}
  IN  IF betters = {} THEN h
      ELSE [h EXCEPT !.bestBet = h.majors[visited[Min(betters)]].base]

-----------------------------------------------------------------------------
WithMajor(h, base, size) ==
  LET bytes == (Pages(size) * l_pageSize) % UINT
  IN  [h EXCEPT !.majors = Append(@, [base |-> base, size |-> bytes, usage |-> MAJOR]),
                !.l_allocated = @ + bytes,
                !.outgrown = IF Pages(size) * l_pageSize >= UINT THEN @ \cup {size} ELSE @]

(* Case 2 asks nothing of an empty major, whose block begins behind the    *)
(* header; in any other the block goes to the first gap.                   *)
Place(h, major, need) ==
  IF Minors(h, major) = {} THEN major.base + MAJOR ELSE Min(Gaps(h, major, need))

Placed(h, k, size, req) ==
  LET major == h.majors[k]
      at    == Place(h, major, size + MINOR)
  IN  [h EXCEPT
        !.minors = @ \cup {[block |-> major.base, at |-> at,
                            size |-> size % UINT, req |-> req % UINT]},
        !.majors[k].usage = (@ + size + MINOR) % UINT,
        !.l_inuse = @ + size,
        !.p = Pointer(at),
        !.outgrown = IF at + size + MINOR > major.base + major.size THEN @ \cup {size} ELSE @]

(* Case 1, at the end of the list: the block goes to another major, unless *)
(* liballoc_alloc refuses.                                                 *)
Appended(h, base, size, req) ==
  IF base = NULL THEN [h EXCEPT !.p = NULL]
  ELSE Placed(WithMajor(h, base, size), Len(h.majors) + 1, size, req)

(* The list is at its end.  Case 1 goes straight to the new major; case 5, *)
(* or a first major, has it visited, and if it is too small after all case *)
(* 1 asks once more.                                                       *)
Extended(h, base, again, size, req) ==
  LET n == Len(h.majors)
      g == Bet(WithMajor(h, base, size), <<n + 1>>)
  IN  IF base = NULL \/ (n > 0 /\ Free(h.majors[n]) < size + MINOR)
      THEN Appended(h, base, size, req)
      ELSE IF Free(g.majors[n + 1]) < size + MINOR
      THEN Appended(g, again, size, req)
      ELSE Placed(g, n + 1, size, req)

(* The visit ends at the first major of the order in which it fits.        *)
Visit(h, order, hits, base, again, size, req) ==
  IF hits = {} THEN Extended(Bet(h, order), base, again, size, req)
  ELSE Placed(Bet(h, SubSeq(order, 1, Min(hits))), order[Min(hits)], size, req)

Request(h, order, base, again, size, req) ==
  Visit(h, order, {j \in DOMAIN order : Fits(h, order[j], size + MINOR)},
        base, again, size, req)

malloc(h, req, base, again) ==
  Request(h, Order(h, Padded(req) + MINOR), base, again, Padded(req), req)

-----------------------------------------------------------------------------
(* free: the minor leaves its major; a major left empty goes back to the   *)
(* system, one that is not may become the best bet.                        *)
Without_no_header(h, minor) ==
  [h EXCEPT !.minors = @ \ {minor},
            !.majors[In(h, minor.block)].usage = (@ - minor.size) % UINT,
            !.l_inuse = @ - minor.size]

Without(h, minor) ==
  [h EXCEPT !.minors = @ \ {minor},
            !.majors[In(h, minor.block)].usage = (@ - Taken(minor)) % UINT,
            !.l_inuse = @ - minor.size]

Returned_keeping_bet(h, base) ==
  [h EXCEPT !.majors = RemoveAt(@, In(h, base)),
            !.l_allocated = @ - h.majors[In(h, base)].size]

Returned(h, base) ==
  [h EXCEPT !.majors = RemoveAt(@, In(h, base)),
            !.bestBet = IF @ = base THEN NULL ELSE @,
            !.l_allocated = @ - h.majors[In(h, base)].size]

(* free compares the two as int.                                           *)
Judged(h, major) ==
  [h EXCEPT !.bestBet =
     IF @ # NULL /\ Signed(Free(major)) > Signed(Free(h.majors[In(h, @)]))
     THEN major.base ELSE @]

Settled(h, base) ==
  IF \E m \in h.minors : m.block = base THEN Judged(h, h.majors[In(h, base)])
  ELSE Returned(h, base)

free(h, minor) == Settled(Without(h, minor), minor.block)

-----------------------------------------------------------------------------
VARIABLES
  majors,     \* the list from l_memRoot, NULL when it is empty
  minors,     \* those of all the majors: block, address, sizes
  bestBet,    \* l_bestBet: the base of a major, or NULL
  l_allocated, l_inuse,     \* bytes in majors, and in minors
  outgrown    \* sizes too large for an unsigned int to tell their majors

vars == <<majors, minors, bestBet, l_allocated, l_inuse, outgrown>>

Heap == [majors |-> majors, minors |-> minors, bestBet |-> bestBet,
         l_allocated |-> l_allocated, l_inuse |-> l_inuse, p |-> NULL,
         outgrown |-> outgrown]

(* The heap as a call leaves it.  If a block ran past its major the rest   *)
(* is not told, and no call follows.                                       *)
Becomes(h) ==
  /\ outgrown' = h.outgrown
  /\ \/ /\ h.outgrown = {}
        /\ majors' = h.majors /\ minors' = h.minors /\ bestBet' = h.bestBet
        /\ l_allocated' = h.l_allocated /\ l_inuse' = h.l_inuse
     \/ /\ h.outgrown # {}
        /\ UNCHANGED <<majors, minors, bestBet, l_allocated, l_inuse>>

Bases == {majors[k].base : k \in DOMAIN majors}

(* What liballoc_alloc may return: memory that is not in use, or NULL.     *)
(* (As it stands it has no memory to give, and returns NULL.)              *)
liballoc_alloc == (Arenas \ Bases) \cup {NULL}

(* What it may return if it is asked again.                                *)
liballoc_alloc_again(base) ==
  IF base = NULL THEN {NULL} ELSE liballoc_alloc \ {base}

Init ==
  /\ majors = <<>> /\ minors = {} /\ bestBet = NULL
  /\ l_allocated = 0 /\ l_inuse = 0
  /\ outgrown = {}

(* calloc is malloc of the product, and zeroes the block.                  *)
liballoc_malloc(req, base, again) ==
  /\ outgrown = {}
  /\ Becomes(malloc(Heap, req, base, again))

liballoc_free(minor) ==
  /\ outgrown = {}
  /\ Becomes(free(Heap, minor))

(* realloc: to nothing it is free, to less than the block was asked for    *)
(* the request is written down and the rest lost, and to more the block is *)
(* copied to another one - to NULL, if malloc refuses - and freed.         *)
liballoc_realloc_free(minor, size) ==
  /\ size = 0
  /\ liballoc_free(minor)

liballoc_realloc_in_place(minor, size) ==
  /\ outgrown = {}
  /\ size # 0
  /\ minor.req >= size
  /\ minors' = (minors \ {minor}) \cup {[minor EXCEPT !.req = size]}
  /\ UNCHANGED <<majors, bestBet, l_allocated, l_inuse, outgrown>>

liballoc_realloc_move(minor, size, base, again) ==
  /\ outgrown = {}
  /\ size > minor.req
  /\ Becomes(free(malloc(Heap, size, base, again), minor))

(* A heap whose numbers are wrong may do anything.                         *)
Trampled ==
  /\ outgrown # {}
  /\ UNCHANGED vars

Next ==
  \/ \E req \in Requests, base \in liballoc_alloc : \E again \in liballoc_alloc_again(base) :
       liballoc_malloc(req, base, again)
  \/ \E minor \in minors : liballoc_free(minor)
  \/ \E minor \in minors, size \in Requests : liballoc_realloc_free(minor, size)
  \/ \E minor \in minors, size \in Requests : liballoc_realloc_in_place(minor, size)
  \/ \E minor \in minors, size \in Requests, base \in liballoc_alloc :
       \E again \in liballoc_alloc_again(base) :
         liballoc_realloc_move(minor, size, base, again)
  \/ Trampled

Spec == Init /\ [][Next]_vars

-----------------------------------------------------------------------------
(* A size whose pages an unsigned int can count in bytes, and requests     *)
(* that are all of such sizes.                                             *)
Counts(size) == size + MAJOR + MINOR + l_pageSize <= UINT

Small ==
  /\ l_pageCount * l_pageSize < UINT
  /\ \A req \in Requests : Counts(Padded(req))

(* Each minor lies in its major, behind its header, no two minors overlap, *)
(* and the block the caller was given lies in its minor, with the byte     *)
(* that UNALIGN reads in front of it.                                      *)
MinorsApart ==
  /\ \A m \in minors : \E k \in DOMAIN majors :
       /\ majors[k].base = m.block
       /\ m.at >= m.block + MAJOR
       /\ End(m) <= m.block + majors[k].size
  /\ \A m \in minors : \A n \in minors \ {m} : End(m) <= n.at \/ End(n) <= m.at
  /\ \A m \in minors :
       /\ Pointer(m.at) - ALIGN_INFO >= m.at + MINOR
       /\ Pointer(m.at) + m.req <= End(m)

(* The usage of a major is the bytes its header and its minors take: case  *)
(* 1 and the best bet judge a major by this number alone.  The totals of   *)
(* the whole heap are those of its majors and minors, after any calls.     *)
UsageExact ==
  /\ \A k \in DOMAIN majors :
       majors[k].usage =
         MAJOR + SumFunctionOnSet([m \in minors |-> Taken(m)],
                                  {m \in minors : m.block = majors[k].base})
  /\ l_allocated = SumFunction([k \in DOMAIN majors |-> majors[k].size])
  /\ l_inuse = SumFunction([m \in minors |-> m.size])

(* No page is kept for nothing: a major is in the list once, the best bet  *)
(* is one of the list, and a major holds at least one minor unless it is   *)
(* one that turned out too small for the huge request it was made for.     *)
MajorsInUse ==
  /\ \A k, j \in DOMAIN majors : majors[k].base = majors[j].base => k = j
  /\ {m.block : m \in minors} \subseteq Bases
  /\ \A k \in DOMAIN majors : Minors(Heap, majors[k]) = {} =>
       \E req \in Requests :
         /\ ~ Counts(Padded(req))
         /\ majors[k].size = Pages(Padded(req)) * l_pageSize
  /\ bestBet \in Bases \cup {NULL}

(* More memory is taken from the system only for a request that fits       *)
(* nowhere, whichever major the search began with.                         *)
NoNeedlessMajor ==
  [][\A m \in minors' \ minors :
       m.block \notin Bases =>
         \A k \in DOMAIN majors : Gaps(Heap, majors[k], Taken(m)) = {}]_vars

(* Only a request of nearly UINT bytes, or more, is given a major that     *)
(* cannot hold it: no history of smaller requests, of majors that huge     *)
(* ones left empty and of best bets that look negative to free leads to a  *)
(* block that runs past its major.                                         *)
OutgrowsOnlyHuge == \A size \in outgrown : ~ Counts(size)

(* The heap implements Blocks.                                             *)
HeapBlocks == INSTANCE Blocks WITH
  Align <- ALIGNMENT,
  live  <- {[p |-> Pointer(m.at), size |-> m.req] : m \in minors}

ImplementsBlocks == HeapBlocks!Spec

=============================================================================
