---------------------------- MODULE Heap_proofs -----------------------------
(***************************************************************************)
(* Proofs about the heap.  What malloc and free do to a heap is told apart *)
(* by cases first (Refuses, Places, Extends; Keeps, Returns), and each     *)
(* part of the invariant is then shown to outlast each case.  All of it    *)
(* holds for requests whose sizes an unsigned int can tell (Small), so     *)
(* that no number is cut short, and no major is too small for its block.   *)
(***************************************************************************)
EXTENDS Heap, FiniteLemmas, SequenceTheorems

Majors == [base : Arenas, size : {Pages(Padded(req)) * l_pageSize : req \in Requests},
           usage : Int]

MinorBlocks == [block : Arenas, at : Nat, size : Nat, req : Requests]

Heaps == [majors : Seq(Majors), minors : SUBSET MinorBlocks, bestBet : Arenas \cup {NULL},
          l_allocated : Int, l_inuse : Int, p : Nat, outgrown : {{}}]

Typed(h) == Small /\ h \in Heaps /\ IsFiniteSet(h.minors)

BasesOf(h) == {h.majors[k].base : k \in DOMAIN h.majors}

-----------------------------------------------------------------------------
(* The parts of the invariant, for a heap h.                               *)
Listed(h) ==
  /\ \A k, j \in DOMAIN h.majors : h.majors[k].base = h.majors[j].base => k = j
  /\ BasesOf(h) = {m.block : m \in h.minors}
  /\ h.bestBet \in BasesOf(h) \cup {NULL}

Inside(h, m) ==
  \E k \in DOMAIN h.majors :
    /\ h.majors[k].base = m.block
    /\ m.at >= m.block + MAJOR
    /\ End(m) <= m.block + h.majors[k].size

Beside(m, n) == End(m) <= n.at \/ End(n) <= m.at

Roomy(m) == m.req + ALIGNMENT + ALIGN_INFO <= m.size

Separate(h) ==
  /\ \A m \in h.minors : Inside(h, m) /\ Roomy(m)
  /\ \A m \in h.minors : \A n \in h.minors \ {m} : Beside(m, n)

TakenBy(ns) == SumFunctionOnSet([m \in ns |-> Taken(m)], ns)

SizeOf(ns) == SumFunctionOnSet([m \in ns |-> m.size], ns)

SizeOfAll(ms) == SumFunctionOnSet([k \in DOMAIN ms |-> ms[k].size], DOMAIN ms)

(* What is written down as the usage of a major is no number cut short.    *)
Bounded(h) ==
  \A k \in DOMAIN h.majors :
    /\ h.majors[k].usage \in Nat /\ h.majors[k].usage <= h.majors[k].size
    /\ h.majors[k].size \in Nat /\ h.majors[k].size < UINT
    /\ \A m \in Minors(h, h.majors[k]) : Taken(m) <= h.majors[k].usage

Counted(h) ==
  /\ \A k \in DOMAIN h.majors : h.majors[k].usage = MAJOR + TakenBy(Minors(h, h.majors[k]))
  /\ h.l_allocated = SizeOfAll(h.majors)
  /\ h.l_inuse = SizeOf(h.minors)

Sane(h) == Typed(h) /\ Listed(h) /\ Separate(h) /\ Counted(h)

IInv == Sane(Heap)

-----------------------------------------------------------------------------
(* The types of the constants.                                             *)
LEMMA Constants ==
  /\ ALIGNMENT \in Nat \ {0} /\ ALIGN_INFO \in Nat \ {0}
  /\ MAJOR \in Nat \ {0} /\ MINOR \in Nat \ {0}
  /\ l_pageSize \in Nat \ {0} /\ l_pageCount \in Nat \ {0} /\ UINT \in Nat \ {0}
  /\ Requests \subseteq Nat /\ Arenas \subseteq Nat /\ NULL \notin Arenas /\ NULL \in Nat
BY SizesAssumption, ArenasAssumption DEF NULL

(* The padded size of a request.                                           *)
LEMMA PaddedIsNat ==
  ASSUME NEW req \in Nat
  PROVE  Padded(req) \in Nat \ {0} /\ Padded(req) = req + ALIGNMENT + ALIGN_INFO
BY Constants DEF Padded

(* The larger of two numbers.                                              *)
LEMMA MaxOfTwo ==
  ASSUME NEW a \in Nat, NEW b \in Nat
  PROVE  Max({a, b}) \in {a, b} /\ Max({a, b}) >= a /\ Max({a, b}) >= b
<1>1. \E x \in {a, b} : \A y \in {a, b} : x >= y
  BY Z3
<1>2. Max({a, b}) \in {a, b} /\ \A y \in {a, b} : Max({a, b}) >= y
  BY <1>1, Zenon DEF Max
<1>. QED
  BY <1>2

(* A number below UINT is not cut short.                                   *)
LEMMA NotCut ==
  ASSUME NEW n \in Nat, n < UINT
  PROVE  n % UINT = n
BY Constants

(* The pages of a new major are a number.                                  *)
LEMMA PagesOf ==
  ASSUME NEW bytes \in Nat
  PROVE  LET st == IF bytes % l_pageSize = 0 THEN bytes \div l_pageSize
                   ELSE bytes \div l_pageSize + 1
         IN  /\ st \in Nat /\ l_pageSize * st >= bytes
             /\ l_pageSize * st < bytes + l_pageSize
<1>. DEFINE d == bytes \div l_pageSize
            r == bytes % l_pageSize
            st == IF r = 0 THEN d ELSE d + 1
<1>1. l_pageSize \in Nat \ {0}
  BY Constants
<1>2. d \in Int /\ r \in Int /\ bytes = l_pageSize * d + r /\ 0 <= r /\ r < l_pageSize
  BY <1>1, Division
<1>. HIDE DEF d, r
<1>3. d \in Nat
  BY <1>1, <1>2
<1>4. l_pageSize * (d + 1) = l_pageSize * d + l_pageSize
  BY <1>1, <1>3
<1>5. st = IF r = 0 THEN d ELSE d + 1
  BY DEF d, r
<1>. HIDE DEF st
<1>6. st \in Nat /\ l_pageSize * st >= bytes /\ l_pageSize * st < bytes + l_pageSize
  BY <1>1, <1>2, <1>3, <1>4, <1>5
<1>. QED
  BY <1>6, Zenon DEF st, d, r

(* The pages of a new major hold its header, the minor's and the block, if *)
(* an unsigned int can tell.                                               *)
LEMMA PagesSuffice ==
  ASSUME Small, NEW req \in Requests
  PROVE  /\ Pages(Padded(req)) \in Nat /\ Pages(Padded(req)) * l_pageSize \in Nat
         /\ Pages(Padded(req)) * l_pageSize >= Padded(req) + MAJOR + MINOR
         /\ Pages(Padded(req)) * l_pageSize < UINT
<1>. DEFINE size == Padded(req)
            bytes == size + MAJOR + MINOR
            st == IF bytes % l_pageSize = 0 THEN bytes \div l_pageSize
                  ELSE bytes \div l_pageSize + 1
            most == Max({st, l_pageCount})
<1>1. /\ size \in Nat /\ l_pageSize \in Nat \ {0} /\ l_pageCount \in Nat /\ UINT \in Nat
      /\ MAJOR \in Nat /\ MINOR \in Nat
  BY Constants, PaddedIsNat
<1>2. bytes + l_pageSize <= UINT /\ l_pageCount * l_pageSize < UINT
  BY DEF Small, Counts
<1>. HIDE DEF size
<1>3. bytes \in Nat /\ bytes < UINT
  BY <1>1, <1>2
<1>4. bytes % UINT = bytes
  BY <1>3, NotCut
<1>5. Pages(size) = most
  BY <1>4, Zenon DEF Pages
<1>6. st \in Nat /\ l_pageSize * st >= bytes /\ l_pageSize * st < bytes + l_pageSize
  <2>. HIDE DEF bytes
  <2>. QED
    BY <1>3, PagesOf, Zenon
<1>. HIDE DEF bytes, st
<1>7. most \in {st, l_pageCount} /\ most >= st
  BY <1>1, <1>6, MaxOfTwo
<1>. HIDE DEF most
<1>8. most \in Nat /\ most * l_pageSize \in Nat
  BY <1>1, <1>6, <1>7
<1>9. most * l_pageSize >= l_pageSize * st
  BY <1>1, <1>6, <1>7, <1>8
<1>10. most * l_pageSize < UINT
  <2>1. CASE most = st
    <3>1. most * l_pageSize = l_pageSize * st
      BY <1>1, <1>6, <2>1
    <3>. DEFINE all == l_pageSize * st
    <3>2. all \in Nat
      BY <1>1, <1>6
    <3>. HIDE DEF all
    <3>3. all < UINT
      BY <1>1, <1>2, <1>3, <1>6, <3>2 DEF all
    <3>. QED
      BY <3>1, <3>3 DEF all
  <2>2. CASE most = l_pageCount
    BY <1>2, <2>2
  <2>. QED
    BY <1>7, <2>1, <2>2
<1>11. most * l_pageSize >= bytes
  <2>. DEFINE x == most * l_pageSize
              y == l_pageSize * st
  <2>1. x \in Nat /\ y \in Nat /\ x >= y /\ y >= bytes
    BY <1>1, <1>6, <1>8, <1>9
  <2>. HIDE DEF x, y
  <2>2. x >= bytes
    BY <1>3, <2>1
  <2>. QED
    BY <2>2 DEF x
<1>. QED
  BY <1>5, <1>8, <1>10, <1>11, Zenon DEF bytes, size

(* The types of a major's fields.                                          *)
LEMMA MajorFacts ==
  ASSUME NEW h, Typed(h), NEW k \in DOMAIN h.majors
  PROVE  /\ h.majors[k] \in Majors
         /\ h.majors[k].base \in Arenas /\ h.majors[k].base \in Nat
         /\ h.majors[k].size \in Nat /\ h.majors[k].usage \in Int
         /\ h.majors[k].size < UINT /\ h.majors[k].size >= MAJOR
<1>1. h.majors[k] \in Majors
  BY DEF Typed, Heaps
<1>2. ASSUME NEW req \in Requests
      PROVE  LET size == Pages(Padded(req)) * l_pageSize
             IN  size \in Nat /\ size < UINT /\ size >= MAJOR
  <2>. DEFINE size == Pages(Padded(req)) * l_pageSize
  <2>1. size \in Nat /\ size < UINT /\ size >= Padded(req) + MAJOR + MINOR
    BY PagesSuffice DEF Typed
  <2>2. Padded(req) \in Nat /\ MAJOR \in Nat /\ MINOR \in Nat
    BY Constants, PaddedIsNat
  <2>. HIDE DEF size
  <2>3. size \in Nat /\ size < UINT /\ size >= MAJOR
    BY <2>1, <2>2
  <2>. QED
    BY <2>3 DEF size
<1>. QED
  BY <1>1, <1>2, Constants DEF Majors

(* The types of a minor's fields, and that it takes at least a byte.       *)
LEMMA MinorFacts ==
  ASSUME NEW h, Typed(h), NEW m \in h.minors
  PROVE  /\ m \in MinorBlocks /\ m.block \in Arenas /\ m.block \in Nat
         /\ m.at \in Nat /\ m.size \in Nat /\ m.req \in Nat
         /\ Taken(m) \in Nat \ {0} /\ Taken(m) = m.size + MINOR
         /\ End(m) \in Nat /\ End(m) = m.at + Taken(m) /\ End(m) > m.at
<1>1. m \in MinorBlocks
  BY DEF Typed, Heaps
<1>2. m.block \in Arenas /\ m.at \in Nat /\ m.size \in Nat /\ m.req \in Requests
  BY <1>1 DEF MinorBlocks
<1>3. Taken(m) = m.size + MINOR /\ End(m) = m.at + Taken(m)
  BY DEF Taken, End
<1>4. m.block \in Nat /\ m.req \in Nat /\ MINOR \in Nat \ {0}
  BY <1>2, Constants
<1>5. Taken(m) \in Nat \ {0}
  BY <1>2, <1>3, <1>4
<1>6. End(m) \in Nat /\ End(m) > m.at
  BY <1>2, <1>3, <1>5
<1>. QED
  BY <1>1, <1>2, <1>3, <1>4, <1>5, <1>6

(* Arenas do not reach into each other.                                    *)
LEMMA MajorsBeside ==
  ASSUME NEW h, Typed(h), NEW k \in DOMAIN h.majors, NEW base \in Arenas,
         h.majors[k].base < base
  PROVE  h.majors[k].base + h.majors[k].size <= base
<1>1. h.majors[k] \in Majors
  BY MajorFacts
<1>2. PICK req \in Requests : h.majors[k].size = Pages(Padded(req)) * l_pageSize
  BY <1>1 DEF Majors
<1>3. h.majors[k].base \in Arenas
  BY <1>1 DEF Majors
<1>4. \A a \in Arenas, b \in Arenas, r \in Requests :
        a < b => a + Pages(Padded(r)) * l_pageSize <= b
  BY ArenasAssumption, Zenon
<1>. QED
  BY <1>2, <1>3, <1>4

(* Room for need bytes is what it says.                                    *)
LEMMA RoomFacts ==
  ASSUME NEW h, Typed(h), NEW k \in DOMAIN h.majors, NEW at \in Nat, NEW need \in Nat
  PROVE  Room(h, h.majors[k], at) >= need
           <=> /\ h.majors[k].base + h.majors[k].size >= at + need
               /\ \A m \in Minors(h, h.majors[k]) : m.at >= at => m.at >= at + need
<1>. DEFINE top == h.majors[k].base + h.majors[k].size
            ats == {m.at : m \in {n \in Minors(h, h.majors[k]) : n.at >= at}} \cup {top}
<1>1. top \in Nat
  BY MajorFacts
<1>2. \A m \in Minors(h, h.majors[k]) : m.at \in Nat
  BY MinorFacts DEF Minors
<1>3. ats \in SUBSET Nat /\ top \in ats
  BY <1>1, <1>2
<1>4. Min(ats) \in ats /\ \A n \in ats : Min(ats) <= n
  <2>. HIDE DEF ats
  <2>. QED
    BY <1>3, MinOfNaturals
<1>5. Room(h, h.majors[k], at) = Min(ats) - at
  BY DEF Room
<1>6. \A m \in Minors(h, h.majors[k]) : m.at >= at => m.at \in ats
  OBVIOUS
<1>7. Min(ats) = top \/ \E m \in Minors(h, h.majors[k]) : m.at >= at /\ Min(ats) = m.at
  <2>. DEFINE least == Min(ats)
  <2>1. least \in ats
    BY <1>4
  <2>. HIDE DEF least
  <2>. QED
    BY <2>1 DEF least
<1>. DEFINE least == Min(ats)
<1>8. least \in Nat
  BY <1>3, <1>4
<1>9. /\ least <= top /\ \A m \in Minors(h, h.majors[k]) : m.at >= at => least <= m.at
      /\ least = top \/ \E m \in Minors(h, h.majors[k]) : m.at >= at /\ least = m.at
  BY <1>3, <1>4, <1>6, <1>7
<1>10. Room(h, h.majors[k], at) = least - at
  BY <1>5
<1>. HIDE DEF least, top, ats
<1>11. Room(h, h.majors[k], at) >= need <=> least >= at + need
  BY <1>8, <1>10
<1>12. least >= at + need <=> /\ top >= at + need
                              /\ \A m \in Minors(h, h.majors[k]) : m.at >= at => m.at >= at + need
  BY <1>1, <1>2, <1>8, <1>9
<1>. QED
  BY <1>11, <1>12 DEF top
-----------------------------------------------------------------------------
(* A base that is listed is found in the list.                             *)
LEMMA InIs ==
  ASSUME NEW h, NEW base \in BasesOf(h)
  PROVE  In(h, base) \in DOMAIN h.majors /\ h.majors[In(h, base)].base = base
BY Zenon DEF In, BasesOf

(* No other major has its base.                                            *)
LEMMA InIsOnly ==
  ASSUME NEW h, Listed(h), NEW k \in DOMAIN h.majors
  PROVE  In(h, h.majors[k].base) = k
<1>1. h.majors[k].base \in BasesOf(h)
  BY DEF BasesOf
<1>. QED
  BY <1>1, InIs DEF Listed

(* The search visits nothing but majors, and every one of them.            *)
LEMMA AscendingIs ==
  ASSUME NEW first \in Nat \ {0}, NEW last \in Nat, first <= last + 1
  PROVE  /\ Ascending(first, last) \in Seq(first .. last)
         /\ Len(Ascending(first, last)) = last - first + 1
         /\ \A i \in 1 .. (last - first + 1) : Ascending(first, last)[i] = first + i - 1
BY DEF Ascending

(* The places of the list in order.                                        *)
LEMMA AllAscending ==
  ASSUME NEW last \in Nat
  PROVE  /\ Ascending(1, last) \in Seq(1 .. last)
         /\ Len(Ascending(1, last)) = last
         /\ \A i \in 1 .. last : Ascending(1, last)[i] = i
BY DEF Ascending

(* malloc visits every major, wherever it begins.                          *)
LEMMA OrderVisits ==
  ASSUME NEW h, Typed(h), Listed(h), NEW need \in Nat
  PROVE  /\ Order(h, need) \in Seq(DOMAIN h.majors)
         /\ \A k \in DOMAIN h.majors : \E j \in DOMAIN Order(h, need) : Order(h, need)[j] = k
<1>. DEFINE n == Len(h.majors)
            bet == In(h, h.bestBet)
            all == Ascending(1, n)
            rest == Ascending(bet, n)
<1>1. n \in Nat /\ DOMAIN h.majors = 1 .. n
  BY DEF Typed, Heaps
<1>2. all \in Seq(1 .. n) /\ Len(all) = n /\ \A i \in 1 .. n : all[i] = i
  BY <1>1, AllAscending
<1>3. CASE Order(h, need) = all
  BY <1>1, <1>2, <1>3
<1>4. CASE Order(h, need) = rest \o all /\ h.bestBet # NULL
  <2>1. h.bestBet \in BasesOf(h)
    BY <1>4 DEF Listed
  <2>2. bet \in 1 .. n
    BY <1>1, <2>1, InIs
  <2>3. rest \in Seq(bet .. n) /\ Len(rest) \in Nat
    <3>1. bet \in Nat \ {0} /\ bet <= n + 1 /\ n - bet + 1 \in Nat
      BY <1>1, <2>2
    <3>. HIDE DEF n, bet
    <3>. QED
      BY <1>1, <3>1, AscendingIs
  <2>. HIDE DEF n, all, rest, bet
  <2>4. rest \in Seq(1 .. n)
    BY <1>1, <2>2, <2>3
  <2>5. rest \o all \in Seq(1 .. n)
    BY <1>2, <2>4
  <2>6. \A k \in 1 .. n : Len(rest) + k \in DOMAIN (rest \o all) /\ (rest \o all)[Len(rest) + k] = k
    BY <1>1, <1>2, <2>3
  <2>. QED
    BY <1>1, <1>4, <2>5, <2>6
<1>. QED
  BY <1>3, <1>4 DEF Order

(* The best bet is a major that has been visited, or stays what it was.    *)
LEMMA BetIs ==
  ASSUME NEW h, Typed(h), NEW visited \in Seq(DOMAIN h.majors)
  PROVE  \E b \in BasesOf(h) \cup {h.bestBet} : Bet(h, visited) = [h EXCEPT !.bestBet = b]
<1>. DEFINE best == IF h.bestBet = NULL THEN 0 ELSE Free(h.majors[In(h, h.bestBet)])
            spare(j) == Free(h.majors[visited[j]])
            betters == {j \in DOMAIN visited :
                          spare(j) > best /\ \A i \in DOMAIN visited : spare(i) <= spare(j)}
            chosen == h.majors[visited[Min(betters)]].base
<1>1. Bet(h, visited) = IF betters = {} THEN h ELSE [h EXCEPT !.bestBet = chosen]
  BY Zenon DEF Bet
<1>2. betters \in SUBSET Nat /\ betters \subseteq DOMAIN visited
  OBVIOUS
<1>3. CASE betters = {}
  <2>1. [h EXCEPT !.bestBet = h.bestBet] = h
    BY DEF Typed, Heaps
  <2>. HIDE DEF betters, chosen
  <2>. QED
    BY <1>1, <1>3, <2>1, Zenon
<1>4. CASE betters # {}
  <2>1. Min(betters) \in betters
    <3>. HIDE DEF betters
    <3>. QED
      BY <1>2, <1>4, MinOfNaturals
  <2>2. visited[Min(betters)] \in DOMAIN h.majors
    <3>1. Min(betters) \in DOMAIN visited
      BY <1>2, <2>1
    <3>. HIDE DEF betters
    <3>. QED
      BY <3>1
  <2>3. chosen \in BasesOf(h)
    <3>. HIDE DEF betters
    <3>. QED
      BY <2>2 DEF BasesOf
  <2>. HIDE DEF betters, chosen
  <2>. QED
    BY <1>1, <1>4, <2>3, Zenon
<1>. QED
  BY <1>3, <1>4

-----------------------------------------------------------------------------
(* What malloc can do: nothing but choose another best bet, place the new  *)
(* minor in a gap of major k, or put it at the start of a new major.       *)
Made(ms, ns, bet, allocated, inuse, pointer) ==
  [majors |-> ms, minors |-> ns, bestBet |-> bet,
   l_allocated |-> allocated, l_inuse |-> inuse, p |-> pointer, outgrown |-> {}]

Minor(base, at, req) == [block |-> base, at |-> at, size |-> Padded(req), req |-> req]

Need(req) == Padded(req) + MINOR

Bets(h) == BasesOf(h) \cup {h.bestBet}

Refuses(h, g) ==
  \E bet \in Bets(h) :
    g = Made(h.majors, h.minors, bet, h.l_allocated, h.l_inuse, NULL)

Used(ms, k, bytes) == [ms EXCEPT ![k].usage = @ + bytes]

Places(h, g, k, at, req) ==
  \E bet \in Bets(h) :
    g = Made(Used(h.majors, k, Need(req)), h.minors \cup {Minor(h.majors[k].base, at, req)},
             bet, h.l_allocated, h.l_inuse + Padded(req), Pointer(at))

NewMajor(base, req) ==
  [base |-> base, size |-> Pages(Padded(req)) * l_pageSize, usage |-> MAJOR + Need(req)]

Extends(h, g, base, req) ==
  \E bet \in Bets(h) \cup {base} :
    g = Made(Append(h.majors, NewMajor(base, req)),
             h.minors \cup {Minor(base, base + MAJOR, req)},
             bet, h.l_allocated + Pages(Padded(req)) * l_pageSize,
             h.l_inuse + Padded(req), Pointer(base + MAJOR))

(* What a request asks of a major is a number.                             *)
LEMMA NeedIsNat ==
  ASSUME NEW req \in Requests
  PROVE  Need(req) \in Nat
<1>1. req \in Nat /\ MINOR \in Nat
  BY Constants
<1>2. Padded(req) \in Nat
  BY <1>1, PaddedIsNat
<1>. QED
  BY <1>1, <1>2 DEF Need

(* The fields of a heap that is put together.                              *)
LEMMA MadeFields ==
  \A ms, ns, b, a, i, q :
    LET h == Made(ms, ns, b, a, i, q)
    IN  /\ h.majors = ms /\ h.minors = ns /\ h.bestBet = b
        /\ h.l_allocated = a /\ h.l_inuse = i /\ h.p = q
BY DEF Made

(* A heap is put together from its fields.                                 *)
LEMMA HeapIsMade ==
  ASSUME NEW h, Typed(h)
  PROVE  h = Made(h.majors, h.minors, h.bestBet, h.l_allocated, h.l_inuse, h.p)
BY DEF Typed, Heaps, Made

(* The changes of Placed, one field after the other.                       *)
Changed(h, k, ns, use, inuse, pointer, out) ==
  [h EXCEPT !.minors = ns, !.majors[k].usage = use, !.l_inuse = inuse, !.p = pointer,
            !.outgrown = out]

(* They make a heap of which only the outgrown sizes are not told.         *)
LEMMA PlacedByFields ==
  ASSUME NEW h, Typed(h), NEW k, NEW ns, NEW use, NEW inuse, NEW pointer
  PROVE  Changed(h, k, ns, use, inuse, pointer, {})
           = Made([h.majors EXCEPT ![k].usage = use], ns, h.bestBet, h.l_allocated, inuse, pointer)
<1>. DEFINE used == [h.majors EXCEPT ![k].usage = use]
            h1 == [h EXCEPT !.minors = ns]
            h2 == [h1 EXCEPT !.majors[k].usage = use]
            h3 == [h2 EXCEPT !.l_inuse = inuse]
            h4 == [h3 EXCEPT !.p = pointer]
            h5 == [h4 EXCEPT !.outgrown = {}]
<1>1. h1 = Made(h.majors, ns, h.bestBet, h.l_allocated, h.l_inuse, h.p)
  BY HeapIsMade DEF Made
<1>2. h2 = Made(used, ns, h.bestBet, h.l_allocated, h.l_inuse, h.p)
  <2>. HIDE DEF h1
  <2>1. h1.majors = h.majors
    BY <1>1, MadeFields
  <2>2. h2 = [h1 EXCEPT !.majors = used]
    BY <2>1, Zenon
  <2>. HIDE DEF h2, used
  <2>. QED
    BY <1>1, <2>2 DEF Made
<1>3. h3 = Made(used, ns, h.bestBet, h.l_allocated, inuse, h.p)
  <2>. HIDE DEF h2, used
  <2>. QED
    BY <1>2 DEF Made
<1>4. h4 = Made(used, ns, h.bestBet, h.l_allocated, inuse, pointer)
  <2>. HIDE DEF h3, used
  <2>. QED
    BY <1>3 DEF Made
<1>5. h5 = Made(used, ns, h.bestBet, h.l_allocated, inuse, pointer)
  <2>. HIDE DEF h4, used
  <2>. QED
    BY <1>4 DEF Made
<1>6. Changed(h, k, ns, use, inuse, pointer, {}) = h5
  BY Zenon DEF Changed
<1>. QED
  BY <1>5, <1>6, Zenon DEF used

(* A block placed in a major, field by field, if it fits.                  *)
LEMMA PlacedIs ==
  ASSUME NEW h, Typed(h), NEW k \in DOMAIN h.majors, NEW req \in Requests,
         NEW at \in Nat, at = Place(h, h.majors[k], Need(req)),
         at + Need(req) <= h.majors[k].base + h.majors[k].size,
         h.majors[k].usage \in Nat, h.majors[k].usage + Need(req) < UINT
  PROVE  Placed(h, k, Padded(req), req) =
           Made(Used(h.majors, k, Need(req)), h.minors \cup {Minor(h.majors[k].base, at, req)},
                h.bestBet, h.l_allocated, h.l_inuse + Padded(req), Pointer(at))
<1>. DEFINE ns == h.minors \cup {[block |-> h.majors[k].base, at |-> at,
                                  size |-> Padded(req) % UINT, req |-> req % UINT]}
            use == (h.majors[k].usage + Padded(req) + MINOR) % UINT
            inuse == h.l_inuse + Padded(req)
            pointer == Pointer(at)
            out == IF at + Padded(req) + MINOR > h.majors[k].base + h.majors[k].size
                   THEN h.outgrown \cup {Padded(req)} ELSE h.outgrown
            used == [h.majors EXCEPT ![k].usage = use]
<1>0. /\ Padded(req) \in Nat /\ Padded(req) >= req /\ req \in Nat /\ MINOR \in Nat
      /\ Need(req) = Padded(req) + MINOR /\ UINT \in Nat
  <2>1. /\ req \in Nat /\ Padded(req) \in Nat /\ Padded(req) = req + ALIGNMENT + ALIGN_INFO
        /\ ALIGNMENT \in Nat /\ ALIGN_INFO \in Nat
    BY PaddedIsNat, Constants
  <2>. QED
    BY <2>1, Constants DEF Need
<1>1. Placed(h, k, Padded(req), req) = Changed(h, k, ns, use, inuse, pointer, out)
  BY Zenon DEF Placed, Need, Changed
<1>2. used = Used(h.majors, k, Need(req))
  <2>. DEFINE v == h.majors[k].usage
              sum == v + Need(req)
  <2>1. v \in Nat
    OBVIOUS
  <2>2. sum \in Nat /\ sum < UINT /\ v + Padded(req) + MINOR = sum
    <3>. HIDE DEF v
    <3>. QED
      BY <1>0, <2>1 DEF v
  <2>. HIDE DEF sum
  <2>3. use = sum
    BY <2>2, NotCut
  <2>. HIDE DEF use
  <2>. QED
    BY <2>3, Zenon DEF Used, sum
<1>3. ns = h.minors \cup {Minor(h.majors[k].base, at, req)}
  <2>1. Need(req) < UINT
    BY <1>0
  <2>2. Padded(req) < UINT /\ req < UINT
    BY <1>0, <2>1
  <2>3. Padded(req) % UINT = Padded(req) /\ req % UINT = req
    BY <1>0, <2>2, NotCut
  <2>. QED
    BY <2>3, Zenon DEF Minor
<1>4. out = {}
  <2>1. h.outgrown = {}
    BY DEF Typed, Heaps
  <2>2. h.majors[k].base \in Nat /\ h.majors[k].size \in Nat
    BY MajorFacts
  <2>3. ~ (at + Padded(req) + MINOR > h.majors[k].base + h.majors[k].size)
    BY <1>0, <2>2
  <2>. QED
    BY <2>1, <2>3, Zenon
<1>. HIDE DEF ns, use, inuse, pointer, out
<1>5. Changed(h, k, ns, use, inuse, pointer, out)
        = Made(used, ns, h.bestBet, h.l_allocated, inuse, pointer)
  <2>. HIDE DEF used
  <2>1. Changed(h, k, ns, use, inuse, pointer, {})
          = Made([h.majors EXCEPT ![k].usage = use], ns, h.bestBet, h.l_allocated, inuse, pointer)
    BY PlacedByFields
  <2>. QED
    BY <1>4, <2>1, Zenon DEF used
<1>. QED
  BY <1>1, <1>2, <1>3, <1>5, Zenon DEF inuse, pointer

(* A major added, field by field.                                          *)
LEMMA WithMajorIs ==
  ASSUME NEW h, Typed(h), NEW base, NEW req \in Requests
  PROVE  WithMajor(h, base, Padded(req)) =
           Made(Append(h.majors, [base |-> base, size |-> Pages(Padded(req)) * l_pageSize,
                                  usage |-> MAJOR]),
                h.minors, h.bestBet, h.l_allocated + Pages(Padded(req)) * l_pageSize,
                h.l_inuse, h.p)
<1>. DEFINE all == Pages(Padded(req)) * l_pageSize
            bytes == all % UINT
            ms == Append(h.majors, [base |-> base, size |-> bytes, usage |-> MAJOR])
            allocated == h.l_allocated + bytes
            out == IF all >= UINT THEN h.outgrown \cup {Padded(req)} ELSE h.outgrown
            h1 == [h EXCEPT !.majors = ms]
            h2 == [h1 EXCEPT !.l_allocated = allocated]
            h3 == [h2 EXCEPT !.outgrown = out]
<1>1. WithMajor(h, base, Padded(req)) =
        [h EXCEPT !.majors = ms, !.l_allocated = allocated, !.outgrown = out]
  BY Zenon DEF WithMajor
<1>2. all \in Nat /\ all < UINT /\ UINT \in Nat
  BY PagesSuffice, Constants DEF Typed
<1>. HIDE DEF all
<1>3. bytes = all
  BY <1>2, NotCut
<1>4. out = {}
  <2>1. h.outgrown = {}
    BY DEF Typed, Heaps
  <2>2. ~ (all >= UINT)
    BY <1>2
  <2>. QED
    BY <2>1, <2>2, Zenon
<1>. HIDE DEF ms, allocated, out
<1>5. h1 = Made(ms, h.minors, h.bestBet, h.l_allocated, h.l_inuse, h.p)
  BY HeapIsMade DEF Made
<1>6. h2 = Made(ms, h.minors, h.bestBet, allocated, h.l_inuse, h.p)
  <2>. HIDE DEF h1
  <2>. QED
    BY <1>5 DEF Made
<1>7. h3 = Made(ms, h.minors, h.bestBet, allocated, h.l_inuse, h.p)
  <2>. HIDE DEF h2
  <2>. QED
    BY <1>4, <1>6 DEF Made
<1>8. [h EXCEPT !.majors = ms, !.l_allocated = allocated, !.outgrown = out] = h3
  BY Zenon
<1>9. WithMajor(h, base, Padded(req)) =
        Made(ms, h.minors, h.bestBet, allocated, h.l_inuse, h.p)
  BY <1>1, <1>7, <1>8, Zenon
<1>. HIDE DEF bytes
<1>10. WithMajor(h, base, Padded(req)) =
         Made(Append(h.majors, [base |-> base, size |-> all, usage |-> MAJOR]),
              h.minors, h.bestBet, h.l_allocated + all, h.l_inuse, h.p)
  BY <1>3, <1>9, Zenon DEF ms, allocated
<1>. QED
  BY <1>10, Zenon DEF all

(* A better bet, field by field.                                           *)
LEMMA BetterIs ==
  ASSUME NEW h, Typed(h), NEW bet
  PROVE  [h EXCEPT !.bestBet = bet] =
           Made(h.majors, h.minors, bet, h.l_allocated, h.l_inuse, h.p)
BY HeapIsMade DEF Made

(* A heap is typed when its fields are.                                    *)
LEMMA MadeTyped ==
  ASSUME Small, NEW ms \in Seq(Majors), NEW ns \in SUBSET MinorBlocks, IsFiniteSet(ns),
         NEW bet \in Arenas \cup {NULL}, NEW allocated \in Int, NEW inuse \in Int, NEW q \in Nat
  PROVE  Typed(Made(ms, ns, bet, allocated, inuse, q))
<1>1. Made(ms, ns, bet, allocated, inuse, q) \in Heaps
  BY DEF Heaps, Made
<1>. QED
  BY <1>1, MadeFields DEF Typed

(* The types of a heap's fields.                                           *)
LEMMA TypedFields ==
  ASSUME NEW h, Typed(h)
  PROVE  /\ h.majors \in Seq(Majors) /\ h.minors \in SUBSET MinorBlocks /\ IsFiniteSet(h.minors)
         /\ h.bestBet \in Arenas \cup {NULL} /\ h.l_allocated \in Int /\ h.l_inuse \in Int
         /\ h.p \in Nat /\ BasesOf(h) \subseteq Arenas /\ Bets(h) \subseteq Arenas \cup {NULL}
         /\ Small
<1>1. /\ h.majors \in Seq(Majors) /\ h.minors \in SUBSET MinorBlocks /\ IsFiniteSet(h.minors)
      /\ h.bestBet \in Arenas \cup {NULL} /\ h.l_allocated \in Int /\ h.l_inuse \in Int
      /\ h.p \in Nat /\ Small
  BY DEF Typed, Heaps
<1>2. BasesOf(h) \subseteq Arenas
  BY MajorFacts DEF BasesOf
<1>. QED
  BY <1>1, <1>2 DEF Bets

(* Gaps are addresses, and the least is one of them.                       *)
LEMMA GapsAreNat ==
  ASSUME NEW h, Typed(h), NEW k \in DOMAIN h.majors, NEW need
  PROVE  /\ Gaps(h, h.majors[k], need) \in SUBSET Nat
         /\ Gaps(h, h.majors[k], need) # {} =>
              Min(Gaps(h, h.majors[k], need)) \in Gaps(h, h.majors[k], need)
<1>1. Gaps(h, h.majors[k], need) \in SUBSET Nat
  BY MajorFacts, MinorFacts, Constants DEF Gaps, Minors
<1>. QED
  BY <1>1, MinOfNaturals

(* Only the minors of a heap say where its gaps are.                       *)
LEMMA GapsOfMinors ==
  ASSUME NEW h, NEW g, g.minors = h.minors, NEW major, NEW need
  PROVE  Gaps(g, major, need) = Gaps(h, major, need)
BY DEF Gaps, Minors, Room

(* The only gap of an empty major is the place behind its header.          *)
LEMMA PlaceIs ==
  ASSUME NEW h, Typed(h), NEW k \in DOMAIN h.majors, NEW need, Gaps(h, h.majors[k], need) # {}
  PROVE  Place(h, h.majors[k], need) = Min(Gaps(h, h.majors[k], need))
<1>1. CASE Minors(h, h.majors[k]) = {}
  <2>. DEFINE gaps == Gaps(h, h.majors[k], need)
              first == h.majors[k].base + MAJOR
  <2>1. \A at \in gaps : at = first
    BY <1>1 DEF Gaps
  <2>2. Min(gaps) \in gaps
    BY GapsAreNat
  <2>3. Place(h, h.majors[k], need) = first
    BY <1>1 DEF Place
  <2>. HIDE DEF gaps
  <2>4. Place(h, h.majors[k], need) = Min(gaps)
    BY <2>1, <2>2, <2>3
  <2>. QED
    BY <2>4 DEF gaps
<1>2. CASE Minors(h, h.majors[k]) # {}
  BY <1>2 DEF Place
<1>. QED
  BY <1>1, <1>2

(* A major with as many bytes left can count as many more.                 *)
LEMMA FreeIs ==
  ASSUME NEW h, Typed(h), Bounded(h), NEW k \in DOMAIN h.majors
  PROVE  Free(h.majors[k]) = h.majors[k].size - h.majors[k].usage
<1>. DEFINE size == h.majors[k].size
            usage == h.majors[k].usage
            left == size - usage
<1>1. usage \in Nat /\ usage <= size /\ size \in Nat /\ size < UINT /\ UINT \in Nat
  BY Constants DEF Bounded
<1>. HIDE DEF size, usage
<1>2. left \in Nat /\ left < UINT
  BY <1>1
<1>. HIDE DEF left
<1>3. left % UINT = left
  BY <1>2, NotCut
<1>. QED
  BY <1>3, Zenon DEF Free, left, size, usage

(* The search places the block at a gap of a major in which it fits.       *)
LEMMA PlacedPlaces ==
  ASSUME NEW h, Typed(h), Bounded(h), NEW k \in DOMAIN h.majors, NEW req \in Requests,
         Fits(h, k, Need(req)), NEW visited \in Seq(DOMAIN h.majors)
  PROVE  \E at \in Gaps(h, h.majors[k], Need(req)) :
           Places(h, Placed(Bet(h, visited), k, Padded(req), req), k, at, req)
<1>1. PICK bet \in Bets(h) : Bet(h, visited) = [h EXCEPT !.bestBet = bet]
  BY BetIs DEF Bets
<1>. DEFINE b == Bet(h, visited)
            at == Min(Gaps(h, h.majors[k], Need(req)))
<1>2. b = Made(h.majors, h.minors, bet, h.l_allocated, h.l_inuse, h.p)
  BY <1>1, BetterIs
<1>. HIDE DEF b
<1>3. /\ b.majors = h.majors /\ b.minors = h.minors /\ b.bestBet = bet
      /\ b.l_allocated = h.l_allocated /\ b.l_inuse = h.l_inuse
  BY <1>2 DEF Made
<1>4. Typed(b)
  BY <1>2, TypedFields, MadeTyped
<1>5. at \in Gaps(h, h.majors[k], Need(req)) /\ at \in Nat
  BY GapsAreNat DEF Fits
<1>6. Place(b, b.majors[k], Need(req)) = at
  <2>1. k \in DOMAIN b.majors /\ Gaps(b, b.majors[k], Need(req)) = Gaps(h, h.majors[k], Need(req))
    BY <1>3, GapsOfMinors
  <2>2. Gaps(b, b.majors[k], Need(req)) # {}
    BY <1>5, <2>1
  <2>. QED
    BY <1>4, <2>1, <2>2, PlaceIs
<1>7. Need(req) \in Nat
  BY NeedIsNat
<1>8. at + Need(req) <= h.majors[k].base + h.majors[k].size
  <2>1. Room(h, h.majors[k], at) >= Need(req)
    BY <1>5 DEF Gaps
  <2>2. h.majors[k].base + h.majors[k].size >= at + Need(req)
    <3>. HIDE DEF at
    <3>. QED
      BY <1>5, <1>7, <2>1, RoomFacts
  <2>3. h.majors[k].base \in Nat /\ h.majors[k].size \in Nat
    BY MajorFacts
  <2>. HIDE DEF at
  <2>. QED
    BY <1>5, <1>7, <2>2, <2>3
<1>9. h.majors[k].usage \in Nat /\ h.majors[k].usage + Need(req) < UINT
  <2>1. /\ h.majors[k].usage \in Nat /\ h.majors[k].usage <= h.majors[k].size
        /\ h.majors[k].size \in Nat /\ h.majors[k].size < UINT /\ UINT \in Nat
    BY Constants DEF Bounded
  <2>2. h.majors[k].size - h.majors[k].usage >= Need(req)
    BY FreeIs DEF Fits
  <2>. QED
    BY <1>7, <2>1, <2>2
<1>. HIDE DEF at
<1>10. Placed(b, k, Padded(req), req) =
        Made(Used(b.majors, k, Need(req)), b.minors \cup {Minor(b.majors[k].base, at, req)},
             b.bestBet, b.l_allocated, b.l_inuse + Padded(req), Pointer(at))
  <2>1. /\ k \in DOMAIN b.majors /\ at = Place(b, b.majors[k], Need(req))
        /\ at + Need(req) <= b.majors[k].base + b.majors[k].size
        /\ b.majors[k].usage \in Nat /\ b.majors[k].usage + Need(req) < UINT
    BY <1>3, <1>6, <1>8, <1>9, Zenon
  <2>. QED
    BY <1>4, <1>5, <2>1, PlacedIs, Zenon
<1>11. Places(h, Placed(b, k, Padded(req), req), k, at, req)
  BY <1>3, <1>10, Zenon DEF Places
<1>. QED
  BY <1>5, <1>11 DEF b

(* A new major is typed.                                                   *)
LEMMA NewMajorTyped ==
  ASSUME NEW base \in Arenas, NEW req \in Requests, NEW usage \in Int
  PROVE  [base |-> base, size |-> Pages(Padded(req)) * l_pageSize, usage |-> usage] \in Majors
BY DEF Majors

(* A major that has just been added takes the block behind its header, and *)
(* counts it.                                                              *)
LEMMA PlaceInNew ==
  ASSUME NEW h, Typed(h), NEW n \in DOMAIN h.majors, NEW req \in Requests,
         h.majors[n].size = Pages(Padded(req)) * l_pageSize, h.majors[n].usage = MAJOR,
         \A m \in h.minors : m.block # h.majors[n].base
  PROVE  LET at == h.majors[n].base + MAJOR
         IN  /\ at \in Nat /\ Place(h, h.majors[n], Need(req)) = at
             /\ at + Need(req) <= h.majors[n].base + h.majors[n].size
             /\ h.majors[n].usage \in Nat /\ h.majors[n].usage + Need(req) < UINT
             /\ Free(h.majors[n]) >= Need(req)
<1>. DEFINE base == h.majors[n].base
            size == h.majors[n].size
            left == size - MAJOR
<1>1. base \in Nat /\ MAJOR \in Nat /\ size \in Nat /\ UINT \in Nat
  BY MajorFacts, Constants
<1>2. Minors(h, h.majors[n]) = {}
  BY DEF Minors
<1>3. Padded(req) \in Nat /\ MINOR \in Nat /\ Need(req) \in Nat /\ Need(req) = Padded(req) + MINOR
  <2>1. req \in Nat /\ MINOR \in Nat /\ Need(req) \in Nat
    BY NeedIsNat, Constants
  <2>2. Padded(req) \in Nat
    BY <2>1, PaddedIsNat
  <2>. QED
    BY <2>1, <2>2 DEF Need
<1>4. size >= Padded(req) + MAJOR + MINOR /\ size < UINT
  BY PagesSuffice DEF Typed
<1>5. Place(h, h.majors[n], Need(req)) = base + MAJOR
  BY <1>2 DEF Place
<1>. HIDE DEF base, size
<1>6. left \in Nat /\ left < UINT /\ left >= Need(req)
  BY <1>1, <1>3, <1>4
<1>7. left % UINT = left
  <2>. HIDE DEF left
  <2>. QED
    BY <1>6, NotCut
<1>8. Free(h.majors[n]) = left
  BY <1>7, Zenon DEF Free, left, size
<1>9. Free(h.majors[n]) >= Need(req)
  BY <1>6, <1>8, Zenon
<1>10. base + MAJOR \in Nat /\ (base + MAJOR) + Need(req) <= base + size /\ MAJOR + Need(req) < UINT
  BY <1>1, <1>3, <1>4
<1>. QED
  BY <1>1, <1>5, <1>9, <1>10, Zenon DEF base, size

(* Changing the last element of a list that was just extended.             *)
LEMMA LastReplaced == ASSUME NEW S, NEW ms \in Seq(S), NEW old \in S, NEW new \in S
  PROVE  [Append(ms, old) EXCEPT ![Len(ms) + 1] = new] = Append(ms, new)
<1>. DEFINE a == Append(ms, old)
            b == Append(ms, new)
            n == Len(ms)
<1>1. a \in Seq(S) /\ Len(a) = n + 1 /\ n \in Nat /\ \A j \in 1 .. n : a[j] = ms[j]
  OBVIOUS
<1>2. b \in Seq(S) /\ Len(b) = n + 1 /\ b[n + 1] = new /\ \A j \in 1 .. n : b[j] = ms[j]
  OBVIOUS
<1>. HIDE DEF a, b, n
<1>3. [a EXCEPT ![n + 1] = new] \in Seq(S) /\ Len([a EXCEPT ![n + 1] = new]) = n + 1
  BY <1>1
<1>4. \A j \in 1 .. (n + 1) : [a EXCEPT ![n + 1] = new][j] = b[j]
  BY <1>1, <1>2
<1>5. [a EXCEPT ![n + 1] = new] = b
  BY <1>2, <1>3, <1>4, SeqEqual
<1>. QED
  BY <1>5 DEF a, b, n

(* The first block of a new major is counted in it.                        *)
LEMMA UsedLast ==
  ASSUME NEW ms \in Seq(Majors), NEW base \in Arenas, NEW req \in Requests
  PROVE  Used(Append(ms, [base |-> base, size |-> Pages(Padded(req)) * l_pageSize,
                          usage |-> MAJOR]), Len(ms) + 1, Need(req)) =
           Append(ms, NewMajor(base, req))
<1>. DEFINE n == Len(ms)
            size == Pages(Padded(req)) * l_pageSize
            usage == MAJOR
            bytes == Need(req)
            old == [base |-> base, size |-> size, usage |-> usage]
            new == [base |-> base, size |-> size, usage |-> usage + bytes]
            a == Append(ms, old)
<1>0. MAJOR \in Int /\ MAJOR + Need(req) \in Int
  <2>1. Padded(req) \in Nat
    BY PaddedIsNat, Constants
  <2>2. MAJOR \in Nat /\ MINOR \in Nat
    BY Constants
  <2>. QED
    BY <2>1, <2>2 DEF Need
<1>. HIDE DEF size, usage, bytes
<1>1. /\ n \in Nat /\ DOMAIN a = 1 .. (n + 1) /\ a[n + 1] = old
      /\ \A j \in 1 .. n : a[j] = ms[j]
  <2>. HIDE DEF old
  <2>. QED
    OBVIOUS
<1>2. a[n + 1].usage = usage
  BY <1>1
<1>3. Used(a, n + 1, bytes) = [a EXCEPT ![n + 1] = [old EXCEPT !.usage = usage + bytes]]
  <2>. HIDE DEF a, old
  <2>. QED
    BY <1>1, <1>2 DEF Used
<1>4. [old EXCEPT !.usage = usage + bytes] = new
  OBVIOUS
<1>5. [a EXCEPT ![n + 1] = new] = Append(ms, new)
  <2>1. old \in Majors /\ new \in Majors
    BY <1>0, NewMajorTyped, Zenon DEF size, usage, bytes
  <2>. HIDE DEF old, new
  <2>. QED
    BY <2>1, LastReplaced
<1>. HIDE DEF a, old, new, n
<1>6. Used(a, n + 1, bytes) = Append(ms, new)
  BY <1>3, <1>4, <1>5, Zenon
<1>. QED
  BY <1>6, Zenon DEF a, old, new, n, size, usage, bytes, NewMajor

(* A sequence of one element.                                              *)
LEMMA SeqOfOne ==
  ASSUME NEW S, NEW x \in S
  PROVE  <<x>> \in Seq(S)
OBVIOUS

(* At the end of the list malloc adds a major with the block in it.        *)
LEMMA ExtendedExtends ==
  ASSUME NEW h, Typed(h), Listed(h), NEW base \in Arenas \ BasesOf(h), NEW again,
         NEW req \in Requests, NEW visited \in Seq(DOMAIN h.majors)
  PROVE  Extends(h, Extended(Bet(h, visited), base, again, Padded(req), req), base, req)
<1>. DEFINE n == Len(h.majors)
            b == Bet(h, visited)
            major == [base |-> base, size |-> Pages(Padded(req)) * l_pageSize, usage |-> MAJOR]
            ms == Append(h.majors, major)
            g == WithMajor(b, base, Padded(req))
            allocated == h.l_allocated + Pages(Padded(req)) * l_pageSize
<1>1. PICK bet \in Bets(h) : b = [h EXCEPT !.bestBet = bet]
  BY BetIs DEF Bets
<1>2. b = Made(h.majors, h.minors, bet, h.l_allocated, h.l_inuse, h.p)
  BY <1>1, BetterIs
<1>3. /\ b.majors = h.majors /\ b.minors = h.minors /\ b.bestBet = bet
      /\ b.l_allocated = h.l_allocated /\ b.l_inuse = h.l_inuse /\ b.p = h.p
  <2>. HIDE DEF b
  <2>. QED
    BY <1>2 DEF Made
<1>4. Typed(b)
  <2>. HIDE DEF b
  <2>. QED
    BY <1>2, TypedFields, MadeTyped
<1>5. g = Made(ms, h.minors, bet, allocated, h.l_inuse, h.p)
  <2>. HIDE DEF b
  <2>. QED
    BY <1>3, <1>4, WithMajorIs, Zenon
<1>6. major \in Majors /\ n \in Nat /\ ms \in Seq(Majors) /\ Len(ms) = n + 1 /\ ms[n + 1] = major
  <2>1. major \in Majors
    BY NewMajorTyped, Constants
  <2>2. h.majors \in Seq(Majors)
    BY TypedFields
  <2>. HIDE DEF major
  <2>. QED
    BY <2>1, <2>2
<1>7. allocated \in Int
  <2>1. Pages(Padded(req)) * l_pageSize \in Nat /\ h.l_allocated \in Int
    BY PagesSuffice, TypedFields
  <2>. QED
    BY <2>1
<1>. DEFINE grown(x) == Made(ms, h.minors, x, allocated, h.l_inuse, h.p)
<1>8. \A x \in Bets(h) \cup {base} :
        /\ Typed(grown(x)) /\ Extends(h, Placed(grown(x), n + 1, Padded(req), req), base, req)
        /\ Free(grown(x).majors[n + 1]) >= Need(req)
  <2>. TAKE x \in Bets(h) \cup {base}
  <2>. DEFINE f == grown(x)
  <2>1. Typed(f)
    <3>. HIDE DEF ms, allocated
    <3>. QED
      BY <1>6, <1>7, TypedFields, MadeTyped
  <2>2. /\ f.majors = ms /\ f.minors = h.minors /\ f.bestBet = x
        /\ f.l_allocated = allocated /\ f.l_inuse = h.l_inuse
    <3>. HIDE DEF ms, allocated
    <3>. QED
      BY DEF Made
  <2>3. n + 1 \in DOMAIN f.majors /\ f.majors[n + 1] = major
    <3>. HIDE DEF f, ms, major
    <3>. QED
      BY <1>6, <2>2
  <2>4. \A m \in f.minors : m.block # base
    BY <2>2 DEF Listed
  <2>5. /\ base + MAJOR \in Nat /\ base + MAJOR = Place(f, f.majors[n + 1], Need(req))
        /\ base + MAJOR + Need(req) <= f.majors[n + 1].base + f.majors[n + 1].size
        /\ f.majors[n + 1].usage \in Nat /\ f.majors[n + 1].usage + Need(req) < UINT
        /\ Free(f.majors[n + 1]) >= Need(req)
    <3>1. /\ f.majors[n + 1].base = base /\ f.majors[n + 1].usage = MAJOR
          /\ f.majors[n + 1].size = Pages(Padded(req)) * l_pageSize
      <4>1. /\ major.base = base /\ major.size = Pages(Padded(req)) * l_pageSize
            /\ major.usage = MAJOR
        OBVIOUS
      <4>. HIDE DEF major, f
      <4>. QED
        BY <2>3, <4>1
    <3>2. \A m \in f.minors : m.block # f.majors[n + 1].base
      BY <2>4, <3>1
    <3>. HIDE DEF f, n
    <3>3. LET at == f.majors[n + 1].base + MAJOR
          IN  /\ at \in Nat /\ Place(f, f.majors[n + 1], Need(req)) = at
              /\ at + Need(req) <= f.majors[n + 1].base + f.majors[n + 1].size
              /\ f.majors[n + 1].usage \in Nat /\ f.majors[n + 1].usage + Need(req) < UINT
              /\ Free(f.majors[n + 1]) >= Need(req)
      BY <2>1, <2>3, <3>1, <3>2, PlaceInNew
    <3>. QED
      BY <3>1, <3>3, Zenon
  <2>6. Placed(f, n + 1, Padded(req), req) =
          Made(Used(ms, n + 1, Need(req)), h.minors \cup {Minor(base, base + MAJOR, req)},
               x, allocated, h.l_inuse + Padded(req), Pointer(base + MAJOR))
    <3>1. f.majors[n + 1].base = base
      <4>1. major.base = base
        OBVIOUS
      <4>. HIDE DEF major, f
      <4>. QED
        BY <2>3, <4>1
    <3>. DEFINE at == base + MAJOR
                last == n + 1
    <3>. HIDE DEF f, ms, allocated, n, major
    <3>2. /\ last \in DOMAIN f.majors /\ at \in Nat
          /\ at = Place(f, f.majors[last], Need(req))
          /\ at + Need(req) <= f.majors[last].base + f.majors[last].size
          /\ f.majors[last].usage \in Nat /\ f.majors[last].usage + Need(req) < UINT
      BY <2>3, <2>5, Zenon
    <3>. HIDE DEF at, last
    <3>3. Placed(f, last, Padded(req), req) =
            Made(Used(f.majors, last, Need(req)),
                 f.minors \cup {Minor(f.majors[last].base, at, req)},
                 f.bestBet, f.l_allocated, f.l_inuse + Padded(req), Pointer(at))
      BY <2>1, <3>2, PlacedIs
    <3>. QED
      BY <2>2, <3>1, <3>3, Zenon DEF at, last
  <2>7. Used(ms, n + 1, Need(req)) = Append(h.majors, NewMajor(base, req))
    <3>1. h.majors \in Seq(Majors)
      BY TypedFields
    <3>. QED
      BY <3>1, UsedLast, Zenon
  <2>8. Extends(h, Placed(f, n + 1, Padded(req), req), base, req)
    <3>. HIDE DEF f, ms, n
    <3>. QED
      BY <2>6, <2>7, Zenon DEF Extends
  <2>. HIDE DEF grown
  <2>. QED
    BY <2>1, <2>5, <2>8, Zenon
<1>9. PICK x \in Bets(h) \cup {base} : Bet(g, <<n + 1>>) = Made(ms, h.minors, x, allocated, h.l_inuse, h.p)
  <2>1. Typed(g)
    <3>. HIDE DEF g, ms, allocated
    <3>. QED
      BY <1>5, <1>8, Zenon
  <2>2. /\ g.majors = ms /\ g.minors = h.minors /\ g.bestBet = bet
        /\ g.l_allocated = allocated /\ g.l_inuse = h.l_inuse /\ g.p = h.p
    <3>. HIDE DEF g, ms, allocated
    <3>. QED
      BY <1>5 DEF Made
  <2>3. <<n + 1>> \in Seq(DOMAIN g.majors)
    <3>1. n + 1 \in DOMAIN g.majors
      <4>. HIDE DEF g, ms
      <4>. QED
        BY <1>6, <2>2
    <3>. HIDE DEF g, n
    <3>. QED
      BY <3>1, SeqOfOne
  <2>4. PICK x \in BasesOf(g) \cup {g.bestBet} : Bet(g, <<n + 1>>) = [g EXCEPT !.bestBet = x]
    <3>. HIDE DEF g, n
    <3>. QED
      BY <2>1, <2>3, BetIs
  <2>5. x \in Bets(h) \cup {base}
    <3>1. BasesOf(g) \subseteq BasesOf(h) \cup {base}
      <4>1. \A k \in DOMAIN ms : ms[k].base = base \/ (k \in DOMAIN h.majors /\ ms[k] = h.majors[k])
        <5>1. h.majors \in Seq(Majors) /\ major.base = base
          BY TypedFields
        <5>. HIDE DEF major
        <5>. QED
          BY <1>6, <5>1
      <4>. HIDE DEF g, ms
      <4>. QED
        BY <2>2, <4>1 DEF BasesOf
    <3>. HIDE DEF g
    <3>. QED
      BY <2>2, <2>4, <3>1 DEF Bets
  <2>6. [g EXCEPT !.bestBet = x] = Made(g.majors, g.minors, x, g.l_allocated, g.l_inuse, g.p)
    <3>. HIDE DEF g
    <3>. QED
      BY <2>1, BetterIs
  <2>. HIDE DEF g, ms, allocated
  <2>. QED
    BY <2>2, <2>4, <2>5, <2>6
<1>10. base # NULL
  BY Constants
<1>11. ~ (Free(Bet(g, <<n + 1>>).majors[n + 1]) < Need(req))
  <2>1. Bet(g, <<n + 1>>) = grown(x)
    BY <1>9, Zenon
  <2>2. Free(grown(x).majors[n + 1]) >= Need(req)
    BY <1>8, <1>9
  <2>. DEFINE left == Free(grown(x).majors[n + 1])
  <2>3. left \in Int /\ Need(req) \in Int
    <3>1. Need(req) \in Nat
      BY NeedIsNat
    <3>2. \A major_ : major_.size \in Int /\ major_.usage \in Int => Free(major_) \in Int
      BY Constants DEF Free
    <3>3. grown(x).majors[n + 1] \in Majors
      <4>1. grown(x).majors = ms
        <5>. HIDE DEF ms, allocated
        <5>. QED
          BY DEF Made
      <4>. HIDE DEF grown, ms, major
      <4>. QED
        BY <1>6, <4>1
    <3>4. \A y \in Majors : y.size \in Int /\ y.usage \in Int
      <4>1. \A r \in Requests : Pages(Padded(r)) * l_pageSize \in Int
        BY PagesSuffice DEF Typed
      <4>. QED
        BY <4>1 DEF Majors
    <3>. HIDE DEF grown, Majors, n
    <3>. QED
      BY <3>1, <3>2, <3>3, <3>4
  <2>. HIDE DEF left
  <2>4. ~ (left < Need(req))
    BY <2>2, <2>3 DEF left
  <2>. QED
    BY <2>1, <2>4, Zenon DEF left
<1>12. \/ Extended(b, base, again, Padded(req), req) = Placed(g, n + 1, Padded(req), req)
       \/ Extended(b, base, again, Padded(req), req) =
            Placed(Bet(g, <<n + 1>>), n + 1, Padded(req), req)
  <2>1. Len(b.majors) = n
    BY <1>3
  <2>2. Appended(b, base, Padded(req), req) = Placed(g, n + 1, Padded(req), req)
    <3>. HIDE DEF b, n
    <3>. QED
      BY <1>10, <2>1, Zenon DEF Appended
  <2>. HIDE DEF b, n
  <2>. QED
    BY <1>10, <1>11, <2>1, <2>2, Zenon DEF Extended, Need
<1>. HIDE DEF b, g, ms, allocated, n
<1>. QED
  BY <1>5, <1>8, <1>9, <1>12, Zenon DEF b

-----------------------------------------------------------------------------
(* The part of a sequence up to a place.                                   *)
LEMMA Prefix ==
  ASSUME NEW S, NEW s \in Seq(S), NEW j \in DOMAIN s
  PROVE  s[j] \in S /\ SubSeq(s, 1, j) \in Seq(S)
OBVIOUS

(* malloc places the block in a major where it fits; where it fits in none *)
(* it refuses or adds a major, as liballoc_alloc returns NULL or memory.   *)
LEMMA MallocDoes ==
  ASSUME NEW h, Typed(h), Listed(h), Bounded(h), NEW req \in Requests,
         NEW base \in (Arenas \ BasesOf(h)) \cup {NULL}, NEW again
  PROVE  \/ \E k \in DOMAIN h.majors :
              /\ Fits(h, k, Need(req))
              /\ \E at \in Gaps(h, h.majors[k], Need(req)) :
                   Places(h, malloc(h, req, base, again), k, at, req)
         \/ /\ \A k \in DOMAIN h.majors : ~ Fits(h, k, Need(req))
            /\ \/ base = NULL /\ Refuses(h, malloc(h, req, base, again))
               \/ base # NULL /\ Extends(h, malloc(h, req, base, again), base, req)
<1>. DEFINE order == Order(h, Need(req))
            size == Padded(req)
            hits == {j \in DOMAIN order : Fits(h, order[j], Need(req))}
            g == malloc(h, req, base, again)
<1>1. /\ order \in Seq(DOMAIN h.majors)
      /\ \A k \in DOMAIN h.majors : \E j \in DOMAIN order : order[j] = k
  <2>1. Need(req) \in Nat
    BY NeedIsNat
  <2>. QED
    BY <2>1, OrderVisits
<1>2. g = Visit(h, order, hits, base, again, size, req)
  BY DEF malloc, Request, Need
<1>. HIDE DEF g, order, size
<1>3. CASE hits # {}
  <2>. DEFINE j == Min(hits)
              k == order[j]
              visited == SubSeq(order, 1, j)
  <2>1. hits \in SUBSET Nat
    BY <1>1
  <2>2. j \in hits
    <3>. HIDE DEF hits
    <3>. QED
      BY <1>3, <2>1, MinOfNaturals
  <2>3. j \in DOMAIN order /\ Fits(h, order[j], Need(req))
    BY <2>2, Zenon
  <2>4. g = Placed(Bet(h, visited), k, size, req)
    <3>. HIDE DEF hits
    <3>. QED
      BY <1>2, <1>3, Zenon DEF Visit
  <2>. HIDE DEF j
  <2>5. k \in DOMAIN h.majors /\ visited \in Seq(DOMAIN h.majors)
    BY <1>1, <2>3, Prefix
  <2>. HIDE DEF k, visited
  <2>6. Fits(h, k, Need(req))
    BY <2>3, Zenon DEF k
  <2>7. \E at \in Gaps(h, h.majors[k], Need(req)) : Places(h, g, k, at, req)
    BY <2>4, <2>5, <2>6, PlacedPlaces, Zenon DEF size
  <2>. QED
    BY <2>5, <2>6, <2>7, Zenon DEF g
<1>4. CASE hits = {}
  <2>1. g = Extended(Bet(h, order), base, again, size, req)
    <3>. HIDE DEF hits
    <3>. QED
      BY <1>2, <1>4, Zenon DEF Visit
  <2>2. \A k \in DOMAIN h.majors : ~ Fits(h, k, Need(req))
    BY <1>1, <1>4
  <2>3. CASE base = NULL
    <3>. DEFINE b == Bet(h, order)
    <3>1. g = [b EXCEPT !.p = NULL]
      BY <2>1, <2>3 DEF Extended, Appended
    <3>2. PICK bet \in Bets(h) : b = [h EXCEPT !.bestBet = bet]
      BY <1>1, BetIs DEF Bets
    <3>3. b = Made(h.majors, h.minors, bet, h.l_allocated, h.l_inuse, h.p)
      BY <3>2, BetterIs
    <3>4. g = Made(h.majors, h.minors, bet, h.l_allocated, h.l_inuse, NULL)
      <4>. HIDE DEF b
      <4>. QED
        BY <3>1, <3>3 DEF Made
    <3>. QED
      BY <2>2, <2>3, <3>4, Zenon DEF Refuses, g
  <2>4. CASE base # NULL
    <3>1. base \in Arenas \ BasesOf(h)
      BY <2>4
    <3>2. Extends(h, g, base, req)
      BY <1>1, <2>1, <3>1, ExtendedExtends, Zenon DEF size
    <3>. QED
      BY <2>2, <2>4, <3>2, Zenon DEF g
  <2>. QED
    BY <2>3, <2>4
<1>. QED
  BY <1>3, <1>4

-----------------------------------------------------------------------------
(* What free can do: the minor leaves its major, or the major goes too.    *)
Kept(h, g, minor) ==
  \E bet \in Bets(h) \cup {minor.block} :
    g = Made(Used(h.majors, In(h, minor.block), -Taken(minor)), h.minors \ {minor},
             bet, h.l_allocated, h.l_inuse - minor.size, h.p)

Removed(h, g, minor) ==
  LET k == In(h, minor.block)
  IN  g = Made(RemoveAt(h.majors, k), h.minors \ {minor},
               IF h.bestBet = minor.block THEN NULL ELSE h.bestBet,
               h.l_allocated - h.majors[k].size, h.l_inuse - minor.size, h.p)

(* A sequence with one element removed.                                    *)
LEMMA RemoveAtIs ==
  ASSUME NEW S, NEW s \in Seq(S), NEW i \in 1 .. Len(s)
  PROVE  /\ RemoveAt(s, i) \in Seq(S)
         /\ Len(RemoveAt(s, i)) = Len(s) - 1
         /\ \A j \in 1 .. (Len(s) - 1) : RemoveAt(s, i)[j] = IF j < i THEN s[j] ELSE s[j + 1]
<1>. DEFINE n == Len(s)
            a == SubSeq(s, 1, i - 1)
            b == SubSeq(s, i + 1, n)
<1>1. /\ n \in Nat /\ a \in Seq(S) /\ Len(a) = i - 1 /\ \A j \in 1 .. (i - 1) : a[j] = s[j]
      /\ b \in Seq(S) /\ Len(b) = n - i /\ \A j \in 1 .. (n - i) : b[j] = s[i + j]
  OBVIOUS
<1>. HIDE DEF a, b, n
<1>2. /\ a \o b \in Seq(S) /\ Len(a \o b) = Len(a) + Len(b)
      /\ \A j \in 1 .. (Len(a) + Len(b)) :
           (a \o b)[j] = IF j <= Len(a) THEN a[j] ELSE b[j - Len(a)]
  BY <1>1, ConcatProperties
<1>3. n - 1 = Len(a) + Len(b) /\ i \in Nat
  BY <1>1
<1>4. \A j \in 1 .. (n - 1) : (a \o b)[j] = IF j < i THEN s[j] ELSE s[j + 1]
  <2>. TAKE j \in 1 .. (n - 1)
  <2>1. CASE j < i
    BY <1>1, <1>2, <1>3, <2>1
  <2>2. CASE j >= i
    <3>1. (a \o b)[j] = b[j - (i - 1)]
      BY <1>1, <1>2, <1>3, <2>2
    <3>2. j - (i - 1) \in 1 .. (n - i) /\ i + (j - (i - 1)) = j + 1
      BY <1>1, <1>3, <2>2
    <3>. QED
      BY <1>1, <2>2, <3>1, <3>2
  <2>. QED
    BY <1>1, <1>3, <2>1, <2>2
<1>. QED
  BY <1>1, <1>2, <1>3, <1>4 DEF RemoveAt, a, b, n

UsesMore(ms, us, k, bytes) ==
  /\ us \in Seq(Majors) /\ Len(us) = Len(ms) /\ DOMAIN us = DOMAIN ms
  /\ \A j \in DOMAIN ms :
       /\ us[j].base = ms[j].base /\ us[j].size = ms[j].size
       /\ us[j].usage = IF j = k THEN ms[k].usage + bytes ELSE ms[j].usage
       /\ j # k => us[j] = ms[j]

(* Counting bytes in one major changes its usage alone.                    *)
LEMMA UsedIs ==
  ASSUME NEW h, Typed(h), NEW k \in DOMAIN h.majors, NEW bytes \in Int
  PROVE  UsesMore(h.majors, Used(h.majors, k, bytes), k, bytes)
<1>. DEFINE use == h.majors[k].usage + bytes
            new == [h.majors[k] EXCEPT !.usage = use]
            ms == [h.majors EXCEPT ![k] = new]
<1>1. h.majors \in Seq(Majors) /\ h.majors[k] \in Majors /\ use \in Int
  BY MajorFacts, TypedFields
<1>2. /\ new \in Majors /\ new.base = h.majors[k].base /\ new.size = h.majors[k].size
      /\ new.usage = use
  <2>. HIDE DEF use
  <2>. QED
    BY <1>1 DEF Majors
<1>3. ms = Used(h.majors, k, bytes)
  BY DEF Used
<1>4. /\ ms \in Seq(Majors) /\ Len(ms) = Len(h.majors) /\ DOMAIN ms = DOMAIN h.majors
      /\ \A j \in DOMAIN h.majors : ms[j] = IF j = k THEN new ELSE h.majors[j]
  <2>. HIDE DEF new
  <2>. QED
    BY <1>1, <1>2
<1>. HIDE DEF ms, new
<1>5. UsesMore(h.majors, ms, k, bytes)
  BY <1>2, <1>4 DEF UsesMore
<1>. QED
  BY <1>3, <1>5, Zenon

(* A block taken out, field by field.                                      *)
LEMMA WithoutIs ==
  ASSUME NEW h, Typed(h), Listed(h), Bounded(h), NEW minor \in h.minors
  PROVE  LET k == In(h, minor.block)
         IN  /\ k \in DOMAIN h.majors /\ h.majors[k].base = minor.block
             /\ Without(h, minor) =
                  Made(Used(h.majors, k, -Taken(minor)), h.minors \ {minor},
                       h.bestBet, h.l_allocated, h.l_inuse - minor.size, h.p)
<1>. DEFINE k == In(h, minor.block)
            use == (h.majors[k].usage - Taken(minor)) % UINT
            used == [h.majors EXCEPT ![k].usage = use]
            ns == h.minors \ {minor}
            inuse == h.l_inuse - minor.size
            h1 == [h EXCEPT !.minors = ns]
            h2 == [h1 EXCEPT !.majors[k].usage = use]
            h3 == [h2 EXCEPT !.l_inuse = inuse]
<1>1. k \in DOMAIN h.majors /\ h.majors[k].base = minor.block
  <2>1. minor.block \in BasesOf(h)
    BY DEF Listed
  <2>. QED
    BY <2>1, InIs
<1>2. Without(h, minor) = [h EXCEPT !.minors = ns, !.majors[k].usage = use, !.l_inuse = inuse]
  BY DEF Without
<1>3. used = Used(h.majors, k, -Taken(minor))
  <2>1. use = h.majors[k].usage + (-Taken(minor))
    <3>. DEFINE v == h.majors[k].usage
                t == Taken(minor)
                rest == v - t
    <3>1. minor \in Minors(h, h.majors[k])
      BY <1>1 DEF Minors
    <3>2. v \in Nat /\ v < UINT /\ t <= v /\ UINT \in Nat
      <4>1. /\ v \in Nat /\ v <= h.majors[k].size /\ h.majors[k].size \in Nat
            /\ h.majors[k].size < UINT /\ t <= v
        BY <1>1, <3>1 DEF Bounded
      <4>. HIDE DEF v, t
      <4>. QED
        BY <4>1, Constants
    <3>3. t \in Nat
      BY MinorFacts
    <3>. HIDE DEF v, t
    <3>4. rest \in Nat /\ rest < UINT /\ rest = v + (-t)
      BY <3>2, <3>3
    <3>. HIDE DEF rest
    <3>5. rest % UINT = rest
      BY <3>4, NotCut
    <3>. QED
      BY <3>4, <3>5, Zenon DEF rest, v, t
  <2>. HIDE DEF use
  <2>. QED
    BY <2>1, Zenon DEF Used
<1>. HIDE DEF use, ns, inuse, k
<1>4. h1 = Made(h.majors, ns, h.bestBet, h.l_allocated, h.l_inuse, h.p)
  BY HeapIsMade DEF Made
<1>5. h2 = Made(used, ns, h.bestBet, h.l_allocated, h.l_inuse, h.p)
  <2>. HIDE DEF h1
  <2>1. h1.majors = h.majors
    BY <1>4, MadeFields
  <2>2. h2 = [h1 EXCEPT !.majors = used]
    BY <2>1, Zenon
  <2>. HIDE DEF h2, used
  <2>. QED
    BY <1>4, <2>2 DEF Made
<1>6. h3 = Made(used, ns, h.bestBet, h.l_allocated, inuse, h.p)
  <2>. HIDE DEF h2, used
  <2>. QED
    BY <1>5 DEF Made
<1>7. [h EXCEPT !.minors = ns, !.majors[k].usage = use, !.l_inuse = inuse] = h3
  BY Zenon
<1>8. Without(h, minor) = h3
  BY <1>2, <1>7, Zenon
<1>. HIDE DEF h3, used
<1>. QED
  BY <1>1, <1>3, <1>6, <1>8, Zenon DEF ns, inuse, k

(* A major given back, field by field.                                     *)
LEMMA ReturnedIs ==
  ASSUME NEW h, Typed(h), NEW base
  PROVE  Returned(h, base) =
           Made(RemoveAt(h.majors, In(h, base)), h.minors,
                IF h.bestBet = base THEN NULL ELSE h.bestBet,
                h.l_allocated - h.majors[In(h, base)].size, h.l_inuse, h.p)
<1>. DEFINE ms == RemoveAt(h.majors, In(h, base))
            bet == IF h.bestBet = base THEN NULL ELSE h.bestBet
            allocated == h.l_allocated - h.majors[In(h, base)].size
            h1 == [h EXCEPT !.majors = ms]
            h2 == [h1 EXCEPT !.bestBet = bet]
            h3 == [h2 EXCEPT !.l_allocated = allocated]
<1>1. Returned(h, base) = [h EXCEPT !.majors = ms, !.bestBet = bet, !.l_allocated = allocated]
  BY DEF Returned
<1>. HIDE DEF ms, bet, allocated
<1>2. h1 = Made(ms, h.minors, h.bestBet, h.l_allocated, h.l_inuse, h.p)
  BY HeapIsMade DEF Made
<1>3. h2 = Made(ms, h.minors, bet, h.l_allocated, h.l_inuse, h.p)
  <2>. HIDE DEF h1
  <2>. QED
    BY <1>2 DEF Made
<1>4. h3 = Made(ms, h.minors, bet, allocated, h.l_inuse, h.p)
  <2>. HIDE DEF h2
  <2>. QED
    BY <1>3 DEF Made
<1>5. [h EXCEPT !.majors = ms, !.bestBet = bet, !.l_allocated = allocated] = h3
  BY Zenon
<1>6. Returned(h, base) = h3
  BY <1>1, <1>5, Zenon
<1>. HIDE DEF h3
<1>. QED
  BY <1>4, <1>6, Zenon DEF ms, bet, allocated

(* Judging a major changes the best bet alone.                             *)
LEMMA JudgedIs ==
  ASSUME NEW h, Typed(h), NEW major
  PROVE  \E bet \in {major.base, h.bestBet} :
           Judged(h, major) = Made(h.majors, h.minors, bet, h.l_allocated, h.l_inuse, h.p)
<1>. DEFINE bet == IF /\ h.bestBet # NULL
                      /\ Signed(Free(major)) > Signed(Free(h.majors[In(h, h.bestBet)]))
                   THEN major.base ELSE h.bestBet
<1>1. Judged(h, major) = [h EXCEPT !.bestBet = bet]
  BY DEF Judged
<1>2. bet \in {major.base, h.bestBet}
  OBVIOUS
<1>. HIDE DEF bet
<1>3. Judged(h, major) = Made(h.majors, h.minors, bet, h.l_allocated, h.l_inuse, h.p)
  BY <1>1, BetterIs, Zenon
<1>. QED
  BY <1>2, <1>3

(* What is counted in a major that goes back does not matter.              *)
LEMMA UsedRemoved ==
  ASSUME NEW h, Typed(h), NEW k \in DOMAIN h.majors, NEW bytes \in Int
  PROVE  RemoveAt(Used(h.majors, k, bytes), k) = RemoveAt(h.majors, k)
<1>. DEFINE ms == Used(h.majors, k, bytes)
            a == RemoveAt(ms, k)
            b == RemoveAt(h.majors, k)
            n == Len(h.majors)
<1>1. h.majors \in Seq(Majors) /\ n \in Nat /\ DOMAIN h.majors = 1 .. n
  BY TypedFields
<1>2. /\ ms \in Seq(Majors) /\ Len(ms) = n
      /\ \A j \in 1 .. n : j # k => ms[j] = h.majors[j]
  <2>1. UsesMore(h.majors, ms, k, bytes)
    BY UsedIs, Zenon
  <2>. HIDE DEF ms
  <2>. QED
    BY <1>1, <2>1 DEF UsesMore
<1>. HIDE DEF ms, n
<1>3. /\ b \in Seq(Majors) /\ Len(b) = n - 1
      /\ \A j \in 1 .. (n - 1) : b[j] = IF j < k THEN h.majors[j] ELSE h.majors[j + 1]
  BY <1>1, RemoveAtIs DEF n
<1>4. /\ a \in Seq(Majors) /\ Len(a) = n - 1
      /\ \A j \in 1 .. (n - 1) : a[j] = IF j < k THEN ms[j] ELSE ms[j + 1]
  <2>1. k \in 1 .. Len(ms)
    BY <1>1, <1>2
  <2>. HIDE DEF a
  <2>. QED
    BY <1>2, <2>1, RemoveAtIs DEF a
<1>. HIDE DEF a, b
<1>5. ASSUME NEW j \in 1 .. (n - 1)
      PROVE  a[j] = b[j]
  <2>1. j \in 1 .. n /\ j + 1 \in 1 .. n /\ k \in 1 .. n
    BY <1>1 DEF n
  <2>2. CASE j < k
    <3>1. a[j] = ms[j] /\ b[j] = h.majors[j] /\ j # k
      BY <1>3, <1>4, <2>1, <2>2
    <3>. QED
      BY <1>2, <2>1, <3>1, Zenon
  <2>3. CASE ~ (j < k)
    <3>1. a[j] = ms[j + 1] /\ b[j] = h.majors[j + 1] /\ j + 1 # k
      BY <1>3, <1>4, <2>1, <2>3
    <3>. QED
      BY <1>2, <2>1, <3>1, Zenon
  <2>. QED
    BY <2>2, <2>3
<1>6. a = b
  BY <1>1, <1>3, <1>4, <1>5, SeqEqual
<1>. QED
  BY <1>6 DEF a, b, ms

(* free keeps the major while other blocks lie in it, and gives it back    *)
(* after the last.                                                         *)
LEMMA FreeDoes ==
  ASSUME NEW h, Typed(h), Listed(h), Bounded(h), NEW minor \in h.minors
  PROVE  IF \E m \in h.minors \ {minor} : m.block = minor.block
         THEN Kept(h, free(h, minor), minor) ELSE Removed(h, free(h, minor), minor)
<1>. DEFINE w == Without(h, minor)
            k == In(h, minor.block)
            ms == Used(h.majors, k, -Taken(minor))
            ns == h.minors \ {minor}
            inuse == h.l_inuse - minor.size
<1>1. k \in DOMAIN h.majors /\ h.majors[k].base = minor.block
  BY WithoutIs, Zenon
<1>2. w = Made(ms, ns, h.bestBet, h.l_allocated, inuse, h.p)
  BY WithoutIs, Zenon
<1>3. -Taken(minor) \in Int /\ inuse \in Int /\ minor.block \in Arenas
  BY MinorFacts, TypedFields
<1>4. /\ ms \in Seq(Majors) /\ DOMAIN ms = DOMAIN h.majors
      /\ \A j \in DOMAIN h.majors :
           ms[j].base = h.majors[j].base /\ ms[j].size = h.majors[j].size
  <2>. HIDE DEF k
  <2>1. UsesMore(h.majors, ms, k, -Taken(minor))
    BY <1>1, <1>3, UsedIs, Zenon
  <2>. QED
    BY <2>1, Zenon DEF UsesMore
<1>5. ns \in SUBSET MinorBlocks /\ IsFiniteSet(ns)
  BY TypedFields, FS_Subset
<1>. HIDE DEF w, ms, ns, inuse
<1>6. Typed(w)
  BY <1>2, <1>3, <1>4, <1>5, TypedFields, MadeTyped
<1>7. /\ w.majors = ms /\ w.minors = ns /\ w.bestBet = h.bestBet
      /\ w.l_allocated = h.l_allocated /\ w.l_inuse = inuse /\ w.p = h.p
  BY <1>2 DEF Made
<1>8. In(w, minor.block) = k
  <2>1. minor.block \in BasesOf(w)
    BY <1>1, <1>4, <1>7 DEF BasesOf
  <2>2. In(w, minor.block) \in DOMAIN ms /\ ms[In(w, minor.block)].base = minor.block
    BY <1>7, <2>1, InIs
  <2>. QED
    BY <1>1, <1>4, <2>2, Zenon DEF Listed
<1>9. free(h, minor) =
        IF \E m \in ns : m.block = minor.block THEN Judged(w, ms[k]) ELSE Returned(w, minor.block)
  BY <1>7, <1>8, Zenon DEF free, Settled, w
<1>10. CASE \E m \in ns : m.block = minor.block
  <2>1. PICK bet \in {ms[k].base, w.bestBet} :
          Judged(w, ms[k]) = Made(w.majors, w.minors, bet, w.l_allocated, w.l_inuse, w.p)
    BY <1>6, JudgedIs, Zenon
  <2>2. bet \in Bets(h) \cup {minor.block}
    BY <1>1, <1>4, <1>7, <2>1 DEF Bets
  <2>3. free(h, minor) = Made(ms, ns, bet, h.l_allocated, inuse, h.p)
    BY <1>7, <1>9, <1>10, <2>1
  <2>. QED
    BY <1>10, <2>2, <2>3, Zenon DEF Kept, ns, ms, inuse, k
<1>11. CASE ~ \E m \in ns : m.block = minor.block
  <2>1. Returned(w, minor.block) =
          Made(RemoveAt(w.majors, k), w.minors,
               IF w.bestBet = minor.block THEN NULL ELSE w.bestBet,
               w.l_allocated - w.majors[k].size, w.l_inuse, w.p)
    BY <1>6, <1>8, ReturnedIs, Zenon
  <2>2. RemoveAt(ms, k) = RemoveAt(h.majors, k)
    BY <1>1, <1>3, UsedRemoved DEF ms
  <2>3. ms[k].size = h.majors[k].size
    BY <1>1, <1>4
  <2>4. free(h, minor) =
          Made(RemoveAt(h.majors, k), ns,
               IF h.bestBet = minor.block THEN NULL ELSE h.bestBet,
               h.l_allocated - h.majors[k].size, inuse, h.p)
    BY <1>7, <1>9, <1>11, <2>1, <2>2, <2>3, Zenon
  <2>. QED
    BY <1>11, <2>4, Zenon DEF Removed, ns, inuse, k
<1>. QED
  BY <1>10, <1>11

-----------------------------------------------------------------------------
(* The sums over minors and majors, when one comes or goes.                *)
LEMMA MinorBlockFacts ==
  ASSUME NEW m \in MinorBlocks
  PROVE  /\ m.size \in Nat /\ MINOR \in Nat /\ m.at \in Nat
         /\ Taken(m) = m.size + MINOR /\ Taken(m) \in Nat \ {0}
         /\ End(m) = m.at + Taken(m) /\ End(m) \in Nat
<1>1. m.size \in Nat /\ m.at \in Nat
  BY DEF MinorBlocks
<1>2. MINOR \in Nat \ {0}
  BY Constants
<1>3. Taken(m) = m.size + MINOR /\ End(m) = m.at + Taken(m)
  BY DEF Taken, End
<1>4. Taken(m) \in Nat \ {0}
  BY <1>1, <1>2, <1>3
<1>. QED
  BY <1>1, <1>2, <1>3, <1>4

(* The totals with a block more.                                           *)
LEMMA SumsWithMinor ==
  ASSUME NEW S \in SUBSET MinorBlocks, IsFiniteSet(S), NEW m \in MinorBlocks, m \notin S
  PROVE  /\ TakenBy(S) \in Int /\ TakenBy(S \cup {m}) = Taken(m) + TakenBy(S)
         /\ SizeOf(S) \in Int /\ SizeOf(S \cup {m}) = m.size + SizeOf(S)
<1>. DEFINE T == S \cup {m}
            t == [x \in T |-> Taken(x)]
            t0 == [x \in S |-> Taken(x)]
            s == [x \in T |-> x.size]
            s0 == [x \in S |-> x.size]
<1>1. \A x \in T : x \in MinorBlocks /\ Taken(x) \in Int /\ x.size \in Int
  BY MinorBlockFacts
<1>2. /\ \A x \in S : t[x] \in Int /\ t0[x] \in Int /\ t[x] = t0[x]
      /\ \A x \in S : s[x] \in Int /\ s0[x] \in Int /\ s[x] = s0[x]
      /\ t[m] = Taken(m) /\ s[m] = m.size /\ t[m] \in Int /\ s[m] \in Int
  <2>. HIDE DEF MinorBlocks
  <2>. QED
    BY <1>1
<1>. HIDE DEF t, t0, s, s0
<1>3. /\ SumFunctionOnSet(t, S \cup {m}) = t[m] + SumFunctionOnSet(t, S)
      /\ SumFunctionOnSet(s, S \cup {m}) = s[m] + SumFunctionOnSet(s, S)
  BY <1>2, SumWithAnother
<1>4. SumFunctionOnSet(t, S) = SumFunctionOnSet(t0, S)
  BY <1>2, SumOfEqual
<1>5. SumFunctionOnSet(s, S) = SumFunctionOnSet(s0, S)
  BY <1>2, SumOfEqual
<1>6. SumFunctionOnSet(t0, S) \in Int /\ SumFunctionOnSet(s0, S) \in Int
  BY <1>2, SumIsInteger
<1>7. /\ TakenBy(S) = SumFunctionOnSet(t0, S) /\ TakenBy(S \cup {m}) = SumFunctionOnSet(t, S \cup {m})
      /\ SizeOf(S) = SumFunctionOnSet(s0, S) /\ SizeOf(S \cup {m}) = SumFunctionOnSet(s, S \cup {m})
  BY Zenon DEF TakenBy, SizeOf, t, t0, s, s0
<1>. QED
  BY <1>2, <1>3, <1>4, <1>5, <1>6, <1>7

(* The totals with a block less.                                           *)
LEMMA SumsWithoutMinor ==
  ASSUME NEW S \in SUBSET MinorBlocks, IsFiniteSet(S), NEW m \in S
  PROVE  /\ TakenBy(S) \in Int /\ TakenBy(S \ {m}) = TakenBy(S) - Taken(m)
         /\ SizeOf(S) \in Int /\ SizeOf(S \ {m}) = SizeOf(S) - m.size
<1>. DEFINE T == S \ {m}
<1>1. /\ T \in SUBSET MinorBlocks /\ IsFiniteSet(T) /\ m \in MinorBlocks /\ m \notin T
      /\ T \cup {m} = S
  BY FS_RemoveElement
<1>. HIDE DEF T
<1>2. /\ TakenBy(T) \in Int /\ TakenBy(S) = Taken(m) + TakenBy(T)
      /\ SizeOf(T) \in Int /\ SizeOf(S) = m.size + SizeOf(T)
  BY <1>1, SumsWithMinor
<1>3. Taken(m) \in Int /\ m.size \in Int
  BY <1>1, MinorBlockFacts
<1>. QED
  BY <1>2, <1>3 DEF T

(* The sizes of the majors, and their total.                               *)
LEMMA SizesOf ==
  ASSUME Small, NEW ms \in Seq(Majors)
  PROVE  /\ \A k \in DOMAIN ms : ms[k].size \in Nat
         /\ SizeOfAll(ms) \in Int
<1>1. \A k \in DOMAIN ms : ms[k].size \in Nat
  <2>1. \A k \in DOMAIN ms : ms[k] \in Majors
    OBVIOUS
  <2>2. \A req \in Requests : Pages(Padded(req)) * l_pageSize \in Nat
    BY PagesSuffice
  <2>. QED
    BY <2>1, <2>2 DEF Majors
<1>. DEFINE D == DOMAIN ms
            f == [k \in D |-> ms[k].size]
<1>2. IsFiniteSet(D)
  <2>1. D = 1 .. Len(ms) /\ 1 \in Int /\ Len(ms) \in Int
    OBVIOUS
  <2>. QED
    BY <2>1, FS_Interval
<1>3. \A k \in D : f[k] \in Int
  BY <1>1
<1>. HIDE DEF D, f
<1>4. SumFunctionOnSet(f, D) \in Int
  BY <1>2, <1>3, SumIsInteger
<1>. QED
  BY <1>1, <1>4 DEF SizeOfAll, D, f

(* The total with a major more.                                            *)
LEMMA SizesWithMajor ==
  ASSUME Small, NEW ms \in Seq(Majors), NEW major \in Majors
  PROVE  SizeOfAll(Append(ms, major)) = SizeOfAll(ms) + major.size
<1>. DEFINE n == Len(ms)
            more == Append(ms, major)
            f == [k \in 1 .. n |-> ms[k].size]
            g == [k \in 1 .. (n + 1) |-> more[k].size]
<1>1. /\ n \in Nat /\ DOMAIN ms = 1 .. n /\ more \in Seq(Majors) /\ DOMAIN more = 1 .. (n + 1)
      /\ \A k \in 1 .. n : more[k] = ms[k]
      /\ more[n + 1] = major
  OBVIOUS
<1>. HIDE DEF more, n
<1>2. \A k \in 1 .. (n + 1) : more[k].size \in Int
  BY <1>1, SizesOf
<1>3. 1 .. (n + 1) = (1 .. n) \cup {n + 1} /\ n + 1 \notin 1 .. n /\ IsFiniteSet(1 .. n)
  <2>1. IsFiniteSet(1 .. n)
    BY <1>1, FS_Interval
  <2>2. 1 .. (n + 1) = (1 .. n) \cup {n + 1} /\ n + 1 \notin 1 .. n
    BY <1>1
  <2>. QED
    BY <2>1, <2>2
<1>4. /\ \A k \in 1 .. n : g[k] \in Int /\ g[k] = f[k]
      /\ g[n + 1] = major.size /\ g[n + 1] \in Int
  BY <1>1, <1>2, <1>3
<1>5. SizeOfAll(ms) = SumFunctionOnSet(f, 1 .. n) /\ SizeOfAll(more) = SumFunctionOnSet(g, 1 .. (n + 1))
  BY <1>1, Zenon DEF SizeOfAll
<1>6. SizeOfAll(ms) \in Int
  BY SizesOf
<1>. HIDE DEF f, g
<1>7. SumFunctionOnSet(g, 1 .. n) = SumFunctionOnSet(f, 1 .. n)
  BY <1>3, <1>4, SumOfEqual
<1>8. SumFunctionOnSet(g, (1 .. n) \cup {n + 1}) = g[n + 1] + SumFunctionOnSet(g, 1 .. n)
  BY <1>3, <1>4, SumWithAnother
<1>9. SizeOfAll(more) = major.size + SizeOfAll(ms)
  BY <1>3, <1>4, <1>5, <1>7, <1>8
<1>. QED
  BY <1>4, <1>6, <1>9 DEF more

(* The total with a major less.                                            *)
LEMMA SizesWithoutMajor ==
  ASSUME Small, NEW ms \in Seq(Majors), NEW i \in DOMAIN ms
  PROVE  SizeOfAll(RemoveAt(ms, i)) = SizeOfAll(ms) - ms[i].size
<1>. DEFINE n == Len(ms)
            less == RemoveAt(ms, i)
            f == [k \in 1 .. (n - 1) |-> less[k].size]
            g == [k \in 1 .. n |-> ms[k].size]
            e == [k \in 1 .. (n - 1) |-> IF k < i THEN k ELSE k + 1]
<1>1. n \in Nat /\ DOMAIN ms = 1 .. n /\ i \in 1 .. n
  OBVIOUS
<1>2. /\ less \in Seq(Majors) /\ DOMAIN less = 1 .. (n - 1)
      /\ \A k \in 1 .. (n - 1) : less[k] = IF k < i THEN ms[k] ELSE ms[k + 1]
  <2>1. /\ less \in Seq(Majors) /\ Len(less) = n - 1
        /\ \A k \in 1 .. (n - 1) : less[k] = IF k < i THEN ms[k] ELSE ms[k + 1]
    BY <1>1, RemoveAtIs
  <2>. HIDE DEF less, n
  <2>. QED
    BY <2>1
<1>. HIDE DEF less, n
<1>3. \A k \in 1 .. n : ms[k].size \in Int
  BY <1>1, SizesOf
<1>4. /\ \A k \in 1 .. (n - 1) : e[k] \in 1 .. n /\ e[k] # i /\ less[k] = ms[e[k]]
      /\ \A k, j \in 1 .. (n - 1) : e[k] = e[j] => k = j
  BY <1>1, <1>2
<1>5. {e[k] : k \in 1 .. (n - 1)} = (1 .. n) \ {i}
  <2>1. \A j \in (1 .. n) \ {i} : \E k \in 1 .. (n - 1) : e[k] = j
    <3>. TAKE j \in (1 .. n) \ {i}
    <3>1. CASE j < i
      <4>1. j \in 1 .. (n - 1) /\ e[j] = j
        BY <1>1, <3>1
      <4>. QED
        BY <4>1
    <3>2. CASE j > i
      <4>1. j - 1 \in 1 .. (n - 1) /\ e[j - 1] = j
        BY <1>1, <3>2
      <4>. QED
        BY <4>1
    <3>. QED
      BY <1>1, <3>1, <3>2
  <2>. HIDE DEF e
  <2>. QED
    BY <1>4, <2>1
<1>6. \A k \in 1 .. (n - 1) : f[k] \in Int /\ g[e[k]] = f[k]
  <2>1. \A k \in 1 .. (n - 1) : f[k] = less[k].size
    OBVIOUS
  <2>2. \A k \in 1 .. n : g[k] = ms[k].size
    OBVIOUS
  <2>. HIDE DEF e, f, g
  <2>. QED
    BY <1>3, <1>4, <2>1, <2>2
<1>7. \A k \in 1 .. n : g[k] \in Int /\ g[k] = ms[k].size
  BY <1>3
<1>8. /\ SizeOfAll(less) = SumFunctionOnSet(f, 1 .. (n - 1))
      /\ SizeOfAll(ms) = SumFunctionOnSet(g, 1 .. n)
  BY <1>1, <1>2, Zenon DEF SizeOfAll
<1>9. IsFiniteSet(1 .. (n - 1)) /\ IsFiniteSet(1 .. n)
  BY <1>1, FS_Interval
<1>. HIDE DEF e, f, g
<1>10. SumFunctionOnSet(g, {e[k] : k \in 1 .. (n - 1)}) = SumFunctionOnSet(f, 1 .. (n - 1))
  <2>. DEFINE D == 1 .. (n - 1)
  <2>1. /\ IsFiniteSet(D) /\ \A x, y \in D : e[x] = e[y] => x = y
        /\ \A x \in D : f[x] \in Int /\ g[e[x]] = f[x]
    BY <1>4, <1>6, <1>9, Zenon
  <2>. HIDE DEF D
  <2>2. SumFunctionOnSet(g, {e[k] : k \in D}) = SumFunctionOnSet(f, D)
    BY <2>1, SumOfImage
  <2>. QED
    BY <2>2 DEF D
<1>11. SumFunctionOnSet(g, 1 .. n) = g[i] + SumFunctionOnSet(g, (1 .. n) \ {i})
  BY <1>1, <1>7, <1>9, SumOfOther
<1>12. SizeOfAll(less) \in Int
  BY <1>2, SizesOf
<1>13. SizeOfAll(ms) = ms[i].size + SizeOfAll(less)
  BY <1>1, <1>5, <1>7, <1>8, <1>10, <1>11
<1>. QED
  BY <1>1, <1>3, <1>12, <1>13 DEF less

(* Counting bytes in a major changes no size.                              *)
LEMMA SizesUsed ==
  ASSUME NEW h, Typed(h), NEW k \in DOMAIN h.majors, NEW bytes \in Int
  PROVE  SizeOfAll(Used(h.majors, k, bytes)) = SizeOfAll(h.majors)
<1>. DEFINE ms == Used(h.majors, k, bytes)
            f == [j \in DOMAIN ms |-> ms[j].size]
            g == [j \in DOMAIN h.majors |-> h.majors[j].size]
<1>1. DOMAIN ms = DOMAIN h.majors /\ \A j \in DOMAIN h.majors : ms[j].size = h.majors[j].size
  <2>1. UsesMore(h.majors, ms, k, bytes)
    BY UsedIs, Zenon
  <2>. HIDE DEF ms
  <2>. QED
    BY <2>1, Zenon DEF UsesMore
<1>2. f = g
  <2>. HIDE DEF ms
  <2>. QED
    BY <1>1
<1>. QED
  BY <1>1, <1>2, Zenon DEF SizeOfAll

-----------------------------------------------------------------------------
(* The bytes of a gap, and those of a new major, are nobody's.             *)
LEMMA MinorMade ==
  ASSUME NEW base \in Arenas, NEW at \in Nat, NEW req \in Requests
  PROVE  LET new == Minor(base, at, req)
         IN  /\ new \in MinorBlocks /\ new.block = base /\ new.at = at /\ new.req = req
             /\ new.size = Padded(req) /\ Roomy(new)
             /\ Taken(new) = Need(req) /\ Need(req) \in Nat \ {0} /\ End(new) = at + Need(req)
<1>1. Padded(req) \in Nat /\ Padded(req) = req + ALIGNMENT + ALIGN_INFO /\ MINOR \in Nat \ {0}
  BY PaddedIsNat, Constants
<1>2. Minor(base, at, req) \in MinorBlocks
  BY <1>1 DEF Minor, MinorBlocks
<1>3. LET new == Minor(base, at, req)
      IN new.block = base /\ new.at = at /\ new.req = req /\ new.size = Padded(req)
  BY DEF Minor
<1>. DEFINE new == Minor(base, at, req)
<1>4. Taken(new) = Padded(req) + MINOR /\ End(new) = at + (Padded(req) + MINOR)
  BY <1>3 DEF Taken, End
<1>5. Padded(req) + MINOR \in Nat \ {0}
  BY <1>1
<1>6. Roomy(new)
  BY <1>1, <1>3 DEF Roomy
<1>. QED
  BY <1>2, <1>3, <1>4, <1>5, <1>6 DEF Need

Unclaimed(h, new) ==
  /\ new \in MinorBlocks /\ new \notin h.minors
  /\ \A n \in h.minors : Beside(n, new) /\ Beside(new, n)

(* A block beside all others is none of them.                              *)
LEMMA BesideMeansNew ==
  ASSUME NEW h, NEW new \in MinorBlocks,
         \A n \in h.minors : Beside(n, new)
  PROVE  Unclaimed(h, new)
<1>1. End(new) > new.at /\ End(new) \in Nat /\ new.at \in Nat
  BY MinorBlockFacts
<1>2. new \notin h.minors
  BY <1>1 DEF Beside
<1>. QED
  BY <1>2 DEF Beside, Unclaimed

(* Majors with different bases do not overlap.                             *)
LEMMA OtherMajors ==
  ASSUME NEW h, Typed(h), NEW j \in DOMAIN h.majors, NEW base \in Arenas, NEW size,
         \E req \in Requests : size = Pages(Padded(req)) * l_pageSize,
         h.majors[j].base # base
  PROVE  \/ h.majors[j].base + h.majors[j].size <= base
         \/ base + size <= h.majors[j].base
<1>1. h.majors[j].base \in Arenas /\ h.majors[j].base \in Nat /\ base \in Nat
  BY MajorFacts, Constants
<1>2. CASE h.majors[j].base < base
  BY <1>2, MajorsBeside
<1>3. CASE base < h.majors[j].base
  BY <1>1, <1>3, ArenasAssumption
<1>. QED
  BY <1>1, <1>2, <1>3

(* A gap lies in its major and away from all blocks.                       *)
LEMMA GapIsFree ==
  ASSUME NEW h, Typed(h), Listed(h), Separate(h), NEW k \in DOMAIN h.majors,
         NEW req \in Requests, NEW at \in Gaps(h, h.majors[k], Need(req))
  PROVE  LET new == Minor(h.majors[k].base, at, req)
         IN  /\ at \in Nat /\ Unclaimed(h, new) /\ Inside(h, new) /\ Roomy(new)
             /\ at >= h.majors[k].base + MAJOR
             /\ at + Need(req) <= h.majors[k].base + h.majors[k].size
<1>. DEFINE major == h.majors[k]
            base == major.base
            size == major.size
            new == Minor(base, at, req)
            mine == Minors(h, major)
<1>1. base \in Arenas /\ base \in Nat /\ size \in Nat /\ MAJOR \in Nat \ {0}
      /\ \E r \in Requests : size = Pages(Padded(r)) * l_pageSize
  <2>1. \E r \in Requests : size = Pages(Padded(r)) * l_pageSize
    <3>1. major \in Majors
      BY MajorFacts
    <3>. QED
      BY <3>1 DEF Majors
  <2>. QED
    BY <2>1, MajorFacts, Constants
<1>2. at \in Nat
  BY GapsAreNat
<1>3. /\ new \in MinorBlocks /\ new.block = base /\ new.at = at /\ Roomy(new)
      /\ Need(req) \in Nat \ {0} /\ End(new) = at + Need(req)
  BY <1>1, <1>2, MinorMade
<1>4. /\ at = base + MAJOR \/ \E m \in mine : at = End(m)
      /\ Room(h, major, at) >= Need(req)
  BY DEF Gaps
<1>. HIDE DEF major, base, size, new
<1>5. /\ base + size >= at + Need(req)
      /\ \A m \in mine : m.at >= at => m.at >= at + Need(req)
  <2>1. /\ h.majors[k].base + h.majors[k].size >= at + Need(req)
        /\ \A m \in Minors(h, h.majors[k]) : m.at >= at => m.at >= at + Need(req)
    BY <1>2, <1>3, <1>4, RoomFacts DEF major
  <2>. QED
    BY <2>1 DEF base, size, major
<1>6. \A m \in h.minors : /\ m.at \in Nat /\ End(m) \in Nat /\ End(m) > m.at
  BY MinorFacts
<1>7. \A m \in mine : m \in h.minors /\ m.at >= base + MAJOR
  <2>1. \A m \in mine : m \in h.minors /\ m.block = base
    BY DEF Minors, base
  <2>. QED
    BY <2>1 DEF Separate, Inside
<1>8. at >= base + MAJOR
  <2>1. CASE at = base + MAJOR
    BY <1>1, <2>1
  <2>2. CASE \E m \in mine : at = End(m)
    BY <1>1, <1>6, <1>7, <2>2
  <2>. QED
    BY <1>4, <2>1, <2>2
<1>9. ASSUME NEW n \in h.minors
      PROVE  Beside(n, new)
  <2>1. n.at \in Nat /\ End(n) \in Nat /\ End(n) > n.at
    BY <1>6
  <2>2. CASE n.block = base
    <3>1. n \in mine /\ n.at >= base + MAJOR
      BY <1>7, <2>2 DEF Minors, base
    <3>2. CASE n.at >= at
      BY <1>3, <1>5, <3>1, <3>2 DEF Beside
    <3>3. CASE n.at < at
      <4>1. PICK m \in mine : at = End(m)
        BY <1>1, <1>2, <1>4, <2>1, <3>1, <3>3
      <4>2. CASE m = n
        BY <1>2, <1>3, <4>1, <4>2 DEF Beside
      <4>3. CASE m # n
        <5>1. Beside(m, n) /\ m \in h.minors
          BY <1>7, <4>3 DEF Separate
        <5>2. End(n) <= m.at /\ End(m) > m.at /\ m.at \in Nat
          BY <1>2, <1>6, <2>1, <3>3, <4>1, <5>1 DEF Beside
        <5>. QED
          BY <1>2, <1>3, <2>1, <4>1, <5>2 DEF Beside
      <4>. QED
        BY <4>2, <4>3
    <3>. QED
      BY <1>2, <2>1, <3>2, <3>3
  <2>3. CASE n.block # base
    <3>1. PICK j \in DOMAIN h.majors :
            h.majors[j].base = n.block /\ n.at >= n.block + MAJOR
            /\ End(n) <= n.block + h.majors[j].size
      BY DEF Separate, Inside
    <3>2. h.majors[j].base \in Nat /\ h.majors[j].size \in Nat
      BY MajorFacts
    <3>3. n.block + h.majors[j].size <= base \/ base + size <= n.block
      BY <1>1, <2>3, <3>1, OtherMajors
    <3>. QED
      BY <1>1, <1>2, <1>3, <1>5, <1>8, <2>1, <3>1, <3>2, <3>3 DEF Beside
  <2>. QED
    BY <2>2, <2>3
<1>10. Unclaimed(h, new)
  BY <1>3, <1>9, BesideMeansNew
<1>11. Inside(h, new)
  <2>1. h.majors[k].base = base /\ h.majors[k].size = size
    BY DEF base, size, major
  <2>. QED
    BY <1>1, <1>2, <1>3, <1>5, <1>8, <2>1 DEF Inside
<1>. QED
  BY <1>2, <1>3, <1>5, <1>8, <1>10, <1>11 DEF new, base, size, major

(* The block of a new major lies in it and away from all blocks.           *)
LEMMA NewMajorIsFree ==
  ASSUME NEW h, Typed(h), Listed(h), Separate(h), NEW base \in Arenas \ BasesOf(h),
         NEW req \in Requests
  PROVE  LET new == Minor(base, base + MAJOR, req)
             size == Pages(Padded(req)) * l_pageSize
         IN  /\ base + MAJOR \in Nat /\ Unclaimed(h, new) /\ Roomy(new)
             /\ size \in Nat /\ base + MAJOR + Need(req) <= base + size
<1>. DEFINE new == Minor(base, base + MAJOR, req)
            size == Pages(Padded(req)) * l_pageSize
<1>1. base \in Nat /\ MAJOR \in Nat \ {0} /\ base + MAJOR \in Nat
  BY Constants
<1>2. /\ new \in MinorBlocks /\ new.block = base /\ new.at = base + MAJOR /\ Roomy(new)
      /\ Need(req) \in Nat \ {0} /\ End(new) = base + MAJOR + Need(req)
  BY <1>1, MinorMade
<1>3. size \in Nat /\ size >= MAJOR + Need(req)
  <2>1. Padded(req) \in Nat /\ MINOR \in Nat
    BY PaddedIsNat, Constants
  <2>2. size \in Nat /\ size >= Padded(req) + MAJOR + MINOR
    BY PagesSuffice DEF Typed
  <2>. QED
    BY <1>1, <2>1, <2>2 DEF Need
<1>. HIDE DEF new
<1>4. ASSUME NEW n \in h.minors
      PROVE  Beside(n, new)
  <2>1. n.at \in Nat /\ End(n) \in Nat /\ End(n) > n.at
    BY MinorFacts
  <2>2. PICK j \in DOMAIN h.majors :
          h.majors[j].base = n.block /\ n.at >= n.block + MAJOR
          /\ End(n) <= n.block + h.majors[j].size
    BY DEF Separate, Inside
  <2>3. h.majors[j].base \in Nat /\ h.majors[j].size \in Nat
    BY MajorFacts
  <2>4. h.majors[j].base # base
    BY DEF BasesOf
  <2>5. n.block + h.majors[j].size <= base \/ base + size <= n.block
    BY <2>2, <2>4, OtherMajors
  <2>. QED
    BY <1>1, <1>2, <1>3, <2>1, <2>2, <2>3, <2>5 DEF Beside
<1>5. Unclaimed(h, new)
  BY <1>2, <1>4, BesideMeansNew
<1>. QED
  BY <1>1, <1>2, <1>3, <1>5 DEF new

-----------------------------------------------------------------------------
(* Each thing malloc can do keeps the heap sane.                           *)
LEMMA SeparateWithMinor ==
  ASSUME NEW h, Separate(h), NEW new, Unclaimed(h, new), Roomy(new),
         NEW g, g.minors = h.minors \cup {new}, Inside(g, new),
         \A k \in DOMAIN h.majors : \E j \in DOMAIN g.majors :
           g.majors[j].base = h.majors[k].base /\ g.majors[j].size = h.majors[k].size
  PROVE  Separate(g)
<1>1. \A m \in h.minors : Inside(g, m)
  <2>. TAKE m \in h.minors
  <2>1. Inside(h, m)
    BY DEF Separate
  <2>. QED
    BY <2>1, Zenon DEF Inside
<1>. QED
  BY <1>1 DEF Separate, Unclaimed

(* Fewer blocks stay apart.                                                *)
LEMMA SeparateFewer ==
  ASSUME NEW h, Separate(h), NEW g, g.minors \subseteq h.minors,
         \A m \in g.minors : Inside(g, m)
  PROVE  Separate(g)
BY DEF Separate

(* A best bet is a listed major.                                           *)
LEMMA BetsAreBases ==
  ASSUME NEW h, Listed(h)
  PROVE  Bets(h) \subseteq BasesOf(h) \cup {NULL}
BY DEF Listed, Bets

(* A refusal keeps the heap sane.                                          *)
LEMMA RefusesSane ==
  ASSUME NEW h, Sane(h), NEW g, Refuses(h, g)
  PROVE  Sane(g) /\ g.majors = h.majors /\ g.minors = h.minors
<1>1. PICK bet \in Bets(h) : g = Made(h.majors, h.minors, bet, h.l_allocated, h.l_inuse, NULL)
  BY DEF Refuses
<1>2. /\ g.majors = h.majors /\ g.minors = h.minors /\ g.bestBet = bet
      /\ g.l_allocated = h.l_allocated /\ g.l_inuse = h.l_inuse
  BY <1>1 DEF Made
<1>3. Typed(g)
  BY <1>1, MadeTyped, TypedFields, Constants DEF Sane
<1>4. BasesOf(g) = BasesOf(h)
  BY <1>2 DEF BasesOf
<1>5. Listed(g)
  BY <1>2, <1>4, BetsAreBases DEF Listed, Sane
<1>6. Separate(g)
  <2>1. \A m \in g.minors : Inside(g, m)
    BY <1>2 DEF Sane, Separate, Inside
  <2>. QED
    BY <1>2, <2>1, SeparateFewer DEF Sane
<1>7. Counted(g)
  BY <1>2 DEF Counted, Minors, Sane
<1>. QED
  BY <1>2, <1>3, <1>5, <1>6, <1>7 DEF Sane

(* The aligned pointer lies in its block, behind the header and its own    *)
(* record.                                                                 *)
LEMMA PointerIsNat ==
  ASSUME NEW at \in Nat
  PROVE  /\ Pointer(at) \in Nat /\ Pointer(at) % ALIGNMENT = 0
         /\ at + MINOR + ALIGN_INFO <= Pointer(at)
         /\ Pointer(at) < at + MINOR + ALIGN_INFO + ALIGNMENT
<1>. DEFINE q == at + MINOR + ALIGN_INFO
            r == q % ALIGNMENT
            d == q \div ALIGNMENT
<1>1. q \in Nat /\ ALIGNMENT \in Nat \ {0}
  BY Constants
<1>2. Pointer(at) = IF r = 0 THEN q ELSE q + (ALIGNMENT - r)
  BY DEF Pointer
<1>. HIDE DEF q
<1>3. d \in Int /\ r \in Int /\ q = ALIGNMENT * d + r /\ 0 <= r /\ r < ALIGNMENT
  BY <1>1, Division
<1>4. (ALIGNMENT * (d + 1)) % ALIGNMENT = 0
  <2>1. d + 1 \in Int
    BY <1>3
  <2>. HIDE DEF d
  <2>. QED
    BY <1>1, <2>1, MultipleIsDivided
<1>5. ALIGNMENT * (d + 1) = ALIGNMENT * d + ALIGNMENT
  <2>. HIDE DEF d
  <2>. QED
    BY <1>1, <1>3
<1>6. CASE r = 0
  BY <1>1, <1>2, <1>6 DEF q
<1>7. CASE r # 0
  <2>. HIDE DEF r, d
  <2>1. Pointer(at) = ALIGNMENT * (d + 1)
    BY <1>1, <1>2, <1>3, <1>5, <1>7
  <2>2. Pointer(at) \in Nat /\ q <= Pointer(at) /\ Pointer(at) < q + ALIGNMENT
    BY <1>1, <1>2, <1>3, <1>7
  <2>. QED
    BY <1>4, <2>1, <2>2 DEF q
<1>. QED
  BY <1>6, <1>7

(* Placing a block in a gap keeps the heap sane.                           *)
LEMMA PlacesSane ==
  ASSUME NEW h, Sane(h), NEW k \in DOMAIN h.majors, NEW req \in Requests,
         NEW at \in Gaps(h, h.majors[k], Need(req)), NEW g, Places(h, g, k, at, req)
  PROVE  Sane(g)
<1>. DEFINE base == h.majors[k].base
            bytes == Need(req)
            ms == Used(h.majors, k, bytes)
            new == Minor(base, at, req)
            ns == h.minors \cup {new}
            inuse == h.l_inuse + Padded(req)
            q == Pointer(at)
<1>1. PICK bet \in Bets(h) : g = Made(ms, ns, bet, h.l_allocated, inuse, q)
  BY DEF Places
<1>2. Typed(h) /\ Listed(h) /\ Separate(h) /\ Counted(h)
  BY DEF Sane
<1>3. base \in Arenas /\ h.majors[k].usage \in Int
  BY <1>2, MajorFacts
<1>4. at \in Nat /\ Unclaimed(h, new) /\ Inside(h, new) /\ Roomy(new)
  BY <1>2, GapIsFree
<1>5. /\ new \in MinorBlocks /\ new.block = base /\ new.size = Padded(req)
      /\ Taken(new) = bytes /\ bytes \in Nat \ {0} /\ Padded(req) \in Nat
  <2>1. Padded(req) \in Nat
    BY PaddedIsNat, Constants
  <2>2. /\ new \in MinorBlocks /\ new.block = base /\ new.size = Padded(req)
        /\ Taken(new) = bytes /\ bytes \in Nat \ {0}
    BY <1>3, <1>4, MinorMade
  <2>. QED
    BY <2>1, <2>2
<1>6. /\ ms \in Seq(Majors) /\ DOMAIN ms = DOMAIN h.majors
      /\ \A j \in DOMAIN h.majors :
           /\ ms[j].base = h.majors[j].base /\ ms[j].size = h.majors[j].size
           /\ ms[j].usage = IF j = k THEN h.majors[k].usage + bytes ELSE h.majors[j].usage
  <2>1. bytes \in Int
    BY <1>5
  <2>2. UsesMore(h.majors, ms, k, bytes)
    BY <1>2, <2>1, UsedIs, Zenon
  <2>. QED
    BY <2>2, Zenon DEF UsesMore
<1>7. new \notin h.minors
  BY <1>4 DEF Unclaimed
<1>8. ns \in SUBSET MinorBlocks /\ IsFiniteSet(ns) /\ inuse \in Int /\ q \in Nat
      /\ bet \in Arenas \cup {NULL} /\ h.l_allocated \in Int /\ h.l_inuse \in Int
      /\ h.minors \in SUBSET MinorBlocks /\ IsFiniteSet(h.minors)
  <2>1. q \in Nat
    BY <1>4, PointerIsNat
  <2>2. h.minors \in SUBSET MinorBlocks /\ IsFiniteSet(h.minors) /\ h.l_inuse \in Int
        /\ h.l_allocated \in Int
    BY <1>2, TypedFields
  <2>3. IsFiniteSet(ns)
    BY <2>2, FS_AddElement
  <2>. HIDE DEF new, q
  <2>4. inuse \in Int
    BY <1>5, <2>2
  <2>. QED
    BY <1>2, <1>5, <2>1, <2>2, <2>3, <2>4, TypedFields
<1>. HIDE DEF ms, ns, inuse, q, new, base, bytes
<1>9. /\ g.majors = ms /\ g.minors = ns /\ g.bestBet = bet
      /\ g.l_allocated = h.l_allocated /\ g.l_inuse = inuse
  BY <1>1 DEF Made
<1>10. Typed(g)
  BY <1>1, <1>2, <1>6, <1>8, MadeTyped DEF Typed
<1>11. BasesOf(g) = BasesOf(h)
  BY <1>6, <1>9 DEF BasesOf
<1>12. Listed(g)
  <2>1. \A i, j \in DOMAIN g.majors : g.majors[i].base = g.majors[j].base => i = j
    BY <1>2, <1>6, <1>9 DEF Listed
  <2>2. base \in BasesOf(h)
    BY DEF BasesOf, base
  <2>3. BasesOf(g) = {m.block : m \in g.minors}
    BY <1>2, <1>5, <1>9, <1>11, <2>2 DEF Listed, ns
  <2>4. g.bestBet \in BasesOf(g) \cup {NULL}
    BY <1>2, <1>9, <1>11, BetsAreBases
  <2>. QED
    BY <2>1, <2>3, <2>4 DEF Listed
<1>13. Separate(g)
  <2>1. \A i \in DOMAIN h.majors : \E j \in DOMAIN g.majors :
          g.majors[j].base = h.majors[i].base /\ g.majors[j].size = h.majors[i].size
    BY <1>6, <1>9
  <2>2. Inside(g, new)
    BY <1>4, <1>6, <1>9 DEF Inside
  <2>3. g.minors = h.minors \cup {new}
    BY <1>9 DEF ns
  <2>. QED
    BY <1>2, <1>4, <2>1, <2>2, <2>3, SeparateWithMinor
<1>14. Counted(g)
  <2>1. ASSUME NEW j \in DOMAIN g.majors
        PROVE  g.majors[j].usage = MAJOR + TakenBy(Minors(g, g.majors[j]))
    <3>. DEFINE S == Minors(h, h.majors[j])
                T == Minors(g, g.majors[j])
    <3>1. j \in DOMAIN h.majors /\ h.majors[j].usage = MAJOR + TakenBy(S)
      BY <1>2, <1>6, <1>9 DEF Counted
    <3>2. S \in SUBSET MinorBlocks /\ IsFiniteSet(S) /\ new \notin S
      BY <1>7, <1>8, FS_Subset DEF Minors
    <3>3. T = IF h.majors[j].base = base THEN S \cup {new} ELSE S
      BY <1>5, <1>6, <1>9, <3>1 DEF Minors, ns
    <3>4. h.majors[j].base = base <=> j = k
      BY <1>2, <3>1 DEF Listed, base
    <3>. HIDE DEF S, T
    <3>5. TakenBy(S) \in Int /\ TakenBy(S \cup {new}) = bytes + TakenBy(S)
      BY <1>5, <3>2, SumsWithMinor
    <3>6. g.majors[j].usage = IF j = k THEN h.majors[j].usage + bytes ELSE h.majors[j].usage
      BY <1>6, <1>9, <3>1
    <3>7. TakenBy(T) = IF j = k THEN bytes + TakenBy(S) ELSE TakenBy(S)
      BY <3>3, <3>4, <3>5
    <3>8. MAJOR \in Int /\ bytes \in Int
      BY <1>5, Constants
    <3>. QED
      BY <3>1, <3>5, <3>6, <3>7, <3>8 DEF T
  <2>2. g.l_allocated = SizeOfAll(g.majors)
    <3>1. SizeOfAll(ms) = SizeOfAll(h.majors)
      <4>1. bytes \in Int
        BY <1>5
      <4>. QED
        BY <1>2, <4>1, SizesUsed DEF ms
    <3>. QED
      BY <1>2, <1>9, <3>1 DEF Counted
  <2>3. g.l_inuse = SizeOf(g.minors)
    <3>1. SizeOf(h.minors) \in Int /\ SizeOf(ns) = new.size + SizeOf(h.minors)
      BY <1>5, <1>7, <1>8, SumsWithMinor DEF ns
    <3>2. h.l_inuse = SizeOf(h.minors)
      BY <1>2 DEF Counted
    <3>. QED
      BY <1>5, <1>9, <3>1, <3>2 DEF inuse
  <2>. QED
    BY <2>1, <2>2, <2>3 DEF Counted
<1>. QED
  BY <1>10, <1>12, <1>13, <1>14 DEF Sane

(* Adding a major keeps the heap sane.                                     *)
LEMMA ExtendsSane ==
  ASSUME NEW h, Sane(h), NEW base \in Arenas \ BasesOf(h), NEW req \in Requests,
         NEW g, Extends(h, g, base, req)
  PROVE  Sane(g)
<1>. DEFINE at == base + MAJOR
            bytes == Need(req)
            size == Pages(Padded(req)) * l_pageSize
            major == NewMajor(base, req)
            ms == Append(h.majors, major)
            n == Len(h.majors)
            new == Minor(base, at, req)
            ns == h.minors \cup {new}
            allocated == h.l_allocated + size
            inuse == h.l_inuse + Padded(req)
            q == Pointer(at)
<1>1. PICK bet \in Bets(h) \cup {base} : g = Made(ms, ns, bet, allocated, inuse, q)
  BY DEF Extends
<1>2. Typed(h) /\ Listed(h) /\ Separate(h) /\ Counted(h)
  BY DEF Sane
<1>3. /\ at \in Nat /\ Unclaimed(h, new) /\ Roomy(new) /\ size \in Nat
      /\ at + bytes <= base + size
  <2>1. LET m == Minor(base, base + MAJOR, req)
            s == Pages(Padded(req)) * l_pageSize
        IN  /\ base + MAJOR \in Nat /\ Unclaimed(h, m) /\ Roomy(m)
            /\ s \in Nat /\ base + MAJOR + Need(req) <= base + s
    BY <1>2, NewMajorIsFree
  <2>. QED
    BY <2>1, Zenon DEF at, new, size, bytes
<1>4. /\ new \in MinorBlocks /\ new.block = base /\ new.size = Padded(req) /\ new.at = at
      /\ Taken(new) = bytes /\ bytes \in Nat \ {0} /\ Padded(req) \in Nat
      /\ End(new) = at + bytes
  <2>1. Padded(req) \in Nat
    BY PaddedIsNat, Constants
  <2>. HIDE DEF at
  <2>2. /\ new \in MinorBlocks /\ new.block = base /\ new.size = Padded(req) /\ new.at = at
        /\ Taken(new) = bytes /\ bytes \in Nat \ {0} /\ End(new) = at + bytes
    BY <1>3, MinorMade
  <2>. QED
    BY <2>1, <2>2
<1>5. new \notin h.minors /\ \A m \in h.minors : m.block # base
  BY <1>2, <1>3 DEF Unclaimed, Listed
<1>6. /\ major \in Majors /\ major.base = base /\ major.size = size
      /\ major.usage = MAJOR + bytes /\ MAJOR \in Nat
  <2>1. MAJOR \in Nat /\ MAJOR + bytes \in Int
    BY <1>4, Constants
  <2>. HIDE DEF bytes
  <2>2. major = [base |-> base, size |-> Pages(Padded(req)) * l_pageSize, usage |-> MAJOR + bytes]
    BY DEF NewMajor, bytes
  <2>. HIDE DEF major
  <2>3. major \in Majors
    BY <2>1, <2>2, NewMajorTyped, Zenon
  <2>. QED
    BY <2>1, <2>2, <2>3
<1>7. /\ n \in Nat /\ DOMAIN h.majors = 1 .. n /\ ms \in Seq(Majors) /\ DOMAIN ms = 1 .. (n + 1)
      /\ \A k \in 1 .. n : ms[k] = h.majors[k]
      /\ ms[n + 1] = major
  <2>1. h.majors \in Seq(Majors)
    BY <1>2, TypedFields
  <2>. HIDE DEF major
  <2>. QED
    BY <1>6, <2>1
<1>8. /\ h.minors \in SUBSET MinorBlocks /\ IsFiniteSet(h.minors) /\ h.l_inuse \in Int
      /\ h.l_allocated \in Int /\ Bets(h) \subseteq Arenas \cup {NULL}
  BY <1>2, TypedFields
<1>9. ns \in SUBSET MinorBlocks /\ IsFiniteSet(ns) /\ inuse \in Int /\ q \in Nat
      /\ bet \in Arenas \cup {NULL} /\ allocated \in Int
  <2>1. q \in Nat
    BY <1>3, PointerIsNat
  <2>2. IsFiniteSet(ns)
    BY <1>8, FS_AddElement
  <2>. HIDE DEF new, q, size
  <2>3. inuse \in Int /\ allocated \in Int
    BY <1>3, <1>4, <1>8
  <2>. QED
    BY <1>4, <1>8, <2>1, <2>2, <2>3
<1>. HIDE DEF ms, ns, allocated, inuse, q, new, bytes, at, major, n, size
<1>10. /\ g.majors = ms /\ g.minors = ns /\ g.bestBet = bet
       /\ g.l_allocated = allocated /\ g.l_inuse = inuse
  BY <1>1 DEF Made
<1>11. Typed(g)
  BY <1>1, <1>2, <1>7, <1>9, MadeTyped DEF Typed
<1>12. BasesOf(g) = BasesOf(h) \cup {base}
  <2>1. \A k \in DOMAIN ms : (k \in DOMAIN h.majors /\ ms[k] = h.majors[k]) \/ ms[k] = major
    BY <1>7
  <2>2. \A k \in DOMAIN h.majors : k \in DOMAIN ms /\ ms[k] = h.majors[k]
    BY <1>7
  <2>3. n + 1 \in DOMAIN ms
    BY <1>7
  <2>. QED
    BY <1>6, <1>7, <1>10, <2>1, <2>2, <2>3 DEF BasesOf
<1>13. Listed(g)
  <2>1. ASSUME NEW i \in DOMAIN g.majors, NEW j \in DOMAIN g.majors,
               g.majors[i].base = g.majors[j].base
        PROVE  i = j
    <3>1. i \in 1 .. (n + 1) /\ j \in 1 .. (n + 1) /\ ms[i].base = ms[j].base
      BY <1>7, <1>10, <2>1
    <3>2. \A k \in 1 .. n : ms[k].base # base
      BY <1>7 DEF BasesOf
    <3>3. ms[n + 1].base = base
      BY <1>6, <1>7
    <3>4. CASE i \in 1 .. n /\ j \in 1 .. n
      BY <1>2, <1>7, <3>1, <3>4 DEF Listed
    <3>5. CASE i = n + 1
      <4>1. j \notin 1 .. n
        BY <3>1, <3>2, <3>3, <3>5
      <4>. QED
        BY <1>7, <3>1, <3>5, <4>1
    <3>6. CASE j = n + 1
      <4>1. i \notin 1 .. n
        BY <3>1, <3>2, <3>3, <3>6
      <4>. QED
        BY <1>7, <3>1, <3>6, <4>1
    <3>. QED
      BY <1>7, <3>1, <3>4, <3>5, <3>6
  <2>2. BasesOf(g) = {m.block : m \in g.minors}
    BY <1>2, <1>4, <1>10, <1>12 DEF Listed, ns
  <2>3. g.bestBet \in BasesOf(g) \cup {NULL}
    BY <1>2, <1>10, <1>12, BetsAreBases
  <2>. QED
    BY <2>1, <2>2, <2>3 DEF Listed
<1>14. Separate(g)
  <2>1. \A i \in DOMAIN h.majors : \E j \in DOMAIN g.majors :
          g.majors[j].base = h.majors[i].base /\ g.majors[j].size = h.majors[i].size
    <3>. TAKE i \in DOMAIN h.majors
    <3>1. i \in DOMAIN g.majors /\ g.majors[i] = h.majors[i]
      BY <1>7, <1>10
    <3>. QED
      BY <3>1
  <2>2. Inside(g, new)
    <3>1. n + 1 \in DOMAIN g.majors /\ g.majors[n + 1].base = base /\ g.majors[n + 1].size = size
      BY <1>6, <1>7, <1>10
    <3>2. new.at >= new.block + MAJOR /\ End(new) <= new.block + size
      <4>1. base \in Nat /\ MAJOR \in Nat
        BY Constants
      <4>. QED
        BY <1>3, <1>4, <4>1 DEF at
    <3>. QED
      BY <1>4, <3>1, <3>2 DEF Inside
  <2>3. g.minors = h.minors \cup {new}
    BY <1>10 DEF ns
  <2>. QED
    BY <1>2, <1>3, <2>1, <2>2, <2>3, SeparateWithMinor
<1>15. Counted(g)
  <2>1. ASSUME NEW j \in DOMAIN g.majors
        PROVE  g.majors[j].usage = MAJOR + TakenBy(Minors(g, g.majors[j]))
    <3>1. CASE j \in 1 .. n
      <4>1. g.majors[j] = h.majors[j] /\ j \in DOMAIN h.majors
        BY <1>7, <1>10, <3>1
      <4>2. h.majors[j].base # base
        BY <4>1 DEF BasesOf
      <4>3. Minors(g, g.majors[j]) = Minors(h, h.majors[j])
        BY <1>4, <1>10, <4>1, <4>2 DEF Minors, ns
      <4>. QED
        BY <1>2, <4>1, <4>3 DEF Counted
    <3>2. CASE j = n + 1
      <4>1. g.majors[j] = major
        BY <1>7, <1>10, <3>2
      <4>2. Minors(g, g.majors[j]) = {} \cup {new}
        BY <1>4, <1>5, <1>6, <1>10, <4>1 DEF Minors, ns
      <4>3. TakenBy({}) = 0
        BY SumOfNone DEF TakenBy
      <4>4. TakenBy({} \cup {new}) = bytes + TakenBy({})
        <5>1. {} \in SUBSET MinorBlocks /\ IsFiniteSet({}) /\ new \notin {}
          BY FS_EmptySet
        <5>. QED
          BY <1>4, <5>1, SumsWithMinor
      <4>5. TakenBy(Minors(g, g.majors[j])) = bytes
        <5>1. TakenBy({} \cup {new}) = bytes
          BY <1>4, <4>3, <4>4
        <5>. QED
          BY <4>2, <5>1, Zenon
      <4>. QED
        BY <1>6, <4>1, <4>5
    <3>. QED
      BY <1>7, <1>10, <3>1, <3>2
  <2>2. g.l_allocated = SizeOfAll(g.majors)
    <3>1. SizeOfAll(ms) = SizeOfAll(h.majors) + size
      <4>1. Small /\ h.majors \in Seq(Majors)
        BY <1>2, TypedFields
      <4>. QED
        BY <1>6, <4>1, SizesWithMajor DEF ms
    <3>. QED
      BY <1>2, <1>10, <3>1 DEF Counted, allocated
  <2>3. g.l_inuse = SizeOf(g.minors)
    <3>1. SizeOf(h.minors) \in Int /\ SizeOf(ns) = new.size + SizeOf(h.minors)
      BY <1>4, <1>5, <1>8, SumsWithMinor DEF ns
    <3>2. h.l_inuse = SizeOf(h.minors)
      BY <1>2 DEF Counted
    <3>. QED
      BY <1>4, <1>10, <3>1, <3>2 DEF inuse
  <2>. QED
    BY <2>1, <2>2, <2>3 DEF Counted
<1>. QED
  BY <1>11, <1>13, <1>14, <1>15 DEF Sane

(* Freeing a block that is not the last of its major keeps the heap sane.  *)
LEMMA KeptSane ==
  ASSUME NEW h, Sane(h), NEW minor \in h.minors,
         \E m \in h.minors \ {minor} : m.block = minor.block,
         NEW g, Kept(h, g, minor)
  PROVE  Sane(g)
<1>. DEFINE k == In(h, minor.block)
            bytes == -Taken(minor)
            ms == Used(h.majors, k, bytes)
            ns == h.minors \ {minor}
            inuse == h.l_inuse - minor.size
<1>1. PICK bet \in Bets(h) \cup {minor.block} : g = Made(ms, ns, bet, h.l_allocated, inuse, h.p)
  BY DEF Kept
<1>2. Typed(h) /\ Listed(h) /\ Separate(h) /\ Counted(h)
  BY DEF Sane
<1>3. /\ Taken(minor) \in Nat /\ bytes \in Int /\ minor.size \in Nat /\ minor.block \in Arenas
      /\ minor \in MinorBlocks
  BY <1>2, MinorFacts
<1>4. minor.block \in BasesOf(h)
  BY <1>2 DEF Listed
<1>5. k \in DOMAIN h.majors /\ h.majors[k].base = minor.block /\ h.majors[k].usage \in Int
  BY <1>2, <1>4, InIs, MajorFacts
<1>6. /\ ms \in Seq(Majors) /\ DOMAIN ms = DOMAIN h.majors
      /\ \A j \in DOMAIN h.majors :
           /\ ms[j].base = h.majors[j].base /\ ms[j].size = h.majors[j].size
           /\ ms[j].usage = IF j = k THEN h.majors[k].usage + bytes ELSE h.majors[j].usage
  <2>. HIDE DEF bytes, k
  <2>1. UsesMore(h.majors, ms, k, bytes)
    BY <1>2, <1>3, <1>5, UsedIs, Zenon
  <2>. QED
    BY <2>1, Zenon DEF UsesMore
<1>7. /\ h.minors \in SUBSET MinorBlocks /\ IsFiniteSet(h.minors) /\ h.l_inuse \in Int
      /\ h.l_allocated \in Int /\ Bets(h) \subseteq Arenas \cup {NULL} /\ h.p \in Nat
  BY <1>2, TypedFields
<1>8. ns \in SUBSET MinorBlocks /\ IsFiniteSet(ns) /\ inuse \in Int
      /\ bet \in Arenas \cup {NULL}
  <2>1. IsFiniteSet(ns)
    BY <1>7, FS_RemoveElement
  <2>. QED
    BY <1>3, <1>7, <2>1
<1>. HIDE DEF ms, ns, inuse, bytes, k
<1>9. /\ g.majors = ms /\ g.minors = ns /\ g.bestBet = bet
      /\ g.l_allocated = h.l_allocated /\ g.l_inuse = inuse
  BY <1>1 DEF Made
<1>10. Typed(g)
  BY <1>1, <1>2, <1>6, <1>7, <1>8, MadeTyped DEF Typed
<1>11. BasesOf(g) = BasesOf(h)
  BY <1>6, <1>9 DEF BasesOf
<1>12. Listed(g)
  <2>1. \A i, j \in DOMAIN g.majors : g.majors[i].base = g.majors[j].base => i = j
    BY <1>2, <1>6, <1>9 DEF Listed
  <2>2. {m.block : m \in ns} = {m.block : m \in h.minors}
    BY DEF ns
  <2>3. g.bestBet \in BasesOf(g) \cup {NULL}
    BY <1>2, <1>4, <1>9, <1>11, BetsAreBases
  <2>. QED
    BY <1>2, <1>9, <1>11, <2>1, <2>2, <2>3 DEF Listed
<1>13. Separate(g)
  <2>1. g.minors \subseteq h.minors
    BY <1>9 DEF ns
  <2>2. \A m \in g.minors : Inside(g, m)
    <3>1. \A m \in g.minors : Inside(h, m)
      BY <1>2, <2>1 DEF Separate
    <3>. QED
      BY <1>6, <1>9, <3>1 DEF Inside
  <2>. QED
    BY <1>2, <2>1, <2>2, SeparateFewer
<1>14. Counted(g)
  <2>1. ASSUME NEW j \in DOMAIN g.majors
        PROVE  g.majors[j].usage = MAJOR + TakenBy(Minors(g, g.majors[j]))
    <3>. DEFINE S == Minors(h, h.majors[j])
                T == Minors(g, g.majors[j])
    <3>1. j \in DOMAIN h.majors /\ h.majors[j].usage = MAJOR + TakenBy(S)
      BY <1>2, <1>6, <1>9 DEF Counted
    <3>2. S \in SUBSET MinorBlocks /\ IsFiniteSet(S)
      BY <1>7, FS_Subset DEF Minors
    <3>3. h.majors[j].base = minor.block <=> j = k
      BY <1>2, <1>5, <3>1 DEF Listed
    <3>4. T = S \ {minor} /\ (minor \in S <=> j = k)
      BY <1>6, <1>9, <3>1, <3>3 DEF Minors, ns
    <3>. HIDE DEF S, T
    <3>5. CASE j = k
      <4>1. TakenBy(S) \in Int /\ TakenBy(T) = TakenBy(S) - Taken(minor)
        BY <3>2, <3>4, <3>5, SumsWithoutMinor
      <4>2. g.majors[j].usage = h.majors[j].usage + bytes
        BY <1>6, <1>9, <3>1, <3>5
      <4>3. MAJOR \in Int
        BY Constants
      <4>. QED
        BY <1>3, <3>1, <4>1, <4>2, <4>3 DEF bytes, T
    <3>6. CASE j # k
      <4>1. T = S /\ g.majors[j].usage = h.majors[j].usage
        BY <1>6, <1>9, <3>1, <3>4, <3>6
      <4>. QED
        BY <3>1, <4>1 DEF T
    <3>. QED
      BY <3>5, <3>6
  <2>2. g.l_allocated = SizeOfAll(g.majors)
    <3>1. SizeOfAll(ms) = SizeOfAll(h.majors)
      BY <1>2, <1>3, <1>5, SizesUsed DEF ms
    <3>. QED
      BY <1>2, <1>9, <3>1 DEF Counted
  <2>3. g.l_inuse = SizeOf(g.minors)
    <3>1. SizeOf(ns) = SizeOf(h.minors) - minor.size
      BY <1>7, SumsWithoutMinor DEF ns
    <3>. QED
      BY <1>2, <1>9, <3>1 DEF Counted, inuse
  <2>. QED
    BY <2>1, <2>2, <2>3 DEF Counted
<1>. QED
  BY <1>10, <1>12, <1>13, <1>14 DEF Sane

(* Freeing the last block of a major keeps the heap sane.                  *)
LEMMA RemovedSane ==
  ASSUME NEW h, Sane(h), NEW minor \in h.minors,
         ~ \E m \in h.minors \ {minor} : m.block = minor.block,
         NEW g, Removed(h, g, minor)
  PROVE  Sane(g)
<1>. DEFINE k == In(h, minor.block)
            n == Len(h.majors)
            ms == RemoveAt(h.majors, k)
            ns == h.minors \ {minor}
            bet == IF h.bestBet = minor.block THEN NULL ELSE h.bestBet
            allocated == h.l_allocated - h.majors[k].size
            inuse == h.l_inuse - minor.size
            was(j) == IF j < k THEN j ELSE j + 1
<1>1. g = Made(ms, ns, bet, allocated, inuse, h.p)
  BY Zenon DEF Removed
<1>2. Typed(h) /\ Listed(h) /\ Separate(h) /\ Counted(h)
  BY DEF Sane
<1>3. minor.size \in Nat /\ minor.block \in Arenas
  BY <1>2, MinorFacts
<1>4. minor.block \in BasesOf(h)
  BY <1>2 DEF Listed
<1>5. k \in DOMAIN h.majors /\ h.majors[k].base = minor.block /\ h.majors[k].size \in Nat
  BY <1>2, <1>4, InIs, MajorFacts
<1>6. /\ h.minors \in SUBSET MinorBlocks /\ IsFiniteSet(h.minors) /\ h.l_inuse \in Int
      /\ h.l_allocated \in Int /\ h.bestBet \in Arenas \cup {NULL} /\ h.p \in Nat
      /\ h.majors \in Seq(Majors) /\ Small
  BY <1>2, TypedFields
<1>7. n \in Nat /\ DOMAIN h.majors = 1 .. n /\ k \in 1 .. n
  <2>. HIDE DEF k
  <2>. QED
    BY <1>5, <1>6
<1>8. /\ ms \in Seq(Majors) /\ DOMAIN ms = 1 .. (n - 1)
      /\ \A j \in 1 .. (n - 1) : was(j) \in 1 .. n /\ was(j) # k /\ ms[j] = h.majors[was(j)]
      /\ \A i, j \in 1 .. (n - 1) : was(i) = was(j) => i = j
  <2>. HIDE DEF k
  <2>1. /\ ms \in Seq(Majors) /\ Len(ms) = n - 1
        /\ \A j \in 1 .. (n - 1) : ms[j] = IF j < k THEN h.majors[j] ELSE h.majors[j + 1]
    BY <1>6, <1>7, RemoveAtIs
  <2>. HIDE DEF ms, n
  <2>. QED
    BY <1>7, <2>1
<1>9. \A j \in 1 .. n : j # k => \E i \in 1 .. (n - 1) : was(i) = j
  <2>. HIDE DEF k, n
  <2>. TAKE j \in 1 .. n
  <2>. HAVE j # k
  <2>1. CASE j < k
    <3>1. j \in 1 .. (n - 1) /\ was(j) = j
      BY <1>7, <2>1
    <3>. QED
      BY <3>1
  <2>2. CASE j > k
    <3>1. j - 1 \in 1 .. (n - 1) /\ was(j - 1) = j
      BY <1>7, <2>2
    <3>. QED
      BY <3>1
  <2>. QED
    BY <1>7, <2>1, <2>2
<1>10. ns \in SUBSET MinorBlocks /\ IsFiniteSet(ns) /\ inuse \in Int /\ allocated \in Int
       /\ bet \in Arenas \cup {NULL}
  <2>1. IsFiniteSet(ns)
    BY <1>6, FS_RemoveElement
  <2>. HIDE DEF k
  <2>. QED
    BY <1>3, <1>5, <1>6, <2>1
<1>. HIDE DEF ms, ns, inuse, allocated, bet, k, n, was
<1>11. /\ g.majors = ms /\ g.minors = ns /\ g.bestBet = bet
       /\ g.l_allocated = allocated /\ g.l_inuse = inuse
  BY <1>1 DEF Made
<1>12. Typed(g)
  BY <1>1, <1>6, <1>8, <1>10, MadeTyped
<1>13. \A j \in DOMAIN g.majors :
         was(j) \in DOMAIN h.majors /\ was(j) # k /\ g.majors[j] = h.majors[was(j)]
  BY <1>7, <1>8, <1>11
<1>14. \A j \in DOMAIN h.majors : j # k => \E i \in DOMAIN g.majors : g.majors[i] = h.majors[j]
  <2>. TAKE j \in DOMAIN h.majors
  <2>. HAVE j # k
  <2>1. PICK i \in 1 .. (n - 1) : was(i) = j
    BY <1>7, <1>9
  <2>. QED
    BY <1>8, <1>11, <2>1
<1>15. \A j \in DOMAIN h.majors : h.majors[j].base = minor.block <=> j = k
  BY <1>2, <1>5 DEF Listed
<1>16. BasesOf(g) = BasesOf(h) \ {minor.block}
  <2>1. \A b \in BasesOf(g) : b \in BasesOf(h) /\ b # minor.block
    BY <1>13, <1>15 DEF BasesOf
  <2>2. \A b \in BasesOf(h) \ {minor.block} : b \in BasesOf(g)
    BY <1>14, <1>15 DEF BasesOf
  <2>. QED
    BY <2>1, <2>2
<1>17. Listed(g)
  <2>1. ASSUME NEW i \in DOMAIN g.majors, NEW j \in DOMAIN g.majors,
               g.majors[i].base = g.majors[j].base
        PROVE  i = j
    <3>1. was(i) = was(j)
      BY <1>2, <1>13, <2>1 DEF Listed
    <3>. QED
      BY <1>8, <1>11, <3>1
  <2>2. {m.block : m \in ns} = {m.block : m \in h.minors} \ {minor.block}
    BY DEF ns
  <2>3. BasesOf(g) = {m.block : m \in g.minors}
    BY <1>2, <1>11, <1>16, <2>2, Zenon DEF Listed
  <2>4. g.bestBet \in BasesOf(g) \cup {NULL}
    BY <1>2, <1>11, <1>16 DEF Listed, bet
  <2>. QED
    BY <2>1, <2>3, <2>4 DEF Listed
<1>18. Separate(g)
  <2>1. g.minors \subseteq h.minors
    BY <1>11 DEF ns
  <2>2. ASSUME NEW m \in g.minors
        PROVE  Inside(g, m)
    <3>1. m \in h.minors /\ m.block # minor.block
      BY <1>11 DEF ns
    <3>2. PICK j \in DOMAIN h.majors :
            h.majors[j].base = m.block /\ m.at >= m.block + MAJOR
            /\ End(m) <= m.block + h.majors[j].size
      BY <1>2, <3>1 DEF Separate, Inside
    <3>3. PICK i \in DOMAIN g.majors : g.majors[i] = h.majors[j]
      BY <1>14, <1>15, <3>1, <3>2
    <3>. QED
      BY <3>2, <3>3 DEF Inside
  <2>. QED
    BY <1>2, <2>1, <2>2, SeparateFewer
<1>19. Counted(g)
  <2>1. ASSUME NEW j \in DOMAIN g.majors
        PROVE  g.majors[j].usage = MAJOR + TakenBy(Minors(g, g.majors[j]))
    <3>1. was(j) \in DOMAIN h.majors /\ g.majors[j] = h.majors[was(j)]
          /\ h.majors[was(j)].base # minor.block
      BY <1>13, <1>15
    <3>2. Minors(g, g.majors[j]) = Minors(h, h.majors[was(j)])
      BY <1>11, <3>1 DEF Minors, ns
    <3>. QED
      BY <1>2, <3>1, <3>2 DEF Counted
  <2>2. g.l_allocated = SizeOfAll(g.majors)
    <3>1. SizeOfAll(ms) = SizeOfAll(h.majors) - h.majors[k].size
      BY <1>5, <1>6, SizesWithoutMajor DEF ms
    <3>. QED
      BY <1>2, <1>11, <3>1 DEF Counted, allocated
  <2>3. g.l_inuse = SizeOf(g.minors)
    <3>1. SizeOf(ns) = SizeOf(h.minors) - minor.size
      BY <1>6, SumsWithoutMinor DEF ns
    <3>. QED
      BY <1>2, <1>11, <3>1 DEF Counted, inuse
  <2>. QED
    BY <2>1, <2>2, <2>3 DEF Counted
<1>. QED
  BY <1>12, <1>17, <1>18, <1>19 DEF Sane

-----------------------------------------------------------------------------
(* The minors of a major lie behind its header and before its end.         *)
LEMMA MinorsWithin ==
  ASSUME NEW h, Sane(h), NEW k \in DOMAIN h.majors
  PROVE  /\ Minors(h, h.majors[k]) \in SUBSET MinorBlocks
         /\ IsFiniteSet(Minors(h, h.majors[k]))
         /\ Minors(h, h.majors[k]) \subseteq h.minors
         /\ \A m \in Minors(h, h.majors[k]) :
              /\ m.at >= h.majors[k].base + MAJOR
              /\ End(m) <= h.majors[k].base + h.majors[k].size
<1>. DEFINE base == h.majors[k].base
            S == Minors(h, h.majors[k])
<1>1. Typed(h) /\ Listed(h) /\ Separate(h)
  BY DEF Sane
<1>2. h.minors \in SUBSET MinorBlocks /\ IsFiniteSet(h.minors)
  BY <1>1, TypedFields
<1>3. S \subseteq h.minors
  BY DEF Minors
<1>4. IsFiniteSet(S)
  BY <1>2, <1>3, FS_Subset
<1>5. ASSUME NEW m \in S
      PROVE  m.at >= base + MAJOR /\ End(m) <= base + h.majors[k].size
  <2>1. m \in h.minors /\ m.block = base
    BY DEF Minors
  <2>2. PICK j \in DOMAIN h.majors :
          h.majors[j].base = m.block /\ m.at >= m.block + MAJOR
          /\ End(m) <= m.block + h.majors[j].size
    BY <1>1, <2>1 DEF Separate, Inside
  <2>3. j = k
    BY <1>1, <2>1, <2>2 DEF Listed
  <2>. QED
    BY <2>1, <2>2, <2>3
<1>. QED
  BY <1>2, <1>3, <1>4, <1>5

(* What minors take is a number, and no less than what one of them takes.  *)
LEMMA TakenIsNat ==
  ASSUME NEW S \in SUBSET MinorBlocks, IsFiniteSet(S)
  PROVE  TakenBy(S) \in Nat
<1>. DEFINE len == [m \in S |-> Taken(m)]
<1>1. \A m \in S : Taken(m) \in Nat
  BY MinorBlockFacts
<1>2. \A m \in S : len[m] \in Nat
  BY <1>1
<1>. HIDE DEF len
<1>3. SumFunctionOnSet(len, S) \in Nat
  BY <1>2, SumIsNatural
<1>. QED
  BY <1>3, Zenon DEF TakenBy, len

(* The minors of a major do not overlap, so its usage is no more than its  *)
(* size, and is not cut short.                                             *)
LEMMA UsageBounded ==
  ASSUME NEW h, Sane(h)
  PROVE  Bounded(h)
<1>. SUFFICES ASSUME NEW k \in DOMAIN h.majors
              PROVE  /\ h.majors[k].usage \in Nat /\ h.majors[k].usage <= h.majors[k].size
                     /\ h.majors[k].size \in Nat /\ h.majors[k].size < UINT
                     /\ \A m \in Minors(h, h.majors[k]) : Taken(m) <= h.majors[k].usage
  BY DEF Bounded
<1>. DEFINE major == h.majors[k]
            base == major.base
            size == major.size
            S == Minors(h, major)
            start == [m \in S |-> m.at]
            len == [m \in S |-> Taken(m)]
            lo == base + MAJOR
            hi == base + size
<1>1. Typed(h) /\ Separate(h) /\ Counted(h)
  BY DEF Sane
<1>2. /\ base \in Nat /\ size \in Nat /\ size < UINT /\ size >= MAJOR /\ MAJOR \in Nat
  BY <1>1, MajorFacts, Constants
<1>3. /\ S \in SUBSET MinorBlocks /\ IsFiniteSet(S) /\ S \subseteq h.minors
      /\ \A m \in S : m.at >= lo /\ End(m) <= hi
  BY MinorsWithin
<1>4. major.usage = MAJOR + TakenBy(S)
  BY <1>1 DEF Counted
<1>. HIDE DEF major, base, size, S
<1>5. TakenBy(S) \in Nat
  BY <1>3, TakenIsNat
<1>6. \A m \in S : m.at \in Nat /\ Taken(m) \in Nat \ {0} /\ End(m) = m.at + Taken(m)
  BY <1>3, MinorBlockFacts
<1>7. \A m \in S : \A n \in S \ {m} : End(m) <= n.at \/ End(n) <= m.at
  BY <1>1, <1>3 DEF Separate, Beside
<1>8. \A m \in S : start[m] = m.at /\ len[m] = Taken(m)
  OBVIOUS
<1>9. lo \in Nat /\ hi \in Nat /\ lo <= hi
  BY <1>2
<1>. HIDE DEF start, len, lo, hi
<1>10. SumFunctionOnSet(len, S) <= hi - lo
  <2>1. \A m \in S : /\ start[m] \in Nat /\ len[m] \in Nat \ {0}
                     /\ lo <= start[m] /\ start[m] + len[m] <= hi
    BY <1>3, <1>6, <1>8, <1>9
  <2>2. \A m \in S : \A n \in S \ {m} : start[m] + len[m] <= start[n] \/ start[n] + len[n] <= start[m]
    BY <1>6, <1>7, <1>8
  <2>. QED
    BY <1>3, <1>9, <2>1, <2>2, SumOfApart
<1>11. TakenBy(S) = SumFunctionOnSet(len, S)
  BY Zenon DEF TakenBy, len
<1>12. major.usage \in Nat /\ major.usage <= size
  BY <1>2, <1>4, <1>5, <1>10, <1>11 DEF lo, hi
<1>13. ASSUME NEW m \in S
       PROVE  Taken(m) <= major.usage
  <2>1. TakenBy(S \ {m}) = TakenBy(S) - Taken(m)
    BY <1>3, SumsWithoutMinor
  <2>2. TakenBy(S \ {m}) \in Nat
    <3>1. S \ {m} \in SUBSET MinorBlocks /\ IsFiniteSet(S \ {m})
      BY <1>3, FS_RemoveElement
    <3>. QED
      BY <3>1, TakenIsNat
  <2>3. Taken(m) \in Nat
    BY <1>6
  <2>. QED
    BY <1>2, <1>4, <1>5, <2>1, <2>2, <2>3
<1>. QED
  BY <1>2, <1>12, <1>13 DEF major, size, S

-----------------------------------------------------------------------------
(* What a caller of malloc and of free sees.                               *)
Adds(h, ns, req, new) ==
  /\ Unclaimed(h, new) /\ new.req = req /\ Taken(new) = Need(req) /\ Roomy(new)
  /\ new.block >= 1 /\ new.at >= new.block
  /\ ns = h.minors \cup {new}
  /\ new.block \in BasesOf(h) \/ \A k \in DOMAIN h.majors : ~ Fits(h, k, Need(req))

(* malloc keeps the heap sane, and adds one block or none.                 *)
LEMMA MallocSane ==
  ASSUME NEW h, Sane(h), NEW req \in Requests, NEW base \in (Arenas \ BasesOf(h)) \cup {NULL},
         NEW again
  PROVE  LET g == malloc(h, req, base, again)
         IN  Sane(g) /\ (g.minors = h.minors \/ \E new : Adds(h, g.minors, req, new))
<1>. DEFINE g == malloc(h, req, base, again)
<1>1. Typed(h) /\ Listed(h) /\ Separate(h) /\ Bounded(h)
  BY UsageBounded DEF Sane
<1>2. \/ \E k \in DOMAIN h.majors :
           /\ Fits(h, k, Need(req))
           /\ \E at \in Gaps(h, h.majors[k], Need(req)) : Places(h, g, k, at, req)
      \/ /\ \A k \in DOMAIN h.majors : ~ Fits(h, k, Need(req))
         /\ \/ base = NULL /\ Refuses(h, g)
            \/ base # NULL /\ Extends(h, g, base, req)
  BY <1>1, MallocDoes, Zenon
<1>. HIDE DEF g
<1>3. CASE \E k \in DOMAIN h.majors : \E at \in Gaps(h, h.majors[k], Need(req)) :
             Places(h, g, k, at, req)
  <2>1. PICK k \in DOMAIN h.majors : \E at \in Gaps(h, h.majors[k], Need(req)) :
               Places(h, g, k, at, req)
    BY <1>3
  <2>2. PICK at \in Gaps(h, h.majors[k], Need(req)) : Places(h, g, k, at, req)
    BY <2>1
  <2>. DEFINE new == Minor(h.majors[k].base, at, req)
  <2>3. Sane(g)
    BY <2>2, PlacesSane
  <2>4. g.minors = h.minors \cup {new}
    BY <2>2 DEF Places, Made
  <2>5. /\ Unclaimed(h, new) /\ Roomy(new) /\ at \in Nat /\ h.majors[k].base \in Arenas
        /\ at >= h.majors[k].base + MAJOR
    BY <1>1, GapIsFree, MajorFacts
  <2>6. new.req = req /\ Taken(new) = Need(req) /\ new.block = h.majors[k].base /\ new.at = at
    BY <2>5, MinorMade
  <2>7. h.majors[k].base \in Nat \ {0} /\ MAJOR \in Nat
    BY <2>5, Constants DEF NULL
  <2>8. h.majors[k].base \in BasesOf(h)
    BY DEF BasesOf
  <2>9. Adds(h, g.minors, req, new)
    <3>. HIDE DEF new
    <3>. QED
      BY <2>4, <2>5, <2>6, <2>7, <2>8 DEF Adds
  <2>. QED
    BY <2>3, <2>9, Zenon DEF g
<1>4. CASE base = NULL /\ Refuses(h, g)
  BY <1>4, RefusesSane DEF g
<1>5. CASE /\ \A k \in DOMAIN h.majors : ~ Fits(h, k, Need(req))
           /\ base # NULL /\ Extends(h, g, base, req)
  <2>. DEFINE new == Minor(base, base + MAJOR, req)
  <2>1. base \in Arenas \ BasesOf(h) /\ base \in Nat \ {0} /\ base + MAJOR \in Nat /\ MAJOR \in Nat
    BY <1>5, Constants DEF NULL
  <2>2. Sane(g)
    BY <1>5, <2>1, ExtendsSane
  <2>3. g.minors = h.minors \cup {new}
    BY <1>5 DEF Extends, Made
  <2>4. Unclaimed(h, new) /\ Roomy(new)
    BY <1>1, <2>1, NewMajorIsFree
  <2>5. /\ new.req = req /\ Taken(new) = Need(req) /\ new.block = base
        /\ new.at = base + MAJOR
    BY <2>1, MinorMade
  <2>6. Adds(h, g.minors, req, new)
    <3>. HIDE DEF new
    <3>. QED
      BY <1>5, <2>1, <2>3, <2>4, <2>5 DEF Adds
  <2>. QED
    BY <2>2, <2>6, Zenon DEF g
<1>. QED
  BY <1>2, <1>3, <1>4, <1>5

(* free keeps the heap sane, and takes out its block.                      *)
LEMMA FreeSane ==
  ASSUME NEW h, Sane(h), NEW minor \in h.minors
  PROVE  Sane(free(h, minor)) /\ free(h, minor).minors = h.minors \ {minor}
<1>. DEFINE g == free(h, minor)
<1>1. Typed(h) /\ Listed(h) /\ Bounded(h)
  BY UsageBounded DEF Sane
<1>2. IF \E m \in h.minors \ {minor} : m.block = minor.block
      THEN Kept(h, g, minor) ELSE Removed(h, g, minor)
  BY <1>1, FreeDoes, Zenon
<1>. HIDE DEF g
<1>3. CASE \E m \in h.minors \ {minor} : m.block = minor.block
  <2>1. Kept(h, g, minor)
    BY <1>2, <1>3
  <2>2. Sane(g)
    BY <1>3, <2>1, KeptSane
  <2>3. g.minors = h.minors \ {minor}
    BY <2>1 DEF Kept, Made
  <2>. QED
    BY <2>2, <2>3 DEF g
<1>4. CASE ~ \E m \in h.minors \ {minor} : m.block = minor.block
  <2>1. Removed(h, g, minor)
    BY <1>2, <1>4
  <2>2. Sane(g)
    BY <1>4, <2>1, RemovedSane
  <2>3. g.minors = h.minors \ {minor}
    BY <2>1 DEF Removed, Made
  <2>. QED
    BY <2>2, <2>3 DEF g
<1>. QED
  BY <1>3, <1>4

(* The pointer that is returned does not matter.                           *)
LEMMA SaneWhateverReturned ==
  ASSUME NEW h, Sane(h)
  PROVE  Sane(Made(h.majors, h.minors, h.bestBet, h.l_allocated, h.l_inuse, NULL))
<1>1. Refuses(h, Made(h.majors, h.minors, h.bestBet, h.l_allocated, h.l_inuse, NULL))
  BY Zenon DEF Refuses, Bets
<1>. QED
  BY <1>1, RefusesSane, Zenon

(* A block cut down in place takes as many bytes as before.                *)
LEMMA CutSane ==
  ASSUME NEW h, Sane(h), NEW minor \in h.minors, NEW size \in Requests, size <= minor.req
  PROVE  Sane(Made(h.majors, (h.minors \ {minor}) \cup {[minor EXCEPT !.req = size]},
                   h.bestBet, h.l_allocated, h.l_inuse, NULL))
<1>. DEFINE less == [minor EXCEPT !.req = size]
            rest == h.minors \ {minor}
            ns == rest \cup {less}
            g == Made(h.majors, ns, h.bestBet, h.l_allocated, h.l_inuse, NULL)
<1>1. Typed(h) /\ Listed(h) /\ Separate(h) /\ Counted(h)
  BY DEF Sane
<1>2. /\ minor \in MinorBlocks /\ minor.at \in Nat /\ minor.size \in Nat /\ minor.req \in Nat
      /\ size \in Nat
  BY <1>1, MinorFacts, Constants
<1>3. /\ less \in MinorBlocks /\ less.block = minor.block /\ less.at = minor.at
      /\ less.size = minor.size /\ less.req = size
  BY <1>2 DEF MinorBlocks
<1>. HIDE DEF less
<1>4. Taken(less) = Taken(minor) /\ End(less) = End(minor)
  BY <1>3 DEF Taken, End
<1>5. /\ h.minors \in SUBSET MinorBlocks /\ IsFiniteSet(h.minors) /\ h.l_inuse \in Int
      /\ h.l_allocated \in Int /\ h.bestBet \in Arenas \cup {NULL}
      /\ h.majors \in Seq(Majors) /\ NULL \in Nat
  BY <1>1, TypedFields, Constants
<1>6. rest \in SUBSET MinorBlocks /\ IsFiniteSet(rest)
  BY <1>5, FS_RemoveElement
<1>7. ns \in SUBSET MinorBlocks /\ IsFiniteSet(ns)
  BY <1>3, <1>6, FS_AddElement
<1>8. \A m \in rest : Beside(m, less) /\ Beside(less, m)
  <2>1. \A m \in rest : Beside(m, minor) /\ Beside(minor, m)
    BY <1>1 DEF Separate
  <2>. QED
    BY <1>3, <1>4, <2>1 DEF Beside
<1>9. less \notin rest
  <2>1. ~ Beside(less, less)
    BY <1>3, MinorBlockFacts DEF Beside
  <2>. QED
    BY <1>8, <2>1
<1>. HIDE DEF g, ns
<1>10. /\ g.majors = h.majors /\ g.minors = ns /\ g.bestBet = h.bestBet
       /\ g.l_allocated = h.l_allocated /\ g.l_inuse = h.l_inuse
  BY DEF Made, g
<1>11. Typed(g)
  BY <1>1, <1>5, <1>7, MadeTyped DEF Typed, g
<1>12. Listed(g)
  <2>1. BasesOf(g) = BasesOf(h)
    BY <1>10 DEF BasesOf
  <2>2. {m.block : m \in ns} = {m.block : m \in h.minors}
    BY <1>3 DEF ns
  <2>. QED
    BY <1>1, <1>10, <2>1, <2>2 DEF Listed
<1>13. Separate(g)
  <2>1. \A m \in h.minors : Inside(g, m) /\ Roomy(m)
    BY <1>1, <1>10 DEF Separate, Inside
  <2>2. Inside(g, less)
    BY <1>3, <1>4, <2>1 DEF Inside
  <2>3. Roomy(less)
    <3>1. ALIGNMENT \in Nat /\ ALIGN_INFO \in Nat
      BY Constants
    <3>. QED
      BY <1>2, <1>3, <2>1, <3>1 DEF Roomy
  <2>4. \A m \in rest : \A n \in rest \ {m} : Beside(m, n)
    BY <1>1 DEF Separate
  <2>. QED
    BY <1>8, <1>10, <2>1, <2>2, <2>3, <2>4 DEF Separate, ns
<1>14. Counted(g)
  <2>1. ASSUME NEW k \in DOMAIN g.majors
        PROVE  g.majors[k].usage = MAJOR + TakenBy(Minors(g, g.majors[k]))
    <3>. DEFINE S == Minors(h, h.majors[k])
                R == S \ {minor}
                T == Minors(g, g.majors[k])
    <3>1. h.majors[k].usage = MAJOR + TakenBy(S) /\ g.majors[k] = h.majors[k]
      BY <1>1, <1>10 DEF Counted
    <3>2. S \in SUBSET MinorBlocks /\ IsFiniteSet(S)
      BY <1>5, FS_Subset DEF Minors
    <3>3. CASE minor \in S
      <4>1. T = R \cup {less} /\ less \notin R
        BY <1>3, <1>9, <1>10, <3>3 DEF Minors, ns
      <4>2. R \in SUBSET MinorBlocks /\ IsFiniteSet(R)
        BY <3>2, FS_RemoveElement
      <4>. HIDE DEF S, T
      <4>3. TakenBy(S) \in Int /\ TakenBy(R) = TakenBy(S) - Taken(minor)
        BY <3>2, <3>3, SumsWithoutMinor
      <4>. HIDE DEF R
      <4>4. TakenBy(T) = Taken(less) + TakenBy(R)
        BY <1>3, <4>1, <4>2, SumsWithMinor
      <4>5. Taken(minor) \in Int
        BY <1>2, MinorBlockFacts
      <4>. QED
        BY <1>4, <3>1, <4>3, <4>4, <4>5 DEF T
    <3>4. CASE minor \notin S
      <4>1. T = S
        BY <1>3, <1>10, <3>4 DEF Minors, ns
      <4>. QED
        BY <3>1, <4>1
    <3>. QED
      BY <3>3, <3>4
  <2>2. SizeOf(ns) = SizeOf(h.minors)
    <3>1. SizeOf(h.minors) \in Int /\ SizeOf(rest) = SizeOf(h.minors) - minor.size
      BY <1>5, SumsWithoutMinor
    <3>2. SizeOf(ns) = less.size + SizeOf(rest)
      BY <1>3, <1>6, <1>9, SumsWithMinor DEF ns
    <3>. QED
      BY <1>2, <1>3, <3>1, <3>2
  <2>. QED
    BY <1>1, <1>10, <2>1, <2>2 DEF Counted
<1>15. Sane(g)
  BY <1>11, <1>12, <1>13, <1>14 DEF Sane
<1>. QED
  BY <1>15 DEF g, ns, less

-----------------------------------------------------------------------------
(* The steps of the heap.                                                  *)
LEMMA HeapFields ==
  /\ Heap.majors = majors /\ Heap.minors = minors /\ Heap.bestBet = bestBet
  /\ Heap.l_allocated = l_allocated /\ Heap.l_inuse = l_inuse
  /\ Heap.outgrown = outgrown
  /\ BasesOf(Heap) = Bases
BY DEF Heap, BasesOf, Bases

(* A step that ends in a sane heap ends in all of it.                      *)
LEMMA BecomesAll ==
  ASSUME NEW h, Sane(h), Becomes(h)
  PROVE  /\ majors' = h.majors /\ minors' = h.minors /\ bestBet' = h.bestBet
         /\ l_allocated' = h.l_allocated /\ l_inuse' = h.l_inuse
         /\ outgrown' = {}
<1>1. h.outgrown = {}
  BY DEF Sane, Typed, Heaps
<1>. QED
  BY <1>1 DEF Becomes

(* A step that ends in a sane heap keeps the invariant.                    *)
LEMMA BecomesSane ==
  ASSUME NEW h, Sane(h), Becomes(h)
  PROVE  IInv'
<1>. DEFINE g == Made(h.majors, h.minors, h.bestBet, h.l_allocated, h.l_inuse, NULL)
<1>1. Sane(g)
  BY SaneWhateverReturned, Zenon
<1>2. Heap' = g
  BY BecomesAll DEF Heap, Made
<1>. QED
  BY <1>1, <1>2, Zenon DEF IInv

(* The empty heap is sane.                                                 *)
LEMMA SaneAtFirst ==
  ASSUME Small, Init
  PROVE  IInv
<1>1. /\ Heap.majors = <<>> /\ Heap.minors = {} /\ Heap.bestBet = NULL
      /\ Heap.l_allocated = 0 /\ Heap.l_inuse = 0 /\ Heap.outgrown = {}
  BY HeapFields DEF Init
<1>2. DOMAIN Heap.majors = {}
  BY <1>1
<1>3. Typed(Heap)
  <2>1. <<>> \in Seq(Majors) /\ {} \in SUBSET MinorBlocks /\ IsFiniteSet({})
        /\ NULL \in Arenas \cup {NULL} /\ 0 \in Int /\ NULL \in Nat
    BY Constants, FS_EmptySet
  <2>2. Heap = Made(<<>>, {}, NULL, 0, 0, NULL)
    BY <1>1, HeapFields DEF Heap, Made
  <2>. QED
    BY <2>1, <2>2, MadeTyped
<1>4. Listed(Heap)
  BY <1>1, <1>2 DEF Listed, BasesOf
<1>5. Separate(Heap)
  BY <1>1 DEF Separate
<1>6. Counted(Heap)
  BY <1>1, <1>2, SumOfNone DEF Counted, SizeOfAll, SizeOf
<1>. QED
  BY <1>3, <1>4, <1>5, <1>6 DEF IInv, Sane

(* A call of malloc keeps the invariant.                                   *)
LEMMA MallocStep ==
  ASSUME IInv, NEW req \in Requests, NEW base \in liballoc_alloc,
         NEW again \in liballoc_alloc_again(base), liballoc_malloc(req, base, again)
  PROVE  IInv' /\ (minors' = minors \/ \E new : Adds(Heap, minors', req, new))
<1>. DEFINE g == malloc(Heap, req, base, again)
<1>1. base \in (Arenas \ BasesOf(Heap)) \cup {NULL}
  BY HeapFields DEF liballoc_alloc
<1>2. Sane(g) /\ (g.minors = Heap.minors \/ \E new : Adds(Heap, g.minors, req, new))
  BY <1>1, MallocSane, Zenon DEF IInv
<1>3. Becomes(g)
  BY DEF liballoc_malloc
<1>. HIDE DEF g
<1>4. IInv'
  BY <1>2, <1>3, BecomesSane
<1>5. minors' = g.minors
  BY <1>2, <1>3, BecomesAll
<1>. QED
  BY <1>2, <1>4, <1>5, HeapFields, Zenon

(* A call of free keeps the invariant.                                     *)
LEMMA FreeStep ==
  ASSUME IInv, NEW minor \in minors, liballoc_free(minor)
  PROVE  IInv' /\ minors' = minors \ {minor}
<1>. DEFINE g == free(Heap, minor)
<1>1. Sane(g) /\ g.minors = minors \ {minor}
  <2>1. minor \in Heap.minors
    BY HeapFields
  <2>. QED
    BY <2>1, FreeSane, HeapFields, Zenon DEF IInv
<1>2. Becomes(g)
  BY DEF liballoc_free
<1>. HIDE DEF g
<1>3. IInv'
  BY <1>1, <1>2, BecomesSane
<1>. QED
  BY <1>1, <1>2, <1>3, BecomesAll

(* A realloc that keeps its block keeps the invariant.                     *)
LEMMA CutStep ==
  ASSUME IInv, NEW minor \in minors, NEW size \in Requests, liballoc_realloc_in_place(minor, size)
  PROVE  IInv'
<1>. DEFINE ns == (minors \ {minor}) \cup {[minor EXCEPT !.req = size]}
            g == Made(majors, ns, bestBet, l_allocated, l_inuse, NULL)
<1>1. minor \in MinorBlocks /\ minor.req \in Nat /\ size \in Nat /\ minor.req >= size
  <2>1. minor \in Heap.minors /\ Typed(Heap)
    BY HeapFields DEF IInv, Sane
  <2>. QED
    BY <2>1, MinorFacts, Constants DEF liballoc_realloc_in_place
<1>2. Sane(g)
  <2>1. minor \in Heap.minors /\ Sane(Heap) /\ size <= minor.req
    BY <1>1, HeapFields DEF IInv
  <2>2. Sane(Made(Heap.majors, (Heap.minors \ {minor}) \cup {[minor EXCEPT !.req = size]},
                  Heap.bestBet, Heap.l_allocated, Heap.l_inuse, NULL))
    BY <2>1, CutSane, Zenon
  <2>. QED
    BY <2>2, HeapFields, Zenon
<1>3. Heap' = g
  BY DEF liballoc_realloc_in_place, Heap, Made
<1>. QED
  BY <1>2, <1>3, Zenon DEF IInv

(* A realloc that moves its block keeps the invariant, and takes the old   *)
(* block out once the new one is in.                                       *)
LEMMA MoveStep ==
  ASSUME IInv, NEW minor \in minors, NEW size \in Requests, NEW base \in liballoc_alloc,
         NEW again \in liballoc_alloc_again(base), liballoc_realloc_move(minor, size, base, again)
  PROVE  /\ IInv'
         /\ \/ minors' = minors \ {minor}
            \/ \E new, ns : Adds(Heap, ns, size, new) /\ minors' = ns \ {minor}
<1>. DEFINE g == malloc(Heap, size, base, again)
            f == free(g, minor)
<1>1. base \in (Arenas \ BasesOf(Heap)) \cup {NULL}
  BY HeapFields DEF liballoc_alloc
<1>2. Sane(g) /\ (g.minors = minors \/ \E new : Adds(Heap, g.minors, size, new))
  BY <1>1, MallocSane, HeapFields, Zenon DEF IInv
<1>3. Becomes(f)
  BY DEF liballoc_realloc_move
<1>. HIDE DEF g
<1>4. minor \in g.minors
  BY <1>2, HeapFields DEF Adds
<1>5. Sane(f) /\ f.minors = g.minors \ {minor}
  BY <1>2, <1>4, FreeSane
<1>. HIDE DEF f
<1>6. IInv'
  BY <1>3, <1>5, BecomesSane
<1>7. minors' = g.minors \ {minor}
  BY <1>3, <1>5, BecomesAll
<1>. QED
  BY <1>2, <1>6, <1>7, Zenon

(* IInv is inductive.                                                      *)
LEMMA StepKeepsIInv ==
  ASSUME IInv, [Next]_vars
  PROVE  IInv'
<1>1. ASSUME NEW req \in Requests, NEW base \in liballoc_alloc,
             NEW again \in liballoc_alloc_again(base), liballoc_malloc(req, base, again)
      PROVE  IInv'
  BY <1>1, MallocStep
<1>2. ASSUME NEW minor \in minors, liballoc_free(minor)
      PROVE  IInv'
  BY <1>2, FreeStep
<1>3. ASSUME NEW minor \in minors, NEW size \in Requests, liballoc_realloc_free(minor, size)
      PROVE  IInv'
  BY <1>3, FreeStep DEF liballoc_realloc_free
<1>4. ASSUME NEW minor \in minors, NEW size \in Requests, liballoc_realloc_in_place(minor, size)
      PROVE  IInv'
  BY <1>4, CutStep
<1>5. ASSUME NEW minor \in minors, NEW size \in Requests, NEW base \in liballoc_alloc,
             NEW again \in liballoc_alloc_again(base),
             liballoc_realloc_move(minor, size, base, again)
      PROVE  IInv'
  BY <1>5, MoveStep
<1>6. CASE Trampled \/ UNCHANGED vars
  <2>1. Heap' = Heap
    BY <1>6 DEF Trampled, vars, Heap
  <2>. QED
    BY <2>1, Zenon DEF IInv
<1>. QED
  BY <1>1, <1>2, <1>3, <1>4, <1>5, <1>6 DEF Next

(* The heap stays sane: the lists, the counts and the blocks agree, for    *)
(* every size of header, page and arena and any requests.                  *)
THEOREM StaysSane ==
  ASSUME Small
  PROVE  Spec => []IInv
<1>1. Init => IInv
  BY SaneAtFirst
<1>2. IInv /\ [Next]_vars => IInv'
  BY StepKeepsIInv
<1>. QED
  BY <1>1, <1>2, PTL DEF Spec

-----------------------------------------------------------------------------
(* What the invariant says of the properties the runs check.               *)
LEMMA MinorsAreApart ==
  ASSUME IInv
  PROVE  MinorsApart
<1>1. Typed(Heap) /\ Separate(Heap)
  BY DEF IInv, Sane
<1>2. \A m \in minors : Inside(Heap, m) /\ Roomy(m)
  BY <1>1, HeapFields DEF Separate
<1>3. ASSUME NEW m \in minors
      PROVE  \E k \in DOMAIN majors :
               /\ majors[k].base = m.block
               /\ m.at >= m.block + MAJOR
               /\ End(m) <= m.block + majors[k].size
  BY <1>2, HeapFields DEF Inside
<1>4. ASSUME NEW m \in minors, NEW n \in minors \ {m}
      PROVE  End(m) <= n.at \/ End(n) <= m.at
  BY <1>1, HeapFields DEF Separate, Beside
<1>5. ASSUME NEW m \in minors
      PROVE  /\ Pointer(m.at) - ALIGN_INFO >= m.at + MINOR
             /\ Pointer(m.at) + m.req <= End(m)
  <2>1. m.at \in Nat /\ m.req \in Nat /\ m.size \in Nat /\ End(m) = m.at + m.size + MINOR
    <3>1. m \in Heap.minors
      BY HeapFields
    <3>2. m.at \in Nat /\ m.req \in Nat /\ m.size \in Nat /\ End(m) = m.at + (m.size + MINOR)
      BY <1>1, <3>1, MinorFacts
    <3>. QED
      BY <3>2, Constants
  <2>2. /\ Pointer(m.at) \in Nat /\ m.at + MINOR + ALIGN_INFO <= Pointer(m.at)
        /\ Pointer(m.at) < m.at + MINOR + ALIGN_INFO + ALIGNMENT
    BY <2>1, PointerIsNat
  <2>3. m.req + ALIGNMENT + ALIGN_INFO <= m.size
    BY <1>2 DEF Roomy
  <2>. QED
    BY <2>1, <2>2, <2>3, Constants
<1>. QED
  BY <1>3, <1>4, <1>5 DEF MinorsApart

(* The invariant implies that the accounts are exact.                      *)
LEMMA UsageIsExact ==
  ASSUME IInv
  PROVE  UsageExact
<1>1. Typed(Heap) /\ Counted(Heap)
  BY DEF IInv, Sane
<1>2. minors \in SUBSET MinorBlocks /\ IsFiniteSet(minors)
  BY <1>1, TypedFields, HeapFields
<1>3. ASSUME NEW k \in DOMAIN majors
      PROVE  majors[k].usage =
               MAJOR + SumFunctionOnSet([m \in minors |-> Taken(m)],
                                        {m \in minors : m.block = majors[k].base})
  <2>. DEFINE S == {m \in minors : m.block = majors[k].base}
              f == [m \in minors |-> Taken(m)]
              g == [m \in S |-> Taken(m)]
  <2>1. S = Minors(Heap, majors[k])
    BY HeapFields DEF Minors
  <2>2. majors[k].usage = MAJOR + TakenBy(S)
    BY <1>1, <2>1, HeapFields DEF Counted
  <2>3. IsFiniteSet(S) /\ \A m \in S : f[m] = g[m]
    BY <1>2, FS_Subset
  <2>. HIDE DEF S, f, g
  <2>4. SumFunctionOnSet(f, S) = SumFunctionOnSet(g, S)
    BY <2>3, SumOfEqual
  <2>5. TakenBy(S) = SumFunctionOnSet(g, S)
    BY Zenon DEF TakenBy, g
  <2>6. majors[k].usage = MAJOR + SumFunctionOnSet(f, S)
    BY <2>2, <2>4, <2>5, Zenon
  <2>. QED
    BY <2>6 DEF S, f
<1>4. l_allocated = SumFunction([k \in DOMAIN majors |-> majors[k].size])
  <2>1. l_allocated = SizeOfAll(majors)
    BY <1>1, HeapFields DEF Counted
  <2>2. DOMAIN [k \in DOMAIN majors |-> majors[k].size] = DOMAIN majors
    OBVIOUS
  <2>. QED
    BY <2>1, <2>2, Zenon DEF SizeOfAll, SumFunction
<1>5. l_inuse = SumFunction([m \in minors |-> m.size])
  <2>1. l_inuse = SizeOf(minors)
    BY <1>1, HeapFields DEF Counted
  <2>2. DOMAIN [m \in minors |-> m.size] = minors
    OBVIOUS
  <2>. QED
    BY <2>1, <2>2, Zenon DEF SizeOf, SumFunction
<1>. QED
  BY <1>3, <1>4, <1>5 DEF UsageExact

(* The invariant implies that every major is in use.                       *)
LEMMA MajorsAreInUse ==
  ASSUME IInv
  PROVE  MajorsInUse
<1>1. Listed(Heap)
  BY DEF IInv, Sane
<1>2. /\ \A k, j \in DOMAIN majors : majors[k].base = majors[j].base => k = j
      /\ Bases = {m.block : m \in minors}
      /\ bestBet \in Bases \cup {NULL}
  BY <1>1, HeapFields DEF Listed
<1>3. \A k \in DOMAIN majors : Minors(Heap, majors[k]) # {}
  <2>. SUFFICES ASSUME NEW k \in DOMAIN majors
                PROVE  Minors(Heap, majors[k]) # {}
    OBVIOUS
  <2>1. majors[k].base \in Bases
    BY DEF Bases
  <2>2. PICK m \in minors : m.block = majors[k].base
    BY <1>2, <2>1
  <2>. QED
    BY <2>2, HeapFields DEF Minors
<1>4. {m.block : m \in minors} \subseteq Bases
  BY <1>2
<1>. QED
  BY <1>2, <1>3, <1>4, Zenon DEF MajorsInUse

(* A major that is passed over for want of free bytes has no gap: its      *)
(* minors and the gap do not overlap, so they are no more than it is.      *)
LEMMA NoGapWhereNoFit ==
  ASSUME NEW h, Sane(h), NEW k \in DOMAIN h.majors, NEW req \in Requests,
         ~ Fits(h, k, Need(req))
  PROVE  Gaps(h, h.majors[k], Need(req)) = {}
<1>1. Typed(h) /\ Listed(h) /\ Separate(h) /\ Counted(h)
  BY DEF Sane
<1>2. SUFFICES ASSUME NEW at \in Gaps(h, h.majors[k], Need(req))
               PROVE  FALSE
  OBVIOUS
<1>. DEFINE major == h.majors[k]
            base == major.base
            size == major.size
            new == Minor(base, at, req)
            S == Minors(h, major)
            T == S \cup {new}
            start == [m \in T |-> m.at]
            len == [m \in T |-> Taken(m)]
            lo == base + MAJOR
            hi == base + size
<1>3. ~ (size - major.usage >= Need(req))
  <2>1. Free(major) = size - major.usage
    BY <1>1, UsageBounded, FreeIs
  <2>. QED
    BY <1>2, <2>1, Zenon DEF Fits
<1>4. base \in Arenas /\ base \in Nat /\ size \in Nat /\ major.usage \in Int /\ MAJOR \in Nat
  BY <1>1, MajorFacts, Constants
<1>5. /\ at \in Nat /\ Unclaimed(h, new) /\ at >= base + MAJOR /\ at + Need(req) <= base + size
  BY <1>1, GapIsFree
<1>6. /\ new \in MinorBlocks /\ new.at = at
      /\ Taken(new) = Need(req) /\ Need(req) \in Nat \ {0} /\ End(new) = at + Need(req)
  BY <1>4, <1>5, MinorMade
<1>7. major.usage = MAJOR + TakenBy(S)
  BY <1>1 DEF Counted
<1>8. /\ S \in SUBSET MinorBlocks /\ IsFiniteSet(S) /\ S \subseteq h.minors
      /\ \A m \in S : m.at >= base + MAJOR /\ End(m) <= base + size
  BY MinorsWithin
<1>9. new \notin S
  BY <1>5, <1>8 DEF Unclaimed
<1>. HIDE DEF new, S, major, base, size
<1>10. IsFiniteSet(T) /\ lo \in Nat /\ hi \in Nat /\ lo <= hi
  <2>1. IsFiniteSet(T)
    BY <1>8, FS_AddElement
  <2>. QED
    BY <1>4, <1>5, <1>6, <2>1
<1>11. \A m \in T : /\ m.at \in Nat /\ Taken(m) \in Nat \ {0} /\ End(m) = m.at + Taken(m)
                    /\ m.at >= lo /\ End(m) <= hi
  <2>1. \A m \in T : m \in MinorBlocks
    BY <1>6, <1>8
  <2>2. new.at >= lo /\ End(new) <= hi
    BY <1>5, <1>6
  <2>. QED
    BY <1>8, <2>1, <2>2, MinorBlockFacts
<1>12. \A m \in T : \A n \in T \ {m} : End(m) <= n.at \/ End(n) <= m.at
  <2>1. \A m \in S : \A n \in S \ {m} : Beside(m, n)
    BY <1>1, <1>8 DEF Separate
  <2>2. \A m \in S : Beside(m, new) /\ Beside(new, m)
    BY <1>5, <1>8 DEF Unclaimed
  <2>. QED
    BY <2>1, <2>2 DEF Beside
<1>13. /\ \A m \in T : start[m] = m.at /\ len[m] = Taken(m)
  OBVIOUS
<1>. HIDE DEF T, start, len, lo, hi
<1>14. SumFunctionOnSet(len, T) <= hi - lo
  <2>1. \A m \in T : /\ start[m] \in Nat /\ len[m] \in Nat \ {0}
                     /\ lo <= start[m] /\ start[m] + len[m] <= hi
    BY <1>10, <1>11, <1>13
  <2>2. \A m \in T : \A n \in T \ {m} : start[m] + len[m] <= start[n] \/ start[n] + len[n] <= start[m]
    BY <1>11, <1>12, <1>13
  <2>. QED
    BY <1>10, <2>1, <2>2, SumOfApart
<1>15. TakenBy(T) = SumFunctionOnSet(len, T)
  BY Zenon DEF TakenBy, len
<1>16. TakenBy(S) \in Int /\ TakenBy(T) = Need(req) + TakenBy(S)
  BY <1>6, <1>8, <1>9, SumsWithMinor DEF T
<1>. QED
  BY <1>3, <1>4, <1>6, <1>7, <1>14, <1>15, <1>16 DEF lo, hi

(* A block that comes with a new major has no gap in any other.            *)
LEMMA NewMajorIsNeeded ==
  ASSUME IInv, NEW req \in Requests, NEW ns, NEW new, Adds(Heap, ns, req, new),
         NEW m \in ns \ minors, m.block \notin Bases
  PROVE  \A k \in DOMAIN majors : Gaps(Heap, majors[k], Taken(m)) = {}
<1>1. m = new /\ Taken(m) = Need(req) /\ \A k \in DOMAIN majors : ~ Fits(Heap, k, Need(req))
  BY HeapFields DEF Adds
<1>2. Sane(Heap)
  BY DEF IInv
<1>. QED
  BY <1>1, <1>2, HeapFields, NoGapWhereNoFit

(* So does every block that a step adds in a new major.                    *)
LEMMA MajorOnlyIfNeeded ==
  ASSUME IInv, [Next]_vars, NEW m \in minors' \ minors, m.block \notin Bases
  PROVE  \A k \in DOMAIN majors : Gaps(Heap, majors[k], Taken(m)) = {}
<1>1. CASE \E req \in Requests, base \in liballoc_alloc : \E again \in liballoc_alloc_again(base) :
             liballoc_malloc(req, base, again)
  <2>1. PICK req \in Requests, base \in liballoc_alloc : \E again \in liballoc_alloc_again(base) :
               liballoc_malloc(req, base, again)
    BY <1>1
  <2>2. PICK new : Adds(Heap, minors', req, new)
    BY <2>1, MallocStep
  <2>. QED
    BY <2>2, NewMajorIsNeeded
<1>2. CASE \E minor \in minors : liballoc_free(minor)
  BY <1>2, FreeStep
<1>3. CASE \E minor \in minors, size \in Requests : liballoc_realloc_free(minor, size)
  BY <1>3, FreeStep DEF liballoc_realloc_free
<1>4. CASE \E minor \in minors, size \in Requests : liballoc_realloc_in_place(minor, size)
  <2>1. PICK minor \in minors, size \in Requests : liballoc_realloc_in_place(minor, size)
    BY <1>4
  <2>2. m = [minor EXCEPT !.req = size]
    BY <2>1 DEF liballoc_realloc_in_place
  <2>3. minor \in MinorBlocks /\ {n.block : n \in minors} = Bases
    BY HeapFields, TypedFields DEF IInv, Sane, Listed
  <2>4. m.block = minor.block
    BY <2>2, <2>3 DEF MinorBlocks
  <2>. QED
    BY <2>3, <2>4
<1>5. CASE \E minor \in minors, size \in Requests, base \in liballoc_alloc :
             \E again \in liballoc_alloc_again(base) :
               liballoc_realloc_move(minor, size, base, again)
  <2>1. PICK minor \in minors, size \in Requests, base \in liballoc_alloc :
          \E again \in liballoc_alloc_again(base) :
            liballoc_realloc_move(minor, size, base, again)
    BY <1>5
  <2>2. PICK new, ns : Adds(Heap, ns, size, new) /\ minors' = ns \ {minor}
    BY <2>1, MoveStep
  <2>3. m \in ns \ minors
    BY <2>2
  <2>. QED
    BY <2>2, <2>3, NewMajorIsNeeded
<1>6. CASE Trampled \/ UNCHANGED vars
  BY <1>6 DEF Trampled, vars
<1>. QED
  BY <1>1, <1>2, <1>3, <1>4, <1>5, <1>6 DEF Next

(* Blocks do not overlap each other or the headers, and stay in their      *)
(* major.                                                                  *)
THEOREM MinorsStayApart ==
  ASSUME Small
  PROVE  Spec => []MinorsApart
<1>1. IInv => MinorsApart
  BY MinorsAreApart
<1>. QED
  BY <1>1, StaysSane, PTL

(* The bytes written down for a major and for the heap are those that are  *)
(* taken, after any calls.                                                 *)
THEOREM UsageStaysExact ==
  ASSUME Small
  PROVE  Spec => []UsageExact
<1>1. IInv => UsageExact
  BY UsageIsExact
<1>. QED
  BY <1>1, StaysSane, PTL

(* An empty major has gone back, and the best bet is in the list.          *)
THEOREM MajorsStayInUse ==
  ASSUME Small
  PROVE  Spec => []MajorsInUse
<1>1. IInv => MajorsInUse
  BY MajorsAreInUse
<1>. QED
  BY <1>1, StaysSane, PTL

(* malloc takes memory from the system only when the request has no gap in *)
(* any major, although it looks only at those with enough free bytes.      *)
THEOREM MajorsAreNeeded ==
  ASSUME Small
  PROVE  Spec => NoNeedlessMajor
<1>1. IInv /\ [Next]_vars =>
        [\A m \in minors' \ minors :
           m.block \notin Bases =>
             \A k \in DOMAIN majors : Gaps(Heap, majors[k], Taken(m)) = {}]_vars
  BY MajorOnlyIfNeeded
<1>. QED
  BY <1>1, StaysSane, PTL DEF Spec, NoNeedlessMajor

(* No size is cut short on the way: no major is too small for its block,   *)
(* and none is of UINT bytes.                                              *)
THEOREM NothingOutgrown ==
  ASSUME Small
  PROVE  Spec => [](outgrown = {})
<1>1. IInv => outgrown = {}
  BY HeapFields DEF IInv, Sane, Typed, Heaps
<1>. QED
  BY <1>1, StaysSane, PTL

-----------------------------------------------------------------------------
(* The blocks that Blocks knows are the minors, seen from the caller.      *)
Block(m) == [p |-> Pointer(m.at), size |-> m.req]

BlocksOf(ns) == {Block(m) : m \in ns}

(* The actions of Blocks, in terms of the minors.                          *)
LEMMA BlocksAreLive ==
  /\ \A block : HeapBlocks!Fresh(block) <=>
       /\ block.p # 0
       /\ block.p % ALIGNMENT = 0
       /\ \A other \in BlocksOf(minors) : HeapBlocks!Apart(block, other)
  /\ HeapBlocks!Give <=>
       \E block \in BlocksOf(minors') \ BlocksOf(minors) :
         BlocksOf(minors') = BlocksOf(minors) \cup {block} /\ HeapBlocks!Fresh(block)
  /\ HeapBlocks!Take <=>
       \E block \in BlocksOf(minors) : BlocksOf(minors') = BlocksOf(minors) \ {block}
  /\ HeapBlocks!Cut <=>
       \E block \in BlocksOf(minors), smaller \in BlocksOf(minors') :
         /\ smaller.p = block.p /\ smaller.size < block.size
         /\ BlocksOf(minors') = (BlocksOf(minors) \ {block}) \cup {smaller}
  /\ HeapBlocks!Move <=>
       \E block \in BlocksOf(minors), bigger \in BlocksOf(minors') \ BlocksOf(minors) :
         /\ bigger.size > block.size
         /\ HeapBlocks!Fresh(bigger)
         /\ BlocksOf(minors') = (BlocksOf(minors) \ {block}) \cup {bigger}
<1>1. BlocksOf(minors) = {[p |-> Pointer(m.at), size |-> m.req] : m \in minors}
  BY DEF BlocksOf, Block
<1>2. BlocksOf(minors') = {[p |-> Pointer(m.at), size |-> m.req] : m \in minors'}
  BY DEF BlocksOf, Block
<1>. HIDE DEF BlocksOf
<1>3. \A block : HeapBlocks!Fresh(block) <=>
        /\ block.p # 0
        /\ block.p % ALIGNMENT = 0
        /\ \A other \in BlocksOf(minors) : HeapBlocks!Apart(block, other)
  BY <1>1, Zenon DEF HeapBlocks!Fresh
<1>. QED
  BY <1>1, <1>2, <1>3, Zenon DEF HeapBlocks!Give, HeapBlocks!Take, HeapBlocks!Cut, HeapBlocks!Move

(* Minors beside each other are blocks apart.                              *)
LEMMA BlocksApart ==
  ASSUME NEW m \in MinorBlocks, NEW n \in MinorBlocks, Roomy(m), Roomy(n), Beside(m, n)
  PROVE  /\ Block(m).p # Block(n).p
         /\ HeapBlocks!Apart(Block(m), Block(n))
<1>. DEFINE a == Block(m)
            b == Block(n)
<1>1. /\ a.p = Pointer(m.at) /\ a.size = m.req /\ b.p = Pointer(n.at) /\ b.size = n.req
  BY DEF Block
<1>2. \A x \in {m, n} :
        /\ Pointer(x.at) \in Nat /\ x.req \in Nat /\ End(x) \in Nat /\ x.at \in Nat
        /\ x.at < Pointer(x.at) /\ Pointer(x.at) + x.req < End(x)
  <2>. TAKE x \in {m, n}
  <2>1. x \in MinorBlocks /\ Roomy(x)
    OBVIOUS
  <2>2. x.at \in Nat /\ x.size \in Nat /\ x.req \in Nat /\ End(x) = x.at + (x.size + MINOR)
    <3>1. x.req \in Nat
      BY <2>1, Constants DEF MinorBlocks
    <3>. QED
      BY <2>1, <3>1, MinorBlockFacts
  <2>3. x.req + ALIGNMENT + ALIGN_INFO <= x.size
    BY <2>1 DEF Roomy
  <2>4. /\ Pointer(x.at) \in Nat /\ x.at + MINOR + ALIGN_INFO <= Pointer(x.at)
        /\ Pointer(x.at) < x.at + MINOR + ALIGN_INFO + ALIGNMENT
    BY <2>2, PointerIsNat
  <2>. QED
    BY <2>2, <2>3, <2>4, Constants
<1>. HIDE DEF a, b
<1>3. End(m) <= n.at \/ End(n) <= m.at
  BY DEF Beside
<1>4. a.p # b.p /\ (a.p + a.size <= b.p \/ b.p + b.size <= a.p)
  BY <1>1, <1>2, <1>3
<1>. QED
  BY <1>4, Zenon DEF HeapBlocks!Apart, a, b

(* What the invariant says of the minors.                                  *)
LEMMA MinorsOfHeap ==
  ASSUME IInv
  PROVE  /\ \A m \in minors : m \in MinorBlocks /\ Roomy(m)
         /\ \A m \in minors, n \in minors : m # n => Beside(m, n) /\ Block(m) # Block(n)
<1>1. \A m \in minors : m \in MinorBlocks /\ Roomy(m)
  BY HeapFields, TypedFields DEF IInv, Sane, Separate
<1>2. \A m \in minors, n \in minors : m # n => Beside(m, n)
  BY HeapFields DEF IInv, Sane, Separate
<1>. QED
  BY <1>1, <1>2, BlocksApart, Zenon

(* One minor less is one block less.                                       *)
LEMMA BlockWithdrawn ==
  ASSUME IInv, NEW minor \in minors
  PROVE  BlocksOf(minors \ {minor}) = BlocksOf(minors) \ {Block(minor)}
<1>1. \A m \in minors : m # minor => Block(m) # Block(minor)
  BY MinorsOfHeap
<1>. QED
  BY <1>1 DEF BlocksOf

(* One minor more is one block more, with bytes of its own.                *)
LEMMA BlockFresh ==
  ASSUME IInv, NEW req \in Requests, NEW ns, NEW new, Adds(Heap, ns, req, new)
  PROVE  /\ HeapBlocks!Fresh(Block(new)) /\ Block(new) \notin BlocksOf(minors)
         /\ Block(new).size = req
         /\ BlocksOf(ns) = BlocksOf(minors) \cup {Block(new)}
<1>1. /\ new \in MinorBlocks /\ Roomy(new) /\ new.req = req
      /\ new.block >= 1 /\ new.at >= new.block
      /\ \A n \in minors : Beside(new, n)
      /\ ns = minors \cup {new}
  BY HeapFields DEF Adds, Unclaimed
<1>2. \A n \in minors : Block(new).p # Block(n).p /\ HeapBlocks!Apart(Block(new), Block(n))
  BY <1>1, MinorsOfHeap, BlocksApart, Zenon
<1>3. Block(new).p = Pointer(new.at) /\ Block(new).size = req
  BY <1>1 DEF Block
<1>4. Pointer(new.at) # 0 /\ Pointer(new.at) % ALIGNMENT = 0
  <2>1. new.at \in Nat /\ new.block \in Nat
    BY <1>1, Constants DEF MinorBlocks
  <2>2. Pointer(new.at) \in Nat /\ Pointer(new.at) % ALIGNMENT = 0
        /\ new.at + MINOR + ALIGN_INFO <= Pointer(new.at)
    BY <2>1, PointerIsNat
  <2>. QED
    BY <1>1, <2>1, <2>2, Constants
<1>5. \A other \in BlocksOf(minors) : HeapBlocks!Apart(Block(new), other) /\ Block(new) # other
  BY <1>2, Zenon DEF BlocksOf
<1>6. BlocksOf(ns) = BlocksOf(minors) \cup {Block(new)}
  BY <1>1 DEF BlocksOf
<1>7. HeapBlocks!Fresh(Block(new))
  BY <1>3, <1>4, <1>5, BlocksAreLive, Zenon
<1>. QED
  BY <1>3, <1>5, <1>6, <1>7, Zenon

(* A minor freed is Blocks' Take.                                          *)
LEMMA FreeTakes ==
  ASSUME IInv, NEW minor \in minors, minors' = minors \ {minor}
  PROVE  HeapBlocks!Take
<1>1. Block(minor) \in BlocksOf(minors)
  BY DEF BlocksOf
<1>2. BlocksOf(minors') = BlocksOf(minors) \ {Block(minor)}
  BY BlockWithdrawn, Zenon
<1>. QED
  BY <1>1, <1>2, BlocksAreLive, Zenon

(* A minor added is Blocks' Give.                                          *)
LEMMA AddsGives ==
  ASSUME IInv, NEW req \in Requests, NEW new, Adds(Heap, minors', req, new)
  PROVE  HeapBlocks!Give
<1>1. /\ HeapBlocks!Fresh(Block(new)) /\ Block(new) \notin BlocksOf(minors)
      /\ BlocksOf(minors') = BlocksOf(minors) \cup {Block(new)}
  BY BlockFresh, Zenon
<1>2. Block(new) \in BlocksOf(minors') \ BlocksOf(minors)
  BY <1>1
<1>. QED
  BY <1>1, <1>2, BlocksAreLive, Zenon

(* A realloc in place is Blocks' Cut or a stutter.                         *)
LEMMA CutCuts ==
  ASSUME IInv, NEW minor \in minors, NEW size \in Requests, liballoc_realloc_in_place(minor, size)
  PROVE  minors' = minors \/ HeapBlocks!Cut
<1>. DEFINE less == [minor EXCEPT !.req = size]
<1>1. minor.req >= size /\ minors' = (minors \ {minor}) \cup {less}
  BY DEF liballoc_realloc_in_place
<1>2. minor \in MinorBlocks
  BY MinorsOfHeap
<1>3. /\ less.at = minor.at /\ less.req = size /\ minor.req \in Nat /\ size \in Nat
      /\ (minor.req = size => less = minor)
  BY <1>2, Constants DEF MinorBlocks
<1>. HIDE DEF less
<1>4. CASE minor.req = size
  BY <1>1, <1>3, <1>4
<1>5. CASE minor.req > size
  <2>1. Block(less).p = Block(minor).p /\ Block(less).size < Block(minor).size
    BY <1>3, <1>5 DEF Block
  <2>2. BlocksOf(minors') = (BlocksOf(minors) \ {Block(minor)}) \cup {Block(less)}
    <3>1. BlocksOf(minors') = BlocksOf(minors \ {minor}) \cup {Block(less)}
      BY <1>1 DEF BlocksOf
    <3>. QED
      BY <3>1, BlockWithdrawn, Zenon
  <2>3. Block(minor) \in BlocksOf(minors) /\ Block(less) \in BlocksOf(minors')
    BY <1>1 DEF BlocksOf
  <2>. QED
    BY <2>1, <2>2, <2>3, BlocksAreLive, Zenon
<1>. QED
  BY <1>1, <1>3, <1>4, <1>5

(* A realloc that moves is Blocks' Move, or Take when it cannot grow.      *)
LEMMA MoveMoves ==
  ASSUME IInv, NEW minor \in minors, NEW size \in Requests, NEW base \in liballoc_alloc,
         NEW again \in liballoc_alloc_again(base), liballoc_realloc_move(minor, size, base, again)
  PROVE  HeapBlocks!Take \/ HeapBlocks!Move
<1>1. \/ minors' = minors \ {minor}
      \/ \E new, ns : Adds(Heap, ns, size, new) /\ minors' = ns \ {minor}
  BY MoveStep
<1>2. CASE minors' = minors \ {minor}
  BY <1>2, FreeTakes
<1>3. CASE \E new, ns : Adds(Heap, ns, size, new) /\ minors' = ns \ {minor}
  <2>1. PICK new, ns : Adds(Heap, ns, size, new) /\ minors' = ns \ {minor}
    BY <1>3
  <2>2. /\ HeapBlocks!Fresh(Block(new)) /\ Block(new) \notin BlocksOf(minors)
        /\ Block(new).size = size
    BY <2>1, BlockFresh, Zenon
  <2>3. minors' = (minors \ {minor}) \cup {new}
    BY <2>1, HeapFields DEF Adds, Unclaimed
  <2>4. BlocksOf(minors') = (BlocksOf(minors) \ {Block(minor)}) \cup {Block(new)}
    <3>1. BlocksOf(minors') = BlocksOf(minors \ {minor}) \cup {Block(new)}
      BY <2>3 DEF BlocksOf
    <3>. QED
      BY <3>1, BlockWithdrawn, Zenon
  <2>5. Block(minor) \in BlocksOf(minors) /\ Block(new) \in BlocksOf(minors') \ BlocksOf(minors)
    <3>1. Block(minor) \in BlocksOf(minors)
      BY DEF BlocksOf
    <3>. QED
      BY <2>2, <2>4, <3>1
  <2>6. Block(new).size > Block(minor).size
    <3>1. size > minor.req
      BY DEF liballoc_realloc_move
    <3>2. Block(minor).size = minor.req
      BY DEF Block
    <3>. QED
      BY <2>2, <3>1, <3>2
  <2>. QED
    BY <2>2, <2>4, <2>5, <2>6, BlocksAreLive, Zenon
<1>. QED
  BY <1>1, <1>2, <1>3

(* Every call is a step of Blocks or a stutter.                            *)
LEMMA StepRefines ==
  ASSUME IInv, [Next]_vars
  PROVE  HeapBlocks!Next \/ minors' = minors
<1>1. ASSUME NEW req \in Requests, NEW base \in liballoc_alloc,
             NEW again \in liballoc_alloc_again(base), liballoc_malloc(req, base, again)
      PROVE  minors' = minors \/ HeapBlocks!Give
  BY <1>1, MallocStep, AddsGives
<1>2. ASSUME NEW minor \in minors, liballoc_free(minor)
      PROVE  HeapBlocks!Take
  BY <1>2, FreeStep, FreeTakes
<1>3. ASSUME NEW minor \in minors, NEW size \in Requests, liballoc_realloc_free(minor, size)
      PROVE  HeapBlocks!Take
  BY <1>3, FreeStep, FreeTakes DEF liballoc_realloc_free
<1>4. ASSUME NEW minor \in minors, NEW size \in Requests, liballoc_realloc_in_place(minor, size)
      PROVE  minors' = minors \/ HeapBlocks!Cut
  BY <1>4, CutCuts
<1>5. ASSUME NEW minor \in minors, NEW size \in Requests, NEW base \in liballoc_alloc,
             NEW again \in liballoc_alloc_again(base),
             liballoc_realloc_move(minor, size, base, again)
      PROVE  HeapBlocks!Take \/ HeapBlocks!Move
  BY <1>5, MoveMoves
<1>6. CASE Trampled \/ UNCHANGED vars
  BY <1>6 DEF Trampled, vars
<1>. QED
  BY <1>1, <1>2, <1>3, <1>4, <1>5, <1>6 DEF Next, HeapBlocks!Next

(* The heap implements Blocks: each block is aligned, has bytes of its own *)
(* as long as it is live, and is moved before it is given up.              *)
THEOREM HeapImplementsBlocks ==
  ASSUME Small
  PROVE  Spec => ImplementsBlocks
<1>. DEFINE live == {[p |-> Pointer(m.at), size |-> m.req] : m \in minors}
<1>1. Init => HeapBlocks!Init
  BY DEF Init, HeapBlocks!Init
<1>2. IInv /\ [Next]_vars => [HeapBlocks!Next]_live
  BY StepRefines
<1>. QED
  BY <1>1, <1>2, StaysSane, PTL DEF Spec, ImplementsBlocks, HeapBlocks!Spec

=============================================================================
