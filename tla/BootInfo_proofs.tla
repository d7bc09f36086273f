-------------------------- MODULE BootInfo_proofs --------------------------
(***************************************************************************)
(* Proofs about page ranges and the walk along the bootloader's tags, for  *)
(* every list of tags, every map and every page size.  At each tag the map *)
(* is the one that the entries given so far are parsed to (Parsed), and    *)
(* each field is the latest tag's.                                         *)
(***************************************************************************)
EXTENDS BootInfo, FiniteLemmas

-----------------------------------------------------------------------------
(* align_range (libk/range.c) always returns whole pages that cover the    *)
(* range it was given; they end after the range does, by one page at most. *)
(* So alloc_vmm's assert(is_page_aligned(range)) never fails.              *)
THEOREM AlignRangeCovers ==
  ASSUME NEW range \in AddrRanges
  PROVE  LET aligned == align_range(range) IN
         /\ aligned \in AddrRanges
         /\ is_page_aligned(aligned)
         /\ aligned.base <= range.base
         /\ range.base + range.length < aligned.base + aligned.length
         /\ aligned.base + aligned.length <= range.base + range.length + PAGE_SIZE
<1>. DEFINE align == range.base % PAGE_SIZE
            grown == range.length + align
            aligned == align_range(range)
<1>1. range.base \in Nat /\ range.length \in Nat /\ PAGE_SIZE \in Nat \ {0}
  BY PageSizeAssumption DEF AddrRanges
<1>2. align \in Nat /\ grown \in Nat
  BY <1>1, DivMod
<1>3. aligned = [base   |-> range.base - align,
                 length |-> grown + (PAGE_SIZE - (grown % PAGE_SIZE))]
  BY DEF align_range
<1>4. /\ aligned.base \in Nat
      /\ aligned.base <= range.base
      /\ aligned.base % PAGE_SIZE = 0
  BY <1>1, <1>3, RoundDown
<1>5. /\ aligned.length \in Nat
      /\ grown < aligned.length
      /\ aligned.length <= grown + PAGE_SIZE
      /\ aligned.length % PAGE_SIZE = 0
  <2>1. aligned.length = grown + (PAGE_SIZE - (grown % PAGE_SIZE))
    BY <1>3
  <2>. HIDE DEF grown, aligned
  <2>. QED
    BY <1>1, <1>2, <2>1, RoundUp
<1>6. aligned.base + grown = range.base + range.length
  BY <1>1, <1>2, <1>3
<1>7. aligned \in AddrRanges
  BY <1>3, <1>4, <1>5 DEF AddrRanges
<1>. HIDE DEF aligned, grown, align
<1>8. /\ range.base + range.length < aligned.base + aligned.length
      /\ aligned.base + aligned.length <= range.base + range.length + PAGE_SIZE
  BY <1>1, <1>2, <1>4, <1>5, <1>6
<1>. QED
  BY <1>4, <1>5, <1>7, <1>8 DEF is_page_aligned, aligned

(* A range of whole pages is not left alone: it gets one page more, which  *)
(* is the page after it.                                                   *)
THEOREM AlignRangePadsAligned ==
  ASSUME NEW range \in AddrRanges, is_page_aligned(range)
  PROVE  align_range(range) = [range EXCEPT !.length = @ + PAGE_SIZE]
<1>1. /\ range.base \in Nat /\ range.length \in Nat /\ PAGE_SIZE \in Nat \ {0}
      /\ range.base % PAGE_SIZE = 0 /\ range.length % PAGE_SIZE = 0
      /\ range = [base |-> range.base, length |-> range.length]
  BY PageSizeAssumption DEF AddrRanges, is_page_aligned
<1>2. range.length + 0 = range.length /\ range.base - 0 = range.base
  BY <1>1
<1>3. align_range(range) = [base |-> range.base, length |-> range.length + PAGE_SIZE]
  BY <1>1, <1>2 DEF align_range
<1>. QED
  BY <1>1, <1>3 DEF AddrRanges

-----------------------------------------------------------------------------
(* What stivale2_parse_mmap makes of the entries it is given.              *)
UsableOf(given) == {k \in DOMAIN given : given[k].type = USABLE}

LengthsOf(given) == [k \in DOMAIN given |-> given[k].range.length]

BytesOf(given) == SumFunctionOnSet(LengthsOf(given), UsableOf(given))

Rounded(e) == [e EXCEPT !.range = align_range(@)]

RoundedAll(given) == [k \in DOMAIN given |-> Rounded(given[k])]

Parsed(given) ==
  [memory_usable |-> BytesOf(given),
   usable_pages  |-> BytesOf(given) \div PAGE_SIZE,
   mmap          |-> RoundedAll(given)]

(* An entry that is rounded to pages is an entry.                          *)
LEMMA RoundedIsEntry ==
  ASSUME NEW e \in MmapEntries
  PROVE  /\ Rounded(e) \in MmapEntries
         /\ Rounded(e).type = e.type /\ Rounded(e).range = align_range(e.range)
         /\ e.range \in AddrRanges /\ e.range.length \in Nat
<1>1. e.range \in AddrRanges /\ e.type \in MmapTypes /\ e = [range |-> e.range, type |-> e.type]
  BY DEF MmapEntries
<1>2. align_range(e.range) \in AddrRanges
  BY <1>1, AlignRangeCovers
<1>3. Rounded(e) = [range |-> align_range(e.range), type |-> e.type]
  BY <1>1 DEF Rounded
<1>. QED
  BY <1>1, <1>2, <1>3 DEF MmapEntries, AddrRanges

(* The usable bytes are counted, and are none before the first entry.      *)
LEMMA BytesAreCounted ==
  /\ BytesOf(<<>>) = 0
  /\ \A given \in Seq(MmapEntries) : BytesOf(given) \in Nat
<1>1. BytesOf(<<>>) = 0
  <2>1. UsableOf(<<>>) = {}
    BY DEF UsableOf
  <2>. QED
    BY <2>1, SumOfNone DEF BytesOf
<1>2. ASSUME NEW given \in Seq(MmapEntries)
      PROVE  BytesOf(given) \in Nat
  <2>1. IsFiniteSet(UsableOf(given))
    <3>1. UsableOf(given) \subseteq 1 .. Len(given) /\ Len(given) \in Int
      BY DEF UsableOf
    <3>2. IsFiniteSet(1 .. Len(given))
      BY <3>1, FS_Interval
    <3>. QED
      BY <3>1, <3>2, FS_Subset
  <2>2. \A k \in UsableOf(given) : LengthsOf(given)[k] \in Nat
    <3>1. \A k \in DOMAIN given : given[k] \in MmapEntries
      OBVIOUS
    <3>. QED
      BY <3>1, RoundedIsEntry DEF UsableOf, LengthsOf
  <2>. QED
    BY <2>1, <2>2, SumIsNatural DEF BytesOf
<1>. QED
  BY <1>1, <1>2

(* One entry more counts its bytes when it is usable.                      *)
LEMMA BytesWithEntry ==
  ASSUME NEW given \in Seq(MmapEntries), NEW e \in MmapEntries
  PROVE  BytesOf(Append(given, e)) =
           IF e.type = USABLE THEN BytesOf(given) + e.range.length ELSE BytesOf(given)
<1>. DEFINE more == Append(given, e)
            n == Len(given)
            S == UsableOf(given)
            f == LengthsOf(more)
<1>1. n \in Nat /\ DOMAIN given = 1 .. n /\ DOMAIN more = 1 .. (n + 1)
  OBVIOUS
<1>2. more[n+1] = e /\ \A k \in 1 .. n : more[k] = given[k] /\ given[k] \in MmapEntries
  OBVIOUS
<1>3. UsableOf(more) = IF e.type = USABLE THEN S \cup {n+1} ELSE S
  <2>. HIDE DEF more
  <2>. QED
    BY <1>1, <1>2 DEF UsableOf
<1>4. IsFiniteSet(S) /\ n + 1 \notin S /\ S \subseteq 1 .. n
  <2>1. S \subseteq 1 .. n /\ n \in Int
    BY <1>1 DEF UsableOf
  <2>2. IsFiniteSet(1 .. n)
    BY <2>1, FS_Interval
  <2>. QED
    BY <2>1, <2>2, FS_Subset
<1>5. f[n+1] = e.range.length /\ \A k \in S : f[k] = LengthsOf(given)[k] /\ f[k] \in Int
  <2>. HIDE DEF more
  <2>1. \A k \in 1 .. (n+1) : f[k] = more[k].range.length
    BY <1>1 DEF LengthsOf
  <2>2. \A k \in 1 .. n : LengthsOf(given)[k] = given[k].range.length
    BY <1>1 DEF LengthsOf
  <2>3. \A k \in 1 .. n : f[k] = LengthsOf(given)[k]
    BY <1>1, <1>2, <2>1, <2>2
  <2>4. \A k \in 1 .. n : given[k].range.length \in Nat
    BY <1>2, RoundedIsEntry
  <2>. HIDE DEF f
  <2>5. f[n+1] = e.range.length
    BY <1>1, <1>2, <2>1
  <2>. QED
    BY <1>4, <2>2, <2>3, <2>4, <2>5
<1>6. e.range.length \in Nat
  BY RoundedIsEntry
<1>. HIDE DEF f, S, more, n
<1>7. SumFunctionOnSet(f, S) = BytesOf(given)
  BY <1>4, <1>5, SumOfEqual DEF BytesOf, S
<1>8. SumFunctionOnSet(f, S \cup {n+1}) = f[n+1] + SumFunctionOnSet(f, S)
  <2>. DEFINE m == n + 1
  <2>1. IsFiniteSet(S) /\ m \notin S /\ (\A k \in S : f[k] \in Int) /\ f[m] \in Int
    BY <1>4, <1>5, <1>6
  <2>. HIDE DEF m
  <2>2. SumFunctionOnSet(f, S \cup {m}) = f[m] + SumFunctionOnSet(f, S)
    BY <2>1, SumWithAnother
  <2>. QED
    BY <2>2 DEF m
<1>9. BytesOf(more) = SumFunctionOnSet(f, UsableOf(more))
  BY DEF BytesOf, f
<1>10. BytesOf(given) \in Nat
  BY BytesAreCounted
<1>. QED
  BY <1>3, <1>5, <1>6, <1>7, <1>8, <1>9, <1>10 DEF more

(* A sequence with one element more, as a function.                        *)
LEMMA AppendIs ==
  ASSUME NEW S, NEW s \in Seq(S), NEW a \in S
  PROVE  Append(s, a) = [k \in 1 .. (Len(s) + 1) |-> IF k = Len(s) + 1 THEN a ELSE s[k]]
<1>. DEFINE r == Append(s, a)
            n == Len(s) + 1
<1>1. r \in Seq(S) /\ Len(r) = n /\ r[n] = a /\ \A k \in 1 .. Len(s) : r[k] = s[k]
  OBVIOUS
<1>2. n \in Nat /\ \A k \in 1 .. n : k = n \/ k \in 1 .. Len(s)
  OBVIOUS
<1>. HIDE DEF r, n
<1>3. r = [k \in 1 .. n |-> r[k]]
  BY <1>1
<1>4. \A k \in 1 .. n : r[k] = IF k = n THEN a ELSE s[k]
  BY <1>1, <1>2
<1>. QED
  BY <1>3, <1>4 DEF r, n

(* One turn of stivale2_parse_mmap's loop.                                 *)
LEMMA EntryParsed ==
  ASSUME NEW given \in Seq(MmapEntries), NEW e \in MmapEntries
  PROVE  parse_entry(Parsed(given), e) = Parsed(Append(given, e))
<1>1. Append(RoundedAll(given), Rounded(e)) = RoundedAll(Append(given, e))
  <2>. DEFINE more == Append(given, e)
              n == Len(given)
              r == RoundedAll(given)
  <2>1. n \in Nat /\ DOMAIN given = 1 .. n /\ DOMAIN more = 1 .. (n + 1)
    OBVIOUS
  <2>2. more[n+1] = e /\ \A k \in 1 .. n : more[k] = given[k] /\ given[k] \in MmapEntries
    OBVIOUS
  <2>3. r \in Seq(MmapEntries) /\ Len(r) = n /\ \A k \in 1 .. n : r[k] = Rounded(given[k])
    <3>1. r = [k \in 1 .. n |-> Rounded(given[k])]
      BY <2>1 DEF RoundedAll
    <3>2. \A k \in 1 .. n : Rounded(given[k]) \in MmapEntries
      BY <2>2, RoundedIsEntry
    <3>. HIDE DEF r
    <3>. QED
      BY <2>1, <3>1, <3>2
  <2>4. RoundedAll(more) = [k \in 1 .. (n+1) |-> Rounded(more[k])]
    BY <2>1 DEF RoundedAll
  <2>5. Rounded(e) \in MmapEntries
    BY RoundedIsEntry
  <2>. HIDE DEF r, more, n
  <2>6. Append(r, Rounded(e)) = [k \in 1 .. (n+1) |-> IF k = n + 1 THEN Rounded(e) ELSE r[k]]
    <3>. DEFINE a == Rounded(e)
    <3>1. a \in MmapEntries
      BY <2>5
    <3>. HIDE DEF a
    <3>2. Append(r, a) = [k \in 1 .. (Len(r)+1) |-> IF k = Len(r) + 1 THEN a ELSE r[k]]
      <4>1. r \in Seq(MmapEntries)
        BY <2>3
      <4>. QED
        BY <3>1, <4>1, AppendIs
    <3>. QED
      BY <2>3, <3>2 DEF a
  <2>7. \A k \in 1 .. (n+1) : Rounded(more[k]) = IF k = n + 1 THEN Rounded(e) ELSE r[k]
    BY <2>1, <2>2, <2>3
  <2>. QED
    BY <2>4, <2>6, <2>7 DEF r, more
<1>. QED
  BY <1>1, BytesWithEntry DEF parse_entry, Parsed, Rounded

-----------------------------------------------------------------------------
(* A function on 0 .. n that is defined by recursion and has the values    *)
(* that p has wherever the recursion leads from one to the next.           *)
LEMMA SameValues ==
  ASSUME NEW n \in Nat, NEW f, NEW p, f[0] = p[0],
         \A k \in 1 .. n : f[k-1] = p[k-1] => f[k] = p[k]
  PROVE  f[n] = p[n]
<1>. DEFINE good == [k \in 0 .. n |-> {p[k]}]
<1>1. \A k \in 0 .. n : good[k] = {p[k]}
  OBVIOUS
<1>. HIDE DEF good
<1>2. f[0] \in good[0]
  BY <1>1
<1>3. \A k \in 1 .. n : f[k-1] \in good[k-1] => f[k] \in good[k]
  BY <1>1
<1>4. f[n] \in good[n]
  BY <1>2, <1>3, LoopKeeps
<1>. QED
  BY <1>1, <1>4

(* stivale2_parse_mmap adds the entries of a tag to those parsed before.   *)
LEMMA MapParsed ==
  ASSUME NEW given \in Seq(MmapEntries), NEW memmap \in Seq(MmapEntries)
  PROVE  stivale2_parse_mmap(Parsed(given), memmap) = Parsed(given \o memmap)
<1>. DEFINE n == Len(memmap)
            part(k) == given \o SubSeq(memmap, 1, k)
            p == [k \in 0 .. n |-> Parsed(part(k))]
            Turn(g) == [i \in 0 .. n |-> IF i = 0 THEN Parsed(given)
                                                  ELSE parse_entry(g[i-1], memmap[i])]
            f == CHOOSE g : g = Turn(g)
<1>1. n \in Nat /\ part(0) = given /\ part(n) = given \o memmap
  OBVIOUS
<1>2. ASSUME NEW k \in 1 .. n
      PROVE  part(k-1) \in Seq(MmapEntries) /\ memmap[k] \in MmapEntries
             /\ part(k) = Append(part(k-1), memmap[k])
  <2>1. k - 1 \in 0 .. n
    BY <1>1
  <2>2. SubSeq(memmap, 1, k-1) \in Seq(MmapEntries) /\ memmap[k] \in MmapEntries
    BY <1>1, <2>1
  <2>3. SubSeq(memmap, 1, k) = Append(SubSeq(memmap, 1, k-1), memmap[k])
    BY <1>1, <2>1
  <2>. QED
    BY <2>2, <2>3
<1>. HIDE DEF part
<1>3. \A k \in 0 .. n : p[k] = Parsed(part(k))
  OBVIOUS
<1>4. ASSUME NEW k \in 1 .. n
      PROVE  p[k] = parse_entry(p[k-1], memmap[k])
  <2>1. parse_entry(Parsed(part(k-1)), memmap[k]) = Parsed(Append(part(k-1), memmap[k]))
    BY <1>2, EntryParsed
  <2>2. k \in 0 .. n /\ k - 1 \in 0 .. n
    BY <1>1
  <2>3. p[k] = Parsed(part(k)) /\ p[k-1] = Parsed(part(k-1))
    BY <1>3, <2>2
  <2>. HIDE DEF p
  <2>. QED
    BY <1>2, <2>1, <2>3
<1>5. p = Turn(p)
  <2>1. ASSUME NEW k \in 0 .. n
        PROVE  Parsed(part(k)) = IF k = 0 THEN Parsed(given)
                                 ELSE parse_entry(p[k-1], memmap[k])
    <3>1. CASE k = 0
      BY <1>1, <3>1
    <3>2. CASE k # 0
      <4>1. k \in 1 .. n
        BY <1>1, <3>2
      <4>2. p[k] = parse_entry(p[k-1], memmap[k])
        BY <1>4, <4>1
      <4>3. p[k] = Parsed(part(k))
        BY <1>3
      <4>. HIDE DEF p
      <4>. QED
        BY <3>2, <4>2, <4>3
    <3>. QED
      BY <3>1, <3>2
  <2>. QED
    BY <2>1
<1>6. f = Turn(f)
  <2>. HIDE DEF p, Turn
  <2>. QED
    BY <1>5
<1>7. stivale2_parse_mmap(Parsed(given), memmap) = f[n]
  BY DEF stivale2_parse_mmap
<1>. HIDE DEF p, f, n
<1>8. f[0] = p[0] /\ \A k \in 1 .. n : f[k] = parse_entry(f[k-1], memmap[k])
  <2>1. \A k \in 0 .. n : f[k] = Turn(f)[k]
    BY <1>6
  <2>. QED
    BY <1>1, <1>3, <2>1
<1>9. f[n] = p[n]
  <2>1. \A k \in 1 .. n : f[k-1] = p[k-1] => f[k] = p[k]
    BY <1>4, <1>8
  <2>. QED
    BY <1>1, <1>8, <2>1, SameValues
<1>10. n \in 0 .. n
  BY <1>1
<1>11. p[n] = Parsed(part(n))
  BY <1>3, <1>10
<1>. QED
  BY <1>1, <1>7, <1>9, <1>11, Zenon

-----------------------------------------------------------------------------
(* The entries of a list's tags: each map tag adds its own to those before.*)
LEMMA EntriesAdd ==
  ASSUME NEW tags \in Structs
  PROVE  /\ EntriesOf(tags, 0) = <<>>
         /\ \A k \in 1 .. Len(tags) :
              EntriesOf(tags, k) = IF tags[k].identifier = "memmap"
                                   THEN EntriesOf(tags, k-1) \o tags[k].value
                                   ELSE EntriesOf(tags, k-1)
         /\ \A k \in 0 .. Len(tags) : EntriesOf(tags, k) \in Seq(MmapEntries)
<1>. DEFINE n == Len(tags)
            U == Seq(MmapEntries)
            Then(s, k) == IF tags[k].identifier = "memmap" THEN s \o tags[k].value ELSE s
            turn == [k \in 1 .. n |-> [s \in U |-> Then(s, k)]]
            Turn(g) == [k \in 0 .. n |-> IF k = 0 THEN <<>>
                          ELSE IF tags[k].identifier = "memmap" THEN g[k-1] \o tags[k].value
                          ELSE g[k-1]]
            f == CHOOSE g : g = Turn(g)
<1>1. n \in Nat /\ \A k \in 1 .. n : tags[k].identifier = "memmap" => tags[k].value \in U
  BY StructsAssumption DEF IsTag
<1>2. \A k \in 1 .. n, s \in U : Then(s, k) \in U
  BY <1>1
<1>3. turn \in [1 .. n -> [U -> U]]
  BY <1>2
<1>4. \A k \in 1 .. n, s \in U : turn[k][s] = Then(s, k)
  OBVIOUS
<1>5. \E after : Runs(n, U, turn, <<>>, after)
  <2>1. <<>> \in U
    OBVIOUS
  <2>. HIDE DEF turn, U, n
  <2>. QED
    BY <1>1, <1>3, <2>1, LoopRuns
<1>6. PICK after : Runs(n, U, turn, <<>>, after)
  BY <1>5
<1>7. /\ after \in [0 .. n -> U] /\ after[0] = <<>>
      /\ \A k \in 1 .. n : after[k-1] \in U /\ after[k] = Then(after[k-1], k)
  <2>1. \A k \in 1 .. n : k - 1 \in 0 .. n
    BY <1>1
  <2>. HIDE DEF turn, Then, U
  <2>. QED
    BY <1>4, <1>6, <2>1 DEF Runs
<1>8. after = Turn(after)
  <2>1. ASSUME NEW k \in 0 .. n
        PROVE  after[k] = IF k = 0 THEN <<>>
                          ELSE IF tags[k].identifier = "memmap" THEN after[k-1] \o tags[k].value
                          ELSE after[k-1]
    <3>1. CASE k = 0
      BY <1>7, <3>1
    <3>2. CASE k # 0
      <4>1. k \in 1 .. n
        BY <1>1, <3>2
      <4>2. after[k] = Then(after[k-1], k)
        BY <1>7, <4>1
      <4>. QED
        BY <3>2, <4>2, Zenon
    <3>. QED
      BY <3>1, <3>2
  <2>. QED
    BY <1>7, <2>1
<1>9. f = Turn(f)
  <2>. HIDE DEF Turn
  <2>. QED
    BY <1>8
<1>10. \A k \in 0 .. n : EntriesOf(tags, k) = f[k]
  BY DEF EntriesOf
<1>. HIDE DEF f, n, U
<1>11. f[0] = <<>> /\ \A k \in 1 .. n : f[k] = Then(f[k-1], k)
  <2>1. \A k \in 0 .. n : f[k] = Turn(f)[k]
    BY <1>9
  <2>2. f[0] = <<>>
    BY <1>1, <2>1
  <2>3. ASSUME NEW k \in 1 .. n PROVE f[k] = Then(f[k-1], k)
    <3>1. k \in 0 .. n /\ k # 0
      BY <1>1
    <3>2. f[k] = Turn(f)[k]
      BY <2>1, <3>1
    <3>. QED
      BY <3>1, <3>2
  <2>. QED
    BY <2>2, <2>3
<1>12. ASSUME NEW k \in 0 .. n PROVE f[k] = after[k]
  <2>. HIDE DEF Then
  <2>1. k \in Nat /\ f[0] = after[0]
    BY <1>1, <1>7, <1>11
  <2>2. \A j \in 1 .. k : f[j-1] = after[j-1] => f[j] = after[j]
    <3>1. \A j \in 1 .. k : j \in 1 .. n
      BY <1>1
    <3>. QED
      BY <1>7, <1>11, <3>1
  <2>. QED
    BY <2>1, <2>2, SameValues
<1>13. \A k \in 0 .. n : EntriesOf(tags, k) \in U
  BY <1>7, <1>10, <1>12
<1>14. \A k \in 1 .. n : EntriesOf(tags, k) = Then(EntriesOf(tags, k-1), k)
  <2>1. \A k \in 1 .. n : k \in 0 .. n /\ k - 1 \in 0 .. n
    BY <1>1
  <2>. HIDE DEF Then
  <2>. QED
    BY <1>10, <1>11, <2>1
<1>15. EntriesOf(tags, 0) = <<>>
  BY <1>1, <1>10, <1>11
<1>. QED
  BY <1>13, <1>14, <1>15 DEF n, U

(* The pages of a range that was rounded: from that of its first byte to   *)
(* that of the byte after its last.                                        *)
LEMMA RoundedSpan ==
  ASSUME NEW range \in AddrRanges
  PROVE  PageSpan(align_range(range)) = (range.base \div PAGE_SIZE) .. (End(range) \div PAGE_SIZE)
<1>. DEFINE P == PAGE_SIZE
            a == align_range(range)
            q == range.base \div P
            e == End(range)
            p == e \div P
<1>1. P \in Nat \ {0} /\ range.base \in Nat /\ range.length \in Nat /\ e \in Nat
  BY PageSizeAssumption DEF AddrRanges, End
<1>2. /\ range.base = P * q + (range.base % P) /\ q \in Nat /\ (range.base % P) \in 0 .. P - 1
  BY <1>1, DivMod
<1>3. e = P * p + (e % P) /\ p \in Nat /\ (e % P) \in 0 .. P - 1
  BY <1>1, DivMod
<1>4. a.base = P * q
  BY <1>1, <1>2 DEF align_range
<1>5. a.length = (e - P * q) + (P - ((e - P * q) % P))
  <2>1. range.length + (range.base % P) = e - P * q
    BY <1>1, <1>2 DEF End
  <2>2. a.length = (range.length + (range.base % P)) + (P - ((range.length + (range.base % P)) % P))
    BY DEF align_range
  <2>. HIDE DEF a, q, e, P
  <2>. QED
    BY <2>1, <2>2
<1>. HIDE DEF a, q, e, p, P
<1>6. q <= p
  <2>1. P * q <= e
    <3>1. range.base <= e
      BY <1>1 DEF e, End
    <3>. QED
      BY <1>1, <1>2, <3>1
  <2>2. ASSUME p + 1 <= q PROVE FALSE
    <3>1. P * (p + 1) <= P * q
      BY <1>1, <1>2, <1>3, <2>2
    <3>2. P * (p + 1) = P * p + P
      BY <1>1, <1>3
    <3>. DEFINE m == P * p
                l == P * q
    <3>3. m \in Int /\ l \in Int
      BY <1>1, <1>2, <1>3
    <3>4. m + P <= l /\ l <= e /\ e < m + P
      BY <1>1, <1>3, <2>1, <3>1, <3>2
    <3>. HIDE DEF m, l
    <3>. QED
      BY <1>1, <3>3, <3>4
  <2>. QED
    BY <1>2, <1>3, <2>2
<1>7. (e - P * q) % P = (e % P) /\ e - P * q \in Nat
  <2>. DEFINE d == p - q
              r == e % P
  <2>1. d \in Nat /\ r \in 0 .. P - 1
    BY <1>2, <1>3, <1>6
  <2>2. e - P * q = P * d + r
    <3>1. P * d = P * p - P * q
      BY <1>1, <1>2, <1>3
    <3>. DEFINE m == P * p
                l == P * q
                k == P * d
    <3>2. m \in Int /\ l \in Int /\ k = m - l /\ e = m + r
      BY <1>1, <1>2, <1>3, <3>1
    <3>. HIDE DEF m, l, k, r
    <3>3. e - l = k + r
      BY <1>1, <2>1, <3>2
    <3>. QED
      BY <3>3 DEF l, k
  <2>. HIDE DEF d, r
  <2>3. (P * d + r) % P = r /\ P * d + r \in Nat
    BY <1>1, <2>1
  <2>. QED
    BY <2>2, <2>3 DEF r
<1>8. a.length = P * (p - q + 1)
  <2>. DEFINE m == P * p
              l == P * q
              r == e % P
  <2>1. m \in Int /\ l \in Int /\ r \in Int /\ e = m + r /\ P * (p - q + 1) = m - l + P
    BY <1>1, <1>2, <1>3
  <2>2. a.length = (e - l) + (P - r)
    BY <1>5, <1>7
  <2>. HIDE DEF m, l, r
  <2>. QED
    BY <1>1, <2>1, <2>2
<1>9. a.base \div P = q /\ a.length \div P = p - q + 1
  <2>1. p - q + 1 \in Nat
    BY <1>2, <1>3, <1>6
  <2>. QED
    BY <1>1, <1>2, <1>4, <1>8, <2>1, MultipleDiv
<1>10. PageSpan(a) = q .. (q + (p - q + 1) - 1)
  BY <1>9 DEF PageSpan, P
<1>11. q + (p - q + 1) - 1 = p
  BY <1>2, <1>3
<1>. QED
  BY <1>10, <1>11 DEF a, q, p, e, P


(* An address lies in the page its quotient names, and addresses in order  *)
(* lie in pages in order.                                                  *)
LEMMA PagesInOrder ==
  ASSUME NEW P \in Nat \ {0}, NEW a \in Nat, NEW b \in Nat, a <= b
  PROVE  a \div P <= b \div P
<1>. DEFINE q == a \div P
            p == b \div P
<1>1. a = P * q + (a % P) /\ q \in Nat /\ a % P \in 0 .. P - 1
  BY DivMod
<1>2. b = P * p + (b % P) /\ p \in Nat /\ b % P \in 0 .. P - 1
  BY DivMod
<1>3. SUFFICES ASSUME p + 1 <= q PROVE FALSE
  BY <1>1, <1>2
<1>. DEFINE r == a % P
            s == b % P
<1>. HIDE DEF q, p, r, s
<1>4. P * (p + 1) <= P * q
  BY <1>1, <1>2, <1>3
<1>5. P * (p + 1) = P * p + P
  BY <1>2
<1>. DEFINE m == P * p
            l == P * q
<1>6. m \in Int /\ l \in Int /\ a = l + r /\ b = m + s /\ r \in 0 .. P - 1 /\ s \in 0 .. P - 1
  BY <1>1, <1>2 DEF r, s
<1>7. m + P <= l
  BY <1>4, <1>5
<1>. HIDE DEF m, l
<1>. QED
  BY <1>6, <1>7

HoldsByteOf(P, a, e, x) == \E b \in a .. (e - 1) : b \div P = x

(* A page from that of the first byte of a range to that before the page   *)
(* of its end holds a byte of it.                                          *)
LEMMA PageIsTouched ==
  ASSUME NEW P \in Nat \ {0}, NEW a \in Nat, NEW e \in Nat,
         NEW x \in Nat, a \div P <= x, x < e \div P
  PROVE  HoldsByteOf(P, a, e, x)
<1>. DEFINE q == a \div P
            p == e \div P
<1>1. a = P * q + (a % P) /\ q \in Nat /\ a % P \in 0 .. P - 1
  BY DivMod
<1>2. e = P * p + (e % P) /\ p \in Nat /\ e % P \in 0 .. P - 1
  BY DivMod
<1>. DEFINE r == a % P
            s == e % P
<1>3. P * (x + 1) <= e /\ P * (x + 1) = P * x + P
  <2>1. P * (x + 1) <= P * p
    <3>1. x + 1 <= p /\ x + 1 \in Nat
      BY <1>2
    <3>. HIDE DEF p
    <3>. QED
      BY <1>2, <3>1
  <2>. HIDE DEF p, s
  <2>2. P * p <= e
    <3>. DEFINE m == P * p
    <3>1. m \in Int /\ e = m + s /\ s \in 0 .. P - 1
      BY <1>2 DEF s
    <3>. HIDE DEF m
    <3>. QED
      BY <3>1 DEF m
  <2>. DEFINE m == P * p
              l == P * (x + 1)
  <2>3. m \in Int /\ l \in Int
    BY <1>2
  <2>4. l <= m /\ m <= e
    BY <2>1, <2>2
  <2>. HIDE DEF m, l
  <2>5. l <= e
    BY <2>3, <2>4
  <2>. QED
    BY <2>5 DEF l
<1>4. P * x \in Nat /\ P * x <= e - 1
  <2>. DEFINE l == P * x
  <2>1. l \in Nat /\ l + P <= e
    BY <1>3
  <2>. HIDE DEF l
  <2>2. l <= e - 1
    BY <2>1
  <2>. QED
    BY <2>1, <2>2 DEF l
<1>5. CASE x = q
  <2>1. a < P * (x + 1)
    <3>. DEFINE l == P * x
    <3>1. l \in Int /\ a = l + r /\ r \in 0 .. P - 1
      BY <1>1, <1>5
    <3>. HIDE DEF l, r
    <3>2. a < l + P
      BY <3>1
    <3>. QED
      BY <1>3, <3>2 DEF l
  <2>2. a \in a .. (e - 1)
    <3>. DEFINE l == P * (x + 1)
    <3>1. l \in Int /\ a < l /\ l <= e
      BY <1>3, <2>1
    <3>. HIDE DEF l
    <3>. QED
      BY <3>1
  <2>. QED
    BY <1>5, <2>2 DEF HoldsByteOf
<1>6. CASE x # q
  <2>1. a <= P * x
    <3>1. q + 1 <= x
      BY <1>1, <1>6
    <3>. HIDE DEF q
    <3>2. P * (q + 1) <= P * x /\ P * (q + 1) = P * q + P
      BY <1>1, <3>1
    <3>. DEFINE m == P * q
                l == P * x
    <3>3. m \in Int /\ l \in Int /\ m + P <= l /\ a = m + r /\ r \in 0 .. P - 1
      BY <1>1, <3>2
    <3>. HIDE DEF m, l, r
    <3>4. a <= l
      BY <3>3
    <3>. QED
      BY <3>4 DEF l
  <2>2. (P * x) \div P = x
    BY MultipleDiv
  <2>3. P * x \in a .. (e - 1)
    <3>. DEFINE l == P * x
    <3>1. l \in Nat /\ l <= e - 1 /\ a <= l
      BY <1>4, <2>1
    <3>. HIDE DEF l
    <3>2. l \in a .. (e - 1)
      BY <3>1
    <3>. QED
      BY <3>2 DEF l
  <2>. QED
    BY <2>2, <2>3 DEF HoldsByteOf
<1>. QED
  BY <1>5, <1>6

-----------------------------------------------------------------------------
(* What the fields take from the first n tags of a list.                   *)
SeenIn(tags, n, identifier) == {k \in 1 .. n : tags[k].identifier = identifier}

Latest(tags, n, identifier) ==
  IF SeenIn(tags, n, identifier) = {} THEN Garbage
  ELSE tags[Max(SeenIn(tags, n, identifier))].value

(* A number that is as large as every member is the maximum.               *)
LEMMA MaxIs ==
  ASSUME NEW S \in SUBSET Int, NEW m \in S, \A k \in S : k <= m
  PROVE  Max(S) = m
<1>1. \A x \in S : (\A y \in S : x >= y) <=> x = m
  OBVIOUS
<1>. QED
  BY <1>1, Zenon DEF Max

(* A tag takes the place of the earlier ones with its identifier.          *)
LEMMA LatestFollows ==
  ASSUME NEW tags, NEW identifier
  PROVE  /\ Latest(tags, 0, identifier) = Garbage
         /\ \A n \in Nat \ {0} :
              Latest(tags, n, identifier) = IF tags[n].identifier = identifier
                                            THEN tags[n].value
                                            ELSE Latest(tags, n - 1, identifier)
<1>1. SeenIn(tags, 0, identifier) = {}
  BY DEF SeenIn
<1>2. ASSUME NEW n \in Nat \ {0}
      PROVE  Latest(tags, n, identifier) = IF tags[n].identifier = identifier
                                           THEN tags[n].value
                                           ELSE Latest(tags, n - 1, identifier)
  <2>1. \A k : k \in 1 .. n <=> k \in 1 .. (n - 1) \/ k = n
    OBVIOUS
  <2>2. CASE tags[n].identifier = identifier
    <3>. DEFINE S == SeenIn(tags, n, identifier)
    <3>1. n \in S /\ S \in SUBSET Int /\ \A k \in S : k <= n
      BY <2>2 DEF SeenIn
    <3>. HIDE DEF S
    <3>2. Max(S) = n
      BY <3>1, MaxIs
    <3>. QED
      BY <2>2, <3>1, <3>2 DEF Latest, S
  <2>3. CASE tags[n].identifier # identifier
    <3>1. SeenIn(tags, n, identifier) = SeenIn(tags, n - 1, identifier)
      BY <2>1, <2>3, Zenon DEF SeenIn
    <3>. QED
      BY <2>3, <3>1, Zenon DEF Latest
  <2>. QED
    BY <2>2, <2>3
<1>. QED
  BY <1>1, <1>2 DEF Latest


-----------------------------------------------------------------------------
(* Before each tag the map is what the entries of the tags before it are   *)
(* parsed to, and the fields are what the latest of those tags said.       *)
Fields(tags, n) ==
  <<Latest(tags, n, "rsdp"), Latest(tags, n, "epoch"), Latest(tags, n, "framebuffer")>>

Identifiers == {stivale[k].identifier : k \in DOMAIN stivale}

Inv ==
  /\ stivale \in Structs
  /\ tag \in 1 .. (Len(stivale) + 1)
  /\ self = Parsed(Given)
  /\ <<rsdp, epoch, framebuffer>> = Fields(stivale, tag - 1)
  /\ reported \subseteq Identifiers

(* The walk begins with an empty map and uninitialised fields.             *)
LEMMA InvInit == Init => Inv
<1>. SUFFICES ASSUME Init PROVE Inv
  OBVIOUS
<1>1. stivale \in Structs /\ tag = 1 /\ tag - 1 = 0 /\ Len(stivale) \in Nat
  BY StructsAssumption DEF Init
<1>2. self = Parsed(Given)
  <2>1. Given = <<>>
    BY <1>1, EntriesAdd DEF Given
  <2>2. RoundedAll(<<>>) = <<>>
    BY DEF RoundedAll
  <2>3. BytesOf(<<>>) = 0 /\ 0 \div PAGE_SIZE = 0
    BY BytesAreCounted, PageSizeAssumption
  <2>. QED
    BY <2>1, <2>2, <2>3 DEF Init, EmptyMap, Parsed
<1>3. <<rsdp, epoch, framebuffer>> = Fields(stivale, tag - 1)
  BY <1>1, LatestFollows DEF Init, Fields
<1>. QED
  BY <1>1, <1>2, <1>3 DEF Init, Inv

(* What the loop reads when it is at a tag, and where it goes from there.  *)
LEMMA AtTag ==
  ASSUME Inv, NEW identifier, At(identifier)
  PROVE  /\ stivale' = stivale /\ tag' \in 1 .. (Len(stivale) + 1) /\ tag' - 1 = tag
         /\ tag \in Nat \ {0} /\ tag \in DOMAIN stivale
         /\ stivale[tag].identifier = identifier
         /\ Given' = IF identifier = "memmap" THEN Given \o stivale[tag].value ELSE Given
         /\ Given \in Seq(MmapEntries)
         /\ identifier = "memmap" => stivale[tag].value \in Seq(MmapEntries)
<1>1. stivale \in Structs /\ DOMAIN stivale = 1 .. Len(stivale) /\ Len(stivale) \in Nat
  BY StructsAssumption DEF Inv
<1>2. /\ stivale' = stivale /\ tag' = tag + 1 /\ tag \in 1 .. Len(stivale)
      /\ stivale[tag].identifier = identifier
  BY <1>1 DEF At
<1>3. tag' - 1 = tag /\ tag - 1 \in 0 .. Len(stivale) /\ tag' \in 1 .. (Len(stivale) + 1)
  BY <1>1, <1>2
<1>4. Given' = EntriesOf(stivale, tag) /\ Given = EntriesOf(stivale, tag - 1)
  BY <1>2, <1>3 DEF Given
<1>5. Given' = IF identifier = "memmap" THEN Given \o stivale[tag].value ELSE Given
  BY <1>1, <1>2, <1>4, EntriesAdd
<1>6. Given \in Seq(MmapEntries)
  BY <1>1, <1>3, <1>4, EntriesAdd
<1>7. identifier = "memmap" => stivale[tag].value \in Seq(MmapEntries)
  BY <1>1, <1>2, StructsAssumption DEF IsTag
<1>. QED
  BY <1>1, <1>2, <1>3, <1>5, <1>6, <1>7

(* A step at a tag keeps the invariant when it sets the field of this tag  *)
(* and no other, and the map only at a map tag.                            *)
LEMMA TagKeepsInv ==
  ASSUME Inv, NEW identifier, At(identifier),
         rsdp' = IF identifier = "rsdp" THEN stivale[tag].value ELSE rsdp,
         epoch' = IF identifier = "epoch" THEN stivale[tag].value ELSE epoch,
         framebuffer' = IF identifier = "framebuffer" THEN stivale[tag].value ELSE framebuffer,
         self' = IF identifier = "memmap" THEN stivale2_parse_mmap(self, stivale[tag].value) ELSE self,
         reported' = reported \/ reported' = reported \cup {identifier}
  PROVE  Inv'
<1>1. /\ stivale' = stivale /\ tag' \in 1 .. (Len(stivale) + 1) /\ tag' - 1 = tag
      /\ tag \in Nat \ {0} /\ tag \in DOMAIN stivale
      /\ stivale[tag].identifier = identifier
      /\ Given' = IF identifier = "memmap" THEN Given \o stivale[tag].value ELSE Given
      /\ Given \in Seq(MmapEntries)
      /\ identifier = "memmap" => stivale[tag].value \in Seq(MmapEntries)
  BY AtTag
<1>2. (self = Parsed(Given))'
  <2>0. Parsed(Given)' = Parsed(Given')
    BY DEF Parsed, BytesOf, UsableOf, LengthsOf, RoundedAll
  <2>1. CASE identifier = "memmap"
    <3>1. stivale2_parse_mmap(Parsed(Given), stivale[tag].value) = Parsed(Given \o stivale[tag].value)
      BY <1>1, <2>1, MapParsed
    <3>2. self' = Parsed(Given \o stivale[tag].value)
      BY <2>1, <3>1 DEF Inv
    <3>. QED
      BY <1>1, <2>0, <2>1, <3>2, Zenon
  <2>2. CASE identifier # "memmap"
    <3>1. Given' = Given /\ self' = self /\ self = Parsed(Given)
      BY <1>1, <2>2 DEF Inv
    <3>. QED
      BY <2>0, <3>1, Zenon
  <2>. QED
    BY <2>1, <2>2
<1>3. (<<rsdp, epoch, framebuffer>> = Fields(stivale, tag - 1))'
  <2>1. \A id : Latest(stivale, tag, id) = IF identifier = id THEN stivale[tag].value
                                           ELSE Latest(stivale, tag - 1, id)
    <3>1. \A id : \A n \in Nat \ {0} :
            Latest(stivale, n, id) = IF stivale[n].identifier = id THEN stivale[n].value
                                     ELSE Latest(stivale, n - 1, id)
      BY LatestFollows, Zenon
    <3>2. tag \in Nat \ {0} /\ stivale[tag].identifier = identifier
      BY <1>1
    <3>. QED
      BY <3>1, <3>2, Zenon
  <2>2. /\ rsdp = Latest(stivale, tag - 1, "rsdp") /\ epoch = Latest(stivale, tag - 1, "epoch")
        /\ framebuffer = Latest(stivale, tag - 1, "framebuffer")
    BY DEF Inv, Fields
  <2>3. /\ rsdp' = Latest(stivale, tag, "rsdp") /\ epoch' = Latest(stivale, tag, "epoch")
        /\ framebuffer' = Latest(stivale, tag, "framebuffer")
    BY <2>1, <2>2
  <2>4. Fields(stivale, tag - 1)' = Fields(stivale, tag)
    BY <1>1 DEF Fields, Latest, SeenIn
  <2>. QED
    BY <2>3, <2>4 DEF Fields
<1>4. (reported \subseteq Identifiers)'
  BY <1>1 DEF Inv, Identifiers
<1>. QED
  BY <1>1, <1>2, <1>3, <1>4 DEF Inv

(* Every step keeps the invariant.                                         *)
LEMMA InvNext == Inv /\ [Next]_vars => Inv'
<1>. SUFFICES ASSUME Inv, [Next]_vars PROVE Inv'
  OBVIOUS
<1>1. CASE parse_rsdp
  <2>1. At("rsdp")
    BY <1>1 DEF parse_rsdp
  <2>. QED
    BY <1>1, <2>1, TagKeepsInv DEF parse_rsdp
<1>2. CASE parse_epoch
  <2>1. At("epoch")
    BY <1>2 DEF parse_epoch
  <2>. QED
    BY <1>2, <2>1, TagKeepsInv DEF parse_epoch
<1>3. CASE parse_framebuffer
  <2>1. At("framebuffer")
    BY <1>3 DEF parse_framebuffer
  <2>. QED
    BY <1>3, <2>1, TagKeepsInv DEF parse_framebuffer
<1>4. CASE parse_memmap
  <2>1. At("memmap")
    BY <1>4 DEF parse_memmap
  <2>. QED
    BY <1>4, <2>1, TagKeepsInv DEF parse_memmap
<1>5. ASSUME NEW k \in DOMAIN stivale, parse_unknown(stivale[k].identifier)
      PROVE  Inv'
  <2>. DEFINE identifier == stivale[k].identifier
  <2>1. At(identifier) /\ identifier \notin Known
    BY <1>5 DEF parse_unknown
  <2>2. /\ UNCHANGED <<self, rsdp, epoch, framebuffer>>
        /\ reported' = reported \cup {identifier}
    BY <1>5 DEF parse_unknown
  <2>. HIDE DEF identifier
  <2>. QED
    BY <2>1, <2>2, TagKeepsInv DEF Known
<1>6. CASE UNCHANGED vars
  BY <1>6 DEF Inv, vars, Given, Parsed, BytesOf, UsableOf, LengthsOf, RoundedAll,
              Fields, Latest, SeenIn, Identifiers
<1>. QED
  BY <1>1, <1>2, <1>3, <1>4, <1>5, <1>6 DEF Next, Returned


(* The invariant of every behaviour.                                       *)
LEMMA Invariance == Spec => []Inv
BY InvInit, InvNext, PTL DEF Spec

(* What the invariant says of the parsed map, entry by entry.              *)
LEMMA ParsedEntries ==
  ASSUME Inv
  PROVE  /\ Given \in Seq(MmapEntries) /\ Len(Given) \in Nat /\ DOMAIN Given = 1 .. Len(Given)
         /\ self.mmap \in Seq(MmapEntries) /\ Len(self.mmap) = Len(Given)
         /\ DOMAIN self.mmap = DOMAIN Given
         /\ \A k \in DOMAIN Given : /\ Given[k].range \in AddrRanges
                                    /\ self.mmap[k].type = Given[k].type
                                    /\ self.mmap[k].range = align_range(Given[k].range)
         /\ self.memory_usable = BytesOf(Given) /\ self.memory_usable \in Nat
         /\ self.usable_pages = self.memory_usable \div PAGE_SIZE
<1>1. Given \in Seq(MmapEntries)
  <2>1. stivale \in Structs /\ Len(stivale) \in Nat /\ tag \in 1 .. (Len(stivale) + 1)
    BY StructsAssumption DEF Inv
  <2>2. tag - 1 \in 0 .. Len(stivale)
    BY <2>1
  <2>. QED
    BY <2>1, <2>2, EntriesAdd DEF Given
<1>. DEFINE n == Len(Given)
<1>2. n \in Nat /\ DOMAIN Given = 1 .. n /\ \A k \in 1 .. n : Given[k] \in MmapEntries
  BY <1>1
<1>3. self.mmap = [k \in 1 .. n |-> Rounded(Given[k])]
  BY <1>2 DEF Inv, Parsed, RoundedAll
<1>4. \A k \in 1 .. n : /\ Rounded(Given[k]) \in MmapEntries
                        /\ Rounded(Given[k]).type = Given[k].type
                        /\ Rounded(Given[k]).range = align_range(Given[k].range)
                        /\ Given[k].range \in AddrRanges
  BY <1>2, RoundedIsEntry
<1>5. self.mmap \in Seq(MmapEntries) /\ Len(self.mmap) = n /\ DOMAIN self.mmap = 1 .. n
  BY <1>2, <1>3, <1>4
<1>6. self.memory_usable = BytesOf(Given) /\ self.usable_pages = self.memory_usable \div PAGE_SIZE
  BY DEF Inv, Parsed
<1>7. self.memory_usable \in Nat
  BY <1>1, <1>6, BytesAreCounted
<1>8. \A k \in 1 .. n : self.mmap[k] = Rounded(Given[k])
  BY <1>3
<1>. QED
  BY <1>1, <1>2, <1>4, <1>5, <1>6, <1>7, <1>8

(* stivale2_parse_header, libk/bootinfo.c: every variable keeps its type,  *)
(* and no identifier is reported that is not in the list.                  *)
THEOREM BootInfoTyped == Spec => []TypeOK
<1>1. Inv => TypeOK
  <2>. SUFFICES ASSUME Inv PROVE TypeOK
    OBVIOUS
  <2>1. BytesOf(Given) \div PAGE_SIZE \in Nat
    BY ParsedEntries, PageSizeAssumption, DivMod
  <2>2. self.usable_pages \in Nat
    BY <2>1, ParsedEntries
  <2>. QED
    BY <2>2, ParsedEntries DEF Inv, TypeOK, Identifiers
<1>. QED
  BY <1>1, Invariance, PTL

(* stivale2_parse_header with stivale2_parse_mmap: for every list of tags  *)
(* with no more entries than mmap has slots, mmap has them all, in order,  *)
(* each rounded outwards to pages, and the counts are those of the bytes   *)
(* the bootloader gave.                                                    *)
THEOREM MapCompleteAlways == Spec => []MapIsComplete
<1>1. Inv => MapIsComplete
  <2>. SUFFICES ASSUME Inv, Len(Given) <= LIMIT_MEMORY_MAP_SIZE
                PROVE  /\ Len(self.mmap) = Len(Given) /\ ~Overrun(self)
                       /\ \A k \in DOMAIN Given :
                            /\ self.mmap[k].type = Given[k].type
                            /\ is_page_aligned(self.mmap[k].range)
                            /\ self.mmap[k].range.base <= Given[k].range.base
                            /\ End(self.mmap[k].range) > End(Given[k].range)
                       /\ self.memory_usable
                            = SumFunctionOnSet([k \in DOMAIN Given |-> Given[k].range.length], GivenUsable)
                       /\ self.usable_pages = self.memory_usable \div PAGE_SIZE
    BY DEF MapIsComplete
  <2>1. Len(self.mmap) = Len(Given) /\ ~Overrun(self)
    BY ParsedEntries, LimitAssumption DEF Overrun
  <2>2. ASSUME NEW k \in DOMAIN Given
        PROVE  /\ self.mmap[k].type = Given[k].type
               /\ is_page_aligned(self.mmap[k].range)
               /\ self.mmap[k].range.base <= Given[k].range.base
               /\ End(self.mmap[k].range) > End(Given[k].range)
    <3>1. /\ Given[k].range \in AddrRanges /\ self.mmap[k].type = Given[k].type
          /\ self.mmap[k].range = align_range(Given[k].range)
      BY ParsedEntries
    <3>. DEFINE range == Given[k].range
                aligned == align_range(range)
    <3>2. /\ aligned \in AddrRanges /\ is_page_aligned(aligned) /\ aligned.base <= range.base
          /\ range.base + range.length < aligned.base + aligned.length
      BY <3>1, AlignRangeCovers
    <3>3. End(aligned) > End(range)
      <4>. HIDE DEF aligned, range
      <4>1. range \in AddrRanges
        BY <3>1 DEF range
      <4>. QED
        BY <3>2, <4>1 DEF End, AddrRanges
    <3>. QED
      BY <3>1, <3>2, <3>3
  <2>3. self.memory_usable
          = SumFunctionOnSet([k \in DOMAIN Given |-> Given[k].range.length], GivenUsable)
    BY ParsedEntries DEF BytesOf, LengthsOf, UsableOf, GivenUsable
  <2>. QED
    BY <2>1, <2>2, <2>3, ParsedEntries
<1>. QED
  BY <1>1, Invariance, PTL

(* The pages init_pmm clears after stivale2_parse_mmap, for every list of  *)
(* tags: all that hold a usable byte, and at most the one page after the   *)
(* last of each usable entry.                                              *)
THEOREM PoolIsUsablePlusOneAlways == Spec => []PoolIsUsablePlusOne
<1>1. Inv => PoolIsUsablePlusOne
  <2>. SUFFICES ASSUME Inv PROVE PoolIsUsablePlusOne
    OBVIOUS
  <2>. DEFINE P == PAGE_SIZE
              ends == {(End(Given[k].range) \div P) : k \in GivenUsable}
  <2>1. ASSUME NEW k \in GivenUsable
        PROVE  /\ Given[k].range.base \in Nat /\ End(Given[k].range) \in Nat
               /\ Given[k].range.base <= End(Given[k].range)
    <3>1. Given[k].range \in AddrRanges
      BY ParsedEntries DEF GivenUsable
    <3>. QED
      BY <3>1 DEF AddrRanges, End
  <2>2. UsableEntries(self) = GivenUsable
    BY ParsedEntries DEF UsableEntries, GivenUsable
  <2>3. \A k \in GivenUsable :
          PageSpan(self.mmap[k].range)
            = (Given[k].range.base \div P) .. (End(Given[k].range) \div P)
    BY ParsedEntries, RoundedSpan DEF GivenUsable
  <2>4. UsablePages(self)
          = UNION {(Given[k].range.base \div P) .. (End(Given[k].range) \div P) : k \in GivenUsable}
    BY <2>2, <2>3 DEF UsablePages
  <2>5. P \in Nat \ {0}
    BY PageSizeAssumption
  <2>6. Touched \subseteq UsablePages(self)
    <3>. SUFFICES ASSUME NEW k \in GivenUsable,
                         NEW b \in Given[k].range.base .. (End(Given[k].range) - 1)
                  PROVE  b \div P \in (Given[k].range.base \div P) .. (End(Given[k].range) \div P)
      BY <2>4 DEF Touched
    <3>. DEFINE a == Given[k].range.base
                e == End(Given[k].range)
    <3>1. a \in Nat /\ e \in Nat /\ b \in Nat /\ a <= b /\ b <= e
      BY <2>1
    <3>. HIDE DEF a, e, P
    <3>2. a \div P <= b \div P /\ b \div P <= e \div P
      BY <2>5, <3>1, PagesInOrder
    <3>3. a \div P \in Nat /\ b \div P \in Nat /\ e \div P \in Nat
      BY <2>5, <3>1, DivMod
    <3>4. b \div P \in (a \div P) .. (e \div P)
      BY <3>2, <3>3
    <3>. QED
      BY <3>4 DEF a, e
  <2>7. UsablePages(self) \subseteq Touched \cup ends
    <3>. SUFFICES ASSUME NEW k \in GivenUsable,
                         NEW x \in (Given[k].range.base \div P) .. (End(Given[k].range) \div P)
                  PROVE  x \in Touched \cup ends
      BY <2>4
    <3>. DEFINE a == Given[k].range.base
                e == End(Given[k].range)
    <3>1. a \in Nat /\ e \in Nat
      BY <2>1
    <3>2. x \in (a \div P) .. (e \div P)
      OBVIOUS
    <3>3. x = e \div P => x \in ends
      OBVIOUS
    <3>4. ASSUME NEW b \in a .. (e - 1), b \div P = x PROVE x \in Touched
      BY <3>4 DEF Touched
    <3>. HIDE DEF a, e, P, ends
    <3>5. a \div P \in Nat /\ e \div P \in Nat
      BY <2>5, <3>1, DivMod
    <3>6. x \in Nat /\ a \div P <= x /\ (x = e \div P \/ x < e \div P)
      BY <3>2, <3>5
    <3>7. x < e \div P => HoldsByteOf(P, a, e, x)
      BY <2>5, <3>1, <3>6, PageIsTouched
    <3>. QED
      BY <3>3, <3>4, <3>6, <3>7 DEF HoldsByteOf
  <2>. QED
    BY <2>6, <2>7 DEF PoolIsUsablePlusOne
<1>. QED
  BY <1>1, Invariance, PTL

(* stivale2_parse_header: for every list of tags, each field is what the   *)
(* latest tag for it said, and uninitialised when there was none.          *)
THEOREM FieldsComeFromTagsAlways == Spec => []FieldsComeFromTags
<1>1. Inv => FieldsComeFromTags
  BY DEF Inv, Fields, Latest, SeenIn, FieldsComeFromTags, Seen
<1>. QED
  BY <1>1, Invariance, PTL


=============================================================================
