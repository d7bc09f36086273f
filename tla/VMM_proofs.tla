----------------------------- MODULE VMM_proofs -----------------------------
(***************************************************************************)
(* Proofs about the virtual memory manager.  The tables of the address     *)
(* spaces are a forest whose levels L[3] (the plm4s) to L[0] (the page     *)
(* tables) are disjoint and linked one to one (Forest).  Each function of  *)
(* vmm.c is shown to keep a forest, and what it does to the translations   *)
(* is told; the actions and the loops are put together from those.         *)
(***************************************************************************)
EXTENDS VMM, FiniteLemmas

-----------------------------------------------------------------------------
(* Table indices.                                                          *)
LEMMA DividedTwice ==
  ASSUME NEW n \in Nat, NEW c \in Nat \ {0}, NEW d \in Nat \ {0}
  PROVE  n \div (c * d) = (n \div c) \div d
<1>. DEFINE q == n \div c
            p == q \div d
            e == c * d
<1>1. q \in Nat /\ p \in Nat /\ e \in Nat \ {0}
  OBVIOUS
<1>2. \E r \in 0 .. (c - 1) : n = c * q + r
  <2>1. n = c * q + (n % c) /\ n % c \in 0 .. (c - 1)
    OBVIOUS
  <2>. QED
    BY <2>1
<1>3. \E s \in 0 .. (d - 1) : q = d * p + s
  <2>1. q = d * p + (q % d) /\ q % d \in 0 .. (d - 1)
    BY <1>1
  <2>. QED
    BY <2>1
<1>. HIDE DEF q, p
<1>4. PICK r \in 0 .. (c - 1) : n = c * q + r
  BY <1>2
<1>5. PICK s \in 0 .. (d - 1) : q = d * p + s
  BY <1>3
<1>6. n = e * p + (c * s + r)
  BY <1>1, <1>4, <1>5
<1>7. c * s + r \in 0 .. (e - 1)
  <2>1. c * s <= c * (d - 1)
    BY <1>5
  <2>. QED
    BY <2>1, <1>4, <1>5
<1>8. n \div e = p
  <2>. DEFINE t == c * s + r
  <2>1. t \in 0 .. (e - 1) /\ n = e * p + t
    BY <1>6, <1>7
  <2>. HIDE DEF t, e
  <2>. QED
    BY <1>1, <2>1
<1>. QED
  BY <1>8 DEF p, q

(* A number divided four times by d, put together again.                   *)
LEMMA Positional ==
  ASSUME NEW d \in Nat, NEW n \in Nat,
         NEW q1 \in Nat, NEW q2 \in Nat, NEW q3 \in Nat, NEW q4 \in Nat,
         NEW r0 \in Nat, NEW r1 \in Nat, NEW r2 \in Nat, NEW r3 \in Nat,
         n = d * q1 + r0, q1 = d * q2 + r1, q2 = d * q3 + r2, q3 = d * q4 + r3
  PROVE  n = (d * d * d * d) * q4 + ((d * d * d) * r3 + (d * d) * r2 + d * r1 + r0)
<1>1. q2 = (d * d) * q4 + (d * r3 + r2)
  OBVIOUS
<1>2. q1 = (d * d * d) * q4 + ((d * d) * r3 + d * r2 + r1)
  BY <1>1
<1>. QED
  BY <1>2

Value(n) == (W * W * W) * entry(n, 3) + (W * W) * entry(n, 2) + W * entry(n, 1) + entry(n, 0)

(* A page is its four table indices as digits, up to a multiple of W^4.    *)
LEMMA Valued ==
  ASSUME NEW n \in Nat
  PROVE  /\ Value(n) \in Nat
         /\ \E q \in Nat : n = (W * W * W * W) * q + Value(n)
<1>. DEFINE q1 == n \div W
            q2 == q1 \div W
            q3 == q2 \div W
            q4 == q3 \div W
            r0 == n % W
            r1 == q1 % W
            r2 == q2 % W
            r3 == q3 % W
<1>0. W \in Nat \ {0} /\ W * W \in Nat \ {0}
  BY TablesAssumption
<1>1. q1 \in Nat /\ q2 \in Nat /\ q3 \in Nat /\ q4 \in Nat
  BY <1>0
<1>2. r0 = entry(n, 0) /\ r1 = entry(n, 1) /\ r2 = entry(n, 2) /\ r3 = entry(n, 3)
  <2>1. q2 = n \div (W * W)
    BY <1>0, DividedTwice
  <2>2. q3 = n \div (W * W * W)
    <3>1. n \div ((W * W) * W) = (n \div (W * W)) \div W
      BY <1>0, DividedTwice, Zenon
    <3>. QED
      BY <2>1, <3>1
  <2>. HIDE DEF q3
  <2>. QED
    BY <2>1, <2>2 DEF entry
<1>3. r0 \in Nat /\ r1 \in Nat /\ r2 \in Nat /\ r3 \in Nat
  BY <1>0, <1>1
<1>4. n = W * q1 + r0 /\ q1 = W * q2 + r1 /\ q2 = W * q3 + r2 /\ q3 = W * q4 + r3
  <2>1. \A m \in Nat : m = W * (m \div W) + (m % W)
    BY <1>0
  <2>. QED
    BY <1>1, <2>1, Zenon
<1>. HIDE DEF q1, q2, q3, q4, r0, r1, r2, r3
<1>5. n = (W * W * W * W) * q4 + ((W * W * W) * r3 + (W * W) * r2 + W * r1 + r0)
  BY <1>0, <1>1, <1>3, <1>4, Positional
<1>6. (W * W * W) * r3 + (W * W) * r2 + W * r1 + r0 \in Nat
  BY <1>0, <1>3
<1>. QED
  BY <1>1, <1>2, <1>5, <1>6 DEF Value

(* An address with the table indices of a page w is w, or w plus a         *)
(* multiple of what four levels of tables reach.                           *)
LEMMA SameIndices ==
  ASSUME NEW v \in Nat, NEW w \in VPages,
         \A level \in 0 .. 3 : entry(v, level) = entry(w, level)
  PROVE  \E k \in Nat : v = w + (W * W * W * W) * k
<1>. DEFINE Z == W * W * W * W
<1>1. Value(v) = Value(w)
  BY DEF Value
<1>2. w \in Nat /\ w < Z /\ Z \in Nat \ {0}
  BY TablesAssumption DEF VPages
<1>3. PICK q \in Nat : v = Z * q + Value(v)
  BY Valued
<1>4. PICK p \in Nat : w = Z * p + Value(w)
  BY <1>2, Valued
<1>5. Value(w) \in Nat
  BY <1>2, Valued
<1>. HIDE DEF Z
<1>6. p = 0
  <2>1. ASSUME p >= 1 PROVE FALSE
    <3>1. Z * p >= Z
      BY <1>2, <2>1
    <3>. DEFINE zp == Z * p
    <3>2. zp \in Nat
      BY <1>2
    <3>. HIDE DEF zp
    <3>. QED
      BY <1>2, <1>4, <1>5, <3>1, <3>2 DEF zp
  <2>. QED
    BY <2>1
<1>7. v = w + Z * q
  BY <1>1, <1>2, <1>3, <1>4, <1>5, <1>6
<1>. QED
  BY <1>7 DEF Z

-----------------------------------------------------------------------------
(* Memory.  A leaf's frame may be any page; before a page is granted its   *)
(* stale entries name some page of the pool.                               *)
Flags == {"present", "write", "user"}

Frames == Nat \cup {Max(Pool)}

Entries == [frame : Frames, flags : SUBSET Flags]

Tables == [Index -> Entries]

Memories == [Pool -> Tables]

Places == [mem : Memories, held : SUBSET Pool, failed : BOOLEAN,
           page : Pool, returned : BOOLEAN]

(* A call begins with any page, and goes to the root it is given.          *)
Starts == [mem : Memories, held : SUBSET Pool, failed : BOOLEAN,
           page : Pool \cup {0}, returned : BOOLEAN]

(* The present entries of the tables T lead one to one to the tables N.    *)
Leads(m, T, N) ==
  /\ \A t \in T, i \in Index : Present(m[t][i]) => m[t][i].frame \in N
  /\ \A n \in N : \E t \in T, i \in Index : Present(m[t][i]) /\ m[t][i].frame = n
  /\ \A t, u \in T, i, j \in Index :
       /\ Present(m[t][i]) /\ Present(m[u][j])
       /\ m[t][i].frame = m[u][j].frame
       => t = u /\ i = j

Levels == [0 .. 3 -> SUBSET Pool]

(* L are the levels of a forest in the memory m; the granted pages are its *)
(* tables and the pages D that belong to callers.                          *)
Forest(m, granted, L, D) ==
  /\ \A k \in 1 .. 3 : Leads(m, L[k], L[k-1])
  /\ \A j, k \in 0 .. 3 : j # k => L[j] \cap L[k] = {}
  /\ \A k \in 0 .. 3 : L[k] \cap D = {}
  /\ granted = L[0] \cup L[1] \cup L[2] \cup L[3] \cup D

Rooted(m, granted, S, D) == \E L \in Levels : L[3] = S /\ Forest(m, granted, L, D)

(* The walk of the hardware in a memory m: the entry it meets at a level.  *)
StepIn(m, e, index) == IF Present(e) THEN m[e.frame][index] ELSE None

Entry3(m, s, v) == m[s][entry(v, 3)]
Entry2(m, s, v) == StepIn(m, Entry3(m, s, v), entry(v, 2))
Entry1(m, s, v) == StepIn(m, Entry2(m, s, v), entry(v, 1))
Entry0(m, s, v) == StepIn(m, Entry1(m, s, v), entry(v, 0))

(* Every space of S translates as before.                                  *)
SameMaps(m, g, S) == \A s \in S, v \in Nat : Entry0(g, s, v) = Entry0(m, s, v)

(* Addresses have table indices at every level.                            *)
LEMMA Indices ==
  /\ \A v \in Nat, level \in 0 .. 3 : entry(v, level) \in Index
  /\ \A v \in VPages : v \in Nat
<1>1. \A n \in Nat : n % W \in Index
  BY TablesAssumption DEF Index
<1>2. \A n \in Nat, d \in Nat \ {0} : n \div d \in Nat
  OBVIOUS
<1>3. W \in Nat \ {0} /\ W * W \in Nat \ {0} /\ W * W * W \in Nat \ {0}
  BY TablesAssumption
<1>4. ASSUME NEW v \in Nat, NEW level \in 0 .. 3 PROVE entry(v, level) \in Index
  <2>1. v \div W \in Nat /\ v \div (W * W) \in Nat /\ v \div (W * W * W) \in Nat
    BY <1>2, <1>3
  <2>2. /\ v % W \in Index /\ (v \div W) % W \in Index
        /\ (v \div (W * W)) % W \in Index /\ (v \div (W * W * W)) % W \in Index
    BY <1>1, <2>1, Zenon
  <2>3. level = 0 \/ level = 1 \/ level = 2 \/ level = 3
    OBVIOUS
  <2>4. CASE level = 0
    BY <2>2, <2>4 DEF entry
  <2>5. CASE level = 1
    BY <2>2, <2>5 DEF entry
  <2>6. CASE level = 2
    BY <2>2, <2>6 DEF entry
  <2>7. CASE level = 3
    BY <2>2, <2>7 DEF entry
  <2>. QED
    BY <2>3, <2>4, <2>5, <2>6, <2>7
<1>. QED
  BY <1>4 DEF VPages

(* The empty entry is absent, and the cleared table holds nothing else.    *)
LEMMA NoneIsAbsent == ~ Present(None) /\ None \in Entries /\ Zero \in Tables
                      /\ \A i \in Index : Zero[i] = None
BY DEF None, Present, Entries, Frames, Zero, Tables

(* A step of the hardware's walk ends at an entry.                         *)
LEMMA StepIsEntry ==
  ASSUME NEW m \in Memories, NEW T \in SUBSET Pool, NEW i \in Index,
         NEW e \in Entries, Present(e) => e.frame \in T
  PROVE  StepIn(m, e, i) \in Entries
<1>1. CASE ~ Present(e)
  BY <1>1, NoneIsAbsent DEF StepIn
<1>2. CASE Present(e)
  <2>1. StepIn(m, e, i) = m[e.frame][i] /\ e.frame \in T
    BY <1>2 DEF StepIn
  <2>. QED
    BY <2>1 DEF Memories, Tables
<1>. QED
  BY <1>1, <1>2

(* A step that ends at a present entry leads from one level to the next.   *)
LEMMA StepLeadsOn ==
  ASSUME NEW m, NEW T, NEW N, Leads(m, T, N), NEW i \in Index,
         NEW e, Present(e) => e.frame \in T, Present(StepIn(m, e, i))
  PROVE  Present(e) /\ StepIn(m, e, i).frame \in N
<1>1. Present(e)
  BY NoneIsAbsent DEF StepIn
<1>2. StepIn(m, e, i) = m[e.frame][i] /\ e.frame \in T
  BY <1>1 DEF StepIn
<1>. QED
  BY <1>1, <1>2 DEF Leads

(* What the walk meets: an entry whose frame, if it is present, is a table *)
(* of the next level.                                                      *)
LEMMA WalkStaysInForest ==
  ASSUME NEW m \in Memories, NEW L \in Levels, NEW granted, NEW D,
         Forest(m, granted, L, D), NEW s \in L[3], NEW v \in Nat
  PROVE  /\ Entry3(m, s, v) \in Entries
         /\ Present(Entry3(m, s, v)) => Entry3(m, s, v).frame \in L[2]
         /\ Entry2(m, s, v) \in Entries
         /\ Present(Entry2(m, s, v)) => Entry2(m, s, v).frame \in L[1]
         /\ Entry1(m, s, v) \in Entries
         /\ Present(Entry1(m, s, v)) => Entry1(m, s, v).frame \in L[0]
         /\ Entry0(m, s, v) \in Entries
<1>1. \A k \in 0 .. 3 : L[k] \in SUBSET Pool /\ entry(v, k) \in Index
  BY Indices DEF Levels
<1>2. Leads(m, L[3], L[2]) /\ Leads(m, L[2], L[1]) /\ Leads(m, L[1], L[0])
  BY DEF Forest
<1>3. /\ Entry3(m, s, v) \in Entries
      /\ Present(Entry3(m, s, v)) => Entry3(m, s, v).frame \in L[2]
  BY <1>1, <1>2 DEF Entry3, Memories, Tables, Leads
<1>4. /\ Entry2(m, s, v) \in Entries
      /\ Present(Entry2(m, s, v)) => Entry2(m, s, v).frame \in L[1]
  <2>. DEFINE e == Entry3(m, s, v)
              i == entry(v, 2)
  <2>1. e \in Entries /\ (Present(e) => e.frame \in L[2]) /\ i \in Index
        /\ L[2] \in SUBSET Pool
    BY <1>1, <1>3
  <2>. HIDE DEF e, i
  <2>2. StepIn(m, e, i) \in Entries
    BY <2>1, StepIsEntry
  <2>3. Present(StepIn(m, e, i)) => StepIn(m, e, i).frame \in L[1]
    BY <1>2, <2>1, StepLeadsOn
  <2>. QED
    BY <2>2, <2>3 DEF Entry2, e, i
<1>5. /\ Entry1(m, s, v) \in Entries
      /\ Present(Entry1(m, s, v)) => Entry1(m, s, v).frame \in L[0]
  <2>. DEFINE e == Entry2(m, s, v)
              i == entry(v, 1)
  <2>1. e \in Entries /\ (Present(e) => e.frame \in L[1]) /\ i \in Index
        /\ L[1] \in SUBSET Pool
    BY <1>1, <1>4
  <2>. HIDE DEF e, i
  <2>2. StepIn(m, e, i) \in Entries
    BY <2>1, StepIsEntry
  <2>3. Present(StepIn(m, e, i)) => StepIn(m, e, i).frame \in L[0]
    BY <1>2, <2>1, StepLeadsOn
  <2>. QED
    BY <2>2, <2>3 DEF Entry1, e, i
<1>6. Entry0(m, s, v) \in Entries
  <2>. DEFINE e == Entry1(m, s, v)
              i == entry(v, 0)
  <2>1. e \in Entries /\ (Present(e) => e.frame \in L[0]) /\ i \in Index
        /\ L[0] \in SUBSET Pool
    BY <1>1, <1>5
  <2>. HIDE DEF e, i
  <2>2. StepIn(m, e, i) \in Entries
    BY <2>1, StepIsEntry
  <2>. QED
    BY <2>2 DEF Entry0, e, i
<1>. QED
  BY <1>3, <1>4, <1>5, <1>6

-----------------------------------------------------------------------------
(* What the smallest functions do to a place.                              *)
SameElse(m, g) == g.failed = m.failed /\ g.returned = m.returned

(* What alloc_pmm does to a place: it fails, or stands at a page that was  *)
(* free and is now held, and writes nothing.                               *)
LEMMA AllocDoes ==
  ASSUME NEW m \in Starts
  PROVE  /\ alloc_pmm(m) \in Starts
         /\ m \in Places \/ ~ alloc_pmm(m).failed => alloc_pmm(m) \in Places
         /\ alloc_pmm(m).mem = m.mem
         /\ alloc_pmm(m).returned = m.returned
         /\ m.failed => alloc_pmm(m).failed
         /\ ~ m.failed /\ ~ (Pool \subseteq m.held) => ~ alloc_pmm(m).failed
         /\ ~ alloc_pmm(m).failed =>
              /\ alloc_pmm(m).page \in Pool \ m.held
              /\ alloc_pmm(m).held = m.held \cup {alloc_pmm(m).page}
<1>1. CASE Pool \subseteq m.held
  <2>1. alloc_pmm(m) = [m EXCEPT !.failed = TRUE]
    BY <1>1 DEF alloc_pmm
  <2>2. alloc_pmm(m) \in Starts /\ (m \in Places => alloc_pmm(m) \in Places)
    BY <2>1 DEF Starts, Places
  <2>. QED
    BY <1>1, <2>1, <2>2 DEF Starts
<1>2. CASE ~ (Pool \subseteq m.held)
  <2>. DEFINE p == Min(Pool \ m.held)
              a == alloc_pmm(m)
  <2>1. p \in Pool \ m.held
    BY <1>2, PoolAssumption, MinOfNaturals
  <2>2. a = [m EXCEPT !.held = @ \cup {p}, !.page = p]
    BY <1>2 DEF alloc_pmm
  <2>. HIDE DEF p, a
  <2>3. a.mem = m.mem /\ a.page = p /\ a.held = m.held \cup {p}
        /\ a.failed = m.failed /\ a.returned = m.returned
    BY <2>2 DEF Starts
  <2>4. a \in Places
    BY <2>1, <2>2 DEF Starts, Places
  <2>5. a \in Starts
    BY <2>4 DEF Places, Starts
  <2>. QED
    BY <1>2, <2>1, <2>3, <2>4, <2>5 DEF a
<1>. QED
  BY <1>1, <1>2

(* memset on the page the place is at clears it and no other.              *)
LEMMA ZeroedDoes ==
  ASSUME NEW m \in Places
  PROVE  /\ Zeroed(m) \in Places
         /\ SameElse(m, Zeroed(m))
         /\ Zeroed(m).held = m.held /\ Zeroed(m).page = m.page
         /\ Zeroed(m).mem[m.page] = Zero
         /\ \A x \in Pool \ {m.page} : Zeroed(m).mem[x] = m.mem[x]
<1>. DEFINE wiped == [m.mem EXCEPT ![m.page] = Zero]
<1>1. Zeroed(m) = [m EXCEPT !.mem = wiped]
  BY DEF Zeroed
<1>2. /\ wiped \in Memories /\ wiped[m.page] = Zero
      /\ \A x \in Pool \ {m.page} : wiped[x] = m.mem[x]
  BY NoneIsAbsent DEF Places, Memories
<1>. HIDE DEF wiped
<1>3. /\ Zeroed(m).mem = wiped /\ Zeroed(m) \in Places /\ SameElse(m, Zeroed(m))
      /\ Zeroed(m).held = m.held /\ Zeroed(m).page = m.page
  BY <1>1, <1>2 DEF Places, SameElse
<1>. QED
  BY <1>2, <1>3

(* A table with one entry replaced.                                        *)
With(m, t, i, e) == [m EXCEPT ![t][i] = e]

(* Storing an entry changes that entry alone.                              *)
LEMMA EntryReplaced ==
  ASSUME NEW m \in Memories, NEW t \in Pool, NEW i \in Index, NEW e \in Entries
  PROVE  /\ With(m, t, i, e) \in Memories
         /\ With(m, t, i, e)[t][i] = e
         /\ \A x \in Pool, j \in Index :
              x # t \/ j # i => With(m, t, i, e)[x][j] = m[x][j]
<1>. DEFINE table == [m[t] EXCEPT ![i] = e]
            g == With(m, t, i, e)
<1>1. g = [m EXCEPT ![t] = table]
  BY DEF With
<1>2. m[t] \in Tables
  BY DEF Memories
<1>3. table \in Tables /\ table[i] = e /\ \A j \in Index : j # i => table[j] = m[t][j]
  BY <1>2 DEF Tables
<1>. HIDE DEF table, g
<1>4. g \in Memories /\ g[t] = table /\ \A x \in Pool : x # t => g[x] = m[x]
  BY <1>1, <1>3 DEF Memories
<1>. QED
  BY <1>3, <1>4 DEF g

LinkTo(page) == [frame |-> page, flags |-> {"present", "write", "user"}]

(* A link to a page is a present entry with the page as its frame.         *)
LEMMA LinkIsPresent ==
  ASSUME NEW page \in Pool
  PROVE  LinkTo(page) \in Entries /\ Present(LinkTo(page)) /\ LinkTo(page).frame = page
BY PoolAssumption DEF LinkTo, Entries, Frames, Flags, Present

(* Linking a table changes one entry of one table.                         *)
LEMMA LinkedDoes ==
  ASSUME NEW m \in Places, NEW t \in Pool, NEW i \in Index
  PROVE  /\ Linked(m, t, i) \in Places
         /\ SameElse(m, Linked(m, t, i))
         /\ Linked(m, t, i).held = m.held /\ Linked(m, t, i).page = m.page
         /\ Linked(m, t, i).mem[t][i] = LinkTo(m.page)
         /\ \A x \in Pool, j \in Index :
              x # t \/ j # i => Linked(m, t, i).mem[x][j] = m.mem[x][j]
<1>. DEFINE g == With(m.mem, t, i, LinkTo(m.page))
<1>1. Linked(m, t, i) = [m EXCEPT !.mem = g]
  BY DEF Linked, LinkTo, With
<1>2. /\ g \in Memories /\ g[t][i] = LinkTo(m.page)
      /\ \A x \in Pool, j \in Index : x # t \/ j # i => g[x][j] = m.mem[x][j]
  <2>1. m.mem \in Memories /\ LinkTo(m.page) \in Entries
    BY LinkIsPresent DEF Places
  <2>. QED
    BY <2>1, EntryReplaced
<1>. HIDE DEF g
<1>3. /\ Linked(m, t, i).mem = g /\ Linked(m, t, i) \in Places /\ SameElse(m, Linked(m, t, i))
      /\ Linked(m, t, i).held = m.held /\ Linked(m, t, i).page = m.page
  BY <1>1, <1>2 DEF Places, SameElse
<1>. QED
  BY <1>2, <1>3

(* In g a fresh, empty table hangs from entry i of table t.                *)
Hangs(m, g, t, i) ==
  /\ g.page \in Pool \ m.held
  /\ g.held = m.held \cup {g.page}
  /\ g.mem[g.page] = Zero
  /\ g.mem[t][i] = LinkTo(g.page)
  /\ \A x \in m.held, j \in Index : x # t \/ j # i => g.mem[x][j] = m.mem[x][j]

(* A level that is made hangs, fresh and empty, from the entry that missed *)
(* it, unless pages ran out.                                               *)
LEMMA NewLevelDoes ==
  ASSUME NEW m \in Places, NEW i \in Index
  PROVE  /\ new_level(m, i) \in Places
         /\ new_level(m, i).returned = m.returned
         /\ m.failed => new_level(m, i).failed
         /\ m.page \in m.held /\ ~ new_level(m, i).failed
              => Hangs(m, new_level(m, i), m.page, i)
<1>. DEFINE a == alloc_pmm(m)
            z == Zeroed(a)
            g == new_level(m, i)
<1>1. g = Linked(z, m.page, i)
  BY DEF new_level
<1>2. /\ a \in Places /\ a.mem = m.mem /\ a.returned = m.returned
      /\ m.failed => a.failed
      /\ ~ a.failed => a.page \in Pool \ m.held /\ a.held = m.held \cup {a.page}
  <2>1. m \in Starts
    BY DEF Places, Starts
  <2>. QED
    BY <2>1, AllocDoes
<1>3. m.page \in Pool
  BY DEF Places
<1>. HIDE DEF a
<1>4. /\ z \in Places /\ SameElse(a, z) /\ z.held = a.held /\ z.page = a.page
      /\ z.mem[a.page] = Zero
      /\ \A x \in Pool \ {a.page} : z.mem[x] = a.mem[x]
  BY <1>2, ZeroedDoes
<1>. HIDE DEF z, g
<1>5. /\ g \in Places /\ SameElse(z, g) /\ g.held = z.held /\ g.page = z.page
      /\ g.mem[m.page][i] = LinkTo(z.page)
      /\ \A x \in Pool, j \in Index : x # m.page \/ j # i => g.mem[x][j] = z.mem[x][j]
  <2>. DEFINE t == m.page
  <2>1. t \in Pool /\ g = Linked(z, t, i) /\ z \in Places
    BY <1>1, <1>3, <1>4
  <2>. HIDE DEF t
  <2>2. /\ g \in Places /\ SameElse(z, g) /\ g.held = z.held /\ g.page = z.page
        /\ g.mem[t][i] = LinkTo(z.page)
        /\ \A x \in Pool, j \in Index : x # t \/ j # i => g.mem[x][j] = z.mem[x][j]
    BY <2>1, LinkedDoes
  <2>. QED
    BY <2>2, Zenon DEF t
<1>6. /\ g.failed = a.failed /\ g.returned = m.returned /\ g.page = a.page
      /\ g.held = a.held
  BY <1>2, <1>4, <1>5, Zenon DEF SameElse
<1>7. ASSUME m.page \in m.held, ~ g.failed PROVE Hangs(m, g, m.page, i)
  <2>1. g.page \in Pool \ m.held /\ g.held = m.held \cup {g.page} /\ m.held \subseteq Pool
    BY <1>2, <1>6, <1>7 DEF Places
  <2>2. g.page # m.page
    BY <2>1, <1>7
  <2>3. g.mem[g.page] = Zero
    <3>1. \A j \in Index : g.mem[g.page][j] = Zero[j]
      BY <1>2, <1>4, <1>5, <1>6, <2>1, <2>2
    <3>2. g.mem[g.page] \in Tables /\ Zero \in Tables
      BY <1>5, <2>1, NoneIsAbsent DEF Places, Memories
    <3>. QED
      BY <3>1, <3>2 DEF Tables
  <2>4. \A x \in m.held, j \in Index : x # m.page \/ j # i => g.mem[x][j] = m.mem[x][j]
    BY <1>2, <1>4, <1>5, <1>6, <2>1
  <2>. QED
    BY <1>4, <1>5, <1>6, <2>1, <2>3, <2>4 DEF Hangs
<1>. QED
  BY <1>2, <1>5, <1>6, <1>7 DEF g

-----------------------------------------------------------------------------
(* A fresh table in a forest.                                              *)
LEMMA LeadsToOneMore ==
  ASSUME NEW m, NEW g, NEW T, NEW N, NEW t \in T, NEW i \in Index, NEW p \in Pool \ N,
         Leads(m, T, N), ~ Present(m[t][i]), g[t][i] = LinkTo(p),
         \A x \in T, j \in Index : x # t \/ j # i => g[x][j] = m[x][j]
  PROVE  Leads(g, T, N \cup {p})
<1>1. Present(g[t][i]) /\ g[t][i].frame = p
  BY LinkIsPresent
<1>2. \A x \in T, j \in Index : Present(g[x][j]) => g[x][j].frame \in N \cup {p}
  BY <1>1 DEF Leads
<1>3. \A n \in N \cup {p} : \E x \in T, j \in Index : Present(g[x][j]) /\ g[x][j].frame = n
  <2>1. ASSUME NEW n \in N
        PROVE  \E x \in T, j \in Index : Present(g[x][j]) /\ g[x][j].frame = n
    <3>1. PICK x \in T : \E j \in Index : Present(m[x][j]) /\ m[x][j].frame = n
      BY DEF Leads
    <3>2. PICK j \in Index : Present(m[x][j]) /\ m[x][j].frame = n
      BY <3>1
    <3>3. x # t \/ j # i
      BY <3>2
    <3>. QED
      BY <3>2, <3>3
  <2>. QED
    BY <1>1, <2>1
<1>4. ASSUME NEW x \in T, NEW y \in T, NEW j \in Index, NEW k \in Index,
             Present(g[x][j]), Present(g[y][k]), g[x][j].frame = g[y][k].frame
      PROVE  x = y /\ j = k
  <2>1. CASE (x # t \/ j # i) /\ (y # t \/ k # i)
    <3>1. g[x][j] = m[x][j] /\ g[y][k] = m[y][k]
      BY <2>1
    <3>. QED
      BY <1>4, <3>1 DEF Leads
  <2>2. CASE x = t /\ j = i /\ (y # t \/ k # i)
    <3>1. g[y][k] = m[y][k] /\ m[y][k].frame \in N /\ g[x][j].frame = p
      BY <1>1, <1>4, <2>2 DEF Leads
    <3>. QED
      BY <1>4, <3>1
  <2>3. CASE (x # t \/ j # i) /\ y = t /\ k = i
    <3>1. g[x][j] = m[x][j] /\ m[x][j].frame \in N /\ g[y][k].frame = p
      BY <1>1, <1>4, <2>3 DEF Leads
    <3>. QED
      BY <1>4, <3>1
  <2>. QED
    BY <2>1, <2>2, <2>3
<1>. QED
  BY <1>2, <1>3, <1>4 DEF Leads

(* An empty table more leads nowhere: a level still leads one to one to    *)
(* the next.                                                               *)
LEMMA LeadsFromOneMore ==
  ASSUME NEW m, NEW g, NEW T, NEW N, NEW p, p \notin T, g[p] = Zero, Leads(m, T, N),
         \A x \in T, j \in Index : g[x][j] = m[x][j]
  PROVE  Leads(g, T \cup {p}, N)
<1>1. \A j \in Index : ~ Present(g[p][j])
  BY NoneIsAbsent
<1>2. \A x \in T \cup {p}, j \in Index : Present(g[x][j]) => x \in T /\ g[x][j] = m[x][j]
  BY <1>1
<1>3. \A x \in T \cup {p}, j \in Index : Present(g[x][j]) => g[x][j].frame \in N
  BY <1>2 DEF Leads
<1>4. ASSUME NEW n \in N
      PROVE  \E x \in T \cup {p}, j \in Index : Present(g[x][j]) /\ g[x][j].frame = n
  <2>1. PICK x \in T : \E j \in Index : Present(m[x][j]) /\ m[x][j].frame = n
    BY DEF Leads
  <2>. QED
    BY <2>1
<1>5. \A x, y \in T \cup {p}, j, k \in Index :
        Present(g[x][j]) /\ Present(g[y][k]) /\ g[x][j].frame = g[y][k].frame => x = y /\ j = k
  <2>. SUFFICES ASSUME NEW x \in T \cup {p}, NEW y \in T \cup {p}, NEW j \in Index, NEW k \in Index,
                       Present(g[x][j]), Present(g[y][k]), g[x][j].frame = g[y][k].frame
                PROVE  x = y /\ j = k
    OBVIOUS
  <2>1. x \in T /\ y \in T /\ g[x][j] = m[x][j] /\ g[y][k] = m[y][k]
    BY <1>2
  <2>. QED
    BY <2>1 DEF Leads
<1>. QED
  BY <1>3, <1>4, <1>5 DEF Leads

(* Tables that are left alone lead where they led.                         *)
LEMMA LeadsStill ==
  ASSUME NEW m, NEW g, NEW T, NEW N, Leads(m, T, N),
         \A x \in T, j \in Index : g[x][j] = m[x][j]
  PROVE  Leads(g, T, N)
BY DEF Leads

Under(L, k, p) == [L EXCEPT ![k-1] = @ \cup {p}]

(* A page put under level k joins level k-1 and no other.                  *)
LEMMA UnderDoes ==
  ASSUME NEW L \in Levels, NEW k \in 1 .. 3, NEW p \in Pool
  PROVE  /\ Under(L, k, p) \in Levels
         /\ Under(L, k, p)[k-1] = L[k-1] \cup {p}
         /\ \A j \in 0 .. 3 : j # k-1 => Under(L, k, p)[j] = L[j]
         /\ Under(L, k, p)[3] = L[3]
BY DEF Under, Levels

(* Everything in a forest has been granted.                                *)
LEMMA TablesAreHeld ==
  ASSUME NEW m, NEW granted, NEW L, NEW D, Forest(m, granted, L, D)
  PROVE  (\A k \in 0 .. 3 : L[k] \subseteq granted) /\ D \subseteq granted
<1>1. \A k \in 0 .. 3 : k = 0 \/ k = 1 \/ k = 2 \/ k = 3
  OBVIOUS
<1>. QED
  BY <1>1, Zenon DEF Forest

(* A fresh table hung from an absent entry leaves a forest.                *)
LEMMA HangingKeepsForest ==
  ASSUME NEW m \in Places, NEW g \in Places, NEW L \in Levels, NEW D \in SUBSET Pool,
         Forest(m.mem, m.held, L, D), NEW k \in 1 .. 3, NEW t \in L[k], NEW i \in Index,
         ~ Present(m.mem[t][i]), Hangs(m, g, t, i)
  PROVE  Forest(g.mem, g.held, Under(L, k, g.page), D)
<1>. DEFINE p == g.page
            U == Under(L, k, p)
<1>1. p \in Pool \ m.held /\ g.held = m.held \cup {p} /\ g.mem[p] = Zero
  BY DEF Hangs
<1>2. /\ U \in Levels /\ U[k-1] = L[k-1] \cup {p}
      /\ \A j \in 0 .. 3 : j # k-1 => U[j] = L[j]
  BY <1>1, UnderDoes
<1>3. (\A j \in 0 .. 3 : L[j] \subseteq m.held) /\ D \subseteq m.held
  BY TablesAreHeld
<1>4. /\ \A j \in 1 .. 3 : Leads(m.mem, L[j], L[j-1])
      /\ \A a, b \in 0 .. 3 : a # b => L[a] \cap L[b] = {}
      /\ \A j \in 0 .. 3 : L[j] \cap D = {}
      /\ m.held = L[0] \cup L[1] \cup L[2] \cup L[3] \cup D
  BY DEF Forest
<1>5. \A j \in 0 .. 3 : j # k => \A x \in L[j], n \in Index : g.mem[x][n] = m.mem[x][n]
  <2>1. \A j \in 0 .. 3 : j # k => t \notin L[j]
    BY <1>4
  <2>. QED
    BY <1>3, <2>1 DEF Hangs
<1>. HIDE DEF p, U
<1>6. ASSUME NEW j \in 1 .. 3 PROVE Leads(g.mem, U[j], U[j-1])
  <2>1. CASE j = k
    <3>1. p \notin L[j-1] /\ U[j] = L[j] /\ U[j-1] = L[j-1] \cup {p}
      BY <1>1, <1>2, <1>3, <2>1
    <3>2. g.mem[t][i] = LinkTo(p)
      BY DEF Hangs, p
    <3>3. \A x \in L[j], n \in Index : x # t \/ n # i => g.mem[x][n] = m.mem[x][n]
      BY <1>3 DEF Hangs
    <3>4. t \in L[j] /\ Leads(m.mem, L[j], L[j-1]) /\ p \in Pool \ L[j-1]
      BY <1>1, <1>4, <2>1, <3>1
    <3>5. ~ Present(m.mem[t][i])
      OBVIOUS
    <3>. DEFINE T == L[j]
                N == L[j-1]
                old == m.mem
                new == g.mem
    <3>6. /\ t \in T /\ p \in Pool \ N /\ Leads(old, T, N) /\ ~ Present(old[t][i])
          /\ new[t][i] = LinkTo(p)
          /\ \A x \in T, n \in Index : x # t \/ n # i => new[x][n] = old[x][n]
      BY <3>2, <3>3, <3>4, <3>5
    <3>. HIDE DEF T, N, old, new
    <3>7. Leads(new, T, N \cup {p})
      BY <3>6, LeadsToOneMore
    <3>. QED
      BY <3>1, <3>7 DEF T, N, new
  <2>2. CASE j = k - 1
    <3>1. p \notin L[j] /\ U[j] = L[j] \cup {p} /\ U[j-1] = L[j-1]
      BY <1>1, <1>2, <1>3, <2>2
    <3>2. \A x \in L[j], n \in Index : g.mem[x][n] = m.mem[x][n]
      BY <1>5, <2>2
    <3>3. Leads(m.mem, L[j], L[j-1])
      BY <1>4
    <3>. QED
      BY <1>1, <3>1, <3>2, <3>3, LeadsFromOneMore
  <2>3. CASE j # k /\ j # k - 1
    <3>1. U[j] = L[j] /\ U[j-1] = L[j-1]
      BY <1>2, <2>3
    <3>2. \A x \in L[j], n \in Index : g.mem[x][n] = m.mem[x][n]
      BY <1>5, <2>3
    <3>3. Leads(m.mem, L[j], L[j-1])
      BY <1>4
    <3>. QED
      BY <3>1, <3>2, <3>3, LeadsStill
  <2>. QED
    BY <2>1, <2>2, <2>3
<1>7. \A j \in 0 .. 3 : U[j] = L[j] \/ (j = k-1 /\ U[j] = L[j] \cup {p})
  BY <1>2
<1>8. \A a, b \in 0 .. 3 : a # b => U[a] \cap U[b] = {}
  BY <1>1, <1>3, <1>4, <1>7
<1>9. \A j \in 0 .. 3 : U[j] \cap D = {}
  BY <1>1, <1>3, <1>4, <1>7
<1>10. g.held = U[0] \cup U[1] \cup U[2] \cup U[3] \cup D
  <2>1. \A j \in 0 .. 3 : L[j] \subseteq U[j] /\ U[j] \subseteq L[j] \cup {p}
    BY <1>7
  <2>2. p \in U[0] \cup U[1] \cup U[2] \cup U[3]
    <3>1. p \in U[k-1] /\ (k - 1 = 0 \/ k - 1 = 1 \/ k - 1 = 2)
      BY <1>2
    <3>. QED
      BY <3>1
  <2>. QED
    BY <1>1, <1>4, <2>1, <2>2
<1>. QED
  BY <1>6, <1>8, <1>9, <1>10 DEF Forest, U, p

(* No space translates differently: the walk ended at the entry where the  *)
(* table hangs now, and ends in the empty table.                           *)
Grew(e, f, p) == f = e \/ (~ Present(e) /\ f = LinkTo(p))

(* Two walks of which one has grown by a table p stay so at each step:     *)
(* they meet the same entry, or none and an empty p.                       *)
LEMMA GrewBelow ==
  ASSUME NEW m, NEW g, NEW T, NEW p \in Pool, g[p] = Zero, NEW n \in Index,
         NEW e, NEW f, Grew(e, f, p), Present(e) => e.frame \in T,
         \A x \in T : Grew(m[x][n], g[x][n], p)
  PROVE  Grew(StepIn(m, e, n), StepIn(g, f, n), p)
<1>1. CASE f = e
  BY <1>1 DEF StepIn, Grew
<1>2. CASE ~ Present(e) /\ f = LinkTo(p)
  <2>1. StepIn(m, e, n) = None
    BY <1>2 DEF StepIn
  <2>2. StepIn(g, f, n) = Zero[n]
    BY <1>2, LinkIsPresent DEF StepIn
  <2>. QED
    BY <2>1, <2>2, NoneIsAbsent DEF Grew
<1>. QED
  BY <1>1, <1>2 DEF Grew

(* Hanging a fresh table changes no translation.                           *)
LEMMA HangingKeepsMaps ==
  ASSUME NEW m \in Places, NEW g \in Places, NEW L \in Levels, NEW D \in SUBSET Pool,
         Forest(m.mem, m.held, L, D), NEW k \in 1 .. 3, NEW t \in L[k], NEW i \in Index,
         ~ Present(m.mem[t][i]), Hangs(m, g, t, i)
  PROVE  SameMaps(m.mem, g.mem, L[3])
<1>. DEFINE p == g.page
            old == m.mem
            new == g.mem
<1>1. p \in Pool /\ new[p] = Zero
  BY DEF Hangs
<1>2. \A j \in 0 .. 3 : L[j] \subseteq m.held
  BY TablesAreHeld
<1>3. \A x \in m.held, n \in Index : Grew(old[x][n], new[x][n], p)
  <2>1. \A x \in m.held, n \in Index : x # t \/ n # i => new[x][n] = old[x][n]
    BY DEF Hangs
  <2>2. ~ Present(old[t][i]) /\ new[t][i] = LinkTo(p)
    BY DEF Hangs
  <2>. HIDE DEF old, new, p
  <2>. QED
    BY <2>1, <2>2 DEF Grew
<1>4. \A x \in L[0], n \in Index : new[x][n] = old[x][n]
  <2>1. t \notin L[0]
    BY DEF Forest
  <2>. QED
    BY <1>2, <2>1 DEF Hangs
<1>5. old \in Memories /\ Forest(old, m.held, L, D)
  BY DEF Places
<1>. HIDE DEF p, old, new
<1>6. ASSUME NEW s \in L[3], NEW v \in Nat
      PROVE  Entry0(new, s, v) = Entry0(old, s, v)
  <2>. DEFINE e3 == Entry3(old, s, v)
              e2 == Entry2(old, s, v)
              e1 == Entry1(old, s, v)
              f3 == Entry3(new, s, v)
              f2 == Entry2(new, s, v)
              f1 == Entry1(new, s, v)
              i2 == entry(v, 2)
              i1 == entry(v, 1)
              i0 == entry(v, 0)
  <2>1. /\ Present(e3) => e3.frame \in L[2]
        /\ Present(e2) => e2.frame \in L[1]
        /\ Present(e1) => e1.frame \in L[0]
    BY <1>5, WalkStaysInForest
  <2>2. i2 \in Index /\ i1 \in Index /\ i0 \in Index
    BY Indices
  <2>3. Grew(e3, f3, p)
    BY <1>2, <1>3, Indices DEF Entry3
  <2>4. /\ e2 = StepIn(old, e3, i2) /\ f2 = StepIn(new, f3, i2)
        /\ e1 = StepIn(old, e2, i1) /\ f1 = StepIn(new, f2, i1)
        /\ Entry0(old, s, v) = StepIn(old, e1, i0) /\ Entry0(new, s, v) = StepIn(new, f1, i0)
    BY DEF Entry2, Entry1, Entry0
  <2>. HIDE DEF e3, e2, e1, f3, f2, f1, i2, i1, i0
  <2>5. Grew(e2, f2, p)
    <3>1. \A x \in L[2] : Grew(old[x][i2], new[x][i2], p)
      BY <1>2, <1>3, <2>2
    <3>. QED
      BY <1>1, <2>1, <2>2, <2>3, <2>4, <3>1, GrewBelow
  <2>6. Grew(e1, f1, p)
    <3>1. \A x \in L[1] : Grew(old[x][i1], new[x][i1], p)
      BY <1>2, <1>3, <2>2
    <3>. QED
      BY <1>1, <2>1, <2>2, <2>4, <2>5, <3>1, GrewBelow
  <2>7. StepIn(new, f1, i0) = StepIn(old, e1, i0)
    <3>1. CASE f1 = e1
      BY <1>4, <2>1, <2>2, <3>1 DEF StepIn
    <3>2. CASE ~ Present(e1) /\ f1 = LinkTo(p)
      <4>1. StepIn(old, e1, i0) = None
        BY <3>2 DEF StepIn
      <4>2. StepIn(new, f1, i0) = Zero[i0]
        BY <1>1, <3>2, LinkIsPresent DEF StepIn
      <4>. QED
        BY <2>2, <4>1, <4>2, NoneIsAbsent
    <3>. QED
      BY <2>6, <3>1, <3>2 DEF Grew
  <2>. QED
    BY <2>4, <2>7
<1>. QED
  BY <1>6 DEF SameMaps, old, new

(* Keeping translations composes.                                          *)
LEMMA SameMapsChain ==
  ASSUME NEW S, NEW a, NEW b, NEW c, SameMaps(a, b, S), SameMaps(b, c, S)
  PROVE  SameMaps(a, c, S)
BY DEF SameMaps

-----------------------------------------------------------------------------
(* The place is at a table of level k of a forest with the roots S, from   *)
(* which a place that is not failed came by keeping all translations.      *)
AtLevel(m, S, D, k) ==
  \E L \in Levels : L[3] = S /\ Forest(m.mem, m.held, L, D) /\ m.page \in L[k]

Sound(m, S, D) == Rooted(m.mem, m.held, S, D)

Kept(m, g, S, D) ==
  /\ g \in Places
  /\ m.failed => g.failed
  /\ ~ g.failed => /\ Sound(g, S, D)
                   /\ SameMaps(m.mem, g.mem, S)
                   /\ m.held \subseteq g.held

(* Keeping the forest and the translations composes.                       *)
LEMMA KeptChain ==
  ASSUME NEW S, NEW D, NEW a, NEW b, NEW c, Kept(a, b, S, D), Kept(b, c, S, D)
  PROVE  Kept(a, c, S, D)
BY SameMapsChain DEF Kept

(* Making a level keeps forest and translations, and leads down one level. *)
LEMMA NewLevelKeeps ==
  ASSUME NEW m \in Places, NEW S, NEW D \in SUBSET Pool, NEW k \in 1 .. 3,
         NEW i \in Index, AtLevel(m, S, D, k), ~ Present(m.mem[m.page][i])
  PROVE  /\ Kept(m, new_level(m, i), S, D)
         /\ ~ new_level(m, i).failed =>
              /\ AtLevel(new_level(m, i), S, D, k-1)
              /\ Hangs(m, new_level(m, i), m.page, i)
<1>. DEFINE g == new_level(m, i)
<1>1. PICK L \in Levels : L[3] = S /\ Forest(m.mem, m.held, L, D) /\ m.page \in L[k]
  BY DEF AtLevel
<1>2. m.page \in m.held
  BY <1>1, TablesAreHeld
<1>3. g \in Places /\ (m.failed => g.failed) /\ (~ g.failed => Hangs(m, g, m.page, i))
  BY <1>2, NewLevelDoes
<1>. HIDE DEF g
<1>4. ASSUME ~ g.failed
      PROVE  /\ AtLevel(g, S, D, k-1) /\ Sound(g, S, D) /\ SameMaps(m.mem, g.mem, S)
             /\ m.held \subseteq g.held
  <2>. DEFINE U == Under(L, k, g.page)
  <2>1. Hangs(m, g, m.page, i)
    BY <1>3, <1>4
  <2>2. g.page \in Pool /\ m.held \subseteq g.held
    BY <2>1 DEF Hangs
  <2>3. Forest(g.mem, g.held, U, D)
    BY <1>1, <1>3, <2>1, HangingKeepsForest
  <2>4. SameMaps(m.mem, g.mem, L[3])
    BY <1>1, <1>3, <2>1, HangingKeepsMaps
  <2>5. U \in Levels /\ U[3] = S /\ g.page \in U[k-1]
    BY <1>1, <2>2, UnderDoes
  <2>. HIDE DEF U
  <2>. QED
    BY <1>1, <2>2, <2>3, <2>4, <2>5 DEF AtLevel, Sound, Rooted
<1>. QED
  BY <1>3, <1>4 DEF g, Kept

(* A walk begins at its root, at the top level.                            *)
LEMMA FromDoes ==
  ASSUME NEW m \in Starts, NEW S, NEW D, NEW s \in S,
         m.failed \/ Sound(m, S, D), s \in Pool
  PROVE  /\ From(m, s).mem = m.mem /\ From(m, s).page = s
         /\ From(m, s).failed = m.failed /\ From(m, s).returned = FALSE
         /\ Kept(m, From(m, s), S, D)
         /\ ~ m.failed => AtLevel(From(m, s), S, D, 3)
<1>. DEFINE g == From(m, s)
<1>1. /\ g \in Places /\ g.mem = m.mem /\ g.held = m.held /\ g.failed = m.failed
      /\ g.page = s /\ g.returned = FALSE
  BY DEF From, Starts, Places
<1>. HIDE DEF g
<1>2. Kept(m, g, S, D)
  BY <1>1 DEF Kept, Sound, SameMaps
<1>3. ~ m.failed => AtLevel(g, S, D, 3)
  BY <1>1 DEF Sound, Rooted, AtLevel
<1>. QED
  BY <1>1, <1>2, <1>3 DEF g

(* The walk of the lookups ends early or in a fresh, empty table.          *)
LEMMA AbsentLevelKeeps ==
  ASSUME NEW m \in Places, NEW S, NEW D \in SUBSET Pool, NEW k \in 1 .. 3, NEW i \in Index,
         m.failed \/ (Sound(m, S, D) /\ (m.returned \/ AtLevel(m, S, D, k)))
  PROVE  /\ Kept(m, absent_level(m, i), S, D)
         /\ ~ absent_level(m, i).failed =>
              \/ absent_level(m, i).returned
              \/ /\ AtLevel(absent_level(m, i), S, D, k-1)
                 /\ absent_level(m, i).mem[absent_level(m, i).page] = Zero
<1>. DEFINE g == absent_level(m, i)
<1>1. CASE m.returned \/ Present(m.mem[m.page][i])
  <2>1. g = [m EXCEPT !.returned = TRUE]
    BY <1>1 DEF absent_level
  <2>2. /\ g \in Places /\ g.mem = m.mem /\ g.held = m.held /\ g.failed = m.failed
        /\ g.returned = TRUE
    BY <2>1 DEF Places
  <2>. HIDE DEF g
  <2>3. Kept(m, g, S, D)
    BY <2>2 DEF Kept, Sound, SameMaps
  <2>. QED
    BY <2>2, <2>3 DEF g
<1>2. CASE ~ (m.returned \/ Present(m.mem[m.page][i])) /\ ~ m.failed
  <2>1. g = new_level(m, i)
    BY <1>2 DEF absent_level
  <2>2. AtLevel(m, S, D, k) /\ ~ Present(m.mem[m.page][i])
    BY <1>2
  <2>3. /\ Kept(m, new_level(m, i), S, D)
        /\ ~ new_level(m, i).failed =>
             /\ AtLevel(new_level(m, i), S, D, k-1)
             /\ Hangs(m, new_level(m, i), m.page, i)
    BY <2>2, NewLevelKeeps
  <2>. HIDE DEF g
  <2>4. ~ g.failed => g.mem[g.page] = Zero
    BY <2>1, <2>3 DEF Hangs
  <2>. QED
    BY <2>1, <2>3, <2>4 DEF g
<1>3. CASE ~ (m.returned \/ Present(m.mem[m.page][i])) /\ m.failed
  <2>1. g = new_level(m, i)
    BY <1>3 DEF absent_level
  <2>2. g \in Places /\ g.failed
    BY <1>3, <2>1, NewLevelDoes
  <2>. HIDE DEF g
  <2>. QED
    BY <2>2 DEF g, Kept
<1>. QED
  BY <1>1, <1>2, <1>3

Walking(m, S, D, k) ==
  /\ m \in Places
  /\ m.failed \/ (Sound(m, S, D) /\ (m.returned \/ AtLevel(m, S, D, k)))

EndsEmpty(m) == m.failed \/ m.returned \/ m.mem[m.page] = Zero

(* One level of a lookup's walk keeps forest and translations, and ends at *)
(* an absent entry or in an empty table.                                   *)
LEMMA AbsentLevelWalks ==
  ASSUME NEW m, NEW S, NEW D \in SUBSET Pool, NEW k \in 1 .. 3, NEW i \in Index,
         Walking(m, S, D, k)
  PROVE  /\ Kept(m, absent_level(m, i), S, D)
         /\ Walking(absent_level(m, i), S, D, k-1)
         /\ EndsEmpty(absent_level(m, i))
<1>1. m \in Places /\ (m.failed \/ (Sound(m, S, D) /\ (m.returned \/ AtLevel(m, S, D, k))))
  BY DEF Walking
<1>. DEFINE g == absent_level(m, i)
<1>2. /\ Kept(m, g, S, D)
      /\ ~ g.failed => g.returned \/ (AtLevel(g, S, D, k-1) /\ g.mem[g.page] = Zero)
  BY <1>1, AbsentLevelKeeps
<1>. HIDE DEF g
<1>3. Walking(g, S, D, k-1) /\ EndsEmpty(g)
  BY <1>2 DEF Kept, Walking, EndsEmpty
<1>. QED
  BY <1>2, <1>3 DEF g

(* The lookups is_present_vmm and virt2phys keep forest and translations,  *)
(* and find every page absent: they turn back at a level that is present,  *)
(* and where one is missing they make it, empty.                           *)
LEMMA WalkKeeps ==
  ASSUME NEW m \in Starts, NEW S, NEW D \in SUBSET Pool, NEW s \in S, s \in Pool,
         m.failed \/ Sound(m, S, D), NEW v \in Nat
  PROVE  /\ Kept(m, walk(m, s, v), S, D)
         /\ walk(m, s, v).failed \/ ~ is_present_vmm(walk(m, s, v), v)
<1>. DEFINE i3 == entry(v, 3)
            i2 == entry(v, 2)
            i1 == entry(v, 1)
            a == From(m, s)
            b == absent_level(a, i3)
            c == absent_level(b, i2)
            g == absent_level(c, i1)
<1>1. i3 \in Index /\ i2 \in Index /\ i1 \in Index /\ entry(v, 0) \in Index
  BY Indices
<1>2. Kept(m, a, S, D) /\ a.failed = m.failed
  <2>1. Kept(m, a, S, D)
    BY FromDoes
  <2>2. a.failed = m.failed
    BY DEF From, Starts
  <2>. QED
    BY <2>1, <2>2
<1>3. ~ m.failed => AtLevel(a, S, D, 3)
  BY FromDoes
<1>4. g = walk(m, s, v)
  BY DEF walk
<1>. HIDE DEF i3, i2, i1, a
<1>5. Walking(a, S, D, 3)
  BY <1>2, <1>3 DEF Kept, Walking
<1>6. Kept(a, b, S, D) /\ Walking(b, S, D, 2)
  <2>1. Kept(a, b, S, D) /\ Walking(b, S, D, 3-1)
    BY <1>1, <1>5, AbsentLevelWalks
  <2>. HIDE DEF b
  <2>. QED
    BY <2>1
<1>. HIDE DEF b
<1>7. Kept(b, c, S, D) /\ Walking(c, S, D, 1)
  <2>1. Kept(b, c, S, D) /\ Walking(c, S, D, 2-1)
    BY <1>1, <1>6, AbsentLevelWalks
  <2>. HIDE DEF c
  <2>. QED
    BY <2>1
<1>. HIDE DEF c
<1>8. Kept(c, g, S, D) /\ EndsEmpty(g)
  BY <1>1, <1>7, AbsentLevelWalks
<1>. HIDE DEF g
<1>9. Kept(m, g, S, D)
  BY <1>2, <1>6, <1>7, <1>8, KeptChain
<1>10. ~ g.failed => ~ is_present_vmm(g, v)
  BY <1>1, <1>8, NoneIsAbsent DEF EndsEmpty, is_present_vmm, Found
<1>. QED
  BY <1>4, <1>9, <1>10

-----------------------------------------------------------------------------
(* map_vmm.  A page is reached in one way only.                            *)
LEMMA StepsMeet ==
  ASSUME NEW m, NEW T, NEW N, Leads(m, T, N), NEW i \in Index, NEW j \in Index,
         NEW e, Present(e) => e.frame \in T, NEW f, Present(f) => f.frame \in T,
         Present(StepIn(m, e, i)), Present(StepIn(m, f, j)),
         StepIn(m, e, i).frame = StepIn(m, f, j).frame
  PROVE  Present(e) /\ Present(f) /\ e.frame = f.frame /\ i = j
<1>1. Present(e) /\ Present(f)
  BY NoneIsAbsent DEF StepIn
<1>2. /\ StepIn(m, e, i) = m[e.frame][i] /\ e.frame \in T
      /\ StepIn(m, f, j) = m[f.frame][j] /\ f.frame \in T
  BY <1>1 DEF StepIn
<1>. QED
  BY <1>1, <1>2 DEF Leads

(* Walks that reach the same page table began at the same root, at         *)
(* addresses that differ in the last index alone: no two spaces share a    *)
(* table.                                                                  *)
LEMMA WalksMeet ==
  ASSUME NEW m \in Memories, NEW L \in Levels, NEW granted, NEW D,
         Forest(m, granted, L, D), NEW s \in L[3], NEW u \in L[3],
         NEW v \in Nat, NEW w \in Nat,
         Present(Entry1(m, s, v)), Present(Entry1(m, u, w)),
         Entry1(m, s, v).frame = Entry1(m, u, w).frame
  PROVE  s = u /\ \A level \in 1 .. 3 : entry(v, level) = entry(w, level)
<1>. DEFINE e3 == Entry3(m, s, v)
            e2 == Entry2(m, s, v)
            e1 == Entry1(m, s, v)
            f3 == Entry3(m, u, w)
            f2 == Entry2(m, u, w)
            f1 == Entry1(m, u, w)
            i3 == entry(v, 3)
            i2 == entry(v, 2)
            i1 == entry(v, 1)
            j3 == entry(w, 3)
            j2 == entry(w, 2)
            j1 == entry(w, 1)
<1>1. /\ Present(e3) => e3.frame \in L[2]
      /\ Present(e2) => e2.frame \in L[1]
      /\ Present(f3) => f3.frame \in L[2]
      /\ Present(f2) => f2.frame \in L[1]
  BY WalkStaysInForest
<1>2. /\ i3 \in Index /\ i2 \in Index /\ i1 \in Index
      /\ j3 \in Index /\ j2 \in Index /\ j1 \in Index
  BY Indices
<1>3. Leads(m, L[3], L[2]) /\ Leads(m, L[2], L[1]) /\ Leads(m, L[1], L[0])
  BY DEF Forest
<1>4. /\ e3 = m[s][i3] /\ f3 = m[u][j3]
      /\ e2 = StepIn(m, e3, i2) /\ f2 = StepIn(m, f3, j2)
      /\ e1 = StepIn(m, e2, i1) /\ f1 = StepIn(m, f2, j1)
  BY DEF Entry3, Entry2, Entry1
<1>5. Present(e1) /\ Present(f1) /\ e1.frame = f1.frame
  OBVIOUS
<1>. HIDE DEF e3, e2, e1, f3, f2, f1, i3, i2, i1, j3, j2, j1
<1>6. Present(e2) /\ Present(f2) /\ e2.frame = f2.frame /\ i1 = j1
  BY <1>1, <1>2, <1>3, <1>4, <1>5, StepsMeet
<1>7. Present(e3) /\ Present(f3) /\ e3.frame = f3.frame /\ i2 = j2
  BY <1>1, <1>2, <1>3, <1>4, <1>6, StepsMeet
<1>8. s = u /\ i3 = j3
  BY <1>2, <1>3, <1>4, <1>7 DEF Leads
<1>9. \A level \in 1 .. 3 : level = 1 \/ level = 2 \/ level = 3
  OBVIOUS
<1>. QED
  BY <1>6, <1>7, <1>8, <1>9 DEF i3, i2, i1, j3, j2, j1

SameEntries(v, w) == \A level \in 0 .. 3 : entry(v, level) = entry(w, level)

(* In g one page of one space of S is mapped to e; the rest is as in m.    *)
Mapped(m, g, S, s, v, e) ==
  \A u \in S, w \in Nat :
    Entry0(g, u, w) = IF u = s /\ SameEntries(v, w) THEN e ELSE Entry0(m, u, w)

(* A store into the table the place is at changes that entry alone.        *)
LEMMA StoredDoes ==
  ASSUME NEW m \in Places, NEW i \in Index, NEW e \in Entries
  PROVE  /\ Stored(m, i, e) \in Places /\ SameElse(m, Stored(m, i, e))
         /\ Stored(m, i, e).held = m.held
         /\ Stored(m, i, e).mem[m.page][i] = e
         /\ \A x \in Pool, j \in Index :
              x # m.page \/ j # i => Stored(m, i, e).mem[x][j] = m.mem[x][j]
<1>. DEFINE g == With(m.mem, m.page, i, e)
<1>1. Stored(m, i, e) = [m EXCEPT !.mem = g]
  BY DEF Stored, With
<1>2. /\ g \in Memories /\ g[m.page][i] = e
      /\ \A x \in Pool, j \in Index : x # m.page \/ j # i => g[x][j] = m.mem[x][j]
  <2>1. m.mem \in Memories /\ m.page \in Pool
    BY DEF Places
  <2>. QED
    BY <2>1, EntryReplaced
<1>. HIDE DEF g
<1>3. /\ Stored(m, i, e).mem = g /\ Stored(m, i, e) \in Places
      /\ SameElse(m, Stored(m, i, e)) /\ Stored(m, i, e).held = m.held
  BY <1>1, <1>2 DEF Places, SameElse
<1>. QED
  BY <1>2, <1>3

(* A store into a page table changes the translation of one page in one    *)
(* space, and leaves a forest.                                             *)
LEMMA StoringMaps ==
  ASSUME NEW m \in Memories, NEW g \in Memories, NEW L \in Levels, NEW granted, NEW D,
         Forest(m, granted, L, D), NEW s \in L[3], NEW v \in Nat, NEW e \in Entries,
         NEW t \in L[0], Present(Entry1(m, s, v)), Entry1(m, s, v).frame = t,
         g[t][entry(v, 0)] = e,
         \A x \in Pool, j \in Index : x # t \/ j # entry(v, 0) => g[x][j] = m[x][j]
  PROVE  Forest(g, granted, L, D) /\ Mapped(m, g, L[3], s, v, e)
<1>1. \A k \in 0 .. 3 : L[k] \in SUBSET Pool
  BY DEF Levels
<1>2. \A k \in 1 .. 3 : t \notin L[k]
  BY DEF Forest
<1>3. \A k \in 1 .. 3 : \A x \in L[k], j \in Index : g[x][j] = m[x][j]
  BY <1>1, <1>2
<1>4. Forest(g, granted, L, D)
  <2>1. ASSUME NEW k \in 1 .. 3 PROVE Leads(g, L[k], L[k-1])
    <3>. DEFINE T == L[k]
                N == L[k-1]
    <3>1. Leads(m, T, N) /\ \A x \in T, j \in Index : g[x][j] = m[x][j]
      BY <1>3 DEF Forest
    <3>. HIDE DEF T, N
    <3>2. Leads(g, T, N)
      BY <3>1, LeadsStill
    <3>. QED
      BY <3>2 DEF T, N
  <2>. QED
    BY <2>1 DEF Forest
<1>5. ASSUME NEW u \in L[3], NEW w \in Nat
      PROVE  Entry1(g, u, w) = Entry1(m, u, w)
  <2>1. /\ Present(Entry3(m, u, w)) => Entry3(m, u, w).frame \in L[2]
        /\ Present(Entry2(m, u, w)) => Entry2(m, u, w).frame \in L[1]
    BY WalkStaysInForest
  <2>2. entry(w, 3) \in Index /\ entry(w, 2) \in Index /\ entry(w, 1) \in Index
    BY Indices
  <2>3. Entry3(g, u, w) = Entry3(m, u, w)
    BY <1>3, <2>2 DEF Entry3
  <2>4. Entry2(g, u, w) = Entry2(m, u, w)
    BY <1>3, <2>1, <2>2, <2>3 DEF Entry2, StepIn
  <2>. QED
    BY <1>3, <2>1, <2>2, <2>4 DEF Entry1, StepIn
<1>6. ASSUME NEW u \in L[3], NEW w \in Nat
      PROVE  Entry0(g, u, w) = IF u = s /\ SameEntries(v, w) THEN e ELSE Entry0(m, u, w)
  <2>. DEFINE f == Entry1(m, u, w)
              j == entry(w, 0)
  <2>1. Entry0(g, u, w) = StepIn(g, f, j) /\ Entry0(m, u, w) = StepIn(m, f, j)
    BY <1>5 DEF Entry0
  <2>2. j \in Index /\ entry(v, 0) \in Index
    BY Indices
  <2>3. Present(f) => f.frame \in L[0] /\ f.frame \in Pool
    BY <1>1, WalkStaysInForest
  <2>4. u = s /\ SameEntries(v, w) => f = Entry1(m, s, v) /\ j = entry(v, 0)
    BY DEF SameEntries, Entry1, Entry2, Entry3
  <2>5. Present(f) /\ f.frame = t /\ j = entry(v, 0) => u = s /\ SameEntries(v, w)
    <3>. SUFFICES ASSUME Present(f), f.frame = t, j = entry(v, 0)
                  PROVE  u = s /\ SameEntries(v, w)
      OBVIOUS
    <3>1. s = u /\ \A level \in 1 .. 3 : entry(v, level) = entry(w, level)
      BY WalksMeet
    <3>. QED
      BY <3>1 DEF SameEntries
  <2>. HIDE DEF f, j
  <2>6. CASE u = s /\ SameEntries(v, w)
    BY <2>1, <2>4, <2>6 DEF StepIn
  <2>7. CASE ~ (u = s /\ SameEntries(v, w))
    BY <2>1, <2>2, <2>3, <2>5, <2>7 DEF StepIn
  <2>. QED
    BY <2>6, <2>7
<1>. QED
  BY <1>4, <1>6 DEF Mapped

(* Entries that are present stay as they are.                              *)
LinksStay(m, g) ==
  \A x \in m.held, j \in Index : Present(m.mem[x][j]) => g.mem[x][j] = m.mem[x][j]

(* The entry leads to the table the place g is at.                         *)
LeadsHere(g, t, i) == Present(g.mem[t][i]) /\ g.mem[t][i].frame = g.page

(* get_next_level keeps forest and translations, and leads down one level, *)
(* whether the table was there or is made.                                 *)
LEMMA NextLevelKeeps ==
  ASSUME NEW m \in Places, ~ m.failed, NEW S, NEW D \in SUBSET Pool, NEW k \in 1 .. 3,
         NEW i \in Index, AtLevel(m, S, D, k)
  PROVE  /\ Kept(m, get_next_level(m, i), S, D)
         /\ ~ get_next_level(m, i).failed =>
              /\ AtLevel(get_next_level(m, i), S, D, k-1)
              /\ LinksStay(m, get_next_level(m, i))
              /\ LeadsHere(get_next_level(m, i), m.page, i)
<1>. DEFINE g == get_next_level(m, i)
<1>1. PICK L \in Levels : L[3] = S /\ Forest(m.mem, m.held, L, D) /\ m.page \in L[k]
  BY DEF AtLevel
<1>2. CASE Present(m.mem[m.page][i])
  <2>. DEFINE next == m.mem[m.page][i].frame
  <2>1. next \in L[k-1] /\ next \in Pool
    <3>1. Leads(m.mem, L[k], L[k-1]) /\ L[k-1] \in SUBSET Pool
      BY <1>1 DEF Forest, Levels
    <3>. QED
      BY <1>1, <1>2, <3>1 DEF Leads
  <2>2. g = [m EXCEPT !.page = next]
    BY <1>2 DEF get_next_level
  <2>. HIDE DEF g, next
  <2>3. g \in Places /\ g.mem = m.mem /\ g.held = m.held /\ ~ g.failed /\ g.page = next
    BY <2>1, <2>2 DEF Places
  <2>4. Kept(m, g, S, D)
    BY <1>1, <2>3 DEF Kept, Sound, Rooted, SameMaps
  <2>5. AtLevel(g, S, D, k-1)
    BY <1>1, <2>1, <2>3 DEF AtLevel
  <2>6. LinksStay(m, g)
    BY <2>3 DEF LinksStay
  <2>7. LeadsHere(g, m.page, i)
    BY <1>2, <2>3 DEF LeadsHere, next
  <2>. QED
    BY <2>4, <2>5, <2>6, <2>7 DEF g
<1>3. CASE ~ Present(m.mem[m.page][i])
  <2>1. g = new_level(m, i)
    BY <1>3 DEF get_next_level
  <2>2. /\ Kept(m, new_level(m, i), S, D)
        /\ ~ new_level(m, i).failed =>
             /\ AtLevel(new_level(m, i), S, D, k-1)
             /\ Hangs(m, new_level(m, i), m.page, i)
    BY <1>3, NewLevelKeeps
  <2>. HIDE DEF g
  <2>3. ASSUME ~ g.failed PROVE LinksStay(m, g) /\ LeadsHere(g, m.page, i)
    <3>1. Hangs(m, g, m.page, i)
      BY <2>1, <2>2, <2>3
    <3>2. LinksStay(m, g)
      BY <1>3, <3>1 DEF Hangs, LinksStay
    <3>3. LeadsHere(g, m.page, i)
      BY <3>1, LinkIsPresent DEF Hangs, LeadsHere
    <3>. QED
      BY <3>2, <3>3
  <2>. QED
    BY <2>1, <2>2, <2>3 DEF g
<1>. QED
  BY <1>2, <1>3

(* A failed assert stays so, wherever the code would write after it.       *)
Fields == {"mem", "held", "failed", "page", "returned"}

(* A call that ran out of pages does not recover.                          *)
LEMMA FailureStays ==
  ASSUME NEW m, DOMAIN m = Fields, NEW i
  PROVE  /\ DOMAIN get_next_level(m, i) = Fields
         /\ m.failed => get_next_level(m, i).failed
<1>1. ASSUME NEW n, DOMAIN n = Fields
      PROVE  /\ DOMAIN alloc_pmm(n) = Fields /\ (n.failed => alloc_pmm(n).failed)
             /\ DOMAIN Zeroed(n) = Fields /\ (n.failed => Zeroed(n).failed)
  BY <1>1 DEF alloc_pmm, Zeroed, Fields
<1>2. ASSUME NEW n, DOMAIN n = Fields, NEW t
      PROVE  DOMAIN Linked(n, t, i) = Fields /\ (n.failed => Linked(n, t, i).failed)
  BY <1>2 DEF Linked, Fields
<1>3. DOMAIN new_level(m, i) = Fields /\ (m.failed => new_level(m, i).failed)
  <2>. DEFINE a == alloc_pmm(m)
              z == Zeroed(a)
  <2>1. DOMAIN a = Fields /\ (m.failed => a.failed)
    BY <1>1
  <2>. HIDE DEF a
  <2>2. DOMAIN z = Fields /\ (m.failed => z.failed)
    BY <1>1, <2>1
  <2>3. new_level(m, i) = Linked(z, m.page, i)
    BY DEF new_level, a
  <2>. HIDE DEF z
  <2>. QED
    BY <1>2, <2>2, <2>3
<1>4. CASE Present(m.mem[m.page][i])
  BY <1>4 DEF get_next_level, Fields
<1>5. CASE ~ Present(m.mem[m.page][i])
  BY <1>3, <1>5 DEF get_next_level
<1>. QED
  BY <1>4, <1>5

(* What map_vmm stores is a present entry with the frame it was given.     *)
LEMMA LeafIsEntry ==
  ASSUME NEW frame \in Frames, NEW is_user
  PROVE  /\ Leaf(frame, is_user) \in Entries /\ Present(Leaf(frame, is_user))
         /\ Leaf(frame, is_user).frame = frame /\ Leaf(frame, is_user) # None
<1>1. /\ Leaf(frame, is_user) \in Entries /\ Present(Leaf(frame, is_user))
      /\ Leaf(frame, is_user).frame = frame
  BY DEF Leaf, Entries, Flags, Present
<1>. QED
  BY <1>1, NoneIsAbsent

(* The path to a page, once each level leads to the next.                  *)
LEMMA PathIsWalked ==
  ASSUME NEW m, NEW s, NEW b, NEW c, NEW t, NEW v,
         Present(m[s][entry(v, 3)]), m[s][entry(v, 3)].frame = b,
         Present(m[b][entry(v, 2)]), m[b][entry(v, 2)].frame = c,
         Present(m[c][entry(v, 1)]), m[c][entry(v, 1)].frame = t
  PROVE  Present(Entry1(m, s, v)) /\ Entry1(m, s, v).frame = t
<1>1. Entry3(m, s, v) = m[s][entry(v, 3)]
  BY DEF Entry3
<1>2. Entry2(m, s, v) = m[b][entry(v, 2)]
  BY <1>1 DEF Entry2, StepIn
<1>3. Entry1(m, s, v) = m[c][entry(v, 1)]
  BY <1>2 DEF Entry1, StepIn
<1>. QED
  BY <1>3

(* Keeping translations before a page is mapped leaves one page mapped.    *)
LEMMA SameMapsMapped ==
  ASSUME NEW a, NEW b, NEW c, NEW S, NEW s, NEW v, NEW e,
         SameMaps(a, b, S), Mapped(b, c, S, s, v, e)
  PROVE  Mapped(a, c, S, s, v, e)
BY DEF SameMaps, Mapped

Maps(m, g, S, D, s, v, e) ==
  /\ ~ m.failed /\ g.mem \in Memories /\ g.held \in SUBSET Pool
  /\ Sound(g, S, D) /\ m.held \subseteq g.held
  /\ Mapped(m.mem, g.mem, S, s, v, e)

(* map_vmm, unless pages run out, maps that page of that space to the      *)
(* frame, changes no other translation and keeps the forest.               *)
LEMMA MapDoes ==
  ASSUME NEW m \in Starts, NEW S, NEW D \in SUBSET Pool, NEW s \in S, s \in Pool,
         m.failed \/ Sound(m, S, D), NEW v \in Nat, NEW frame \in Frames, NEW is_user,
         ~ map_vmm(m, s, frame, v, is_user).failed
  PROVE  Maps(m, map_vmm(m, s, frame, v, is_user), S, D, s, v, Leaf(frame, is_user))
<1>. DEFINE i3 == entry(v, 3)
            i2 == entry(v, 2)
            i1 == entry(v, 1)
            i0 == entry(v, 0)
            e == Leaf(frame, is_user)
            a == From(m, s)
            b == get_next_level(a, i3)
            c == get_next_level(b, i2)
            d == get_next_level(c, i1)
            g == Stored(d, i0, e)
<1>1. i3 \in Index /\ i2 \in Index /\ i1 \in Index /\ i0 \in Index /\ e \in Entries
  BY Indices, LeafIsEntry
<1>2. g = map_vmm(m, s, frame, v, is_user)
  BY DEF map_vmm
<1>3. a.failed = m.failed /\ a.mem = m.mem /\ a.held = m.held /\ a.page = s
      /\ DOMAIN a = Fields
  BY DEF From, Starts, Fields
<1>4. DOMAIN a = Fields /\ DOMAIN b = Fields /\ DOMAIN c = Fields /\ DOMAIN d = Fields
  <2>. HIDE DEF a, i1, i2, i3
  <2>1. DOMAIN b = Fields
    BY <1>3, FailureStays
  <2>. HIDE DEF b
  <2>2. DOMAIN c = Fields
    BY <2>1, FailureStays
  <2>. HIDE DEF c
  <2>3. DOMAIN d = Fields
    BY <2>2, FailureStays
  <2>. QED
    BY <1>3, <2>1, <2>2, <2>3
<1>5. /\ a.failed => b.failed
      /\ b.failed => c.failed
      /\ c.failed => d.failed
  <2>. HIDE DEF a, i1, i2, i3
  <2>1. a.failed => b.failed
    BY <1>4, FailureStays
  <2>. HIDE DEF b
  <2>2. b.failed => c.failed
    BY <1>4, FailureStays
  <2>. HIDE DEF c
  <2>3. c.failed => d.failed
    BY <1>4, FailureStays
  <2>. QED
    BY <2>1, <2>2, <2>3
<1>6. Kept(m, a, S, D)
  BY FromDoes
<1>7. ~ m.failed => AtLevel(a, S, D, 3)
  BY FromDoes
<1>. HIDE DEF i3, i2, i1, i0, e, a
<1>8. g.failed = d.failed
  <2>. HIDE DEF d
  <2>. QED
    BY <1>4 DEF Stored, Fields
<1>9. ~ d.failed /\ ~ c.failed /\ ~ b.failed /\ ~ a.failed /\ ~ m.failed
  <2>. HIDE DEF g
  <2>1. ~ g.failed
    BY <1>2
  <2>. HIDE DEF b, c, d
  <2>. QED
    BY <1>3, <1>5, <1>8, <2>1
<1>10. a \in Places /\ AtLevel(a, S, D, 3)
  BY <1>6, <1>7, <1>9 DEF Kept
<1>11. /\ Kept(a, b, S, D) /\ AtLevel(b, S, D, 2)
       /\ LinksStay(a, b) /\ LeadsHere(b, s, i3)
  <2>1. /\ Kept(a, b, S, D)
        /\ ~ b.failed => AtLevel(b, S, D, 3-1) /\ LinksStay(a, b) /\ LeadsHere(b, a.page, i3)
    BY <1>1, <1>9, <1>10, NextLevelKeeps
  <2>. HIDE DEF b
  <2>. QED
    BY <1>3, <1>9, <2>1
<1>. HIDE DEF b
<1>12. b \in Places
  BY <1>11 DEF Kept
<1>13. /\ Kept(b, c, S, D) /\ AtLevel(c, S, D, 1)
       /\ LinksStay(b, c) /\ LeadsHere(c, b.page, i2)
  <2>1. /\ Kept(b, c, S, D)
        /\ ~ c.failed => AtLevel(c, S, D, 2-1) /\ LinksStay(b, c) /\ LeadsHere(c, b.page, i2)
    BY <1>1, <1>9, <1>11, <1>12, NextLevelKeeps
  <2>. HIDE DEF c
  <2>. QED
    BY <1>9, <2>1
<1>. HIDE DEF c
<1>14. c \in Places
  BY <1>13 DEF Kept
<1>15. /\ Kept(c, d, S, D) /\ AtLevel(d, S, D, 0)
       /\ LinksStay(c, d) /\ LeadsHere(d, c.page, i1)
  <2>1. /\ Kept(c, d, S, D)
        /\ ~ d.failed => AtLevel(d, S, D, 1-1) /\ LinksStay(c, d) /\ LeadsHere(d, c.page, i1)
    BY <1>1, <1>9, <1>13, <1>14, NextLevelKeeps
  <2>. HIDE DEF d
  <2>. QED
    BY <1>9, <2>1
<1>. HIDE DEF d
<1>16. d \in Places /\ m.held \subseteq d.held /\ SameMaps(m.mem, d.mem, S)
       /\ a.held \subseteq b.held /\ b.held \subseteq c.held
  <2>1. Kept(m, d, S, D)
    BY <1>6, <1>11, <1>13, <1>15, KeptChain
  <2>. QED
    BY <1>9, <1>11, <1>13, <2>1 DEF Kept
<1>17. Present(Entry1(d.mem, s, v)) /\ Entry1(d.mem, s, v).frame = d.page
  <2>1. s \in b.held
    <3>1. s \in a.held
      <4>1. PICK L \in Levels : L[3] = S /\ Forest(a.mem, a.held, L, D)
        BY <1>10 DEF AtLevel
      <4>. QED
        BY <4>1, TablesAreHeld
    <3>. QED
      BY <1>16, <3>1
  <2>2. b.page \in c.held
    <3>1. b.page \in b.held
      <4>1. PICK L \in Levels : L[3] = S /\ Forest(b.mem, b.held, L, D) /\ b.page \in L[2]
        BY <1>11 DEF AtLevel
      <4>. QED
        BY <4>1, TablesAreHeld
    <3>. QED
      BY <1>16, <3>1
  <2>3. Present(d.mem[s][i3]) /\ d.mem[s][i3].frame = b.page
    <3>1. Present(c.mem[s][i3]) /\ c.mem[s][i3].frame = b.page
      BY <1>1, <1>11, <1>13, <2>1 DEF LeadsHere, LinksStay
    <3>2. s \in c.held
      BY <1>16, <2>1
    <3>. QED
      BY <1>1, <1>15, <3>1, <3>2 DEF LinksStay
  <2>4. Present(d.mem[b.page][i2]) /\ d.mem[b.page][i2].frame = c.page
    BY <1>1, <1>13, <1>15, <2>2 DEF LeadsHere, LinksStay
  <2>5. Present(d.mem[c.page][i1]) /\ d.mem[c.page][i1].frame = d.page
    BY <1>15 DEF LeadsHere
  <2>. QED
    BY <2>3, <2>4, <2>5, PathIsWalked DEF i3, i2, i1
<1>18. /\ g \in Places /\ g.held = d.held
       /\ g.mem[d.page][i0] = e
       /\ \A x \in Pool, j \in Index : x # d.page \/ j # i0 => g.mem[x][j] = d.mem[x][j]
  BY <1>1, <1>16, StoredDoes
<1>. HIDE DEF g
<1>19. PICK L \in Levels : L[3] = S /\ Forest(d.mem, d.held, L, D) /\ d.page \in L[0]
  BY <1>15 DEF AtLevel
<1>20. Forest(g.mem, g.held, L, D) /\ Mapped(d.mem, g.mem, S, s, v, e)
  <2>. DEFINE old == d.mem
              new == g.mem
              t == d.page
  <2>1. /\ old \in Memories /\ new \in Memories
        /\ Forest(old, d.held, L, D) /\ s \in L[3] /\ t \in L[0]
        /\ Present(Entry1(old, s, v)) /\ Entry1(old, s, v).frame = t
        /\ new[t][entry(v, 0)] = e
        /\ \A x \in Pool, j \in Index : x # t \/ j # entry(v, 0) => new[x][j] = old[x][j]
    BY <1>16, <1>17, <1>18, <1>19 DEF Places, i0
  <2>. HIDE DEF old, new, t
  <2>2. Forest(new, d.held, L, D) /\ Mapped(old, new, L[3], s, v, e)
    BY <1>1, <2>1, StoringMaps
  <2>. QED
    BY <1>18, <1>19, <2>2 DEF old, new
<1>21. Mapped(m.mem, g.mem, S, s, v, e)
  BY <1>16, <1>20, SameMapsMapped
<1>. QED
  BY <1>2, <1>9, <1>16, <1>18, <1>19, <1>20, <1>21 DEF Maps, Sound, Rooted, Places, e

-----------------------------------------------------------------------------
(* Loops over the pages of a range: the pages in ascending order, as a     *)
(* sequence.                                                               *)
LEMMA AscendingIs ==
  ASSUME NEW first \in Nat, NEW count \in Nat
  PROVE  /\ Ascending(first, first + count - 1) \in Seq(Nat)
         /\ Len(Ascending(first, first + count - 1)) = count
         /\ \A i \in 1 .. count : Ascending(first, first + count - 1)[i] = first + i - 1
<1>. DEFINE s == Ascending(first, first + count - 1)
<1>1. s = [i \in 1 .. count |-> first + i - 1]
  BY DEF Ascending
<1>2. \A i \in 1 .. count : first + i - 1 \in Nat
  OBVIOUS
<1>. HIDE DEF s
<1>3. s \in Seq(Nat) /\ Len(s) = count
  BY <1>1, <1>2
<1>. QED
  BY <1>1, <1>3 DEF s

(* free_vmm's loop finds no page present: it makes the tables of its walks *)
(* and leaves the translations alone.                                      *)
Still(m, S, D) ==
  {x \in Starts : ~ x.failed =>
                    Sound(x, S, D) /\ SameMaps(m.mem, x.mem, S) /\ m.held \subseteq x.held}

(* A turn of free_vmm's loop finds its page absent and keeps all           *)
(* translations.                                                           *)
LEMMA WalkStill ==
  ASSUME NEW m, NEW S, NEW D \in SUBSET Pool, NEW x \in Still(m, S, D),
         NEW s \in S, s \in Pool, NEW v \in Nat
  PROVE  /\ walk(x, s, v) \in Still(m, S, D)
         /\ x.failed => walk(x, s, v).failed
         /\ walk(x, s, v).failed \/ ~ is_present_vmm(walk(x, s, v), v)
<1>. DEFINE g == walk(x, s, v)
<1>1. x \in Starts /\ (x.failed \/ Sound(x, S, D))
  BY DEF Still
<1>2. Kept(x, g, S, D) /\ (g.failed \/ ~ is_present_vmm(g, v))
  BY <1>1, WalkKeeps
<1>. HIDE DEF g
<1>3. g \in Starts
  BY <1>2 DEF Kept, Places, Starts
<1>4. g \in Still(m, S, D)
  BY <1>2, <1>3 DEF Kept, Still, SameMaps
<1>. QED
  BY <1>2, <1>4 DEF g, Kept

(* free_vmm's loop over a range keeps forest and translations.             *)
LEMMA FreeRangeDoes ==
  ASSUME NEW m \in Starts, NEW S, NEW D \in SUBSET Pool, Sound(m, S, D),
         NEW s \in S, s \in Pool, NEW range \in AddrRanges
  PROVE  free_range(m, s, range) \in Still(m, S, D)
<1>. DEFINE first == range.base \div PAGE_SIZE
            count == range.length \div PAGE_SIZE
            seq == Ascending(first, first + count - 1)
            U == Still(m, S, D)
            Turn(x, v) == free_page(walk(x, s, v), s, range, v)
            Is(after) == after = [k \in 0 .. Len(seq) |->
                                    IF k = 0 THEN m ELSE Turn(after[k-1], seq[k])]
            states == CHOOSE after : Is(after)
<1>1. free_range(m, s, range) = states[Len(seq)]
  BY DEF free_range, Through
<1>2. first \in Nat /\ count \in Nat
  BY PageSizeAssumption DEF AddrRanges
<1>3. seq \in Seq(Nat) /\ Len(seq) = count
  BY <1>2, AscendingIs
<1>4. m \in U
  BY DEF Still, SameMaps
<1>5. ASSUME NEW x \in U, NEW v \in Nat PROVE Turn(x, v) \in U
  <2>1. /\ walk(x, s, v) \in U
        /\ walk(x, s, v).failed \/ ~ is_present_vmm(walk(x, s, v), v)
    BY WalkStill
  <2>2. Turn(x, v) = walk(x, s, v)
    BY <2>1 DEF free_page
  <2>. QED
    BY <2>1, <2>2
<1>. HIDE DEF U, Turn, seq, first, count
<1>6. \A k \in 1 .. count : seq[k] \in Nat
  BY <1>2, <1>3
<1>7. \E after : Is(after)
  <2>. DEFINE turn == [k \in 1 .. count |-> [x \in U |-> Turn(x, seq[k])]]
  <2>1. turn \in [1 .. count -> [U -> U]]
    BY <1>5, <1>6
  <2>. HIDE DEF turn, Is, states
  <2>2. PICK after : Runs(count, U, turn, m, after)
    BY <1>2, <1>4, <2>1, LoopRuns
  <2>3. ASSUME NEW k \in 1 .. count PROVE after[k] = Turn(after[k-1], seq[k])
    <3>1. after[k-1] \in U
      BY <1>2, <2>2 DEF Runs
    <3>. QED
      BY <2>2, <3>1 DEF turn, Runs
  <2>4. Is(after)
    BY <1>2, <1>3, <2>2, <2>3 DEF Is, Runs
  <2>. QED
    BY <2>4
<1>8. Is(states)
  BY <1>7
<1>. HIDE DEF states
<1>9. /\ states[0] = m
      /\ \A k \in 1 .. count : states[k] = Turn(states[k-1], seq[k])
  BY <1>2, <1>3, <1>8
<1>10. states[count] \in U
  <2>. DEFINE good == [k \in 0 .. count |-> U]
  <2>1. states[0] \in good[0]
    BY <1>2, <1>4, <1>9
  <2>2. ASSUME NEW k \in 1 .. count, states[k-1] \in good[k-1] PROVE states[k] \in good[k]
    <3>1. states[k-1] \in U
      BY <1>2, <2>2
    <3>. QED
      BY <1>2, <1>5, <1>6, <1>9, <3>1
  <2>3. good[count] = U
    BY <1>2
  <2>. HIDE DEF good
  <2>. QED
    BY <1>2, <2>1, <2>2, <2>3, LoopKeeps
<1>. QED
  BY <1>1, <1>3, <1>10 DEF U

(* alloc_vmm's search finds every page absent: what it returns is where    *)
(* its window begins.                                                      *)
Searches(m, S, D) ==
  [m : {x \in Still(m, S, D) : m.failed => x.failed}, size : Nat, vaddr : Nat]

Begins(acc, start) == acc.m.failed \/ (acc.size >= 1 /\ acc.vaddr = start)

(* A turn of alloc_vmm's search counts its page, which it finds absent,    *)
(* and remembers where the count began.                                    *)
LEMMA SearchTurnDoes ==
  ASSUME NEW m, NEW S, NEW D \in SUBSET Pool, NEW s \in S, s \in Pool,
         NEW pages, NEW acc \in Searches(m, S, D), NEW i \in Nat, NEW start
  PROVE  /\ search_turn(acc, walk(acc.m, s, i), pages, i) \in Searches(m, S, D)
         /\ Begins(acc, start) => Begins(search_turn(acc, walk(acc.m, s, i), pages, i), start)
         /\ acc.size = 0 /\ pages # 0 /\ i = start
              => Begins(search_turn(acc, walk(acc.m, s, i), pages, i), start)
<1>. DEFINE w == walk(acc.m, s, i)
            g == search_turn(acc, w, pages, i)
<1>1. /\ acc.m \in Still(m, S, D) /\ (m.failed => acc.m.failed)
      /\ acc.size \in Nat /\ acc.vaddr \in Nat
  BY DEF Searches
<1>2. /\ w \in Still(m, S, D) /\ (acc.m.failed => w.failed)
      /\ w.failed \/ ~ is_present_vmm(w, i)
  BY <1>1, WalkStill
<1>. HIDE DEF w
<1>3. CASE acc.size = pages
  BY <1>3 DEF search_turn
<1>4. CASE acc.size # pages /\ is_present_vmm(w, i)
  <2>1. g = [acc EXCEPT !.m = w]
    BY <1>4 DEF search_turn
  <2>. HIDE DEF g
  <2>2. g \in Searches(m, S, D) /\ g.m.failed
    BY <1>1, <1>2, <1>4, <2>1 DEF Searches
  <2>. QED
    BY <2>2 DEF Begins, g, w
<1>5. CASE acc.size # pages /\ ~ is_present_vmm(w, i)
  <2>1. g = [m |-> w, size |-> acc.size + 1, vaddr |-> IF acc.size = 0 THEN i ELSE acc.vaddr]
    BY <1>5 DEF search_turn
  <2>. HIDE DEF g
  <2>2. g \in Searches(m, S, D)
    BY <1>1, <1>2, <2>1 DEF Searches
  <2>. QED
    BY <1>1, <1>2, <2>1, <2>2 DEF Begins, g, w
<1>. QED
  BY <1>3, <1>4, <1>5 DEF w

(* alloc_vmm's search keeps forest and translations and, if it returns     *)
(* anything, returns the beginning of its window.                          *)
LEMMA SearchDoes ==
  ASSUME NEW m \in Starts, NEW S, NEW D \in SUBSET Pool, m.failed \/ Sound(m, S, D),
         NEW s \in S, s \in Pool, NEW pages \in Nat \ {0},
         NEW window \in [start : VPages, end : Nat], window.start <= window.end
  PROVE  /\ search(m, s, pages, window) \in Searches(m, S, D)
         /\ \/ search(m, s, pages, window).size = 0
            \/ Begins(search(m, s, pages, window), window.start)
<1>. DEFINE first == window.start
            count == window.end - window.start
            seq == Ascending(window.start, window.end - 1)
            U == Searches(m, S, D)
            none == [m |-> m, size |-> 0, vaddr |-> 0]
            Turn(x, i) == search_turn(x, walk(x.m, s, i), pages, i)
            Is(after) == after = [k \in 0 .. Len(seq) |->
                                    IF k = 0 THEN none ELSE Turn(after[k-1], seq[k])]
            states == CHOOSE after : Is(after)
<1>1. search(m, s, pages, window) = states[Len(seq)]
  BY DEF search, Through
<1>2. first \in Nat /\ count \in Nat
  BY Indices
<1>3. /\ seq \in Seq(Nat) /\ Len(seq) = count
      /\ \A i \in 1 .. count : seq[i] = first + i - 1
  <2>1. window.end - 1 = first + count - 1
    BY <1>2
  <2>2. seq = Ascending(first, first + count - 1)
    BY <2>1
  <2>. HIDE DEF first, count, seq
  <2>. QED
    BY <1>2, <2>2, AscendingIs
<1>4. none \in U /\ none.size = 0
  BY DEF Still, SameMaps, Searches
<1>5. ASSUME NEW x \in U, NEW i \in Nat
      PROVE  /\ Turn(x, i) \in U
             /\ Begins(x, first) => Begins(Turn(x, i), first)
             /\ x.size = 0 /\ i = first => Begins(Turn(x, i), first)
  <2>. HIDE DEF first
  <2>1. x \in Searches(m, S, D)
    OBVIOUS
  <2>2. Turn(x, i) \in Searches(m, S, D)
    BY <2>1, SearchTurnDoes
  <2>3. Begins(x, first) => Begins(Turn(x, i), first)
    BY <2>1, SearchTurnDoes
  <2>4. x.size = 0 /\ i = first => Begins(Turn(x, i), first)
    BY <2>1, SearchTurnDoes
  <2>. QED
    BY <2>2, <2>3, <2>4
<1>. HIDE DEF U, Turn, seq, first, count, none
<1>6. \A k \in 1 .. count : seq[k] \in Nat
  BY <1>2, <1>3
<1>7. \E after : Is(after)
  <2>. DEFINE turn == [k \in 1 .. count |-> [x \in U |-> Turn(x, seq[k])]]
  <2>1. turn \in [1 .. count -> [U -> U]]
    BY <1>5, <1>6
  <2>. HIDE DEF turn, Is, states
  <2>2. PICK after : Runs(count, U, turn, none, after)
    BY <1>2, <1>4, <2>1, LoopRuns
  <2>3. ASSUME NEW k \in 1 .. count PROVE after[k] = Turn(after[k-1], seq[k])
    <3>1. after[k-1] \in U
      BY <1>2, <2>2 DEF Runs
    <3>. QED
      BY <2>2, <3>1 DEF turn, Runs
  <2>4. Is(after)
    BY <1>2, <1>3, <2>2, <2>3 DEF Is, Runs
  <2>. QED
    BY <2>4
<1>8. Is(states)
  BY <1>7
<1>. HIDE DEF states
<1>9. /\ states[0] = none
      /\ \A k \in 1 .. count : states[k] = Turn(states[k-1], seq[k])
  BY <1>2, <1>3, <1>8
<1>. DEFINE good == [k \in 0 .. count |->
              {x \in U : IF k = 0 THEN x.size = 0 ELSE Begins(x, first)}]
<1>10. states[count] \in good[count]
  <2>1. states[0] \in good[0]
    BY <1>2, <1>4, <1>9
  <2>2. ASSUME NEW k \in 1 .. count, states[k-1] \in good[k-1] PROVE states[k] \in good[k]
    <3>1. states[k-1] \in U /\ seq[k] \in Nat /\ states[k] = Turn(states[k-1], seq[k])
      BY <1>2, <1>6, <1>9, <2>2
    <3>2. CASE k = 1
      <4>1. states[k-1].size = 0 /\ seq[k] = first
        BY <1>2, <1>3, <2>2, <3>2
      <4>. QED
        BY <1>2, <1>5, <3>1, <3>2, <4>1
    <3>3. CASE k # 1
      <4>1. Begins(states[k-1], first)
        BY <1>2, <2>2, <3>3
      <4>. QED
        BY <1>2, <1>5, <3>1, <3>3, <4>1
    <3>. QED
      BY <3>2, <3>3
  <2>. HIDE DEF good
  <2>. QED
    BY <1>2, <2>1, <2>2, LoopKeeps
<1>11. states[count] \in U /\ (states[count].size = 0 \/ Begins(states[count], first))
  BY <1>2, <1>10
<1>. QED
  BY <1>1, <1>3, <1>11 DEF U, first

(* alloc_vmm's second half: for one page the range is padded to two, and   *)
(* the page is mapped at the first of two absent ones.                     *)
LEMMA OnePagePadded ==
  ASSUME NEW p \in Nat
  PROVE  /\ align_range(OnePage(p)).base \div PAGE_SIZE = p
         /\ align_range(OnePage(p)).length \div PAGE_SIZE = 2
<1>1. PAGE_SIZE \in Nat \ {0}
  BY PageSizeAssumption
<1>2. (p * PAGE_SIZE) % PAGE_SIZE = 0 /\ PAGE_SIZE % PAGE_SIZE = 0
  <2>1. (PAGE_SIZE * p) % PAGE_SIZE = 0 /\ (PAGE_SIZE * 1) % PAGE_SIZE = 0
    BY <1>1, MultipleIsDivided
  <2>2. PAGE_SIZE * p = p * PAGE_SIZE /\ PAGE_SIZE * 1 = PAGE_SIZE
    BY <1>1
  <2>. QED
    BY <2>1, <2>2
<1>3. /\ align_range(OnePage(p)).base = p * PAGE_SIZE
      /\ align_range(OnePage(p)).length = 2 * PAGE_SIZE
  BY <1>1, <1>2 DEF align_range, OnePage
<1>4. (p * PAGE_SIZE) \div PAGE_SIZE = p
  BY <1>1
<1>5. (2 * PAGE_SIZE) \div PAGE_SIZE = 2
  BY <1>1
<1>. QED
  BY <1>3, <1>4, <1>5

(* alloc_vmm's second half maps the page it was granted at the beginning   *)
(* of the window, and nothing else.                                        *)
LEMMA PlacedDoes ==
  ASSUME NEW got \in Starts, NEW S, NEW D \in SUBSET Pool, got.failed \/ Sound(got, S, D),
         NEW s \in S, s \in Pool, NEW is_user \in BOOLEAN, NEW p \in Nat,
         ~ Placed(got, s, align_range(OnePage(p)), is_user).failed
  PROVE  Maps(got, Placed(got, s, align_range(OnePage(p)), is_user), S, D,
              s, Window[is_user].start, Leaf(p, is_user))
<1>. DEFINE start == Window[is_user].start
            at == search(got, s, 2, Window[is_user])
            h == [at.m EXCEPT !.failed = @ \/ at.size < 2]
            g == map_vmm(h, s, p, at.vaddr, is_user)
<1>1. Placed(got, s, align_range(OnePage(p)), is_user) = g
  BY OnePagePadded DEF Placed
<1>2. /\ Window[is_user] \in [start : VPages, end : Nat]
      /\ Window[is_user].start <= Window[is_user].end
  BY LayoutAssumption
<1>3. at \in Searches(got, S, D) /\ (at.size = 0 \/ Begins(at, start))
  BY <1>2, SearchDoes
<1>. HIDE DEF at, start
<1>4. /\ at.m \in Still(got, S, D) /\ (got.failed => at.m.failed)
      /\ at.size \in Nat /\ at.vaddr \in Nat
  BY <1>3 DEF Searches
<1>5. /\ h \in Starts /\ h.mem = at.m.mem /\ h.held = at.m.held
      /\ h.failed = (at.m.failed \/ at.size < 2)
  BY <1>4 DEF Still, Starts
<1>. HIDE DEF h
<1>6. h.failed \/ Sound(h, S, D)
  BY <1>4, <1>5 DEF Still, Sound
<1>7. p \in Frames
  BY DEF Frames
<1>8. ~ g.failed
  BY <1>1
<1>9. Maps(h, g, S, D, s, at.vaddr, Leaf(p, is_user))
  BY <1>4, <1>5, <1>6, <1>7, <1>8, MapDoes
<1>. HIDE DEF g
<1>10. ~ h.failed
  BY <1>9 DEF Maps
<1>11. ~ at.m.failed /\ at.vaddr = start /\ ~ got.failed
  <2>1. ~ (at.m.failed \/ at.size < 2)
    BY <1>5, <1>10, Zenon
  <2>2. ~ at.m.failed /\ ~ (at.size < 2)
    BY <2>1, Zenon
  <2>3. at.size # 0
    BY <1>4, <2>2
  <2>. QED
    BY <1>3, <1>4, <2>2, <2>3, Zenon DEF Begins
<1>12. SameMaps(got.mem, h.mem, S) /\ got.held \subseteq h.held
  BY <1>4, <1>5, <1>11 DEF Still
<1>13. Mapped(h.mem, g.mem, S, s, start, Leaf(p, is_user))
  BY <1>9, <1>11 DEF Maps
<1>14. Mapped(got.mem, g.mem, S, s, start, Leaf(p, is_user))
  BY <1>12, <1>13, SameMapsMapped
<1>15. Maps(got, g, S, D, s, start, Leaf(p, is_user))
  BY <1>9, <1>11, <1>12, <1>14 DEF Maps
<1>. QED
  BY <1>1, <1>15 DEF start

-----------------------------------------------------------------------------
(* A page that alloc_pmm grants becomes a caller's, or the root of a new   *)
(* space in which nothing is mapped.                                       *)
LEMMA GrantedToCaller ==
  ASSUME NEW m, NEW S, NEW D \in SUBSET Pool, Sound(m, S, D), NEW g, NEW p \in Pool \ m.held,
         g.mem = m.mem, g.held = m.held \cup {p}
  PROVE  Sound(g, S, D \cup {p})
<1>1. PICK L \in Levels : L[3] = S /\ Forest(m.mem, m.held, L, D)
  BY DEF Sound, Rooted
<1>2. \A k \in 0 .. 3 : p \notin L[k]
  BY <1>1, TablesAreHeld
<1>3. Forest(g.mem, g.held, L, D \cup {p})
  <2>1. /\ \A k \in 1 .. 3 : Leads(g.mem, L[k], L[k-1])
        /\ \A j, k \in 0 .. 3 : j # k => L[j] \cap L[k] = {}
    BY <1>1 DEF Forest
  <2>2. \A k \in 0 .. 3 : L[k] \cap (D \cup {p}) = {}
    BY <1>1, <1>2 DEF Forest
  <2>3. g.held = L[0] \cup L[1] \cup L[2] \cup L[3] \cup (D \cup {p})
    BY <1>1 DEF Forest
  <2>. QED
    BY <2>1, <2>2, <2>3 DEF Forest
<1>. QED
  BY <1>1, <1>3 DEF Sound, Rooted

Planted(L, p) == [L EXCEPT ![3] = @ \cup {p}]

(* A new root joins the top level alone.                                   *)
LEMMA PlantedDoes ==
  ASSUME NEW L \in Levels, NEW p \in Pool
  PROVE  /\ Planted(L, p) \in Levels /\ Planted(L, p)[3] = L[3] \cup {p}
         /\ \A j \in 0 .. 2 : Planted(L, p)[j] = L[j]
BY DEF Planted, Levels

(* A cleared page that was free becomes a root of the forest.              *)
LEMMA PlantingKeepsForest ==
  ASSUME NEW m, NEW g, NEW granted, NEW L \in Levels, NEW D \in SUBSET Pool,
         Forest(m, granted, L, D), NEW p \in Pool \ granted, g[p] = Zero,
         \A x \in Pool \ {p} : g[x] = m[x]
  PROVE  Forest(g, granted \cup {p}, Planted(L, p), D)
<1>. DEFINE U == Planted(L, p)
<1>1. U \in Levels /\ U[3] = L[3] \cup {p} /\ U[0] = L[0] /\ U[1] = L[1] /\ U[2] = L[2]
  BY PlantedDoes
<1>2. (\A j \in 0 .. 3 : L[j] \subseteq granted /\ p \notin L[j] /\ L[j] \in SUBSET Pool)
      /\ p \notin D
  BY TablesAreHeld DEF Levels
<1>3. \A j \in 0 .. 3 : \A x \in L[j], i \in Index : g[x][i] = m[x][i]
  BY <1>2
<1>4. /\ Leads(m, L[3], L[2]) /\ Leads(m, L[2], L[1]) /\ Leads(m, L[1], L[0])
      /\ \A a, b \in 0 .. 3 : a # b => L[a] \cap L[b] = {}
      /\ \A j \in 0 .. 3 : L[j] \cap D = {}
      /\ granted = L[0] \cup L[1] \cup L[2] \cup L[3] \cup D
  BY DEF Forest
<1>. HIDE DEF U
<1>5. Leads(g, U[3], U[2])
  BY <1>1, <1>2, <1>3, <1>4, LeadsFromOneMore
<1>6. Leads(g, U[2], U[1]) /\ Leads(g, U[1], U[0])
  BY <1>1, <1>3, <1>4, LeadsStill
<1>7. \A k \in 1 .. 3 : Leads(g, U[k], U[k-1])
  <2>1. \A k \in 1 .. 3 : \/ k = 1 /\ k - 1 = 0
                          \/ k = 2 /\ k - 1 = 1
                          \/ k = 3 /\ k - 1 = 2
    OBVIOUS
  <2>. QED
    BY <1>5, <1>6, <2>1
<1>8. \A j \in 0 .. 3 : U[j] = L[j] \/ (j = 3 /\ U[j] = L[j] \cup {p})
  BY <1>1
<1>9. \A a, b \in 0 .. 3 : a # b => U[a] \cap U[b] = {}
  BY <1>2, <1>4, <1>8
<1>10. \A j \in 0 .. 3 : U[j] \cap D = {}
  BY <1>2, <1>4, <1>8
<1>11. granted \cup {p} = U[0] \cup U[1] \cup U[2] \cup U[3] \cup D
  BY <1>1, <1>4
<1>. QED
  BY <1>7, <1>9, <1>10, <1>11 DEF Forest, U

(* A new root changes no translation, and maps nothing itself.             *)
LEMMA PlantingKeepsMaps ==
  ASSUME NEW m \in Memories, NEW g, NEW granted \in SUBSET Pool, NEW L \in Levels, NEW D,
         Forest(m, granted, L, D), NEW p \in Pool \ granted, g[p] = Zero,
         \A x \in Pool \ {p} : g[x] = m[x]
  PROVE  /\ SameMaps(m, g, L[3])
         /\ \A v \in Nat : Entry0(g, p, v) = None
<1>1. \A k \in 0 .. 3 : \A x \in L[k] : g[x] = m[x]
  BY TablesAreHeld
<1>2. ASSUME NEW s \in L[3], NEW v \in Nat PROVE Entry0(g, s, v) = Entry0(m, s, v)
  <2>1. /\ Present(Entry3(m, s, v)) => Entry3(m, s, v).frame \in L[2]
        /\ Present(Entry2(m, s, v)) => Entry2(m, s, v).frame \in L[1]
        /\ Present(Entry1(m, s, v)) => Entry1(m, s, v).frame \in L[0]
    BY WalkStaysInForest
  <2>2. Entry3(g, s, v) = Entry3(m, s, v)
    BY <1>1 DEF Entry3
  <2>3. Entry2(g, s, v) = Entry2(m, s, v)
    BY <1>1, <2>1, <2>2 DEF Entry2, StepIn
  <2>4. Entry1(g, s, v) = Entry1(m, s, v)
    BY <1>1, <2>1, <2>3 DEF Entry1, StepIn
  <2>. QED
    BY <1>1, <2>1, <2>4 DEF Entry0, StepIn
<1>3. ASSUME NEW v \in Nat PROVE Entry0(g, p, v) = None
  <2>1. Entry3(g, p, v) = None
    BY Indices, NoneIsAbsent DEF Entry3
  <2>2. Entry2(g, p, v) = None
    BY <2>1, NoneIsAbsent DEF Entry2, StepIn
  <2>3. Entry1(g, p, v) = None
    BY <2>2, NoneIsAbsent DEF Entry1, StepIn
  <2>. QED
    BY <2>3, NoneIsAbsent DEF Entry0, StepIn
<1>. QED
  BY <1>2, <1>3 DEF SameMaps


-----------------------------------------------------------------------------
(* The invariant.                                                          *)
Maplets == [vaddr : Nat, frame : Nat]

TypeInv ==
  /\ phase \in {"boot", "mapping", "ready", "halted"}
  /\ info \in BootInfos
  /\ mem \in Memories
  /\ held \in SUBSET Pool /\ spaces \in SUBSET Pool /\ data \in SUBSET Pool
  /\ todo \in Seq(Maplets)

PhaseInv ==
  /\ kernel_plm4 \in spaces \cup {0}
  /\ phase = "boot" => spaces = {} /\ held = {} /\ data = {} /\ todo = <<>>
  /\ phase = "mapping" => todo # <<>> /\ data = {} /\ spaces = {kernel_plm4}
  /\ phase = "ready" => todo = <<>> /\ kernel_plm4 \in spaces

RootsInv == Rooted(mem, held, spaces, data)

IInv == TypeInv /\ PhaseInv /\ RootsInv

(* Between calls the memory is one that a call may begin with.             *)
LEMMA MemoryIsStart ==
  ASSUME IInv
  PROVE  /\ Memory \in Starts /\ Memory.mem = mem /\ Memory.held = held
         /\ ~ Memory.failed /\ Sound(Memory, spaces, data)
BY DEF IInv, TypeInv, RootsInv, Memory, Starts, Sound

(* alloc_pmm on the memory between calls.                                  *)
LEMMA GrantDoes ==
  ASSUME IInv
  PROVE  /\ alloc_pmm(Memory) \in Starts /\ alloc_pmm(Memory).mem = mem
         /\ alloc_pmm(Memory).page \in Nat
         /\ ~ (Pool \subseteq held) => ~ alloc_pmm(Memory).failed
         /\ ~ alloc_pmm(Memory).failed =>
              /\ alloc_pmm(Memory) \in Places
              /\ alloc_pmm(Memory).page \in Pool \ held
              /\ alloc_pmm(Memory).held = held \cup {alloc_pmm(Memory).page}
<1>. DEFINE m == Memory
            got == alloc_pmm(m)
<1>1. m \in Starts /\ m.mem = mem /\ m.held = held /\ ~ m.failed
  BY MemoryIsStart
<1>. HIDE DEF m
<1>2. /\ got \in Starts
      /\ ~ got.failed => got \in Places
      /\ got.mem = m.mem
      /\ ~ m.failed /\ ~ (Pool \subseteq m.held) => ~ got.failed
      /\ ~ got.failed => got.page \in Pool \ m.held /\ got.held = m.held \cup {got.page}
  BY <1>1, AllocDoes
<1>. HIDE DEF got
<1>3. got.page \in Nat
  <2>1. got.page \in Pool \cup {0}
    BY <1>2, Zenon DEF Starts
  <2>2. \A x \in Pool \cup {0} : x \in Nat
    BY PoolAssumption
  <2>. QED
    BY <2>1, <2>2, Zenon
<1>. QED
  BY <1>1, <1>2, <1>3 DEF got, m

(* A page of one space is mapped, and the memory grows.                    *)
PageMapped(space, v, e, D) ==
  /\ mem' \in Memories /\ held' \in SUBSET Pool /\ held \subseteq held'
  /\ Rooted(mem', held', spaces, D)
  /\ Mapped(mem, mem', spaces, space, v, e)

(* A space is made, in which nothing is mapped.                            *)
SpaceMade(p) ==
  /\ p \in Pool \ held /\ held' = held \cup {p} /\ spaces' = spaces \cup {p}
  /\ mem' \in Memories
  /\ Rooted(mem', held', spaces', data)
  /\ SameMaps(mem, mem', spaces)
  /\ \A v \in Nat : Entry0(mem', p, v) = None

(* What a step can be: each action, or a halt.                             *)
Halts ==
  /\ phase' = "halted"
  /\ UNCHANGED <<info, mem, held, todo, kernel_plm4, spaces, data>>

Begun ==
  /\ phase = "boot" /\ phase' = "mapping" /\ todo' = BootMaps(info)
  /\ SpaceMade(kernel_plm4') /\ spaces = {} /\ data = {} /\ spaces' = {kernel_plm4'}
  /\ UNCHANGED <<info, data>>

OneMapped ==
  /\ phase = "mapping" /\ todo' = Tail(todo)
  /\ phase' = IF todo' = <<>> THEN "ready" ELSE "mapping"
  /\ Head(todo) \in Maplets /\ kernel_plm4 \in spaces
  /\ PageMapped(kernel_plm4, Head(todo).vaddr, Leaf(Head(todo).frame, FALSE), data)
  /\ UNCHANGED <<info, kernel_plm4, spaces, data>>

Made ==
  /\ phase = "ready" /\ \E p \in Pool : SpaceMade(p)
  /\ UNCHANGED <<phase, info, todo, kernel_plm4, data>>

Allocated(space, is_user) ==
  /\ phase = "ready"
  /\ \E p \in Pool \ held :
       /\ data' = data \cup {p}
       /\ PageMapped(space, Window[is_user].start, Leaf(p, is_user), data')
  /\ UNCHANGED <<phase, info, todo, kernel_plm4, spaces>>

Freed ==
  /\ phase = "ready"
  /\ mem' \in Memories /\ held' \in SUBSET Pool /\ held \subseteq held'
  /\ Rooted(mem', held', spaces, data) /\ SameMaps(mem, mem', spaces)
  /\ UNCHANGED <<phase, info, todo, kernel_plm4, spaces, data>>

(* A granted and cleared page that becomes a space is a new space in which *)
(* nothing is mapped.                                                      *)
LEMMA RootDoes ==
  ASSUME IInv, ~ alloc_pmm(Memory).failed, Becomes(Zeroed(alloc_pmm(Memory))),
         spaces' = spaces \cup {alloc_pmm(Memory).page}
  PROVE  SpaceMade(alloc_pmm(Memory).page)
<1>. DEFINE got == alloc_pmm(Memory)
            z == Zeroed(got)
            p == got.page
<1>1. /\ got \in Places /\ got.mem = mem
      /\ p \in Pool \ held /\ got.held = held \cup {p}
  BY GrantDoes
<1>2. mem' = z.mem /\ held' = z.held /\ spaces' = spaces \cup {p}
  BY DEF Becomes
<1>. HIDE DEF got
<1>3. z \in Places /\ z.held = got.held /\ z.mem[p] = Zero
      /\ \A x \in Pool \ {p} : z.mem[x] = got.mem[x]
  BY <1>1, ZeroedDoes
<1>. HIDE DEF z, p
<1>4. mem' \in Memories /\ held' = held \cup {p}
  BY <1>1, <1>2, <1>3 DEF Places
<1>5. mem'[p] = Zero /\ \A x \in Pool \ {p} : mem'[x] = mem[x]
  BY <1>1, <1>2, <1>3
<1>6. PICK L \in Levels : L[3] = spaces /\ Forest(mem, held, L, data)
  BY DEF IInv, RootsInv, Rooted
<1>7. mem \in Memories /\ held \in SUBSET Pool /\ data \in SUBSET Pool
  BY DEF IInv, TypeInv
<1>. DEFINE g == mem'
<1>8. g[p] = Zero /\ \A x \in Pool \ {p} : g[x] = mem[x]
  BY <1>5
<1>. HIDE DEF g
<1>9. Forest(g, held \cup {p}, Planted(L, p), data)
  BY <1>1, <1>6, <1>7, <1>8, PlantingKeepsForest
<1>10. SameMaps(mem, g, spaces) /\ \A v \in Nat : Entry0(g, p, v) = None
  BY <1>1, <1>6, <1>7, <1>8, PlantingKeepsMaps
<1>11. Planted(L, p) \in Levels /\ Planted(L, p)[3] = spaces \cup {p}
  BY <1>1, <1>6, PlantedDoes
<1>12. Rooted(g, held', spaces', data)
  BY <1>2, <1>4, <1>9, <1>11 DEF Rooted
<1>. QED
  BY <1>1, <1>2, <1>4, <1>10, <1>12 DEF SpaceMade, got, p, g

(* init_vmm begins with the kernel's empty space.                          *)
LEMMA InitVmmDoes ==
  ASSUME IInv, init_vmm
  PROVE  Begun
<1>1. phase = "boot" /\ spaces = {} /\ data = {} /\ held = {}
  BY DEF IInv, PhaseInv, init_vmm
<1>2. ~ alloc_pmm(Memory).failed
  BY <1>1, GrantDoes, PoolAssumption
<1>. DEFINE got == alloc_pmm(Memory)
            z == Zeroed(got)
<1>3. z.page = got.page
  <2>1. got \in Places
    BY <1>2, GrantDoes
  <2>. HIDE DEF got
  <2>. QED
    BY <2>1, ZeroedDoes
<1>4. Becomes(z) /\ kernel_plm4' = z.page /\ spaces' = {z.page}
  BY DEF init_vmm, Begun
<1>5. spaces' = spaces \cup {got.page} /\ kernel_plm4' = got.page
  BY <1>1, <1>3, <1>4
<1>6. SpaceMade(got.page)
  BY <1>2, <1>4, <1>5, RootDoes
<1>. QED
  BY <1>1, <1>4, <1>5, <1>6 DEF init_vmm, Begun

(* A turn of init_vmm's loops makes the next mapping of the kernel's       *)
(* space, or pages run out.                                                *)
LEMMA InitVmmMapDoes ==
  ASSUME IInv, init_vmm_map
  PROVE  OneMapped \/ Halts
<1>. DEFINE h == Head(todo)
            m == map_vmm(Memory, kernel_plm4, h.frame, h.vaddr, FALSE)
<1>1. phase = "mapping" /\ todo # <<>> /\ spaces = {kernel_plm4} /\ todo \in Seq(Maplets)
  BY DEF init_vmm_map, IInv, PhaseInv, TypeInv
<1>2. h \in Maplets
  BY <1>1
<1>. HIDE DEF h
<1>3. h.frame \in Frames /\ h.vaddr \in Nat /\ h.frame \in Nat
  BY <1>2 DEF Maplets, Frames
<1>4. CASE Halt(m)
  BY <1>4 DEF Halt, Halts
<1>5. CASE /\ ~ m.failed /\ Becomes(m) /\ todo' = Tail(todo)
           /\ phase' = IF todo' = <<>> THEN "ready" ELSE "mapping"
           /\ UNCHANGED <<info, kernel_plm4, spaces, data>>
  <2>1. kernel_plm4 \in spaces /\ kernel_plm4 \in Pool /\ data \in SUBSET Pool
    BY <1>1 DEF IInv, TypeInv
  <2>2. Maps(Memory, m, spaces, data, kernel_plm4, h.vaddr, Leaf(h.frame, FALSE))
    <3>. DEFINE a == Memory
    <3>1. a \in Starts /\ Sound(a, spaces, data)
      BY MemoryIsStart
    <3>2. ~ map_vmm(a, kernel_plm4, h.frame, h.vaddr, FALSE).failed
      BY <1>5
    <3>. HIDE DEF a
    <3>3. Maps(a, map_vmm(a, kernel_plm4, h.frame, h.vaddr, FALSE), spaces, data,
               kernel_plm4, h.vaddr, Leaf(h.frame, FALSE))
      BY <1>3, <2>1, <3>1, <3>2, MapDoes
    <3>. QED
      BY <3>3 DEF a
  <2>. HIDE DEF m
  <2>3. PageMapped(kernel_plm4, h.vaddr, Leaf(h.frame, FALSE), data)
    BY <1>5, <2>2, MemoryIsStart DEF Maps, PageMapped, Becomes, Sound
  <2>. QED
    BY <1>1, <1>2, <1>5, <2>1, <2>3 DEF h, OneMapped
<1>. QED
  BY <1>4, <1>5 DEF init_vmm_map, h

(* alloc_plm4 makes a space, or pages run out.                             *)
LEMMA AllocPlm4Does ==
  ASSUME IInv, alloc_plm4
  PROVE  Made \/ Halts
<1>. DEFINE got == alloc_pmm(Memory)
<1>1. CASE Halt(got)
  BY <1>1 DEF Halt, Halts
<1>2. CASE /\ ~ got.failed /\ Becomes(Zeroed(got)) /\ spaces' = spaces \cup {got.page}
           /\ UNCHANGED <<phase, info, todo, kernel_plm4, data>>
  <2>1. SpaceMade(got.page)
    BY <1>2, RootDoes
  <2>2. got.page \in Pool
    BY <2>1 DEF SpaceMade
  <2>. QED
    BY <1>2, <2>1, <2>2 DEF alloc_plm4, Made
<1>. QED
  BY <1>1, <1>2 DEF alloc_plm4

(* alloc_vmm maps one page of one space to a page that was free, or pages  *)
(* run out.                                                                *)
LEMMA AllocVmmDoes ==
  ASSUME IInv, NEW space \in spaces, NEW is_user \in BOOLEAN, alloc_vmm(space, is_user)
  PROVE  Allocated(space, is_user) \/ Halts
<1>. DEFINE got == alloc_pmm(Memory)
            p == got.page
            m == Placed(got, space, align_range(OnePage(p)), is_user)
<1>1. CASE Halt(m)
  BY <1>1 DEF Halt, Halts
<1>2. CASE /\ ~ m.failed /\ Becomes(m) /\ data' = data \cup {p}
           /\ UNCHANGED <<phase, info, todo, kernel_plm4, spaces>>
  <2>1. space \in Pool /\ data \in SUBSET Pool
    BY DEF IInv, TypeInv
  <2>2. /\ got \in Starts /\ got.mem = mem /\ p \in Nat
        /\ ~ got.failed => p \in Pool \ held /\ got.held = held \cup {p}
    BY GrantDoes
  <2>. DEFINE D == IF got.failed THEN data ELSE data \cup {p}
  <2>. HIDE DEF got, p
  <2>3. D \in SUBSET Pool /\ (got.failed \/ Sound(got, spaces, D))
    <3>1. CASE got.failed
      BY <2>1, <3>1
    <3>2. CASE ~ got.failed
      <4>. DEFINE a == Memory
      <4>1. a.mem = mem /\ a.held = held /\ Sound(a, spaces, data)
        BY MemoryIsStart
      <4>. HIDE DEF a
      <4>2. Sound(got, spaces, data \cup {p})
        BY <2>1, <2>2, <3>2, <4>1, GrantedToCaller
      <4>. QED
        BY <2>1, <2>2, <3>2, <4>2
    <3>. QED
      BY <3>1, <3>2
  <2>. HIDE DEF D
  <2>4. Maps(got, m, spaces, D, space, Window[is_user].start, Leaf(p, is_user))
    BY <1>2, <2>1, <2>2, <2>3, PlacedDoes
  <2>. HIDE DEF m
  <2>5. ~ got.failed
    BY <2>4 DEF Maps
  <2>6. D = data' /\ p \in Pool \ held /\ got.held = held \cup {p}
    BY <1>2, <2>2, <2>5 DEF D
  <2>7. PageMapped(space, Window[is_user].start, Leaf(p, is_user), data')
    BY <1>2, <2>2, <2>4, <2>6 DEF Maps, PageMapped, Becomes, Sound
  <2>. QED
    BY <1>2, <2>6, <2>7 DEF alloc_vmm, Allocated
<1>. QED
  BY <1>1, <1>2 DEF alloc_vmm

(* free_vmm changes no translation, or pages run out.                      *)
LEMMA FreeVmmDoes ==
  ASSUME IInv, NEW space \in spaces, NEW range \in FreeRanges, free_vmm(space, range)
  PROVE  Freed \/ Halts
<1>. DEFINE m == free_range(Memory, space, range)
<1>1. CASE Halt(m)
  BY <1>1 DEF Halt, Halts
<1>2. CASE /\ ~ m.failed /\ Becomes(m) /\ data' = data \cap m.held
           /\ UNCHANGED <<phase, info, todo, kernel_plm4, spaces>>
  <2>1. space \in Pool /\ data \in SUBSET Pool /\ range \in AddrRanges
    BY LayoutAssumption DEF IInv, TypeInv
  <2>. DEFINE a == Memory
  <2>2. a \in Starts /\ a.mem = mem /\ a.held = held /\ Sound(a, spaces, data)
    BY MemoryIsStart
  <2>. HIDE DEF a
  <2>3. free_range(a, space, range) \in Still(a, spaces, data)
    BY <2>1, <2>2, FreeRangeDoes
  <2>4. m \in Still(a, spaces, data)
    BY <2>3 DEF a
  <2>. HIDE DEF m
  <2>5. m \in Starts /\ Sound(m, spaces, data) /\ SameMaps(mem, m.mem, spaces) /\ held \subseteq m.held
    BY <1>2, <2>2, <2>4 DEF Still
  <2>6. m.mem \in Memories /\ m.held \in SUBSET Pool
    BY <2>5 DEF Starts
  <2>7. data \subseteq held
    <3>1. PICK L \in Levels : Forest(mem, held, L, data)
      BY DEF IInv, RootsInv, Rooted
    <3>. QED
      BY <3>1, TablesAreHeld
  <2>8. data' = data /\ mem' = m.mem /\ held' = m.held
    BY <1>2, <2>5, <2>7 DEF Becomes
  <2>. QED
    BY <1>2, <2>5, <2>6, <2>8 DEF free_vmm, Sound, Freed
<1>. QED
  BY <1>1, <1>2 DEF free_vmm

(* Every step is one of the kinds above, or a stutter.                     *)
LEMMA StepDoes ==
  ASSUME IInv, [Next]_vars
  PROVE  \/ Begun \/ OneMapped \/ Made
         \/ \E space \in spaces, is_user \in BOOLEAN : Allocated(space, is_user)
         \/ Freed \/ Halts \/ UNCHANGED vars
<1>1. CASE init_vmm
  BY <1>1, InitVmmDoes
<1>2. CASE init_vmm_map
  BY <1>2, InitVmmMapDoes
<1>3. CASE alloc_plm4
  BY <1>3, AllocPlm4Does
<1>4. ASSUME NEW space \in spaces, NEW is_user \in BOOLEAN, alloc_vmm(space, is_user)
      PROVE  Allocated(space, is_user) \/ Halts
  BY <1>4, AllocVmmDoes
<1>5. ASSUME NEW space \in spaces, NEW range \in FreeRanges, free_vmm(space, range)
      PROVE  Freed \/ Halts
  BY <1>5, FreeVmmDoes
<1>6. ASSUME NEW range \in FreeRanges, free_vmm_unaligned(range)
      PROVE  Halts
  BY <1>6 DEF free_vmm_unaligned, Halts
<1>7. CASE Halted \/ UNCHANGED vars
  BY <1>7 DEF Halted
<1>. QED
  BY <1>1, <1>2, <1>3, <1>4, <1>5, <1>6, <1>7 DEF Next

(* The invariant holds before init_vmm.                                    *)
LEMMA InitHolds ==
  ASSUME Init
  PROVE  IInv
<1>1. mem \in Memories
  <2>1. Max(Pool) \in Frames
    BY DEF Frames
  <2>2. Stale \in Tables
    BY <2>1 DEF Stale, Tables, Entries, Flags
  <2>. QED
    BY <2>2 DEF Init, Memories
<1>2. TypeInv
  BY <1>1 DEF Init, TypeInv
<1>3. PhaseInv
  BY DEF Init, PhaseInv
<1>4. RootsInv
  <2>. DEFINE L == [k \in 0 .. 3 |-> {}]
  <2>1. L \in Levels /\ \A k \in 0 .. 3 : L[k] = {}
    BY DEF Levels
  <2>. HIDE DEF L
  <2>2. \A k \in 1 .. 3 : Leads(mem, L[k], L[k-1])
    <3>1. \A k \in 1 .. 3 : L[k] = {} /\ L[k-1] = {}
      BY <2>1
    <3>2. Leads(mem, {}, {})
      BY DEF Leads
    <3>. QED
      BY <3>1, <3>2
  <2>3. Forest(mem, {}, L, {})
    BY <2>1, <2>2 DEF Forest
  <2>. QED
    BY <2>1, <2>3 DEF Init, RootsInv, Rooted
<1>. QED
  BY <1>2, <1>3, <1>4 DEF IInv

-----------------------------------------------------------------------------
(* What init_vmm maps.  A page v is settled on the frame f by the first n  *)
(* mappings of a sequence when one of them maps it to f and no later one   *)
(* maps it elsewhere.                                                      *)
Agrees(s, v, f) == \A i \in 1 .. Len(s) : SameEntries(s[i].vaddr, v) => s[i].frame = f

Settled(s, n, v, f) ==
  \E j \in 1 .. n :
    /\ SameEntries(s[j].vaddr, v) /\ s[j].frame = f
    /\ \A i \in (j+1) .. n : SameEntries(s[i].vaddr, v) => s[i].frame = f

(* What a concatenation of mappings holds.                                 *)
LEMMA ConcatDoes ==
  ASSUME NEW s \in Seq(Maplets), NEW t \in Seq(Maplets)
  PROVE  /\ s \o t \in Seq(Maplets) /\ Len(s \o t) = Len(s) + Len(t)
         /\ \A i \in 1 .. Len(s) : (s \o t)[i] = s[i]
         /\ \A i \in 1 .. Len(t) : (s \o t)[Len(s) + i] = t[i]
OBVIOUS

(* Concatenation associates.                                               *)
LEMMA ConcatChain ==
  ASSUME NEW s \in Seq(Maplets), NEW t \in Seq(Maplets), NEW u \in Seq(Maplets)
  PROVE  (s \o t) \o u = s \o (t \o u)
OBVIOUS

(* Each mapping of a concatenation comes from one side.                    *)
LEMMA ConcatParts ==
  ASSUME NEW s \in Seq(Maplets), NEW t \in Seq(Maplets), NEW i \in 1 .. Len(s \o t)
  PROVE  \/ i <= Len(s) /\ (s \o t)[i] = s[i]
         \/ i > Len(s) /\ i - Len(s) \in 1 .. Len(t) /\ (s \o t)[i] = t[i - Len(s)]
OBVIOUS

(* A concatenation of sequences that agree with a mapping agrees with it.  *)
LEMMA AgreesBoth ==
  ASSUME NEW s \in Seq(Maplets), NEW t \in Seq(Maplets), NEW v, NEW f,
         Agrees(s, v, f), Agrees(t, v, f)
  PROVE  Agrees(s \o t, v, f)
<1>1. ASSUME NEW i \in 1 .. Len(s \o t), SameEntries((s \o t)[i].vaddr, v)
      PROVE  (s \o t)[i].frame = f
  <2>1. Len(s) \in Nat
    OBVIOUS
  <2>2. \/ i <= Len(s) /\ (s \o t)[i] = s[i]
        \/ i > Len(s) /\ i - Len(s) \in 1 .. Len(t) /\ (s \o t)[i] = t[i - Len(s)]
    BY ConcatParts
  <2>. QED
    BY <1>1, <2>1, <2>2 DEF Agrees
<1>. QED
  BY <1>1 DEF Agrees

(* What is settled stays so behind mappings that agree with it.            *)
LEMMA SettledThen ==
  ASSUME NEW s \in Seq(Maplets), NEW t \in Seq(Maplets), NEW v, NEW f,
         Settled(s, Len(s), v, f), Agrees(t, v, f)
  PROVE  Settled(s \o t, Len(s \o t), v, f)
<1>. DEFINE u == s \o t
<1>1. PICK j \in 1 .. Len(s) :
        /\ SameEntries(s[j].vaddr, v) /\ s[j].frame = f
        /\ \A i \in (j+1) .. Len(s) : SameEntries(s[i].vaddr, v) => s[i].frame = f
  BY DEF Settled
<1>2. Len(s) \in Nat /\ Len(t) \in Nat /\ Len(u) = Len(s) + Len(t) /\ u[j] = s[j]
  BY ConcatDoes
<1>3. ASSUME NEW i \in (j+1) .. Len(u), SameEntries(u[i].vaddr, v)
      PROVE  u[i].frame = f
  <2>1. i \in 1 .. Len(u)
    BY <1>2
  <2>2. \/ i <= Len(s) /\ u[i] = s[i]
        \/ i > Len(s) /\ i - Len(s) \in 1 .. Len(t) /\ u[i] = t[i - Len(s)]
    BY <2>1, ConcatParts
  <2>. HIDE DEF u
  <2>3. CASE i <= Len(s) /\ u[i] = s[i]
    BY <1>1, <1>2, <1>3, <2>1, <2>3
  <2>4. CASE i > Len(s) /\ i - Len(s) \in 1 .. Len(t) /\ u[i] = t[i - Len(s)]
    BY <1>3, <2>4 DEF Agrees
  <2>. QED
    BY <2>2, <2>3, <2>4
<1>. HIDE DEF u
<1>4. j \in 1 .. Len(u)
  BY <1>2
<1>5. Settled(u, Len(u), v, f)
  BY <1>1, <1>2, <1>3, <1>4 DEF Settled
<1>. QED
  BY <1>5 DEF u

(* What the last part settles is settled.                                  *)
LEMMA SettledLast ==
  ASSUME NEW s \in Seq(Maplets), NEW t \in Seq(Maplets), NEW v, NEW f,
         Settled(t, Len(t), v, f)
  PROVE  Settled(s \o t, Len(s \o t), v, f)
<1>. DEFINE u == s \o t
<1>1. PICK j \in 1 .. Len(t) :
        /\ SameEntries(t[j].vaddr, v) /\ t[j].frame = f
        /\ \A i \in (j+1) .. Len(t) : SameEntries(t[i].vaddr, v) => t[i].frame = f
  BY DEF Settled
<1>2. Len(s) \in Nat /\ Len(t) \in Nat /\ Len(u) = Len(s) + Len(t) /\ u[Len(s) + j] = t[j]
  BY ConcatDoes
<1>3. ASSUME NEW i \in (Len(s) + j + 1) .. Len(u), SameEntries(u[i].vaddr, v)
      PROVE  u[i].frame = f
  <2>1. i \in 1 .. Len(u) /\ i > Len(s) /\ i - Len(s) \in (j+1) .. Len(t)
    BY <1>2
  <2>2. u[i] = t[i - Len(s)]
    BY <1>2, <2>1, ConcatParts
  <2>. HIDE DEF u
  <2>. QED
    BY <1>1, <1>3, <2>1, <2>2
<1>. HIDE DEF u
<1>4. Len(s) + j \in 1 .. Len(u)
  BY <1>2
<1>5. Settled(u, Len(u), v, f)
  <2>. DEFINE k == Len(s) + j
  <2>1. /\ k \in 1 .. Len(u) /\ u[k] = t[j]
        /\ \A i \in (k+1) .. Len(u) : SameEntries(u[i].vaddr, v) => u[i].frame = f
    BY <1>2, <1>3, <1>4
  <2>. HIDE DEF k
  <2>. QED
    BY <1>1, <2>1 DEF Settled
<1>. QED
  BY <1>5 DEF u

(* A loop that appends a piece in each turn.                               *)
Appends(n, after, pieces) ==
  /\ after[0] \in Seq(Maplets)
  /\ \A k \in 1 .. n : pieces[k] \in Seq(Maplets) /\ after[k] = after[k-1] \o pieces[k]

(* A loop that appends mappings holds mappings throughout.                 *)
LEMMA AppendsMaplets ==
  ASSUME NEW n \in Nat, NEW after, NEW pieces, Appends(n, after, pieces)
  PROVE  \A k \in 0 .. n : after[k] \in Seq(Maplets)
<1>. SUFFICES ASSUME NEW k \in 0 .. n PROVE after[k] \in Seq(Maplets)
  OBVIOUS
<1>. DEFINE good == [j \in 0 .. k |-> Seq(Maplets)]
<1>1. after[0] \in good[0]
  BY DEF Appends
<1>2. ASSUME NEW j \in 1 .. k, after[j-1] \in good[j-1] PROVE after[j] \in good[j]
  <2>1. after[j-1] \in Seq(Maplets) /\ pieces[j] \in Seq(Maplets)
        /\ after[j] = after[j-1] \o pieces[j]
    <3>1. j \in 1 .. n /\ good[j-1] = Seq(Maplets)
      OBVIOUS
    <3>. HIDE DEF good
    <3>. QED
      BY <1>2, <3>1 DEF Appends
  <2>2. after[j] \in Seq(Maplets)
    BY <2>1, ConcatDoes
  <2>. QED
    BY <2>2
<1>3. good[k] = Seq(Maplets)
  OBVIOUS
<1>. HIDE DEF good
<1>. QED
  BY <1>1, <1>2, <1>3, LoopKeeps

(* It holds as many in the end as it began with, or as each turn appends.  *)
LEMMA AppendsGrow ==
  ASSUME NEW n \in Nat, NEW after, NEW pieces, Appends(n, after, pieces), NEW b \in Nat,
         \/ Len(after[0]) >= b
         \/ n >= 1 /\ \A k \in 1 .. n : Len(pieces[k]) >= b
  PROVE  Len(after[n]) >= b
<1>. DEFINE good == [k \in 0 .. n |-> {x \in Seq(Maplets) :
              (Len(after[0]) >= b \/ k >= 1) => Len(x) >= b}]
<1>1. after[0] \in good[0]
  BY DEF Appends
<1>2. ASSUME NEW k \in 1 .. n, after[k-1] \in good[k-1] PROVE after[k] \in good[k]
  <2>1. after[k-1] \in Seq(Maplets) /\ pieces[k] \in Seq(Maplets)
        /\ after[k] = after[k-1] \o pieces[k]
    BY <1>2 DEF Appends
  <2>2. after[k] \in Seq(Maplets) /\ Len(after[k]) = Len(after[k-1]) + Len(pieces[k])
        /\ Len(after[k-1]) \in Nat /\ Len(pieces[k]) \in Nat
    BY <2>1, ConcatDoes
  <2>3. Len(after[0]) >= b => Len(after[k-1]) >= b
    BY <1>2
  <2>4. Len(after[0]) >= b \/ Len(pieces[k]) >= b
    OBVIOUS
  <2>5. Len(after[k-1]) >= b \/ Len(pieces[k]) >= b
    BY <2>3, <2>4, Zenon
  <2>6. Len(after[k]) >= b
    <3>. DEFINE x == Len(after[k-1])
                y == Len(pieces[k])
                z == Len(after[k])
    <3>1. x \in Nat /\ y \in Nat /\ z = x + y /\ (x >= b \/ y >= b)
      BY <2>2, <2>5
    <3>. HIDE DEF x, y, z
    <3>2. z >= b
      BY <3>1
    <3>. QED
      BY <3>2 DEF z
  <2>. QED
    BY <2>2, <2>6
<1>3. after[n] \in good[n]
  <2>. HIDE DEF good
  <2>. QED
    BY <1>1, <1>2, LoopKeeps
<1>4. Len(after[0]) >= b \/ n >= 1 => Len(after[n]) >= b
  BY <1>3
<1>. QED
  BY <1>4

(* If every piece agrees with a mapping the whole does.                    *)
LEMMA AppendsAgree ==
  ASSUME NEW n \in Nat, NEW after, NEW pieces, Appends(n, after, pieces), NEW v, NEW f,
         Agrees(after[0], v, f), \A k \in 1 .. n : Agrees(pieces[k], v, f)
  PROVE  Agrees(after[n], v, f)
<1>. DEFINE good == [k \in 0 .. n |-> {x \in Seq(Maplets) : Agrees(x, v, f)}]
<1>1. after[0] \in good[0]
  BY DEF Appends
<1>2. ASSUME NEW k \in 1 .. n, after[k-1] \in good[k-1] PROVE after[k] \in good[k]
  <2>1. after[k-1] \in Seq(Maplets) /\ pieces[k] \in Seq(Maplets)
        /\ after[k] = after[k-1] \o pieces[k] /\ Agrees(after[k-1], v, f)
    <3>1. k - 1 \in 0 .. n /\ good[k-1] = {x \in Seq(Maplets) : Agrees(x, v, f)}
      OBVIOUS
    <3>. HIDE DEF good
    <3>2. after[k-1] \in {x \in Seq(Maplets) : Agrees(x, v, f)}
      BY <1>2, <3>1
    <3>. QED
      BY <3>2 DEF Appends
  <2>2. after[k] \in Seq(Maplets) /\ Agrees(after[k], v, f)
    BY <2>1, ConcatDoes, AgreesBoth
  <2>. QED
    BY <2>2
<1>3. after[n] \in good[n]
  <2>. HIDE DEF good
  <2>. QED
    BY <1>1, <1>2, LoopKeeps
<1>. QED
  BY <1>3

(* A piece settles a mapping for the whole when no later one disagrees.    *)
LEMMA AppendsSettle ==
  ASSUME NEW n \in Nat, NEW after, NEW pieces, Appends(n, after, pieces), NEW v, NEW f,
         NEW b \in 1 .. n, Settled(pieces[b], Len(pieces[b]), v, f),
         \A k \in (b+1) .. n : Agrees(pieces[k], v, f)
  PROVE  Settled(after[n], Len(after[n]), v, f)
<1>. DEFINE good == [k \in 0 .. n |-> {x \in Seq(Maplets) : k >= b => Settled(x, Len(x), v, f)}]
<1>1. after[0] \in good[0]
  BY DEF Appends
<1>2. ASSUME NEW k \in 1 .. n, after[k-1] \in good[k-1] PROVE after[k] \in good[k]
  <2>1. after[k-1] \in Seq(Maplets) /\ pieces[k] \in Seq(Maplets)
        /\ after[k] = after[k-1] \o pieces[k]
        /\ (k - 1 >= b => Settled(after[k-1], Len(after[k-1]), v, f))
    BY <1>2 DEF Appends
  <2>2. after[k] \in Seq(Maplets)
    BY <2>1, ConcatDoes
  <2>3. k >= b => Settled(after[k], Len(after[k]), v, f)
    <3>1. CASE k = b
      BY <2>1, <3>1, SettledLast
    <3>2. CASE k > b
      <4>1. Settled(after[k-1], Len(after[k-1]), v, f) /\ Agrees(pieces[k], v, f)
        BY <2>1, <3>2
      <4>. QED
        BY <2>1, <4>1, SettledThen
    <3>. QED
      BY <3>1, <3>2
  <2>. QED
    BY <2>2, <2>3
<1>3. after[n] \in good[n]
  <2>. HIDE DEF good
  <2>. QED
    BY <1>1, <1>2, LoopKeeps
<1>. QED
  BY <1>3

(* What one turn of a loop of init_vmm maps.                               *)
LowTurn(p) == At(p, p) \o (At(MEM_PHYS_OFFSET + p, p) \o At(kernel_virtual_start + p, p))

EntryTurn(e, p) ==
  At(MEM_PHYS_OFFSET + p, p)
    \o (IF e.type = KERNEL THEN At(kernel_virtual_start + p, p) ELSE <<>>)

(* The offsets of the two mappings as numbers.                             *)
LEMMA Offsets ==
  /\ MEM_PHYS_OFFSET \in Nat /\ kernel_virtual_start \in Nat
  /\ kernel_virtual_start - MEM_PHYS_OFFSET \in Nat
  /\ \A p \in Nat : MEM_PHYS_OFFSET + p \in Nat /\ kernel_virtual_start + p \in Nat
<1>1. MEM_PHYS_OFFSET \in Nat /\ kernel_virtual_start \in Nat
      /\ MEM_PHYS_OFFSET <= kernel_virtual_start
  BY Indices, LayoutAssumption
<1>. QED
  BY <1>1

(* A single mapping as a sequence.                                         *)
LEMMA AtIs ==
  ASSUME NEW a \in Nat, NEW p \in Nat
  PROVE  At(a, p) \in Seq(Maplets) /\ Len(At(a, p)) = 1
         /\ At(a, p)[1].vaddr = a /\ At(a, p)[1].frame = p
<1>. DEFINE r == [vaddr |-> a, frame |-> p]
<1>1. r \in Maplets /\ r.vaddr = a /\ r.frame = p
  BY DEF Maplets
<1>2. At(a, p) = <<r>>
  BY DEF At
<1>. HIDE DEF r
<1>. QED
  BY <1>1, <1>2

(* The three mappings that a turn of the first loop appends.               *)
LEMMA LowTurnIs ==
  ASSUME NEW p \in Nat
  PROVE  /\ LowTurn(p) \in Seq(Maplets) /\ Len(LowTurn(p)) >= 1
         /\ \A acc \in Seq(Maplets) :
              ((acc \o At(p, p)) \o At(MEM_PHYS_OFFSET + p, p)) \o At(kernel_virtual_start + p, p)
                = acc \o LowTurn(p)
<1>. DEFINE a == At(p, p)
            b == At(MEM_PHYS_OFFSET + p, p)
            c == At(kernel_virtual_start + p, p)
<1>1. a \in Seq(Maplets) /\ b \in Seq(Maplets) /\ c \in Seq(Maplets) /\ Len(a) = 1
  BY AtIs, Offsets
<1>2. LowTurn(p) = a \o (b \o c)
  BY DEF LowTurn
<1>. HIDE DEF a, b, c
<1>. DEFINE bc == b \o c
            abc == a \o bc
<1>3. bc \in Seq(Maplets)
  BY <1>1
<1>4. ASSUME NEW acc \in Seq(Maplets)
      PROVE  ((acc \o a) \o b) \o c = acc \o abc
  <2>1. acc \o a \in Seq(Maplets)
    BY <1>1
  <2>2. ((acc \o a) \o b) \o c = (acc \o a) \o bc
    BY <1>1, <2>1, ConcatChain, Zenon
  <2>. HIDE DEF bc
  <2>3. (acc \o a) \o bc = acc \o (a \o bc)
    BY <1>1, <1>3, ConcatChain, SMTT(20)
  <2>. QED
    BY <2>2, <2>3
<1>5. abc \in Seq(Maplets) /\ Len(abc) >= 1
  <2>. HIDE DEF bc
  <2>1. Len(bc) \in Nat
    BY <1>3
  <2>2. abc \in Seq(Maplets) /\ Len(abc) = Len(a) + Len(bc)
    BY <1>1, <1>3, ConcatDoes, Zenon
  <2>. HIDE DEF abc
  <2>. QED
    BY <1>1, <2>1, <2>2
<1>6. LowTurn(p) = abc
  BY <1>2
<1>. HIDE DEF abc
<1>. QED
  BY <1>4, <1>5, <1>6 DEF a, b, c

(* The mappings that a turn of an entry's loop appends: a second one for   *)
(* the kernel.                                                             *)
LEMMA EntryTurnIs ==
  ASSUME NEW e, NEW p \in Nat
  PROVE  /\ EntryTurn(e, p) \in Seq(Maplets)
         /\ \A acc \in Seq(Maplets) :
              (acc \o At(MEM_PHYS_OFFSET + p, p))
                  \o (IF e.type = KERNEL THEN At(kernel_virtual_start + p, p) ELSE <<>>)
                = acc \o EntryTurn(e, p)
<1>. DEFINE b == At(MEM_PHYS_OFFSET + p, p)
            c == IF e.type = KERNEL THEN At(kernel_virtual_start + p, p) ELSE <<>>
<1>1. b \in Seq(Maplets) /\ c \in Seq(Maplets)
  BY AtIs, Offsets
<1>2. EntryTurn(e, p) = b \o c
  BY DEF EntryTurn
<1>. HIDE DEF b, c
<1>3. b \o c \in Seq(Maplets)
  BY <1>1
<1>4. \A acc \in Seq(Maplets) : (acc \o b) \o c = acc \o (b \o c)
  BY <1>1, ConcatChain
<1>. QED
  BY <1>2, <1>3, <1>4 DEF b, c

(* The first loop maps at least one page.                                  *)
LEMMA LowMapsIs == LowMaps \in Seq(Maplets) /\ Len(LowMaps) >= 1
<1>. DEFINE seq == Ascending(0, LowPages - 1)
            U == Seq(Maplets)
            Turn(acc, p) == ((acc \o At(p, p)) \o At(MEM_PHYS_OFFSET + p, p))
                              \o At(kernel_virtual_start + p, p)
            Is(after) == after = [k \in 0 .. Len(seq) |->
                                    IF k = 0 THEN <<>> ELSE Turn(after[k-1], seq[k])]
            states == CHOOSE after : Is(after)
            n == LowPages
<1>1. LowMaps = states[Len(seq)]
  BY DEF LowMaps, Through
<1>2. n \in Nat \ {0}
  BY LayoutAssumption
<1>3. seq \in Seq(Nat) /\ Len(seq) = n
  <2>1. Ascending(0, 0 + LowPages - 1) \in Seq(Nat) /\ Len(Ascending(0, 0 + LowPages - 1)) = LowPages
    BY <1>2, AscendingIs
  <2>2. 0 + LowPages - 1 = LowPages - 1
    BY <1>2
  <2>. QED
    BY <2>1, <2>2
<1>4. <<>> \in U
  OBVIOUS
<1>5. ASSUME NEW acc \in U, NEW p \in Nat
      PROVE  Turn(acc, p) = acc \o LowTurn(p) /\ Turn(acc, p) \in U
  <2>1. Turn(acc, p) = acc \o LowTurn(p) /\ LowTurn(p) \in U
    BY LowTurnIs
  <2>. HIDE DEF Turn
  <2>2. acc \o LowTurn(p) \in U
    BY <2>1, ConcatDoes
  <2>. QED
    BY <2>1, <2>2
<1>. HIDE DEF Turn, seq, n
<1>6. \A k \in 1 .. n : seq[k] \in Nat
  BY <1>2, <1>3
<1>7. \E after : Is(after)
  <2>. DEFINE turn == [k \in 1 .. n |-> [acc \in U |-> Turn(acc, seq[k])]]
  <2>1. turn \in [1 .. n -> [U -> U]]
    BY <1>5, <1>6
  <2>. HIDE DEF turn, Is, states, U
  <2>2. PICK after : Runs(n, U, turn, <<>>, after)
    BY <1>2, <1>4, <2>1, LoopRuns
  <2>3. ASSUME NEW k \in 1 .. n PROVE after[k] = Turn(after[k-1], seq[k])
    <3>1. after[k-1] \in U
      BY <1>2, <2>2 DEF Runs
    <3>. QED
      BY <2>2, <3>1 DEF turn, Runs
  <2>4. Is(after)
    BY <1>2, <1>3, <2>2, <2>3 DEF Is, Runs
  <2>. QED
    BY <2>4
<1>8. Is(states)
  BY <1>7
<1>. HIDE DEF states
<1>9. /\ states[0] = <<>>
      /\ \A k \in 1 .. n : states[k] = Turn(states[k-1], seq[k])
  BY <1>2, <1>3, <1>8
<1>10. \A k \in 0 .. n : states[k] \in U
  <2>. SUFFICES ASSUME NEW j \in 0 .. n PROVE states[j] \in U
    OBVIOUS
  <2>. DEFINE good == [k \in 0 .. j |-> U]
  <2>1. states[0] \in good[0]
    BY <1>2, <1>4, <1>9
  <2>2. ASSUME NEW k \in 1 .. j, states[k-1] \in good[k-1] PROVE states[k] \in good[k]
    <3>1. states[k-1] \in U /\ k \in 1 .. n /\ good[k] = U
      BY <1>2, <2>2
    <3>2. states[k] = Turn(states[k-1], seq[k]) /\ seq[k] \in Nat
      BY <1>6, <1>9, <3>1
    <3>. HIDE DEF U, good
    <3>3. states[k] \in U
      BY <1>5, <3>1, <3>2
    <3>. QED
      BY <3>1, <3>3
  <2>3. good[j] = U /\ j \in Nat
    BY <1>2
  <2>. HIDE DEF good, U
  <2>. QED
    BY <1>2, <2>1, <2>2, <2>3, LoopKeeps
<1>. DEFINE pieces == [k \in 1 .. n |-> LowTurn(seq[k])]
<1>11. ASSUME NEW k \in 1 .. n
       PROVE  /\ pieces[k] \in U /\ Len(pieces[k]) >= 1
              /\ states[k] = states[k-1] \o pieces[k]
  <2>1. pieces[k] = LowTurn(seq[k]) /\ seq[k] \in Nat /\ k - 1 \in 0 .. n
    BY <1>2, <1>6
  <2>2. LowTurn(seq[k]) \in U /\ Len(LowTurn(seq[k])) >= 1
    BY <2>1, LowTurnIs
  <2>. HIDE DEF pieces
  <2>3. states[k-1] \in U /\ states[k] = Turn(states[k-1], seq[k])
    BY <1>9, <1>10, <2>1
  <2>4. states[k] = states[k-1] \o LowTurn(seq[k])
    BY <1>5, <2>1, <2>3
  <2>. QED
    BY <2>1, <2>2, <2>4
<1>. HIDE DEF pieces
<1>12. Appends(n, states, pieces)
  BY <1>4, <1>9, <1>11 DEF Appends
<1>13. states[n] \in Seq(Maplets)
  BY <1>2, <1>10
<1>14. Len(states[n]) >= 1
  <2>1. n >= 1 /\ n \in Nat
    BY <1>2
  <2>2. \A k \in 1 .. n : Len(pieces[k]) >= 1
    BY <1>11, Zenon
  <2>. QED
    BY <1>12, <2>1, <2>2, AppendsGrow
<1>. QED
  BY <1>1, <1>3, <1>13, <1>14

FirstPage(e) == e.range.base \div PAGE_SIZE

PageCount(e) == e.range.length \div PAGE_SIZE

(* The pages that an entry's loop visits are those of its span.            *)
LEMMA EntryPages ==
  ASSUME NEW e \in MmapEntries
  PROVE  /\ FirstPage(e) \in Nat /\ PageCount(e) \in Nat
         /\ PageSpan(e.range) = FirstPage(e) .. (FirstPage(e) + PageCount(e) - 1)
<1>1. e.range.base \in Nat /\ e.range.length \in Nat
  BY DEF MmapEntries, AddrRanges
<1>. QED
  BY <1>1, PageSizeAssumption DEF FirstPage, PageCount, PageSpan

(* The loop over the pages of an entry.                                    *)
EntryLoop(e, states, pieces) ==
  /\ Appends(PageCount(e), states, pieces)
  /\ states[0] = <<>> /\ EntryMaps(e) = states[PageCount(e)]
  /\ \A k \in 1 .. PageCount(e) : pieces[k] = EntryTurn(e, FirstPage(e) + k - 1)

(* An entry's loop has its states, and each turn appends the mappings of   *)
(* its page.                                                               *)
LEMMA EntryMapsIs ==
  ASSUME NEW e \in MmapEntries
  PROVE  \E states, pieces : EntryLoop(e, states, pieces)
<1>. DEFINE n == PageCount(e)
            seq == Ascending(FirstPage(e), FirstPage(e) + PageCount(e) - 1)
            U == Seq(Maplets)
            Turn(acc, p) == (acc \o At(MEM_PHYS_OFFSET + p, p))
                 \o (IF e.type = KERNEL THEN At(kernel_virtual_start + p, p) ELSE <<>>)
            Is(after) == after = [k \in 0 .. Len(seq) |->
                                    IF k = 0 THEN <<>> ELSE Turn(after[k-1], seq[k])]
            states == CHOOSE after : Is(after)
<1>1. EntryMaps(e) = states[Len(seq)]
  BY DEF EntryMaps, Through, FirstPage, PageCount
<1>2. n \in Nat
  BY EntryPages
<1>3. /\ seq \in Seq(Nat) /\ Len(seq) = n
      /\ \A k \in 1 .. n : seq[k] = FirstPage(e) + k - 1
  <2>. DEFINE first == FirstPage(e)
              count == PageCount(e)
  <2>1. first \in Nat /\ count \in Nat
    BY EntryPages
  <2>. HIDE DEF first, count
  <2>2. /\ Ascending(first, first + count - 1) \in Seq(Nat)
        /\ Len(Ascending(first, first + count - 1)) = count
        /\ \A i \in 1 .. count : Ascending(first, first + count - 1)[i] = first + i - 1
    BY <2>1, AscendingIs
  <2>. QED
    BY <2>2 DEF first, count
<1>4. <<>> \in U
  OBVIOUS
<1>5. ASSUME NEW acc \in U, NEW p \in Nat
      PROVE  Turn(acc, p) = acc \o EntryTurn(e, p) /\ Turn(acc, p) \in U
  <2>1. Turn(acc, p) = acc \o EntryTurn(e, p) /\ EntryTurn(e, p) \in U
    BY EntryTurnIs
  <2>. HIDE DEF Turn
  <2>2. acc \o EntryTurn(e, p) \in U
    BY <2>1, ConcatDoes
  <2>. QED
    BY <2>1, <2>2
<1>. HIDE DEF Turn, seq, n
<1>6. \A k \in 1 .. n : seq[k] \in Nat
  BY <1>2, <1>3
<1>7. \E after : Is(after)
  <2>. DEFINE turn == [k \in 1 .. n |-> [acc \in U |-> Turn(acc, seq[k])]]
  <2>1. turn \in [1 .. n -> [U -> U]]
    BY <1>5, <1>6
  <2>. HIDE DEF turn, Is, states, U
  <2>2. PICK after : Runs(n, U, turn, <<>>, after)
    BY <1>2, <1>4, <2>1, LoopRuns
  <2>3. ASSUME NEW k \in 1 .. n PROVE after[k] = Turn(after[k-1], seq[k])
    <3>1. after[k-1] \in U
      BY <1>2, <2>2 DEF Runs
    <3>. QED
      BY <2>2, <3>1 DEF turn, Runs
  <2>4. Is(after)
    BY <1>2, <1>3, <2>2, <2>3 DEF Is, Runs
  <2>. QED
    BY <2>4
<1>8. Is(states)
  BY <1>7
<1>. HIDE DEF states
<1>9. /\ states[0] = <<>>
      /\ \A k \in 1 .. n : states[k] = Turn(states[k-1], seq[k])
  BY <1>2, <1>3, <1>8
<1>10. \A k \in 0 .. n : states[k] \in U
  <2>. SUFFICES ASSUME NEW j \in 0 .. n PROVE states[j] \in U
    OBVIOUS
  <2>. DEFINE good == [k \in 0 .. j |-> U]
  <2>1. states[0] \in good[0]
    BY <1>2, <1>4, <1>9
  <2>2. ASSUME NEW k \in 1 .. j, states[k-1] \in good[k-1] PROVE states[k] \in good[k]
    <3>1. states[k-1] \in U /\ k \in 1 .. n /\ good[k] = U
      BY <1>2, <2>2
    <3>2. states[k] = Turn(states[k-1], seq[k]) /\ seq[k] \in Nat
      BY <1>6, <1>9, <3>1
    <3>. HIDE DEF U, good
    <3>3. states[k] \in U
      BY <1>5, <3>1, <3>2
    <3>. QED
      BY <3>1, <3>3
  <2>3. good[j] = U /\ j \in Nat
    BY <1>2
  <2>. HIDE DEF good, U
  <2>. QED
    BY <1>2, <2>1, <2>2, <2>3, LoopKeeps
<1>. DEFINE pieces == [k \in 1 .. n |-> EntryTurn(e, seq[k])]
<1>11. ASSUME NEW k \in 1 .. n
       PROVE  /\ pieces[k] \in U /\ pieces[k] = EntryTurn(e, FirstPage(e) + k - 1)
              /\ states[k] = states[k-1] \o pieces[k]
  <2>1. pieces[k] = EntryTurn(e, seq[k]) /\ seq[k] \in Nat /\ k - 1 \in 0 .. n
        /\ seq[k] = FirstPage(e) + k - 1
    BY <1>2, <1>3, <1>6
  <2>2. EntryTurn(e, seq[k]) \in U
    BY <2>1, EntryTurnIs
  <2>. HIDE DEF pieces
  <2>3. pieces[k] \in U /\ pieces[k] = EntryTurn(e, FirstPage(e) + k - 1)
    BY <2>1, <2>2
  <2>4. states[k-1] \in U /\ states[k] = Turn(states[k-1], seq[k])
    BY <1>9, <1>10, <2>1
  <2>5. states[k] = states[k-1] \o pieces[k]
    BY <1>5, <2>1, <2>4
  <2>. QED
    BY <2>3, <2>5
<1>. HIDE DEF pieces
<1>12. Appends(n, states, pieces)
  BY <1>4, <1>9, <1>11 DEF Appends
<1>13. EntryLoop(e, states, pieces)
  BY <1>1, <1>3, <1>9, <1>11, <1>12 DEF EntryLoop, n
<1>. QED
  BY <1>13

(* An entry's loop gives a sequence of mappings.                           *)
LEMMA EntryMapsAreMaplets ==
  ASSUME NEW e \in MmapEntries
  PROVE  EntryMaps(e) \in Seq(Maplets)
<1>1. PICK states, pieces : EntryLoop(e, states, pieces)
  BY EntryMapsIs
<1>2. PageCount(e) \in Nat
  BY EntryPages
<1>. QED
  BY <1>1, <1>2, AppendsMaplets DEF EntryLoop

(* The loop over the entries of the memory map.                            *)
BootLoop(boot, states, pieces) ==
  /\ Appends(Len(boot.mmap), states, pieces)
  /\ states[0] = LowMaps /\ BootMaps(boot) = states[Len(boot.mmap)]
  /\ \A k \in 1 .. Len(boot.mmap) : pieces[k] = EntryMaps(boot.mmap[k])

(* The loop over the entries has its states, and each turn appends the     *)
(* mappings of its entry.                                                  *)
LEMMA BootMapsIs ==
  ASSUME NEW boot, boot.mmap \in Seq(MmapEntries)
  PROVE  \E states, pieces : BootLoop(boot, states, pieces)
<1>. DEFINE seq == boot.mmap
            n == Len(boot.mmap)
            U == Seq(Maplets)
            Turn(acc, e) == acc \o EntryMaps(e)
            Is(after) == after = [k \in 0 .. Len(seq) |->
                                    IF k = 0 THEN LowMaps ELSE Turn(after[k-1], seq[k])]
            states == CHOOSE after : Is(after)
<1>1. BootMaps(boot) = states[Len(seq)]
  BY DEF BootMaps, Through
<1>2. n \in Nat /\ \A k \in 1 .. n : seq[k] \in MmapEntries
  OBVIOUS
<1>3. Len(seq) = n
  OBVIOUS
<1>4. LowMaps \in U
  BY LowMapsIs
<1>5. ASSUME NEW acc \in U, NEW e \in MmapEntries
      PROVE  Turn(acc, e) \in U
  BY EntryMapsAreMaplets, ConcatDoes
<1>. HIDE DEF Turn, seq, n
<1>7. \E after : Is(after)
  <2>. DEFINE turn == [k \in 1 .. n |-> [acc \in U |-> Turn(acc, seq[k])]]
  <2>1. turn \in [1 .. n -> [U -> U]]
    BY <1>2, <1>5
  <2>. HIDE DEF turn, Is, states, U
  <2>2. PICK after : Runs(n, U, turn, LowMaps, after)
    BY <1>2, <1>4, <2>1, LoopRuns
  <2>3. ASSUME NEW k \in 1 .. n PROVE after[k] = Turn(after[k-1], seq[k])
    <3>1. after[k-1] \in U
      BY <1>2, <2>2 DEF Runs
    <3>. QED
      BY <2>2, <3>1 DEF turn, Runs
  <2>4. Is(after)
    BY <1>2, <1>3, <2>2, <2>3 DEF Is, Runs
  <2>. QED
    BY <2>4
<1>8. Is(states)
  BY <1>7
<1>. HIDE DEF states
<1>9. /\ states[0] = LowMaps
      /\ \A k \in 1 .. n : states[k] = Turn(states[k-1], seq[k])
  BY <1>2, <1>3, <1>8
<1>. DEFINE pieces == [k \in 1 .. n |-> EntryMaps(seq[k])]
<1>11. ASSUME NEW k \in 1 .. n
       PROVE  /\ pieces[k] \in U /\ pieces[k] = EntryMaps(seq[k])
              /\ states[k] = states[k-1] \o pieces[k]
  <2>1. pieces[k] = EntryMaps(seq[k]) /\ EntryMaps(seq[k]) \in U
    BY <1>2, EntryMapsAreMaplets
  <2>. QED
    BY <1>9, <2>1 DEF Turn
<1>. HIDE DEF pieces
<1>12. Appends(n, states, pieces)
  BY <1>4, <1>9, <1>11 DEF Appends
<1>13. BootLoop(boot, states, pieces)
  BY <1>1, <1>3, <1>9, <1>11, <1>12 DEF BootLoop, n, seq
<1>. QED
  BY <1>13

(* init_vmm makes a sequence of mappings, and at least one.                *)
LEMMA BootMapsAreMaplets ==
  ASSUME NEW boot, boot.mmap \in Seq(MmapEntries)
  PROVE  BootMaps(boot) \in Seq(Maplets) /\ Len(BootMaps(boot)) >= 1
<1>1. PICK states, pieces : BootLoop(boot, states, pieces)
  BY BootMapsIs
<1>. DEFINE n == Len(boot.mmap)
<1>2. n \in Nat /\ Len(LowMaps) >= 1
  BY LowMapsIs
<1>. HIDE DEF n
<1>3. Appends(n, states, pieces) /\ states[0] = LowMaps /\ BootMaps(boot) = states[n]
  BY <1>1 DEF BootLoop, n
<1>4. states[n] \in Seq(Maplets)
  BY <1>2, <1>3, AppendsMaplets
<1>5. Len(states[n]) >= 1
  BY <1>2, <1>3, AppendsGrow
<1>. QED
  BY <1>3, <1>4, <1>5

(* Addresses below the reach of the tables from w on that share its        *)
(* indices are w.                                                          *)
LEMMA SamePage ==
  ASSUME NEW v \in Nat, NEW w \in VPages, v < w + W * W * W * W, SameEntries(v, w)
  PROVE  v = w
<1>. DEFINE Z == W * W * W * W
<1>1. Z \in Nat \ {0} /\ w \in Nat
  BY TablesAssumption DEF VPages
<1>2. PICK k \in Nat : v = w + Z * k
  BY SameIndices DEF SameEntries
<1>3. v < w + Z
  OBVIOUS
<1>. HIDE DEF Z
<1>4. k = 0
  <2>1. ASSUME k >= 1 PROVE FALSE
    <3>1. Z * k >= Z
      BY <1>1, <2>1
    <3>. DEFINE zk == Z * k
    <3>2. zk \in Nat
      BY <1>1
    <3>. HIDE DEF zk
    <3>. QED
      BY <1>1, <1>2, <1>3, <3>1, <3>2 DEF zk
  <2>. QED
    BY <2>1
<1>5. Z * k = 0
  BY <1>1, <1>4
<1>. QED
  BY <1>1, <1>2, <1>5

(* Pages with the same table indices are one page.                         *)
LEMMA TwoPages ==
  ASSUME NEW v \in VPages, NEW w \in VPages, SameEntries(v, w)
  PROVE  v = w
<1>1. v \in Nat /\ v < w + W * W * W * W
  BY TablesAssumption DEF VPages
<1>. QED
  BY <1>1, SamePage

(* In the 2 GiB above MEM_PHYS_OFFSET a page is reached at one address.    *)
LEMMA OnePlace ==
  ASSUME NEW p \in Nat, MEM_PHYS_OFFSET + p \in VPages, NEW q \in VPages,
         SameEntries(MEM_PHYS_OFFSET + q, MEM_PHYS_OFFSET + p)
  PROVE  q = p
<1>. DEFINE v == MEM_PHYS_OFFSET + q
            w == MEM_PHYS_OFFSET + p
<1>1. v \in Nat /\ q \in Nat /\ v < w + W * W * W * W
  BY TablesAssumption, Offsets DEF VPages
<1>2. w \in VPages /\ SameEntries(v, w)
  OBVIOUS
<1>3. v = w
  <2>. HIDE DEF v, w
  <2>. QED
    BY <1>1, <1>2, SamePage
<1>. QED
  BY <1>1, <1>3, Offsets

Shift == kernel_virtual_start - MEM_PHYS_OFFSET

(* The assumption on one entry of the memory map.                          *)
Fits(e) ==
  \A p \in PageSpan(e.range) : p \in VPages /\ (e.type = KERNEL => p + Shift \in VPages)

(* A turn of an entry's loop maps the direct mapping's page of p to p      *)
(* alone, unless the kernel's second mapping falls on it.                  *)
LEMMA EntryTurnMaps ==
  ASSUME NEW e \in MmapEntries, Fits(e), NEW q \in PageSpan(e.range),
         NEW p \in Nat, MEM_PHYS_OFFSET + p \in VPages
  PROVE  /\ (e.type = KERNEL => q + Shift # p \/ q = p)
              => Agrees(EntryTurn(e, q), MEM_PHYS_OFFSET + p, p)
         /\ q = p => Settled(EntryTurn(e, q), Len(EntryTurn(e, q)), MEM_PHYS_OFFSET + p, p)
<1>. DEFINE v == MEM_PHYS_OFFSET + p
            b == At(MEM_PHYS_OFFSET + q, q)
            c == At(kernel_virtual_start + q, q)
<1>1. q \in VPages /\ (e.type = KERNEL => q + Shift \in VPages) /\ q \in Nat
  BY Indices DEF Fits
<1>2. /\ Shift \in Nat /\ MEM_PHYS_OFFSET \in Nat
      /\ kernel_virtual_start + q = MEM_PHYS_OFFSET + (q + Shift)
  BY <1>1, Offsets DEF Shift
<1>3. /\ b \in Seq(Maplets) /\ Len(b) = 1 /\ b[1].vaddr = MEM_PHYS_OFFSET + q /\ b[1].frame = q
      /\ c \in Seq(Maplets) /\ Len(c) = 1 /\ c[1].frame = q
      /\ c[1].vaddr = MEM_PHYS_OFFSET + (q + Shift)
  <2>1. MEM_PHYS_OFFSET + q \in Nat /\ kernel_virtual_start + q \in Nat
    BY <1>1, Offsets
  <2>. QED
    BY <1>1, <1>2, <2>1, AtIs
<1>4. Agrees(b, v, p)
  <2>1. SameEntries(MEM_PHYS_OFFSET + q, v) => q = p
    BY <1>1, OnePlace
  <2>. HIDE DEF b, c, v
  <2>. QED
    BY <1>3, <2>1 DEF Agrees
<1>5. e.type = KERNEL /\ (q + Shift # p \/ q = p) => Agrees(c, v, p)
  <2>. SUFFICES ASSUME e.type = KERNEL, q + Shift # p \/ q = p PROVE Agrees(c, v, p)
    OBVIOUS
  <2>. DEFINE r == q + Shift
  <2>1. SameEntries(MEM_PHYS_OFFSET + r, v) => r = p
    BY <1>1, OnePlace
  <2>2. r # p \/ q = p
    OBVIOUS
  <2>3. c[1].vaddr = MEM_PHYS_OFFSET + r
    BY <1>3
  <2>. HIDE DEF b, c, v, r
  <2>. QED
    BY <1>3, <2>1, <2>2, <2>3 DEF Agrees
<1>6. q = p => Settled(b, Len(b), v, p)
  <2>. SUFFICES ASSUME q = p PROVE Settled(b, Len(b), v, p)
    OBVIOUS
  <2>1. SameEntries(b[1].vaddr, v) /\ b[1].frame = p
    <3>1. b[1].vaddr = v
      BY <1>3
    <3>. HIDE DEF b, v
    <3>. QED
      BY <1>3, <3>1 DEF SameEntries
  <2>. HIDE DEF b, v
  <2>2. 1 \in 1 .. Len(b) /\ \A i \in (1+1) .. Len(b) : FALSE
    BY <1>3
  <2>. QED
    BY <2>1, <2>2 DEF Settled
<1>7. EntryTurn(e, q) = b \o (IF e.type = KERNEL THEN c ELSE <<>>)
  BY DEF EntryTurn
<1>. HIDE DEF b, c, v
<1>8. CASE e.type = KERNEL
  <2>1. EntryTurn(e, q) = b \o c
    BY <1>7, <1>8
  <2>2. (q + Shift # p \/ q = p) => Agrees(b \o c, v, p)
    BY <1>3, <1>4, <1>5, <1>8, AgreesBoth
  <2>3. q = p => Settled(b \o c, Len(b \o c), v, p)
    BY <1>3, <1>5, <1>6, <1>8, SettledThen
  <2>. QED
    BY <1>8, <2>1, <2>2, <2>3 DEF v
<1>9. CASE e.type # KERNEL
  <2>1. EntryTurn(e, q) = b
    BY <1>3, <1>7, <1>9
  <2>. QED
    BY <1>4, <1>6, <2>1 DEF v
<1>. QED
  BY <1>8, <1>9

(* The kernel's entry e covers the page whose second mapping falls on the  *)
(* direct mapping of p.                                                    *)
Covers(e, p) == e.type = KERNEL /\ p - Shift \in PageSpan(e.range)

(* An entry that covers neither p nor the page whose second mapping falls  *)
(* on the direct mapping of p leaves that mapping alone.                   *)
LEMMA EntryMapsAgree ==
  ASSUME NEW e \in MmapEntries, Fits(e), NEW p \in Nat, MEM_PHYS_OFFSET + p \in VPages,
         ~ Covers(e, p)
  PROVE  Agrees(EntryMaps(e), MEM_PHYS_OFFSET + p, p)
<1>. DEFINE v == MEM_PHYS_OFFSET + p
            n == PageCount(e)
            first == FirstPage(e)
<1>1. PICK states, pieces : EntryLoop(e, states, pieces)
  BY EntryMapsIs
<1>2. n \in Nat /\ first \in Nat /\ PageSpan(e.range) = first .. (first + n - 1)
      /\ Shift \in Nat
  BY EntryPages, Offsets DEF Shift
<1>3. ASSUME NEW k \in 1 .. n PROVE Agrees(pieces[k], v, p)
  <2>. DEFINE q == first + k - 1
  <2>1. q \in PageSpan(e.range) /\ pieces[k] = EntryTurn(e, q) /\ q \in Nat
    BY <1>1, <1>2 DEF EntryLoop
  <2>. HIDE DEF q, first, n
  <2>2. e.type = KERNEL => q + Shift # p
    <3>1. q + Shift = p => p - Shift = q
      BY <1>2, <2>1
    <3>. QED
      BY <2>1, <3>1 DEF Covers
  <2>3. Agrees(EntryTurn(e, q), MEM_PHYS_OFFSET + p, p)
    BY <2>1, <2>2, EntryTurnMaps
  <2>. QED
    BY <2>1, <2>3
<1>. HIDE DEF n, first, v
<1>4. Appends(n, states, pieces) /\ states[0] = <<>> /\ EntryMaps(e) = states[n]
  BY <1>1 DEF EntryLoop, n
<1>5. Agrees(<<>>, v, p)
  BY DEF Agrees
<1>. QED
  BY <1>2, <1>3, <1>4, <1>5, AppendsAgree DEF v

(* An entry settles the direct mapping of each of its pages.               *)
LEMMA EntryMapsSettle ==
  ASSUME NEW e \in MmapEntries, Fits(e), NEW p \in PageSpan(e.range),
         MEM_PHYS_OFFSET + p \in VPages
  PROVE  Settled(EntryMaps(e), Len(EntryMaps(e)), MEM_PHYS_OFFSET + p, p)
<1>. DEFINE v == MEM_PHYS_OFFSET + p
            n == PageCount(e)
            first == FirstPage(e)
            b == p - first + 1
<1>1. PICK states, pieces : EntryLoop(e, states, pieces)
  BY EntryMapsIs
<1>2. n \in Nat /\ first \in Nat /\ PageSpan(e.range) = first .. (first + n - 1)
      /\ Shift \in Nat
  BY EntryPages, Offsets DEF Shift
<1>3. b \in 1 .. n /\ p \in Nat /\ first + b - 1 = p
  BY <1>2
<1>4. \A k \in 1 .. n : pieces[k] = EntryTurn(e, first + k - 1)
  BY <1>1 DEF EntryLoop
<1>. HIDE DEF b
<1>5. Settled(pieces[b], Len(pieces[b]), v, p)
  <2>1. pieces[b] = EntryTurn(e, p)
    BY <1>3, <1>4
  <2>2. Settled(EntryTurn(e, p), Len(EntryTurn(e, p)), MEM_PHYS_OFFSET + p, p)
    BY <1>3, EntryTurnMaps
  <2>. QED
    BY <2>1, <2>2
<1>6. ASSUME NEW k \in (b+1) .. n PROVE Agrees(pieces[k], v, p)
  <2>. DEFINE q == first + k - 1
  <2>1. q \in PageSpan(e.range) /\ pieces[k] = EntryTurn(e, q) /\ q \in Nat /\ q > p
    BY <1>2, <1>3, <1>4
  <2>. HIDE DEF q
  <2>2. q + Shift # p
    BY <1>2, <1>3, <2>1
  <2>3. Agrees(EntryTurn(e, q), MEM_PHYS_OFFSET + p, p)
    BY <1>3, <2>1, <2>2, EntryTurnMaps
  <2>. QED
    BY <2>1, <2>3
<1>. HIDE DEF n, first, v
<1>7. Appends(n, states, pieces) /\ EntryMaps(e) = states[n]
  BY <1>1 DEF EntryLoop, n
<1>8. Settled(states[n], Len(states[n]), v, p)
  BY <1>2, <1>3, <1>5, <1>6, <1>7, AppendsSettle
<1>. QED
  BY <1>7, <1>8 DEF v

(* So does the whole of init_vmm, if no later entry covers the page.       *)
LEMMA BootMapsSettle ==
  ASSUME NEW boot, boot.mmap \in Seq(MmapEntries), \A k \in DOMAIN boot.mmap : Fits(boot.mmap[k]),
         NEW k \in DOMAIN boot.mmap, NEW p \in PageSpan(boot.mmap[k].range),
         MEM_PHYS_OFFSET + p \in VPages,
         \A j \in DOMAIN boot.mmap : j > k => ~ Covers(boot.mmap[j], p)
  PROVE  Settled(BootMaps(boot), Len(BootMaps(boot)), MEM_PHYS_OFFSET + p, p)
<1>. DEFINE v == MEM_PHYS_OFFSET + p
            map == boot.mmap
            n == Len(map)
<1>1. PICK states, pieces : BootLoop(boot, states, pieces)
  BY BootMapsIs
<1>2. n \in Nat /\ k \in 1 .. n /\ \A j \in 1 .. n : map[j] \in MmapEntries /\ Fits(map[j])
  OBVIOUS
<1>3. \A j \in 1 .. n : j > k => ~ Covers(map[j], p)
  OBVIOUS
<1>4. p \in Nat
  <2>1. p \in VPages
    BY <1>2 DEF Fits
  <2>. QED
    BY <2>1, Indices
<1>5. /\ \A j \in 1 .. n : pieces[j] = EntryMaps(map[j])
      /\ Appends(n, states, pieces) /\ BootMaps(boot) = states[n]
  BY <1>1 DEF BootLoop
<1>6. p \in PageSpan(map[k].range) /\ MEM_PHYS_OFFSET + p \in VPages
  OBVIOUS
<1>. HIDE DEF map, n
<1>7. Settled(pieces[k], Len(pieces[k]), v, p)
  <2>1. Settled(EntryMaps(map[k]), Len(EntryMaps(map[k])), MEM_PHYS_OFFSET + p, p)
    BY <1>2, <1>6, EntryMapsSettle
  <2>. QED
    BY <1>2, <1>5, <2>1
<1>8. ASSUME NEW j \in (k+1) .. n PROVE Agrees(pieces[j], v, p)
  <2>1. j \in 1 .. n /\ ~ Covers(map[j], p)
    BY <1>2, <1>3
  <2>2. Agrees(EntryMaps(map[j]), MEM_PHYS_OFFSET + p, p)
    BY <1>2, <1>4, <1>6, <2>1, EntryMapsAgree
  <2>. QED
    BY <1>5, <2>1, <2>2
<1>. HIDE DEF v
<1>9. Settled(states[n], Len(states[n]), v, p)
  BY <1>2, <1>5, <1>7, <1>8, AppendsSettle
<1>. QED
  BY <1>5, <1>9 DEF v

-----------------------------------------------------------------------------
(* The entries of the bootloader's map lie where the assumption says.      *)
LEMMA InfoFits ==
  ASSUME NEW boot \in BootInfos
  PROVE  boot.mmap \in Seq(MmapEntries) /\ \A k \in DOMAIN boot.mmap : Fits(boot.mmap[k])
BY BootInfosAssumption DEF Fits, Shift

(* Every step keeps the invariant.                                         *)
LEMMA IInvHolds ==
  ASSUME IInv, [Next]_vars
  PROVE  IInv'
<1>1. /\ info \in BootInfos /\ mem \in Memories
      /\ held \in SUBSET Pool /\ spaces \in SUBSET Pool /\ data \in SUBSET Pool
      /\ todo \in Seq(Maplets) /\ phase \in {"boot", "mapping", "ready", "halted"}
      /\ kernel_plm4 \in spaces \cup {0}
      /\ Rooted(mem, held, spaces, data)
  BY DEF IInv, TypeInv, PhaseInv, RootsInv
<1>2. CASE Begun
  <2>1. BootMaps(info) \in Seq(Maplets) /\ BootMaps(info) # <<>>
    <3>1. BootMaps(info) \in Seq(Maplets) /\ Len(BootMaps(info)) >= 1
      BY <1>1, InfoFits, BootMapsAreMaplets
    <3>2. Len(<<>>) = 0
      OBVIOUS
    <3>. QED
      BY <3>1, <3>2
  <2>2. TypeInv'
    BY <1>1, <1>2, <2>1 DEF Begun, SpaceMade, TypeInv
  <2>3. PhaseInv'
    BY <1>2, <2>1 DEF Begun, PhaseInv
  <2>4. RootsInv'
    BY <1>2 DEF Begun, SpaceMade, RootsInv
  <2>. QED
    BY <2>2, <2>3, <2>4 DEF IInv
<1>3. CASE OneMapped
  <2>1. todo # <<>> /\ data = {} /\ spaces = {kernel_plm4}
    BY <1>3 DEF OneMapped, IInv, PhaseInv
  <2>2. Tail(todo) \in Seq(Maplets)
    BY <1>1, <2>1
  <2>3. TypeInv'
    BY <1>1, <1>3, <2>2 DEF OneMapped, PageMapped, TypeInv
  <2>4. PhaseInv'
    BY <1>3, <2>1 DEF OneMapped, PhaseInv
  <2>5. RootsInv'
    BY <1>3 DEF OneMapped, PageMapped, RootsInv
  <2>. QED
    BY <2>3, <2>4, <2>5 DEF IInv
<1>4. CASE Made
  <2>1. PICK p \in Pool : SpaceMade(p)
    BY <1>4 DEF Made
  <2>2. TypeInv'
    BY <1>1, <1>4, <2>1 DEF Made, SpaceMade, TypeInv
  <2>3. PhaseInv'
    BY <1>4, <2>1 DEF Made, SpaceMade, PhaseInv, IInv
  <2>4. RootsInv'
    BY <1>4, <2>1 DEF Made, SpaceMade, RootsInv
  <2>. QED
    BY <2>2, <2>3, <2>4 DEF IInv
<1>5. ASSUME NEW space \in spaces, NEW is_user \in BOOLEAN, Allocated(space, is_user)
      PROVE  IInv'
  <2>1. PICK p \in Pool \ held :
          /\ data' = data \cup {p}
          /\ PageMapped(space, Window[is_user].start, Leaf(p, is_user), data')
    BY <1>5 DEF Allocated
  <2>2. TypeInv'
    BY <1>1, <1>5, <2>1 DEF Allocated, PageMapped, TypeInv
  <2>3. PhaseInv'
    BY <1>5 DEF Allocated, PhaseInv, IInv
  <2>4. RootsInv'
    BY <1>5, <2>1 DEF Allocated, PageMapped, RootsInv
  <2>. QED
    BY <2>2, <2>3, <2>4 DEF IInv
<1>6. CASE Freed
  <2>1. TypeInv'
    BY <1>1, <1>6 DEF Freed, TypeInv
  <2>2. PhaseInv'
    BY <1>6 DEF Freed, PhaseInv, IInv
  <2>3. RootsInv'
    BY <1>6 DEF Freed, RootsInv
  <2>. QED
    BY <2>1, <2>2, <2>3 DEF IInv
<1>7. CASE Halts
  BY <1>1, <1>7 DEF Halts, IInv, TypeInv, PhaseInv, RootsInv
<1>8. CASE UNCHANGED vars
  BY <1>8 DEF vars, IInv, TypeInv, PhaseInv, RootsInv
<1>. QED
  BY <1>2, <1>3, <1>4, <1>5, <1>6, <1>7, <1>8, StepDoes

(* The invariant implies the type invariant.                               *)
LEMMA IInvImpliesTypeOK ==
  ASSUME IInv
  PROVE  TypeOK
<1>1. PICK L \in Levels : L[3] = spaces /\ Forest(mem, held, L, data)
  BY DEF IInv, RootsInv, Rooted
<1>2. spaces \subseteq held /\ data \subseteq held
  BY <1>1, TablesAreHeld
<1>3. DOMAIN mem = Pool /\ \A page \in Pool : DOMAIN mem[page] = Index
  BY DEF IInv, TypeInv, Memories, Tables
<1>. QED
  BY <1>2, <1>3 DEF IInv, TypeInv, PhaseInv, TypeOK

(* init_vmm's first n mappings are made, in order; the rest is to be done. *)
Remaining(n) ==
  /\ n \in 0 .. Len(BootMaps(info)) /\ Len(todo) = Len(BootMaps(info)) - n
  /\ \A i \in 1 .. Len(todo) : todo[i] = BootMaps(info)[n+i]

(* The kernel's space maps each page as those mappings settle it: all of   *)
(* them until init_vmm is done, those of the direct mapping ever after.    *)
Follows(n) ==
  \A v \in VPages, f \in Nat :
    (phase = "mapping" \/ v >= MEM_PHYS_OFFSET) /\ Settled(BootMaps(info), n, v, f)
      => Entry0(mem, kernel_plm4, v).frame = f

MapsInv ==
  phase \in {"mapping", "ready"} => \E n : Remaining(n) /\ Follows(n)

(* What n + 1 mappings settle is settled by the last one, or by the first  *)
(* n and left alone by the last.                                           *)
LEMMA SettledBefore ==
  ASSUME NEW all, NEW n \in Nat, NEW v, NEW f, Settled(all, n + 1, v, f)
  PROVE  IF SameEntries(all[n+1].vaddr, v) THEN all[n+1].frame = f ELSE Settled(all, n, v, f)
<1>1. PICK j \in 1 .. (n+1) :
        /\ SameEntries(all[j].vaddr, v) /\ all[j].frame = f
        /\ \A i \in (j+1) .. (n+1) : SameEntries(all[i].vaddr, v) => all[i].frame = f
  BY DEF Settled
<1>2. CASE j = n + 1
  BY <1>1, <1>2
<1>3. CASE j # n + 1
  <2>1. j \in 1 .. n /\ n + 1 \in (j+1) .. (n+1) /\ \A i \in (j+1) .. n : i \in (j+1) .. (n+1)
    BY <1>3
  <2>2. CASE SameEntries(all[n+1].vaddr, v)
    BY <1>1, <2>1, <2>2
  <2>3. CASE ~ SameEntries(all[n+1].vaddr, v)
    BY <1>1, <2>1, <2>3 DEF Settled
  <2>. QED
    BY <2>2, <2>3
<1>. QED
  BY <1>2, <1>3

(* Every step keeps the invariant on what is mapped.                       *)
LEMMA MapsInvHolds ==
  ASSUME IInv, MapsInv, [Next]_vars
  PROVE  MapsInv'
<1>1. info \in BootInfos /\ \A v \in VPages : v \in Nat
  BY Indices DEF IInv, TypeInv
<1>2. CASE Begun
  <2>1. BootMaps(info) \in Seq(Maplets)
    BY <1>1, InfoFits, BootMapsAreMaplets
  <2>2. Remaining(0)'
    BY <1>2, <2>1 DEF Begun, Remaining
  <2>3. Follows(0)'
    BY DEF Follows, Settled
  <2>. QED
    BY <2>2, <2>3 DEF MapsInv
<1>3. CASE OneMapped
  <2>. DEFINE all == BootMaps(info)
              h == Head(todo)
  <2>1. PICK n : Remaining(n) /\ Follows(n)
    BY <1>3 DEF OneMapped, MapsInv
  <2>2. todo \in Seq(Maplets) /\ todo # <<>> /\ all \in Seq(Maplets)
    BY <1>1, <1>3, InfoFits, BootMapsAreMaplets DEF IInv, TypeInv, PhaseInv, OneMapped
  <2>3. Len(all) \in Nat
    BY <2>2
  <2>4. /\ n \in 0 .. Len(all) /\ Len(todo) = Len(all) - n
        /\ \A i \in 1 .. Len(todo) : todo[i] = all[n+i]
    BY <2>1 DEF Remaining
  <2>5. h \in Maplets /\ info' = info /\ kernel_plm4' = kernel_plm4 /\ todo' = Tail(todo)
        /\ phase = "mapping"
        /\ Mapped(mem, mem', spaces, kernel_plm4, h.vaddr, Leaf(h.frame, FALSE))
        /\ kernel_plm4 \in spaces
    BY <1>3 DEF OneMapped, PageMapped
  <2>. HIDE DEF all
  <2>6. h = todo[1] /\ Len(todo) >= 1 /\ Len(Tail(todo)) = Len(todo) - 1
        /\ \A i \in 1 .. Len(Tail(todo)) : Tail(todo)[i] = todo[i+1]
    BY <2>2
  <2>7. n \in Nat /\ n + 1 \in 0 .. Len(all) /\ h = all[n+1]
    BY <2>3, <2>4, <2>6
  <2>8. Remaining(n + 1)'
    <3>1. BootMaps(info') = all
      BY <2>5 DEF all
    <3>2. \A i \in 1 .. Len(Tail(todo)) : Tail(todo)[i] = all[n+1+i]
      <4>1. \A i \in 1 .. Len(Tail(todo)) : i + 1 \in 1 .. Len(todo) /\ n + (i + 1) = n + 1 + i
        BY <2>3, <2>4, <2>6, <2>7
      <4>. QED
        BY <2>4, <2>6, <4>1
    <3>3. Len(Tail(todo)) = Len(all) - (n + 1)
      BY <2>3, <2>4, <2>6, <2>7
    <3>. QED
      BY <2>5, <2>7, <3>1, <3>2, <3>3 DEF Remaining
  <2>9. Follows(n + 1)'
    <3>1. ASSUME NEW v \in VPages, NEW f \in Nat, Settled(all, n + 1, v, f)
          PROVE  Entry0(mem', kernel_plm4, v).frame = f
      <4>1. IF SameEntries(h.vaddr, v) THEN h.frame = f ELSE Settled(all, n, v, f)
        BY <2>7, <3>1, SettledBefore
      <4>2. Entry0(mem', kernel_plm4, v) = IF SameEntries(h.vaddr, v) THEN Leaf(h.frame, FALSE)
                                           ELSE Entry0(mem, kernel_plm4, v)
        BY <1>1, <2>5 DEF Mapped
      <4>3. CASE SameEntries(h.vaddr, v)
        BY <4>1, <4>2, <4>3 DEF Leaf
      <4>4. CASE ~ SameEntries(h.vaddr, v)
        BY <2>1, <2>5, <4>1, <4>2, <4>4 DEF Follows, all
      <4>. QED
        BY <4>3, <4>4
    <3>. QED
      BY <2>5, <3>1 DEF Follows, all
  <2>. QED
    BY <2>8, <2>9 DEF MapsInv
<1>4. ASSUME phase = "ready", UNCHANGED <<phase, info, todo, kernel_plm4>>,
             \A v \in VPages : v >= MEM_PHYS_OFFSET =>
                Entry0(mem', kernel_plm4, v) = Entry0(mem, kernel_plm4, v)
      PROVE  MapsInv'
  <2>1. PICK n : Remaining(n) /\ Follows(n)
    BY <1>4 DEF MapsInv
  <2>2. Remaining(n)'
    BY <1>4, <2>1 DEF Remaining
  <2>3. Follows(n)'
    BY <1>4, <2>1 DEF Follows
  <2>. QED
    BY <2>2, <2>3 DEF MapsInv
<1>5. phase = "ready" => kernel_plm4 \in spaces
  BY DEF IInv, PhaseInv
<1>6. CASE Made
  <2>1. SameMaps(mem, mem', spaces)
    BY <1>6 DEF Made, SpaceMade
  <2>2. \A v \in VPages : Entry0(mem', kernel_plm4, v) = Entry0(mem, kernel_plm4, v)
    BY <1>1, <1>5, <1>6, <2>1 DEF Made, SameMaps
  <2>. QED
    BY <1>4, <1>6, <2>2 DEF Made
<1>7. CASE Freed
  <2>1. \A v \in VPages : Entry0(mem', kernel_plm4, v) = Entry0(mem, kernel_plm4, v)
    BY <1>1, <1>5, <1>7 DEF Freed, SameMaps
  <2>. QED
    BY <1>4, <1>7, <2>1 DEF Freed
<1>8. ASSUME NEW space \in spaces, NEW is_user \in BOOLEAN, Allocated(space, is_user)
      PROVE  MapsInv'
  <2>. DEFINE start == Window[is_user].start
  <2>1. PICK p \in Pool : Mapped(mem, mem', spaces, space, start, Leaf(p, is_user))
    BY <1>8 DEF Allocated, PageMapped
  <2>2. start \in VPages /\ start < MEM_PHYS_OFFSET /\ start \in Nat /\ MEM_PHYS_OFFSET \in Nat
    BY <1>1, LayoutAssumption
  <2>. HIDE DEF start
  <2>3. ASSUME NEW v \in VPages, v >= MEM_PHYS_OFFSET
        PROVE  Entry0(mem', kernel_plm4, v) = Entry0(mem, kernel_plm4, v)
    <3>1. v # start
      BY <1>1, <2>2, <2>3
    <3>2. ~ SameEntries(start, v)
      BY <2>2, <3>1, TwoPages
    <3>. QED
      BY <1>1, <1>5, <1>8, <2>1, <3>2 DEF Mapped, Allocated
  <2>. QED
    BY <1>4, <1>8, <2>3 DEF Allocated
<1>9. CASE Halts
  BY <1>9 DEF Halts, MapsInv
<1>10. CASE UNCHANGED vars
  <2>1. UNCHANGED <<phase, info, mem, todo, kernel_plm4>>
    BY <1>10 DEF vars
  <2>. QED
    BY <2>1 DEF MapsInv, Remaining, Follows
<1>. QED
  BY <1>2, <1>3, <1>6, <1>7, <1>8, <1>9, <1>10, StepDoes

-----------------------------------------------------------------------------
(* The invariant on the trees, with its cardinalities.                     *)
LEMMA LinksAreCounted ==
  ASSUME NEW T \in SUBSET Pool, NEW N \in SUBSET Pool, Leads(mem, T, N)
  PROVE  Below(T) = N /\ Cardinality(Links(T)) = Cardinality(N)
<1>. DEFINE f == [link \in Links(T) |-> mem[link[1]][link[2]].frame]
<1>1. \A link \in Links(T) : /\ link[1] \in T /\ link[2] \in Index
                             /\ link = <<link[1], link[2]>>
                             /\ Present(mem[link[1]][link[2]])
  BY DEF Links
<1>2. \A t \in T, i \in Index : Present(mem[t][i]) => <<t, i>> \in Links(T)
  BY DEF Links
<1>3. \A link \in Links(T) : f[link] = mem[link[1]][link[2]].frame /\ f[link] \in N
  BY <1>1 DEF Leads
<1>4. f \in [Links(T) -> N]
  BY <1>3
<1>5. \A n \in N : \E link \in Links(T) : f[link] = n
  <2>. SUFFICES ASSUME NEW n \in N PROVE \E link \in Links(T) : f[link] = n
    OBVIOUS
  <2>1. PICK t \in T : \E i \in Index : Present(mem[t][i]) /\ mem[t][i].frame = n
    BY DEF Leads
  <2>2. PICK i \in Index : Present(mem[t][i]) /\ mem[t][i].frame = n
    BY <2>1
  <2>3. <<t, i>> \in Links(T)
    BY <1>2, <2>2
  <2>4. f[<<t, i>>] = mem[t][i].frame
    BY <2>3
  <2>. QED
    BY <2>2, <2>3, <2>4
<1>6. \A a, b \in Links(T) : f[a] = f[b] => a = b
  BY <1>1, <1>3 DEF Leads
<1>7. Below(T) = N
  BY <1>3, <1>5 DEF Below
<1>. HIDE DEF f
<1>8. f \in Injection(Links(T), N) /\ f \in Surjection(Links(T), N)
  BY <1>4, <1>5, <1>6 DEF Injection, Surjection, IsInjective
<1>9. IsFiniteSet(N)
  BY PoolAssumption, FS_Subset
<1>. QED
  BY <1>7, <1>8, <1>9, FS_Injection

Apart(A, B, C, E) ==
  /\ A \cap B = {} /\ A \cap C = {} /\ A \cap E = {}
  /\ B \cap C = {} /\ B \cap E = {} /\ C \cap E = {}

(* Four disjoint sets of pages have as many pages together as apart.       *)
LEMMA FourApart ==
  ASSUME NEW A \in SUBSET Pool, NEW B \in SUBSET Pool, NEW C \in SUBSET Pool, NEW E \in SUBSET Pool,
         Apart(A, B, C, E)
  PROVE  Cardinality(A \cup B \cup C \cup E)
           = Cardinality(A) + Cardinality(B) + Cardinality(C) + Cardinality(E)
<1>. USE DEF Apart
<1>1. \A S \in SUBSET Pool : IsFiniteSet(S) /\ Cardinality(S) \in Nat
  BY PoolAssumption, FS_Subset, FS_CardinalityType
<1>2. ASSUME NEW S \in SUBSET Pool, NEW T \in SUBSET Pool, S \cap T = {}
      PROVE  Cardinality(S \cup T) = Cardinality(S) + Cardinality(T)
  <2>1. Cardinality(S \cup T) = Cardinality(S) + Cardinality(T) - Cardinality(S \cap T)
    BY <1>1, FS_Union
  <2>2. Cardinality(S \cap T) = 0
    BY <1>2, FS_EmptySet
  <2>. QED
    BY <1>1, <2>1, <2>2
<1>3. Cardinality(A \cup B) = Cardinality(A) + Cardinality(B)
  BY <1>2
<1>4. Cardinality((A \cup B) \cup C) = Cardinality(A \cup B) + Cardinality(C)
  <2>1. A \cup B \in SUBSET Pool /\ (A \cup B) \cap C = {}
    OBVIOUS
  <2>. QED
    BY <1>2, <2>1
<1>5. Cardinality((A \cup B \cup C) \cup E) = Cardinality(A \cup B \cup C) + Cardinality(E)
  <2>1. A \cup B \cup C \in SUBSET Pool /\ (A \cup B \cup C) \cap E = {}
    OBVIOUS
  <2>. QED
    BY <1>2, <2>1
<1>. QED
  BY <1>3, <1>4, <1>5

(* In a forest every table has one link to it, so the counts of links and  *)
(* tables are the same.                                                    *)
LEMMA IInvImpliesTrees ==
  ASSUME IInv
  PROVE  TablesAreTrees
<1>1. PICK L \in Levels : L[3] = spaces /\ Forest(mem, held, L, data)
  BY DEF IInv, RootsInv, Rooted
<1>. DEFINE pdpts == Below(spaces)
            pds   == Below(pdpts)
            pts   == Below(pds)
            tables == spaces \cup pdpts \cup pds \cup pts
<1>2. L[0] \in SUBSET Pool /\ L[1] \in SUBSET Pool /\ L[2] \in SUBSET Pool /\ L[3] \in SUBSET Pool
  BY DEF Levels
<1>3. Leads(mem, L[3], L[2]) /\ Leads(mem, L[2], L[1]) /\ Leads(mem, L[1], L[0])
  BY <1>1 DEF Forest
<1>4. pdpts = L[2] /\ Cardinality(Links(spaces)) = Cardinality(L[2])
  BY <1>1, <1>2, <1>3, LinksAreCounted
<1>5. pds = L[1] /\ Cardinality(Links(pdpts)) = Cardinality(L[1])
  BY <1>2, <1>3, <1>4, LinksAreCounted
<1>6. pts = L[0] /\ Cardinality(Links(pds)) = Cardinality(L[0])
  BY <1>2, <1>3, <1>5, LinksAreCounted
<1>7. /\ L[3] \cap L[2] = {} /\ L[3] \cap L[1] = {} /\ L[3] \cap L[0] = {}
      /\ L[2] \cap L[1] = {} /\ L[2] \cap L[0] = {} /\ L[1] \cap L[0] = {}
      /\ L[0] \cap data = {} /\ L[1] \cap data = {} /\ L[2] \cap data = {} /\ L[3] \cap data = {}
      /\ held = L[0] \cup L[1] \cup L[2] \cup L[3] \cup data
  BY <1>1 DEF Forest
<1>. HIDE DEF pdpts, pds, pts
<1>8. Cardinality(tables)
        = Cardinality(spaces) + Cardinality(pdpts) + Cardinality(pds) + Cardinality(pts)
  <2>1. L[3] = spaces /\ L[2] = pdpts /\ L[1] = pds /\ L[0] = pts
    BY <1>1, <1>4, <1>5, <1>6, Zenon
  <2>2. Cardinality(L[3] \cup L[2] \cup L[1] \cup L[0])
          = Cardinality(L[3]) + Cardinality(L[2]) + Cardinality(L[1]) + Cardinality(L[0])
    <3>. DEFINE A == L[3]
                B == L[2]
                C == L[1]
                E == L[0]
    <3>1. A \in SUBSET Pool /\ B \in SUBSET Pool /\ C \in SUBSET Pool /\ E \in SUBSET Pool
      BY <1>2
    <3>2. Apart(A, B, C, E)
      BY <1>7 DEF Apart
    <3>. HIDE DEF A, B, C, E
    <3>3. Cardinality(A \cup B \cup C \cup E)
            = Cardinality(A) + Cardinality(B) + Cardinality(C) + Cardinality(E)
      BY <3>1, <3>2, FourApart
    <3>. QED
      BY <3>3 DEF A, B, C, E
  <2>. QED
    BY <2>1, <2>2
<1>9. Cardinality(tables) = Cardinality(spaces) + Cardinality(Links(spaces))
                              + Cardinality(Links(pdpts)) + Cardinality(Links(pds))
  BY <1>1, <1>4, <1>5, <1>6, <1>8
<1>10. tables \cap data = {} /\ held = tables \cup data
  BY <1>1, <1>4, <1>5, <1>6, <1>7
<1>. QED
  BY <1>9, <1>10 DEF TablesAreTrees, pdpts, pds, pts

(* Translate is the hardware's walk in mem.                                *)
LEMMA TranslateIs ==
  ASSUME NEW s, NEW v
  PROVE  Translate(s, v) = Entry0(mem, s, v)
BY DEF Translate, Step, Entry0, Entry1, Entry2, Entry3, StepIn

(* When all of init_vmm's mappings are made the direct mapping holds.      *)
LEMMA MapsInvImpliesDirectMap ==
  ASSUME IInv, MapsInv
  PROVE  DirectMapHolds
<1>. SUFFICES ASSUME phase = "ready",
                     NEW k \in DOMAIN info.mmap, NEW p \in PageSpan(info.mmap[k].range),
                     MEM_PHYS_OFFSET + p \in VPages, ~ Overmapped(k, p)
              PROVE  Translate(kernel_plm4, MEM_PHYS_OFFSET + p).frame = p
  BY DEF DirectMapHolds
<1>1. info \in BootInfos /\ todo = <<>>
  BY DEF IInv, TypeInv, PhaseInv
<1>2. info.mmap \in Seq(MmapEntries) /\ \A j \in DOMAIN info.mmap : Fits(info.mmap[j])
  BY <1>1, InfoFits
<1>3. p \in VPages /\ p \in Nat /\ MEM_PHYS_OFFSET \in Nat
  BY <1>2, Indices, Offsets DEF Fits
<1>4. \A j \in DOMAIN info.mmap : j > k => ~ Covers(info.mmap[j], p)
  BY DEF Overmapped, Covers, Shift
<1>5. Settled(BootMaps(info), Len(BootMaps(info)), MEM_PHYS_OFFSET + p, p)
  BY <1>2, <1>4, BootMapsSettle
<1>6. PICK n : Remaining(n) /\ Follows(n)
  BY DEF MapsInv
<1>7. n = Len(BootMaps(info))
  <2>1. BootMaps(info) \in Seq(Maplets)
    BY <1>2, BootMapsAreMaplets
  <2>2. Len(BootMaps(info)) \in Nat /\ Len(todo) = 0
    BY <1>1, <2>1
  <2>3. n \in 0 .. Len(BootMaps(info)) /\ Len(todo) = Len(BootMaps(info)) - n
    BY <1>6 DEF Remaining
  <2>. QED
    BY <2>2, <2>3
<1>8. MEM_PHYS_OFFSET + p >= MEM_PHYS_OFFSET
  BY <1>3
<1>9. Entry0(mem, kernel_plm4, MEM_PHYS_OFFSET + p).frame = p
  BY <1>3, <1>5, <1>6, <1>7, <1>8 DEF Follows
<1>. QED
  BY <1>9, TranslateIs

-----------------------------------------------------------------------------
(* The calls implement AddressSpaces.                                      *)
SpaceMaps == [space \in spaces |-> [v \in VPages |-> Translate(space, v)]]

AsMaps == IF todo # <<>> THEN <<>> ELSE SpaceMaps

(* The refinement mapping, point by point.                                 *)
LEMMA SpaceMapsAre ==
  /\ DOMAIN SpaceMaps = spaces
  /\ \A s \in spaces : DOMAIN SpaceMaps[s] = VPages
  /\ \A s \in spaces, v \in VPages : SpaceMaps[s][v] = Entry0(mem, s, v)
BY TranslateIs DEF SpaceMaps

(* Translate after a step is the walk in the new memory.                   *)
LEMMA TranslateIsNext ==
  ASSUME NEW s, NEW v
  PROVE  Translate(s, v)' = Entry0(mem', s, v)
BY DEF Translate, Step, Entry0, Entry1, Entry2, Entry3, StepIn

(* The refinement mapping after a step.                                    *)
LEMMA SpaceMapsBecome ==
  /\ DOMAIN SpaceMaps' = spaces'
  /\ \A s \in spaces' : DOMAIN SpaceMaps'[s] = VPages
  /\ \A s \in spaces', v \in VPages : SpaceMaps'[s][v] = Entry0(mem', s, v)
  /\ SpaceMaps' = [s \in spaces' |-> [v \in VPages |-> Entry0(mem', s, v)]]
<1>1. SpaceMaps' = [s \in spaces' |-> [v \in VPages |-> Translate(s, v)']]
  BY DEF SpaceMaps
<1>2. SpaceMaps' = [s \in spaces' |-> [v \in VPages |-> Entry0(mem', s, v)]]
  BY <1>1, TranslateIsNext
<1>. QED
  BY <1>2

(* Steps that keep all translations stutter on the spaces.                 *)
LEMMA SpaceMapsSame ==
  ASSUME spaces' = spaces, SameMaps(mem, mem', spaces)
  PROVE  SpaceMaps' = SpaceMaps
<1>1. \A s \in spaces, v \in VPages : Entry0(mem', s, v) = Entry0(mem, s, v)
  BY Indices DEF SameMaps
<1>2. SpaceMaps = [s \in spaces |-> [v \in VPages |-> Entry0(mem, s, v)]]
  BY TranslateIs DEF SpaceMaps
<1>. QED
  BY <1>1, <1>2, SpaceMapsBecome

(* The beginning of init_vmm is a stutter of AddressSpaces.                *)
LEMMA BegunIsStutter ==
  ASSUME IInv, Begun
  PROVE  AsMaps' = AsMaps /\ data' = data
<1>1. todo = <<>> /\ spaces = {} /\ todo' # <<>>
  <2>1. BootMaps(info) \in Seq(Maplets) /\ Len(BootMaps(info)) >= 1
    BY InfoFits, BootMapsAreMaplets DEF IInv, TypeInv
  <2>2. BootMaps(info) # <<>>
    BY <2>1
  <2>. QED
    BY <2>2 DEF Begun, IInv, PhaseInv
<1>2. SpaceMaps = <<>>
  BY <1>1 DEF SpaceMaps
<1>. QED
  BY <1>1, <1>2 DEF AsMaps, Begun

(* A mapping of init_vmm is a stutter or, the last one, AddressSpaces'     *)
(* Boot.                                                                   *)
LEMMA OneMappedBoots ==
  ASSUME IInv, OneMapped
  PROVE  (AsMaps' = AsMaps /\ data' = data) \/ AsSpaces!Boot
<1>1. todo # <<>> /\ data' = data /\ spaces' = {kernel_plm4}
  BY DEF OneMapped, IInv, PhaseInv
<1>2. AsMaps = <<>> /\ DOMAIN AsMaps = {}
  BY <1>1 DEF AsMaps
<1>3. CASE todo' # <<>>
  BY <1>1, <1>2, <1>3 DEF AsMaps
<1>4. CASE todo' = <<>>
  <2>1. AsMaps' = SpaceMaps'
    BY <1>4 DEF AsMaps
  <2>2. DOMAIN AsMaps' = {kernel_plm4} /\ DOMAIN AsMaps'[kernel_plm4] = VPages
    BY <1>1, <2>1, SpaceMapsBecome
  <2>. QED
    BY <1>1, <1>2, <2>2 DEF AsSpaces!Boot, AsMaps, SpaceMaps
<1>. QED
  BY <1>3, <1>4

(* alloc_plm4 is AddressSpaces' Create.                                    *)
LEMMA MadeCreates ==
  ASSUME IInv, Made
  PROVE  AsSpaces!Create
<1>1. todo = <<>> /\ todo' = <<>> /\ data' = data /\ kernel_plm4 \in spaces
  BY DEF Made, IInv, PhaseInv
<1>2. PICK p \in Pool : SpaceMade(p)
  BY DEF Made
<1>3. /\ p \notin spaces /\ spaces' = spaces \cup {p}
      /\ SameMaps(mem, mem', spaces) /\ \A v \in Nat : Entry0(mem', p, v) = None
  <2>1. spaces \subseteq held
    <3>1. PICK L \in Levels : L[3] = spaces /\ Forest(mem, held, L, data)
      BY DEF IInv, RootsInv, Rooted
    <3>. QED
      BY <3>1, TablesAreHeld
  <2>. QED
    BY <1>2, <2>1 DEF SpaceMade
<1>4. AsMaps = SpaceMaps /\ AsMaps' = SpaceMaps'
  BY <1>1 DEF AsMaps
<1>5. DOMAIN AsMaps = spaces /\ DOMAIN AsMaps' = spaces \cup {p}
  BY <1>3, <1>4, SpaceMapsAre, SpaceMapsBecome
<1>6. AsMaps' = [s \in DOMAIN AsMaps \cup {p} |->
                   IF s = p THEN [v \in VPages |-> None] ELSE AsMaps[s]]
  <2>1. \A v \in VPages : v \in Nat
    BY Indices
  <2>2. [v \in VPages |-> Entry0(mem', p, v)] = [v \in VPages |-> None]
    BY <1>3, <2>1
  <2>3. ASSUME NEW s \in spaces
        PROVE  [v \in VPages |-> Entry0(mem', s, v)] = SpaceMaps[s]
    BY <1>3, <2>1, TranslateIs DEF SameMaps, SpaceMaps
  <2>4. SpaceMaps' = [s \in spaces \cup {p} |-> [v \in VPages |-> Entry0(mem', s, v)]]
    BY <1>3, SpaceMapsBecome
  <2>. QED
    BY <1>3, <1>4, <1>5, <2>2, <2>3, <2>4
<1>7. DOMAIN AsMaps # {} /\ p \in DOMAIN AsMaps' \ DOMAIN AsMaps
  BY <1>1, <1>3, <1>5
<1>. QED
  BY <1>1, <1>6, <1>7 DEF AsSpaces!Create, AsMaps, SpaceMaps

(* alloc_vmm is AddressSpaces' Map.                                        *)
LEMMA AllocatedMaps ==
  ASSUME IInv, NEW space \in spaces, NEW is_user \in BOOLEAN, Allocated(space, is_user)
  PROVE  AsSpaces!Map
<1>. DEFINE start == Window[is_user].start
<1>1. todo = <<>> /\ todo' = <<>> /\ spaces' = spaces
  BY DEF Allocated, IInv, PhaseInv
<1>2. PICK p \in Pool \ held :
        /\ data' = data \cup {p}
        /\ Mapped(mem, mem', spaces, space, start, Leaf(p, is_user))
  BY DEF Allocated, PageMapped
<1>3. start \in VPages /\ start \in Nat /\ \A v \in VPages : v \in Nat
  BY Indices, LayoutAssumption
<1>4. p \notin data
  <2>1. data \subseteq held
    <3>1. PICK L \in Levels : L[3] = spaces /\ Forest(mem, held, L, data)
      BY DEF IInv, RootsInv, Rooted
    <3>. QED
      BY <3>1, TablesAreHeld
  <2>. QED
    BY <2>1
<1>. DEFINE e == Leaf(p, is_user)
<1>5. e # None /\ e.frame = p
  BY LeafIsEntry DEF Leaf, None
<1>. HIDE DEF start, e
<1>6. AsMaps = SpaceMaps /\ AsMaps' = SpaceMaps'
  BY <1>1 DEF AsMaps
<1>7. DOMAIN AsMaps = spaces /\ DOMAIN AsMaps' = spaces
  BY <1>1, <1>6, SpaceMapsAre, SpaceMapsBecome
<1>8. ASSUME NEW s \in spaces, NEW v \in VPages
      PROVE  Entry0(mem', s, v) = IF s = space /\ v = start THEN e ELSE Entry0(mem, s, v)
  <2>1. SameEntries(start, v) <=> v = start
    BY <1>3, TwoPages DEF SameEntries
  <2>. QED
    BY <1>2, <1>3, <2>1 DEF Mapped, e
<1>9. AsMaps'[space][start] = e
  BY <1>1, <1>3, <1>6, <1>8, SpaceMapsBecome
<1>10. AsMaps' = [AsMaps EXCEPT ![space][start] = e]
  <2>1. AsMaps = [s \in spaces |-> [v \in VPages |-> Entry0(mem, s, v)]]
    BY <1>6, TranslateIs DEF SpaceMaps
  <2>2. AsMaps' = [s \in spaces |-> [v \in VPages |-> Entry0(mem', s, v)]]
    BY <1>1, <1>6, SpaceMapsBecome
  <2>3. ASSUME NEW s \in spaces, s # space
        PROVE  [v \in VPages |-> Entry0(mem', s, v)] = [v \in VPages |-> Entry0(mem, s, v)]
    BY <1>8, <2>3
  <2>. DEFINE old == [v \in VPages |-> Entry0(mem, space, v)]
              new == [v \in VPages |-> Entry0(mem', space, v)]
  <2>4. new = [old EXCEPT ![start] = e]
    BY <1>8
  <2>5. AsMaps[space] = old
    BY <2>1
  <2>6. AsMaps' = [s \in spaces |-> IF s = space THEN new ELSE AsMaps[s]]
    BY <2>1, <2>2, <2>3
  <2>. HIDE DEF old, new
  <2>7. [AsMaps EXCEPT ![space] = new] = [s \in spaces |-> IF s = space THEN new ELSE AsMaps[s]]
    BY <1>7, <2>1
  <2>. QED
    BY <2>4, <2>5, <2>6, <2>7
<1>11. space \in DOMAIN AsMaps' \cap DOMAIN AsMaps
  BY <1>7
<1>12. \E s \in DOMAIN AsMaps' \cap DOMAIN AsMaps, v \in VPages :
         /\ AsMaps'[s][v] # None
         /\ AsMaps'[s][v].frame \notin data
         /\ data' = data \cup {AsMaps'[s][v].frame}
         /\ AsMaps' = [AsMaps EXCEPT ![s][v] = AsMaps'[s][v]]
  BY <1>2, <1>3, <1>4, <1>5, <1>9, <1>10, <1>11
<1>. QED
  BY <1>12 DEF AsSpaces!Map, AsMaps, SpaceMaps

(* Every step is a step of AddressSpaces or a stutter.                     *)
LEMMA StepRefines ==
  ASSUME IInv, [Next]_vars
  PROVE  AsSpaces!Next \/ UNCHANGED <<AsMaps, data>>
<1>1. ASSUME Halts \/ UNCHANGED vars PROVE UNCHANGED <<AsMaps, data>>
  <2>1. UNCHANGED <<mem, todo, spaces, data>>
    BY <1>1 DEF Halts, vars
  <2>2. SpaceMaps' = SpaceMaps
    BY <2>1, SpaceMapsSame DEF SameMaps
  <2>. QED
    BY <2>1, <2>2 DEF AsMaps
<1>2. ASSUME Freed PROVE UNCHANGED <<AsMaps, data>>
  <2>1. SpaceMaps' = SpaceMaps
    BY <1>2, SpaceMapsSame DEF Freed
  <2>. QED
    BY <1>2, <2>1 DEF AsMaps, Freed
<1>. QED
  BY <1>1, <1>2, StepDoes, BegunIsStutter, OneMappedBoots, MadeCreates, AllocatedMaps
     DEF AsSpaces!Next

-----------------------------------------------------------------------------
(* The forest stays, in every behaviour.                                   *)
LEMMA StaysRooted == Spec => []IInv
BY InitHolds, IInvHolds, PTL DEF Spec

(* What init_vmm has mapped stays mapped, in every behaviour.              *)
LEMMA StaysMapped == Spec => []MapsInv
<1>1. Init => MapsInv
  BY DEF Init, MapsInv
<1>. QED
  BY <1>1, StaysRooted, MapsInvHolds, PTL DEF Spec

(* The pages granted, the roots, the callers' pages and the tables have    *)
(* their types; roots and callers' pages are granted pages.                *)
THEOREM VMMTyped == Spec => []TypeOK
BY StaysRooted, IInvImpliesTypeOK, PTL

(* Whatever is allocated and freed, the tables of all address spaces stay  *)
(* trees that share no table with each other or with a caller's page, and  *)
(* account for every page granted.                                         *)
THEOREM VMMKeepsTrees == Spec => []TablesAreTrees
BY StaysRooted, IInvImpliesTrees, PTL

(* From the end of init_vmm on, the kernel reaches each page of the memory *)
(* map through the direct mapping.                                         *)
THEOREM VMMKeepsDirectMap == Spec => []DirectMapHolds
BY StaysRooted, StaysMapped, MapsInvImpliesDirectMap, PTL

(* Each call changes one entry of one space, to a frame no caller has.     *)
THEOREM VMMImplementsSpaces == Spec => ImplementsSpaces
<1>1. Init => AsSpaces!Init
  BY DEF Init, AsSpaces!Init
<1>2. IInv /\ [Next]_vars => [AsSpaces!Next]_<<AsMaps, data>>
  BY StepRefines
<1>. QED
  BY <1>1, <1>2, StaysRooted, PTL DEF Spec, ImplementsSpaces, AsSpaces!Spec, AsSpaces!vars,
     AsMaps, SpaceMaps

=============================================================================
