---------------------------- MODULE FiniteLemmas ----------------------------
(***************************************************************************)
(* Lemmas on finite sets, integers and loops that the proofs about the     *)
(* kernel share: least elements, sums, division, invariants of a loop.     *)
(***************************************************************************)
EXTENDS Integers, FiniteSetsExt, FiniteSetTheorems, WellFoundedInduction, TLAPS

(* A collection of finite sets has one that includes no other of them.     *)
LEMMA SmallestSet ==
  ASSUME NEW V, NEW B \in SUBSET FiniteSubsetsOf(V), B # {}
  PROVE  \E s \in B : \A u \in B : ~ (u \subseteq s /\ u # s)
<1>. DEFINE Included == StrictSubsetOrdering(V)
<1>1. IsWellFoundedOn(Included, FiniteSubsetsOf(V))
  BY FS_StrictSubsetOrderingWellFounded
<1>2. \A s, u \in FiniteSubsetsOf(V) :
        u \subseteq s /\ u # s => <<u, s>> \in Included
  BY Zenon DEF StrictSubsetOrdering, FiniteSubsetsOf
<1>. HIDE DEF Included
<1>3. PICK s \in B : \A u \in B : ~ (<<u, s>> \in Included)
  BY <1>1, WFMin, Zenon
<1>. QED
  BY <1>2, <1>3, Zenon

(* Every set of naturals that has a member has a least one.                *)
LEMMA LeastNatural ==
  ASSUME NEW S \in SUBSET Nat, S # {}
  PROVE  \E m \in S : \A n \in S : m <= n
<1>. DEFINE Initials == {0 .. n : n \in S}
<1>1. Initials \subseteq FiniteSubsetsOf(Nat)
  <2>1. \A n \in S : n \in Int /\ 0 .. n \in SUBSET Nat
    OBVIOUS
  <2>2. \A n \in S : IsFiniteSet(0 .. n)
    BY <2>1, FS_Interval
  <2>. QED
    BY <2>1, <2>2, Zenon DEF FiniteSubsetsOf
<1>2. Initials # {}
  OBVIOUS
<1>3. PICK s \in Initials : \A u \in Initials : ~ (u \subseteq s /\ u # s)
  <2>. HIDE DEF Initials
  <2>. QED
    BY <1>1, <1>2, SmallestSet
<1>4. PICK m \in S : s = 0 .. m
  OBVIOUS
<1>5. ASSUME NEW n \in S, n < m PROVE FALSE
  <2>1. m \in 0 .. m /\ m \notin 0 .. n
    BY <1>5
  <2>2. 0 .. n \subseteq 0 .. m
    BY <1>5
  <2>3. 0 .. n \in Initials
    BY Zenon
  <2>. HIDE DEF Initials
  <2>. QED
    BY <1>3, <1>4, <2>1, <2>2, <2>3
<1>. QED
  BY <1>5

(* Induction, over a set: the library's theorem takes an operator.         *)
LEMMA InductiveSet ==
  ASSUME NEW S, 0 \in S, \A n \in Nat : n \in S => n + 1 \in S
  PROVE  Nat \subseteq S
<1>1. SUFFICES ASSUME Nat \ S # {} PROVE FALSE
  OBVIOUS
<1>2. PICK m \in Nat \ S : \A n \in Nat \ S : m <= n
  BY <1>1, LeastNatural
<1>3. m - 1 \in Nat /\ m - 1 \in S
  BY <1>2
<1>4. (m - 1) + 1 \in S
  BY <1>3
<1>. QED
  BY <1>2, <1>4

(* A nonempty set of naturals has a least one, and Min gives it.           *)
LEMMA MinOfNaturals ==
  ASSUME NEW S \in SUBSET Nat, S # {}
  PROVE  Min(S) \in S /\ \A n \in S : Min(S) <= n
BY LeastNatural, Zenon DEF Min

-----------------------------------------------------------------------------
(* The sum of a function over a set is defined by taking the members out   *)
(* one by one: Sums(f, T, sum) says that sum is the function from the      *)
(* subsets of T to their sums.                                             *)
One(s) == CHOOSE x \in s : TRUE

Sums(f, T, sum) ==
  sum = [s \in SUBSET T |-> IF s = {} THEN 0 ELSE f[One(s)] + sum[s \ {One(s)}]]

(* The sum that the community module defines, as a choice among sums.      *)
LEMMA SumIsChosen ==
  ASSUME NEW f, NEW T
  PROVE  SumFunctionOnSet(f, T) = (CHOOSE sum : Sums(f, T, sum))[T]
BY DEF SumFunctionOnSet, FoldFunctionOnSet, MapThenFoldSet, Sums, One

(* Two sums agree on the sets both are defined on.                         *)
LEMMA SumsAgree ==
  ASSUME NEW f, NEW T, NEW U, U \in SUBSET T, IsFiniteSet(U),
         NEW sum, Sums(f, T, sum), NEW other, Sums(f, U, other)
  PROVE  other[U] = sum[U]
<1>. DEFINE B == {s \in SUBSET U : other[s] # sum[s]}
<1>1. SUFFICES ASSUME B # {} PROVE FALSE
  <2>1. U \in SUBSET U
    OBVIOUS
  <2>. QED
    BY <2>1
<1>2. B \in SUBSET FiniteSubsetsOf(U)
  BY FS_Subset, Zenon DEF FiniteSubsetsOf
<1>3. PICK s \in B : \A u \in B : ~ (u \subseteq s /\ u # s)
  <2>. HIDE DEF B
  <2>. QED
    BY <1>1, <1>2, SmallestSet
<1>4. s \in SUBSET U /\ s \in SUBSET T /\ other[s] # sum[s]
  BY <1>3
<1>5. /\ sum[s] = IF s = {} THEN 0 ELSE f[One(s)] + sum[s \ {One(s)}]
      /\ other[s] = IF s = {} THEN 0 ELSE f[One(s)] + other[s \ {One(s)}]
  BY <1>4, Zenon DEF Sums
<1>6. s # {}
  BY <1>4, <1>5
<1>7. One(s) \in s
  BY <1>6, Zenon DEF One
<1>8. /\ s \ {One(s)} \in SUBSET U
      /\ s \ {One(s)} \subseteq s /\ s \ {One(s)} # s
  BY <1>4, <1>7
<1>9. other[s \ {One(s)}] = sum[s \ {One(s)}]
  BY <1>3, <1>8
<1>. QED
  BY <1>4, <1>5, <1>9, Zenon

(* There is a sum over every finite set.                                   *)
LEMMA SumsExist ==
  ASSUME NEW f, NEW T, IsFiniteSet(T)
  PROVE  \E sum : Sums(f, T, sum)
<1>. DEFINE B == {s \in SUBSET T : ~ \E sum : Sums(f, s, sum)}
<1>1. SUFFICES ASSUME B # {} PROVE FALSE
  BY Zenon
<1>2. B \in SUBSET FiniteSubsetsOf(T)
  BY FS_Subset, Zenon DEF FiniteSubsetsOf
<1>3. PICK v \in B : \A u \in B : ~ (u \subseteq v /\ u # v)
  <2>. HIDE DEF B
  <2>. QED
    BY <1>1, <1>2, SmallestSet
<1>4. v \in SUBSET T /\ IsFiniteSet(v) /\ ~ \E sum : Sums(f, v, sum)
  BY <1>3, FS_Subset, Zenon
<1>. DEFINE h(u) == CHOOSE sum : Sums(f, u, sum)
            rest(s) == s \ {One(s)}
            g == [s \in SUBSET v |-> IF s = {} THEN 0 ELSE f[One(s)] + h(rest(s))[rest(s)]]
<1>5. \A s \in SUBSET v : s # {} => /\ rest(s) \subseteq v /\ rest(s) # v
                                   /\ rest(s) \subseteq s
  <2>1. \A s \in SUBSET v : s # {} => One(s) \in s
    BY Zenon DEF One
  <2>. QED
    BY <2>1
<1>6. \A u \in SUBSET v : u # v => Sums(f, u, h(u))
  <2>1. \A u \in SUBSET v : u # v => \E sum : Sums(f, u, sum)
    BY <1>3, <1>4
  <2>. QED
    BY <2>1, Zenon
<1>7. \A u \in SUBSET v : u # v => g[u] = h(u)[u]
  <2>. SUFFICES ASSUME NEW u \in SUBSET v, u # v PROVE g[u] = h(u)[u]
    OBVIOUS
  <2>1. h(u)[u] = IF u = {} THEN 0 ELSE f[One(u)] + h(u)[rest(u)]
    <3>1. u \in SUBSET u
      OBVIOUS
    <3>2. Sums(f, u, h(u))
      BY <1>6, Zenon
    <3>. HIDE DEF h
    <3>. QED
      BY <3>1, <3>2, Zenon DEF Sums
  <2>2. u # {} => h(u)[rest(u)] = h(rest(u))[rest(u)]
    <3>. SUFFICES ASSUME u # {} PROVE h(u)[rest(u)] = h(rest(u))[rest(u)]
      OBVIOUS
    <3>1. rest(u) \in SUBSET u /\ rest(u) \in SUBSET v /\ rest(u) # v /\ rest(u) \in SUBSET rest(u)
      BY <1>5
    <3>2. Sums(f, u, h(u)) /\ Sums(f, rest(u), h(rest(u)))
      BY <1>6, <3>1, Zenon
    <3>3. IsFiniteSet(rest(u))
      BY <1>4, <3>1, FS_Subset, Zenon
    <3>. HIDE DEF h, rest, g, B
    <3>. QED
      BY <3>1, <3>2, <3>3, SumsAgree, Zenon
  <2>3. g[u] = IF u = {} THEN 0 ELSE f[One(u)] + h(rest(u))[rest(u)]
    BY Zenon
  <2>. HIDE DEF g, h, rest
  <2>. QED
    BY <2>1, <2>2, <2>3, Zenon
<1>8. Sums(f, v, g)
  <2>1. \A s \in SUBSET v : s # {} => g[rest(s)] = h(rest(s))[rest(s)]
    BY <1>5, <1>7, Zenon
  <2>. HIDE DEF h
  <2>. QED
    BY <2>1, Zenon DEF Sums
<1>. QED
  BY <1>4, <1>8, Zenon

(* Every sum is the one of the community module.                           *)
LEMMA SumSums ==
  ASSUME NEW f, NEW T, IsFiniteSet(T), NEW U \in SUBSET T, NEW sum, Sums(f, T, sum)
  PROVE  sum[U] = SumFunctionOnSet(f, U)
<1>. DEFINE other == CHOOSE s : Sums(f, U, s)
<1>1. IsFiniteSet(U) /\ U \in SUBSET U
  BY FS_Subset
<1>2. Sums(f, U, other)
  BY <1>1, SumsExist, Zenon
<1>3. SumFunctionOnSet(f, U) = other[U]
  BY SumIsChosen, Zenon
<1>. HIDE DEF other
<1>. QED
  BY <1>1, <1>2, <1>3, SumsAgree, Zenon

(* The sum of nothing, and how the sum of a set is put together.           *)
LEMMA SumOfNone ==
  ASSUME NEW f
  PROVE  SumFunctionOnSet(f, {}) = 0
<1>1. PICK sum : Sums(f, {}, sum)
  BY FS_EmptySet, SumsExist, Zenon
<1>2. sum[{}] = 0
  BY <1>1, Zenon DEF Sums
<1>. QED
  BY <1>1, <1>2, FS_EmptySet, SumSums, Zenon

(* The sum over a nonempty set is one of its values plus the sum of the    *)
(* others.                                                                 *)
LEMMA SumOfSome ==
  ASSUME NEW f, NEW S, IsFiniteSet(S), S # {}
  PROVE  /\ One(S) \in S
         /\ SumFunctionOnSet(f, S) = f[One(S)] + SumFunctionOnSet(f, S \ {One(S)})
<1>1. PICK sum : Sums(f, S, sum)
  BY SumsExist, Zenon
<1>2. sum[S] = f[One(S)] + sum[S \ {One(S)}]
  BY <1>1, Zenon DEF Sums
<1>3. S \in SUBSET S /\ S \ {One(S)} \in SUBSET S
  OBVIOUS
<1>4. One(S) \in S
  BY Zenon DEF One
<1>. QED
  BY <1>1, <1>2, <1>3, <1>4, SumSums, Zenon

(* A sum of integers is an integer.                                        *)
LEMMA SumIsInteger ==
  ASSUME NEW S, IsFiniteSet(S), NEW f, \A x \in S : f[x] \in Int
  PROVE  SumFunctionOnSet(f, S) \in Int
<1>. DEFINE B == {s \in SUBSET S : SumFunctionOnSet(f, s) \notin Int}
<1>1. SUFFICES ASSUME B # {} PROVE FALSE
  <2>1. S \in SUBSET S
    OBVIOUS
  <2>. QED
    BY <2>1
<1>2. B \in SUBSET FiniteSubsetsOf(S)
  BY FS_Subset, Zenon DEF FiniteSubsetsOf
<1>3. PICK s \in B : \A u \in B : ~ (u \subseteq s /\ u # s)
  <2>. HIDE DEF B
  <2>. QED
    BY <1>1, <1>2, SmallestSet
<1>4. s # {}
  <2>1. SumFunctionOnSet(f, {}) = 0
    BY SumOfNone
  <2>2. SumFunctionOnSet(f, s) \notin Int /\ 0 \in Int
    BY <1>3
  <2>. QED
    BY <2>1, <2>2, Zenon
<1>5. IsFiniteSet(s) /\ s \in SUBSET S
  BY <1>3, FS_Subset
<1>6. /\ One(s) \in s
      /\ SumFunctionOnSet(f, s) = f[One(s)] + SumFunctionOnSet(f, s \ {One(s)})
  BY <1>4, <1>5, SumOfSome, Zenon
<1>7. s \ {One(s)} \notin B /\ s \ {One(s)} \in SUBSET S
  BY <1>3, <1>5, <1>6
<1>8. SumFunctionOnSet(f, s \ {One(s)}) \in Int /\ f[One(s)] \in Int
  BY <1>5, <1>6, <1>7
<1>. QED
  BY <1>3, <1>6, <1>8

(* Whichever member is taken out first.                                    *)
LEMMA SumOfOther ==
  ASSUME NEW S, IsFiniteSet(S), NEW f, \A x \in S : f[x] \in Int, NEW m \in S
  PROVE  SumFunctionOnSet(f, S) = f[m] + SumFunctionOnSet(f, S \ {m})
<1>. DEFINE sum(s) == SumFunctionOnSet(f, s)
            B == {s \in SUBSET S : \E x \in s : sum(s) # f[x] + sum(s \ {x})}
<1>1. SUFFICES ASSUME B # {} PROVE FALSE
  <2>1. S \in SUBSET S
    OBVIOUS
  <2>. QED
    BY <2>1
<1>2. B \in SUBSET FiniteSubsetsOf(S)
  BY FS_Subset, Zenon DEF FiniteSubsetsOf
<1>3. PICK s \in B : \A u \in B : ~ (u \subseteq s /\ u # s)
  <2>. HIDE DEF B
  <2>. QED
    BY <1>1, <1>2, SmallestSet
<1>4. PICK x \in s : sum(s) # f[x] + sum(s \ {x})
  BY <1>3
<1>. DEFINE y == One(s)
<1>5. IsFiniteSet(s) /\ s \in SUBSET S /\ s # {}
  BY <1>3, <1>4, FS_Subset
<1>6. y \in s /\ sum(s) = f[y] + sum(s \ {y})
  BY <1>5, SumOfSome, Zenon
<1>7. \A z \in s : sum(s \ {z}) \in Int /\ IsFiniteSet(s \ {z}) /\ f[z] \in Int
  <2>. SUFFICES ASSUME NEW z \in s
                PROVE  sum(s \ {z}) \in Int /\ IsFiniteSet(s \ {z}) /\ f[z] \in Int
    OBVIOUS
  <2>1. IsFiniteSet(s \ {z})
    BY <1>5, FS_Subset
  <2>2. \A w \in s : f[w] \in Int
    BY <1>5
  <2>. QED
    BY <2>1, <2>2, SumIsInteger
<1>8. x # y
  BY <1>4, <1>6
<1>9. /\ s \ {x} \in SUBSET S /\ s \ {x} \notin B /\ y \in s \ {x}
      /\ s \ {y} \in SUBSET S /\ s \ {y} \notin B /\ x \in s \ {y}
  BY <1>3, <1>4, <1>5, <1>6, <1>8
<1>10. /\ sum(s \ {x}) = f[y] + sum((s \ {x}) \ {y})
       /\ sum(s \ {y}) = f[x] + sum((s \ {y}) \ {x})
  BY <1>9, Zenon
<1>11. (s \ {x}) \ {y} = (s \ {y}) \ {x}
  OBVIOUS
<1>12. sum((s \ {x}) \ {y}) \in Int
  <2>1. IsFiniteSet((s \ {x}) \ {y}) /\ \A w \in (s \ {x}) \ {y} : f[w] \in Int
    BY <1>5, <1>7, FS_Subset
  <2>. QED
    BY <2>1, SumIsInteger
<1>13. f[x] \in Int /\ f[y] \in Int
  BY <1>6, <1>7
<1>. DEFINE others == sum((s \ {x}) \ {y})
<1>14. /\ sum(s) # f[x] + (f[y] + others)
       /\ sum(s) = f[y] + (f[x] + others)
       /\ others \in Int
  BY <1>4, <1>6, <1>10, <1>11, <1>12, Zenon
<1>. HIDE DEF sum, y, B, others
<1>. QED
  BY <1>13, <1>14

(* A sum of naturals is a natural.                                         *)
LEMMA SumIsNatural ==
  ASSUME NEW S, IsFiniteSet(S), NEW f, \A x \in S : f[x] \in Nat
  PROVE  SumFunctionOnSet(f, S) \in Nat
<1>. DEFINE B == {s \in SUBSET S : SumFunctionOnSet(f, s) \notin Nat}
<1>1. SUFFICES ASSUME B # {} PROVE FALSE
  <2>1. S \in SUBSET S
    OBVIOUS
  <2>. QED
    BY <2>1
<1>2. B \in SUBSET FiniteSubsetsOf(S)
  BY FS_Subset, Zenon DEF FiniteSubsetsOf
<1>3. PICK s \in B : \A u \in B : ~ (u \subseteq s /\ u # s)
  <2>. HIDE DEF B
  <2>. QED
    BY <1>1, <1>2, SmallestSet
<1>4. s # {}
  <2>1. SumFunctionOnSet(f, {}) = 0
    BY SumOfNone
  <2>2. SumFunctionOnSet(f, s) \notin Nat /\ 0 \in Nat
    BY <1>3
  <2>. QED
    BY <2>1, <2>2, Zenon
<1>5. IsFiniteSet(s) /\ s \in SUBSET S
  BY <1>3, FS_Subset
<1>6. /\ One(s) \in s
      /\ SumFunctionOnSet(f, s) = f[One(s)] + SumFunctionOnSet(f, s \ {One(s)})
  BY <1>4, <1>5, SumOfSome, Zenon
<1>7. s \ {One(s)} \notin B /\ s \ {One(s)} \in SUBSET S
  BY <1>3, <1>5, <1>6
<1>8. SumFunctionOnSet(f, s \ {One(s)}) \in Nat /\ f[One(s)] \in Nat
  BY <1>5, <1>6, <1>7
<1>. QED
  BY <1>3, <1>6, <1>8

(* The sum of a set does not depend on what the function is elsewhere.     *)
LEMMA SumOfEqual ==
  ASSUME NEW S, IsFiniteSet(S), NEW f, NEW g, \A x \in S : f[x] = g[x]
  PROVE  SumFunctionOnSet(f, S) = SumFunctionOnSet(g, S)
<1>. DEFINE B == {s \in SUBSET S : SumFunctionOnSet(f, s) # SumFunctionOnSet(g, s)}
<1>1. SUFFICES ASSUME B # {} PROVE FALSE
  <2>1. S \in SUBSET S
    OBVIOUS
  <2>. QED
    BY <2>1
<1>2. B \in SUBSET FiniteSubsetsOf(S)
  BY FS_Subset, Zenon DEF FiniteSubsetsOf
<1>3. PICK s \in B : \A u \in B : ~ (u \subseteq s /\ u # s)
  <2>. HIDE DEF B
  <2>. QED
    BY <1>1, <1>2, SmallestSet
<1>4. s # {}
  <2>1. SumFunctionOnSet(f, {}) = 0 /\ SumFunctionOnSet(g, {}) = 0
    BY SumOfNone
  <2>. QED
    BY <1>3, <2>1
<1>5. IsFiniteSet(s) /\ s \in SUBSET S
  BY <1>3, FS_Subset
<1>6. /\ One(s) \in s
      /\ SumFunctionOnSet(f, s) = f[One(s)] + SumFunctionOnSet(f, s \ {One(s)})
      /\ SumFunctionOnSet(g, s) = g[One(s)] + SumFunctionOnSet(g, s \ {One(s)})
  BY <1>4, <1>5, SumOfSome, Zenon
<1>7. s \ {One(s)} \notin B /\ s \ {One(s)} \in SUBSET S
  BY <1>3, <1>5, <1>6
<1>8. SumFunctionOnSet(f, s \ {One(s)}) = SumFunctionOnSet(g, s \ {One(s)})
  BY <1>7
<1>9. f[One(s)] = g[One(s)]
  BY <1>5, <1>6
<1>. QED
  BY <1>3, <1>6, <1>8, <1>9

(* One element more adds its value to the sum.                             *)
LEMMA SumWithAnother ==
  ASSUME NEW S, IsFiniteSet(S), NEW m, m \notin S,
         NEW f, \A x \in S : f[x] \in Int, f[m] \in Int
  PROVE  SumFunctionOnSet(f, S \cup {m}) = f[m] + SumFunctionOnSet(f, S)
<1>1. IsFiniteSet(S \cup {m})
  BY FS_AddElement
<1>2. (S \cup {m}) \ {m} = S /\ m \in S \cup {m} /\ \A x \in S \cup {m} : f[x] \in Int
  OBVIOUS
<1>. QED
  BY <1>1, <1>2, SumOfOther

(* A sum does not depend on what its terms are called.                     *)
LEMMA SumOfImage ==
  ASSUME NEW S, IsFiniteSet(S), NEW e, \A x, y \in S : e[x] = e[y] => x = y,
         NEW f, NEW g, \A x \in S : f[x] \in Int /\ g[e[x]] = f[x]
  PROVE  SumFunctionOnSet(g, {e[x] : x \in S}) = SumFunctionOnSet(f, S)
<1>. DEFINE Image(s) == {e[x] : x \in s}
            B == {s \in SUBSET S : SumFunctionOnSet(g, Image(s)) # SumFunctionOnSet(f, s)}
<1>1. SUFFICES ASSUME B # {} PROVE FALSE
  <2>1. S \in SUBSET S
    OBVIOUS
  <2>. QED
    BY <2>1
<1>2. B \in SUBSET FiniteSubsetsOf(S)
  BY FS_Subset, Zenon DEF FiniteSubsetsOf
<1>3. PICK s \in B : \A u \in B : ~ (u \subseteq s /\ u # s)
  <2>. HIDE DEF B
  <2>. QED
    BY <1>1, <1>2, SmallestSet
<1>4. s # {}
  <2>1. SumFunctionOnSet(f, {}) = 0 /\ SumFunctionOnSet(g, {}) = 0 /\ Image({}) = {}
    BY SumOfNone
  <2>. QED
    BY <1>3, <2>1
<1>5. IsFiniteSet(s) /\ s \in SUBSET S
  BY <1>3, FS_Subset
<1>6. PICK m \in s : TRUE
  BY <1>4
<1>7. SumFunctionOnSet(f, s) = f[m] + SumFunctionOnSet(f, s \ {m})
  <2>1. \A x \in s : f[x] \in Int
    BY <1>5
  <2>. QED
    BY <1>5, <1>6, <2>1, SumOfOther
<1>8. IsFiniteSet(Image(s)) /\ e[m] \in Image(s) /\ \A y \in Image(s) : g[y] \in Int
  <2>1. IsFiniteSet(Image(s))
    <3>. DEFINE T == Image(s)
                d == [x \in s |-> e[x]]
    <3>1. d \in Surjection(s, T)
      BY DEF Surjection
    <3>. HIDE DEF T, d
    <3>2. IsFiniteSet(T)
      BY <1>5, <3>1, FS_Surjection
    <3>. QED
      BY <3>2 DEF T
  <2>. QED
    BY <1>5, <1>6, <2>1
<1>9. Image(s) \ {e[m]} = Image(s \ {m})
  BY <1>5, <1>6
<1>10. SumFunctionOnSet(g, Image(s)) = g[e[m]] + SumFunctionOnSet(g, Image(s \ {m}))
  <2>. DEFINE T == Image(s)
              n == e[m]
  <2>1. /\ IsFiniteSet(T) /\ n \in T /\ \A y \in T : g[y] \in Int
        /\ T \ {n} = Image(s \ {m})
    BY <1>8, <1>9, Zenon
  <2>. HIDE DEF T, n, Image
  <2>2. SumFunctionOnSet(g, T) = g[n] + SumFunctionOnSet(g, T \ {n})
    BY <2>1, SumOfOther
  <2>. QED
    BY <2>1, <2>2, Zenon DEF T, n
<1>11. s \ {m} \notin B /\ s \ {m} \in SUBSET S
  BY <1>3, <1>5, <1>6
<1>12. SumFunctionOnSet(g, Image(s \ {m})) = SumFunctionOnSet(f, s \ {m})
  BY <1>11
<1>13. g[e[m]] = f[m]
  BY <1>5, <1>6
<1>. QED
  BY <1>3, <1>7, <1>10, <1>12, <1>13

(* Intervals that do not overlap, all between lo and hi, are no longer     *)
(* together than from lo to hi.                                            *)
LEMMA SumOfApart ==
  ASSUME NEW S, IsFiniteSet(S), NEW at, NEW len, NEW lo \in Nat, NEW hi \in Nat, lo <= hi,
         \A x \in S : at[x] \in Nat /\ len[x] \in Nat \ {0},
         \A x \in S : lo <= at[x] /\ at[x] + len[x] <= hi,
         \A x \in S : \A y \in S \ {x} : at[x] + len[x] <= at[y] \/ at[y] + len[y] <= at[x]
  PROVE  SumFunctionOnSet(len, S) <= hi - lo
<1>. DEFINE sum(s) == SumFunctionOnSet(len, s)
            Within(s, top) == \A x \in s : at[x] + len[x] <= top
            B == {s \in SUBSET S : \E top \in Nat : lo <= top /\ Within(s, top) /\ sum(s) > top - lo}
<1>0. \A s \in SUBSET S : IsFiniteSet(s) /\ sum(s) \in Nat
  <2>. SUFFICES ASSUME NEW s \in SUBSET S PROVE IsFiniteSet(s) /\ sum(s) \in Nat
    OBVIOUS
  <2>1. IsFiniteSet(s) /\ \A x \in s : len[x] \in Nat
    BY FS_Subset
  <2>. QED
    BY <2>1, SumIsNatural
<1>1. SUFFICES ASSUME B # {} PROVE FALSE
  <2>1. S \in SUBSET S /\ Within(S, hi)
    OBVIOUS
  <2>2. S \notin B
    BY <1>1
  <2>3. sum(S) \in Nat
    BY <1>0, <2>1
  <2>4. ~ (sum(S) > hi - lo)
    BY <2>1, <2>2
  <2>. QED
    BY <2>3, <2>4
<1>2. B \in SUBSET FiniteSubsetsOf(S)
  BY FS_Subset, Zenon DEF FiniteSubsetsOf
<1>3. PICK s \in B : \A u \in B : ~ (u \subseteq s /\ u # s)
  <2>. HIDE DEF B
  <2>. QED
    BY <1>1, <1>2, SmallestSet
<1>4. s \in SUBSET S
  BY <1>3
<1>5. PICK top \in Nat : lo <= top /\ Within(s, top) /\ sum(s) > top - lo
  BY <1>3
<1>6. s # {}
  <2>1. sum({}) = 0
    BY SumOfNone
  <2>. QED
    BY <1>5, <2>1
<1>7. PICK x \in s : \A y \in s : at[y] + len[y] <= at[x] + len[x]
  <2>. DEFINE Left == {top - (at[y] + len[y]) : y \in s}
  <2>1. Left \in SUBSET Nat /\ Left # {}
    BY <1>4, <1>5, <1>6
  <2>2. PICK l \in Left : \A n \in Left : l <= n
    <3>. HIDE DEF Left
    <3>. QED
      BY <2>1, LeastNatural
  <2>3. PICK x \in s : l = top - (at[x] + len[x])
    OBVIOUS
  <2>4. ASSUME NEW y \in s PROVE at[y] + len[y] <= at[x] + len[x]
    <3>1. top - (at[x] + len[x]) <= top - (at[y] + len[y])
      BY <2>2, <2>3
    <3>2. at[x] \in Nat /\ len[x] \in Nat /\ at[y] \in Nat /\ len[y] \in Nat
      BY <1>4
    <3>. QED
      BY <3>1, <3>2
  <2>. QED
    BY <2>4
<1>8. s \ {x} \in SUBSET S /\ s \ {x} \notin B
  BY <1>3, <1>4, <1>7
<1>9. Within(s \ {x}, at[x])
  <2>. SUFFICES ASSUME NEW y \in s, y # x PROVE at[y] + len[y] <= at[x]
    OBVIOUS
  <2>1. at[x] \in Nat /\ len[x] \in Nat \ {0} /\ at[y] \in Nat /\ len[y] \in Nat \ {0}
    BY <1>4
  <2>2. at[x] + len[x] <= at[y] \/ at[y] + len[y] <= at[x]
    BY <1>4
  <2>3. at[y] + len[y] <= at[x] + len[x]
    BY <1>7
  <2>. QED
    BY <2>1, <2>2, <2>3
<1>10. at[x] \in Nat /\ len[x] \in Nat /\ lo <= at[x] /\ at[x] + len[x] <= top
  BY <1>4, <1>5
<1>11. ~ (sum(s \ {x}) > at[x] - lo)
  BY <1>8, <1>9, <1>10
<1>12. sum(s) = len[x] + sum(s \ {x})
  <2>1. IsFiniteSet(s) /\ \A y \in s : len[y] \in Int
    BY <1>0, <1>4
  <2>. QED
    BY <2>1, SumOfOther
<1>13. sum(s) \in Nat /\ sum(s \ {x}) \in Nat
  BY <1>0, <1>4, <1>8
<1>. QED
  BY <1>5, <1>10, <1>11, <1>12, <1>13

-----------------------------------------------------------------------------
(* A number as quotient and remainder.                                     *)
LEMMA Division ==
  ASSUME NEW n \in Int, NEW d \in Nat \ {0}
  PROVE  /\ n \div d \in Int /\ n % d \in Int
         /\ n = d * (n \div d) + (n % d)
         /\ 0 <= n % d /\ n % d < d
OBVIOUS

(* A multiple leaves no remainder.                                         *)
LEMMA MultipleIsDivided ==
  ASSUME NEW k \in Int, NEW d \in Nat \ {0}
  PROVE  (d * k) % d = 0
OBVIOUS

(* The same of naturals.                                                   *)
LEMMA DivMod ==
  ASSUME NEW P \in Nat \ {0}, NEW n \in Nat
  PROVE  /\ n = P * (n \div P) + (n % P)
         /\ n \div P \in Nat
         /\ n % P \in 0 .. P - 1
OBVIOUS

(* A multiple leaves no remainder.                                         *)
LEMMA MultipleMod ==
  ASSUME NEW P \in Nat \ {0}, NEW q \in Nat
  PROVE  (P * q) % P = 0
OBVIOUS

(* A multiple is divided exactly.                                          *)
LEMMA MultipleDiv ==
  ASSUME NEW P \in Nat \ {0}, NEW q \in Nat
  PROVE  (P * q) \div P = q
OBVIOUS

(* Rounding down: what `base -= align' does.                               *)
LEMMA RoundDown ==
  ASSUME NEW P \in Nat \ {0}, NEW n \in Nat
  PROVE  /\ n - (n % P) \in Nat
         /\ n - (n % P) <= n
         /\ (n - (n % P)) % P = 0
<1>1. n - (n % P) = P * (n \div P)
  BY DivMod
<1>2. n \div P \in Nat /\ n % P \in 0 .. P - 1
  BY DivMod
<1>3. (n - (n % P)) % P = 0
  BY <1>1, <1>2, MultipleMod
<1>4. P * (n \div P) \in Nat
  BY <1>2
<1>. QED
  BY <1>1, <1>2, <1>3, <1>4

(* Rounding up past n: what the padding of the length does.                *)
LEMMA RoundUp ==
  ASSUME NEW P \in Nat \ {0}, NEW n \in Nat
  PROVE  /\ n + (P - (n % P)) \in Nat
         /\ n < n + (P - (n % P))
         /\ n + (P - (n % P)) <= n + P
         /\ (n + (P - (n % P))) % P = 0
<1>1. n + (P - (n % P)) = P * ((n \div P) + 1)
  BY DivMod
<1>2. n \div P \in Nat /\ n % P \in 0 .. P - 1
  BY DivMod
<1>3. (n \div P) + 1 \in Nat
  BY <1>2
<1>4. (n + (P - (n % P))) % P = 0
  BY <1>1, <1>3, MultipleMod
<1>. QED
  BY <1>2, <1>4

-----------------------------------------------------------------------------
(* Loops.  A loop of n turns over the set U has its states, and what each  *)
(* turn takes from one set to the next holds at the end.                   *)
Runs(n, U, turn, m, after) ==
  /\ after \in [0 .. n -> U]
  /\ after[0] = m
  /\ \A k \in 1 .. n : after[k] = turn[k][after[k-1]]

(* A loop of n turns has its n + 1 states.                                 *)
LEMMA LoopRuns ==
  ASSUME NEW n \in Nat, NEW U, NEW turn \in [1 .. n -> [U -> U]], NEW m \in U
  PROVE  \E after : Runs(n, U, turn, m, after)
<1>. DEFINE B == {j \in 0 .. n : ~ \E after : Runs(j, U, turn, m, after)}
<1>1. SUFFICES ASSUME B # {} PROVE FALSE
  <2>1. n \in 0 .. n
    OBVIOUS
  <2>. QED
    BY <2>1
<1>2. PICK j \in B : \A i \in B : j <= i
  <2>1. B \in SUBSET Nat
    OBVIOUS
  <2>. HIDE DEF B
  <2>. QED
    BY <1>1, <2>1, LeastNatural
<1>3. j # 0
  <2>1. Runs(0, U, turn, m, [k \in 0 .. 0 |-> m])
    BY DEF Runs
  <2>. QED
    BY <1>2, <2>1
<1>4. j \in 1 .. n /\ j - 1 \in 0 .. n /\ j - 1 \notin B
  BY <1>2, <1>3
<1>5. PICK after : Runs(j - 1, U, turn, m, after)
  BY <1>4
<1>. DEFINE next == [k \in 0 .. j |-> IF k = j THEN turn[j][after[j-1]] ELSE after[k]]
<1>6. Runs(j, U, turn, m, next)
  <2>1. after[j-1] \in U /\ turn[j] \in [U -> U]
    BY <1>4, <1>5 DEF Runs
  <2>2. next \in [0 .. j -> U]
    BY <1>4, <1>5, <2>1 DEF Runs
  <2>3. next[0] = m
    BY <1>4, <1>5 DEF Runs
  <2>4. ASSUME NEW k \in 1 .. j PROVE next[k] = turn[k][next[k-1]]
    <3>1. CASE k = j
      BY <1>4, <3>1
    <3>2. CASE k # j
      BY <1>4, <1>5, <3>2 DEF Runs
    <3>. QED
      BY <3>1, <3>2
  <2>. QED
    BY <2>2, <2>3, <2>4 DEF Runs
<1>. HIDE DEF next
<1>. QED
  BY <1>2, <1>6

(* What each turn takes from good[k-1] to good[k] is good[n] at the end.   *)
LEMMA LoopKeeps ==
  ASSUME NEW n \in Nat, NEW after, NEW good, after[0] \in good[0],
         \A k \in 1 .. n : after[k-1] \in good[k-1] => after[k] \in good[k]
  PROVE  after[n] \in good[n]
<1>. DEFINE B == {j \in 0 .. n : after[j] \notin good[j]}
<1>1. SUFFICES ASSUME B # {} PROVE FALSE
  OBVIOUS
<1>2. PICK j \in B : \A i \in B : j <= i
  <2>1. B \in SUBSET Nat
    OBVIOUS
  <2>. HIDE DEF B
  <2>. QED
    BY <1>1, <2>1, LeastNatural
<1>3. j \in 1 .. n /\ j - 1 \in 0 .. n /\ j - 1 \notin B
  BY <1>2
<1>. QED
  BY <1>2, <1>3

=============================================================================
