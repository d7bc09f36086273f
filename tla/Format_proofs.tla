--------------------------- MODULE Format_proofs ----------------------------
(***************************************************************************)
(* Proofs about vsnprintf and itoa, for every call made of pieces and      *)
(* every size of the buffer and of half a word: what is in the buffer and  *)
(* what the pieces still to come ought to print make what the call ought   *)
(* to print.                                                               *)
(***************************************************************************)
EXTENDS Format, FiniteLemmas, SequenceTheorems

-----------------------------------------------------------------------------
(* Powers.                                                                 *)
IsPowers(base, k, f) == f = [j \in 0 .. k |-> IF j = 0 THEN 1 ELSE base * f[j-1]]

(* A base has its powers.                                                  *)
LEMMA PowersExist ==
  ASSUME NEW base \in Nat, NEW k \in Nat
  PROVE  \E f \in [0 .. k -> Nat] : IsPowers(base, k, f)
<1>. DEFINE turn == [j \in 1 .. k |-> [x \in Nat |-> base * x]]
<1>1. turn \in [1 .. k -> [Nat -> Nat]]
  OBVIOUS
<1>2. PICK f : Runs(k, Nat, turn, 1, f)
  <2>. HIDE DEF turn
  <2>. QED
    BY <1>1, LoopRuns
<1>3. f \in [0 .. k -> Nat]
  BY <1>2 DEF Runs
<1>4. ASSUME NEW j \in 0 .. k PROVE f[j] = IF j = 0 THEN 1 ELSE base * f[j-1]
  <2>1. CASE j = 0
    BY <1>2, <2>1 DEF Runs
  <2>2. CASE j # 0
    <3>1. j \in 1 .. k /\ j - 1 \in 0 .. k
      BY <2>2
    <3>2. f[j] = turn[j][f[j-1]]
      BY <1>2, <3>1 DEF Runs
    <3>. QED
      BY <1>3, <2>2, <3>1, <3>2
  <2>. QED
    BY <2>1, <2>2
<1>5. IsPowers(base, k, f)
  BY <1>3, <1>4 DEF IsPowers
<1>. QED
  BY <1>3, <1>5

(* The powers up to k are those up to m, as far as they go.                *)
LEMMA PowersAgree ==
  ASSUME NEW base, NEW k \in Nat, NEW m \in Nat, k <= m, NEW f, NEW g,
         IsPowers(base, k, f), IsPowers(base, m, g)
  PROVE  f[k] = g[k]
<1>. DEFINE good == [j \in 0 .. k |-> {g[j]}]
<1>1. f[0] \in good[0]
  BY DEF IsPowers
<1>2. ASSUME NEW j \in 1 .. k, f[j-1] \in good[j-1] PROVE f[j] \in good[j]
  <2>1. j - 1 \in 0 .. k /\ j \in 0 .. k /\ j \in 0 .. m /\ j # 0
    OBVIOUS
  <2>2. f[j-1] = g[j-1]
    BY <1>2, <2>1
  <2>3. f[j] = base * f[j-1]
    BY <2>1 DEF IsPowers
  <2>4. g[j] = base * g[j-1]
    BY <2>1 DEF IsPowers
  <2>. QED
    BY <2>1, <2>2, <2>3, <2>4, Zenon
<1>3. f[k] \in good[k]
  <2>. HIDE DEF good
  <2>. QED
    BY <1>1, <1>2, LoopKeeps
<1>. QED
  BY <1>3

(* Power gives them.                                                       *)
LEMMA PowerIsPower ==
  ASSUME NEW base \in Nat, NEW k \in Nat
  PROVE  \E f \in [0 .. k -> Nat] : IsPowers(base, k, f) /\ Power(base, k) = f[k]
<1>. DEFINE F == CHOOSE f : IsPowers(base, k, f)
<1>1. PICK g \in [0 .. k -> Nat] : IsPowers(base, k, g)
  BY PowersExist
<1>2. IsPowers(base, k, F)
  BY <1>1
<1>3. Power(base, k) = F[k]
  BY DEF Power, IsPowers
<1>. HIDE DEF F
<1>4. F[k] = g[k]
  BY <1>1, <1>2, PowersAgree
<1>. QED
  BY <1>1, <1>3, <1>4

(* A power is the one before times the base.                               *)
LEMMA PowerStep ==
  ASSUME NEW base \in Nat, NEW k \in Nat
  PROVE  /\ Power(base, 0) = 1
         /\ Power(base, k) \in Nat
         /\ Power(base, k + 1) = base * Power(base, k)
<1>1. PICK f \in [0 .. 0 -> Nat] : IsPowers(base, 0, f) /\ Power(base, 0) = f[0]
  BY PowerIsPower
<1>2. f[0] = 1
  BY <1>1 DEF IsPowers
<1>3. PICK g \in [0 .. k -> Nat] : IsPowers(base, k, g) /\ Power(base, k) = g[k]
  BY PowerIsPower
<1>4. k + 1 \in Nat
  OBVIOUS
<1>5. PICK h \in [0 .. k + 1 -> Nat] :
         IsPowers(base, k + 1, h) /\ Power(base, k + 1) = h[k + 1]
  BY <1>4, PowerIsPower
<1>6. g[k] = h[k]
  BY <1>3, <1>4, <1>5, PowersAgree
<1>7. k + 1 \in 0 .. k + 1 /\ k + 1 # 0 /\ (k + 1) - 1 = k
  OBVIOUS
<1>8. h[k + 1] = base * h[(k + 1) - 1]
  BY <1>5, <1>7 DEF IsPowers
<1>. QED
  BY <1>1, <1>2, <1>3, <1>5, <1>6, <1>7, <1>8

(* A product by a base.                                                    *)
LEMMA Grows ==
  ASSUME NEW base \in Nat \ {0, 1}, NEW p \in Nat \ {0}
  PROVE  base * p \in Nat \ {0} /\ base * p > p
OBVIOUS

(* Powers are above their exponent.                                        *)
LEMMA PowerAbove ==
  ASSUME NEW base \in Nat \ {0, 1}, NEW k \in Nat
  PROVE  Power(base, k) \in Nat \ {0} /\ Power(base, k) > k
<1>. DEFINE S == {j \in Nat : Power(base, j) \in Nat \ {0} /\ Power(base, j) > j}
<1>1. 0 \in S
  BY PowerStep
<1>2. ASSUME NEW n \in Nat, n \in S PROVE n + 1 \in S
  <2>1. Power(base, n + 1) = base * Power(base, n)
    BY PowerStep
  <2>2. Power(base, n) \in Nat \ {0} /\ Power(base, n) > n
    BY <1>2
  <2>3. Power(base, n + 1) \in Nat \ {0} /\ Power(base, n + 1) > Power(base, n)
    BY <2>1, <2>2, Grows
  <2>. QED
    BY <2>2, <2>3
<1>3. Nat \subseteq S
  <2>. HIDE DEF S
  <2>. QED
    BY <1>1, <1>2, InductiveSet
<1>. QED
  BY <1>3

(* The power of a sum is a product.                                        *)
LEMMA PowerOfSum ==
  ASSUME NEW base \in Nat \ {0, 1}, NEW j \in Nat, NEW k \in Nat
  PROVE  Power(base, j + k) = Power(base, j) * Power(base, k)
<1>. DEFINE S == {n \in Nat : Power(base, j + n) = Power(base, j) * Power(base, n)}
<1>1. 0 \in S
  BY PowerStep
<1>2. ASSUME NEW n \in Nat, n \in S PROVE n + 1 \in S
  <2>. DEFINE p == Power(base, j)
              q == Power(base, n)
  <2>1. Power(base, j + n) = p * q
    BY <1>2
  <2>2. Power(base, n + 1) = base * q
    BY PowerStep
  <2>3. Power(base, (j + n) + 1) = base * Power(base, j + n)
    BY PowerStep
  <2>4. (j + n) + 1 = j + (n + 1)
    OBVIOUS
  <2>5. p \in Nat /\ q \in Nat
    BY PowerStep
  <2>. HIDE DEF p, q
  <2>6. base * (p * q) = p * (base * q)
    BY <2>5
  <2>7. Power(base, j + (n + 1)) = p * Power(base, n + 1)
    BY <2>1, <2>2, <2>3, <2>4, <2>6
  <2>. QED
    BY <2>7 DEF p
<1>3. Nat \subseteq S
  <2>. HIDE DEF S
  <2>. QED
    BY <1>1, <1>2, InductiveSet
<1>. QED
  BY <1>3

(* Greater exponents give greater powers.                                  *)
LEMMA PowersGrow ==
  ASSUME NEW base \in Nat \ {0, 1}, NEW j \in Nat, NEW k \in Nat, j <= k
  PROVE  Power(base, j) <= Power(base, k)
<1>1. k = j + (k - j) /\ k - j \in Nat
  OBVIOUS
<1>2. Power(base, k) = Power(base, j) * Power(base, k - j)
  BY <1>1, PowerOfSum
<1>3. Power(base, j) \in Nat \ {0} /\ Power(base, k - j) \in Nat \ {0}
  BY <1>1, PowerAbove
<1>4. \A p, q \in Nat \ {0} : p <= p * q
  OBVIOUS
<1>. QED
  BY <1>2, <1>3, <1>4

-----------------------------------------------------------------------------
(* Division.                                                               *)

(* Quotient and remainder are the only ones.                               *)
LEMMA Quotient ==
  ASSUME NEW d \in Nat \ {0}, NEW q \in Int, NEW r \in Nat, r < d
  PROVE  (d * q + r) \div d = q /\ (d * q + r) % d = r
OBVIOUS

(* A digit is less than its base, and what remains fits below it.          *)
LEMMA BelowProduct ==
  ASSUME NEW b \in Nat \ {0}, NEW p \in Nat \ {0}, NEW t \in Nat, NEW r \in Nat, t < p, r < b
  PROVE  b * t + r \in Nat /\ b * t + r < b * p
<1>1. t + 1 <= p
  OBVIOUS
<1>2. b * (t + 1) <= b * p
  BY <1>1
<1>3. b * (t + 1) = b * t + b
  OBVIOUS
<1>. QED
  BY <1>2, <1>3

(* To divide twice is to divide by the product.                            *)
LEMMA DividedTwice ==
  ASSUME NEW n \in Nat, NEW b \in Nat \ {0}, NEW p \in Nat \ {0}
  PROVE  (n \div b) \div p = n \div (b * p)
<1>. DEFINE q == n \div b
            r == n % b
            s == q \div p
            t == q % p
            d == b * p
            u == b * t + r
<1>1. n = b * q + r /\ q \in Nat /\ r \in Nat /\ r < b
  BY DivMod
<1>. HIDE DEF q, r
<1>2. q = p * s + t /\ s \in Nat /\ t \in Nat /\ t < p
  BY <1>1, DivMod
<1>3. d \in Nat \ {0}
  OBVIOUS
<1>. HIDE DEF s, t
<1>4. u \in Nat /\ u < d
  BY <1>1, <1>2, BelowProduct
<1>5. b * (p * s + t) = d * s + b * t
  BY <1>2
<1>. HIDE DEF u, d
<1>6. n = d * s + u
  BY <1>1, <1>2, <1>3, <1>4, <1>5 DEF u
<1>7. n \div d = s
  BY <1>2, <1>3, <1>4, <1>6, Quotient
<1>. QED
  BY <1>7 DEF s, q, d


-----------------------------------------------------------------------------
(* How many digits a number has.                                           *)
IsCount(n, base, k) ==
  /\ k \in 1 .. (n + 1)
  /\ Power(base, k) > n
  /\ k = 1 \/ Power(base, k - 1) <= n

(* Only one number of digits will do.                                      *)
LEMMA CountUnique ==
  ASSUME NEW base \in Nat \ {0, 1}, NEW n \in Nat, NEW j, NEW k,
         IsCount(n, base, j), IsCount(n, base, k)
  PROVE  j = k
<1>1. ASSUME NEW i \in Int, NEW m \in Int, IsCount(n, base, i), IsCount(n, base, m), i < m
      PROVE  FALSE
  <2>1. i \in Nat /\ m - 1 \in Nat /\ i <= m - 1 /\ m # 1
    BY <1>1 DEF IsCount
  <2>2. Power(base, i) <= Power(base, m - 1)
    BY <2>1, PowersGrow
  <2>3. Power(base, i) \in Nat /\ Power(base, m - 1) \in Nat
    BY <2>1, PowerStep
  <2>. QED
    BY <1>1, <2>1, <2>2, <2>3 DEF IsCount
<1>2. j \in Int /\ k \in Int
  BY DEF IsCount
<1>3. ~(j < k) /\ ~(k < j)
  BY <1>1, <1>2
<1>. QED
  BY <1>2, <1>3

(* And there is one.                                                       *)
LEMMA CountExists ==
  ASSUME NEW base \in Nat \ {0, 1}, NEW n \in Nat
  PROVE  \E k : IsCount(n, base, k)
<1>. DEFINE S == {k \in Nat \ {0} : Power(base, k) > n}
<1>1. n + 1 \in S
  <2>1. n + 1 \in Nat \ {0}
    OBVIOUS
  <2>2. Power(base, n + 1) \in Nat \ {0} /\ Power(base, n + 1) > n + 1
    BY <2>1, PowerAbove
  <2>. QED
    BY <2>1, <2>2
<1>2. PICK k \in S : \A m \in S : k <= m
  <2>1. S \in SUBSET Nat
    OBVIOUS
  <2>. HIDE DEF S
  <2>. QED
    BY <1>1, <2>1, LeastNatural
<1>3. k \in 1 .. (n + 1) /\ Power(base, k) > n
  BY <1>1, <1>2
<1>4. ASSUME k # 1 PROVE Power(base, k - 1) <= n
  <2>1. k - 1 \in Nat \ {0} /\ ~(k <= k - 1)
    BY <1>3, <1>4
  <2>2. k - 1 \notin S
    BY <1>2, <2>1
  <2>3. Power(base, k - 1) \in Nat
    BY <2>1, PowerStep
  <2>. QED
    BY <2>1, <2>2, <2>3
<1>. QED
  BY <1>3, <1>4 DEF IsCount

(* PlaceCount is it.                                                       *)
LEMMA PlaceCountIs ==
  ASSUME NEW base \in Nat \ {0, 1}, NEW n \in Nat
  PROVE  /\ IsCount(n, base, PlaceCount(n, base))
         /\ PlaceCount(n, base) \in Nat \ {0}
<1>1. \E k \in 1 .. (n + 1) : Power(base, k) > n /\ (k = 1 \/ Power(base, k - 1) <= n)
  BY CountExists DEF IsCount
<1>2. IsCount(n, base, PlaceCount(n, base))
  BY <1>1, Zenon DEF IsCount, PlaceCount
<1>. QED
  BY <1>2 DEF IsCount

(* A number below the base has one digit.                                  *)
LEMMA CountOfSmall ==
  ASSUME NEW base \in Nat \ {0, 1}, NEW n \in Nat, n < base
  PROVE  PlaceCount(n, base) = 1
<1>1. Power(base, 0) = 1 /\ Power(base, 0 + 1) = base * Power(base, 0)
  BY PowerStep
<1>2. Power(base, 1) = base
  BY <1>1
<1>3. IsCount(n, base, 1)
  BY <1>2 DEF IsCount
<1>. QED
  BY <1>3, PlaceCountIs, CountUnique

(* Another has one more than its quotient by the base.                     *)
LEMMA CountOfGreat ==
  ASSUME NEW base \in Nat \ {0, 1}, NEW n \in Nat, n >= base
  PROVE  /\ n \div base \in Nat
         /\ PlaceCount(n, base) = PlaceCount(n \div base, base) + 1
<1>. DEFINE q == n \div base
            r == n % base
            k == PlaceCount(q, base)
            p == Power(base, k)
<1>1. n = base * q + r /\ q \in Nat /\ r \in Nat /\ r < base
  BY DivMod
<1>. HIDE DEF q, r
<1>2. IsCount(q, base, k) /\ k \in Nat \ {0}
  BY <1>1, PlaceCountIs
<1>. HIDE DEF k
<1>3. p \in Nat \ {0} /\ p > q /\ p > k
  BY <1>2, PowerAbove DEF IsCount
<1>4. Power(base, k + 1) = base * p
  BY <1>2, PowerStep
<1>. HIDE DEF p
<1>5. base * p > n
  <2>1. base * (q + 1) <= base * p
    BY <1>1, <1>3
  <2>2. base * (q + 1) = base * q + base
    BY <1>1
  <2>. QED
    BY <1>1, <1>3, <2>1, <2>2
<1>6. p <= n
  <2>1. CASE k = 1
    <3>1. Power(base, 0) = 1 /\ Power(base, 0 + 1) = base * Power(base, 0)
      BY PowerStep
    <3>. QED
      BY <2>1, <3>1 DEF p
  <2>2. CASE k # 1
    <3>1. k - 1 \in Nat /\ (k - 1) + 1 = k
      BY <1>2
    <3>2. Power(base, (k - 1) + 1) = base * Power(base, k - 1) /\ Power(base, k - 1) \in Nat
      BY <3>1, PowerStep
    <3>3. Power(base, k - 1) <= q
      BY <1>2, <2>2 DEF IsCount
    <3>4. base * Power(base, k - 1) <= base * q
      BY <1>1, <3>2, <3>3
    <3>5. p = base * Power(base, k - 1)
      BY <3>1, <3>2 DEF p
    <3>. QED
      BY <1>1, <1>3, <3>2, <3>4, <3>5
  <2>. QED
    BY <2>1, <2>2
<1>7. k + 1 \in 1 .. (n + 1) /\ k + 1 # 1 /\ (k + 1) - 1 = k
  BY <1>2, <1>3, <1>6
<1>8. IsCount(n, base, k + 1)
  BY <1>4, <1>5, <1>6, <1>7 DEF IsCount, p
<1>9. PlaceCount(n, base) = k + 1
  BY <1>8, PlaceCountIs, CountUnique
<1>. QED
  BY <1>1, <1>9 DEF k, q


-----------------------------------------------------------------------------
(* The loop of itoa.  LowestFirst is a recursive function of the number:   *)
(* it is Lowest, which has the digits by division with powers.             *)
IsLowest(base, sign, f) ==
  f = [k \in Nat |->
         <<DigitChar(sign * (k % base))>> \o (IF k < base THEN <<>> ELSE f[k \div base])]

Digit(n, base, sign, i) == DigitChar(sign * ((n \div Power(base, i)) % base))

Lowest(n, base, sign) == [i \in 1 .. PlaceCount(n, base) |-> Digit(n, base, sign, i - 1)]

(* The signs of itoa.                                                      *)
Signs == {1, -1}

(* A digit is a character.                                                 *)
LEMMA DigitIsInt ==
  ASSUME NEW n \in Nat, NEW base \in Nat \ {0, 1}, NEW sign \in Signs, NEW i \in Nat
  PROVE  /\ Power(base, i) \in Nat \ {0}
         /\ n \div Power(base, i) \in Nat
         /\ (n \div Power(base, i)) % base \in 0 .. base - 1
         /\ Digit(n, base, sign, i) \in Int
<1>1. Power(base, i) \in Nat \ {0}
  BY PowerAbove
<1>2. n \div Power(base, i) \in Nat
  BY <1>1, DivMod
<1>3. (n \div Power(base, i)) % base \in 0 .. base - 1
  BY <1>2, DivMod
<1>. DEFINE d == (n \div Power(base, i)) % base
<1>4. d \in Int
  BY <1>3
<1>. HIDE DEF d
<1>5. sign * d \in Int
  BY <1>4 DEF Signs
<1>6. DigitChar(sign * d) \in Int
  BY <1>5 DEF DigitChar, DIGIT0, SMALL_A
<1>. QED
  BY <1>1, <1>2, <1>3, <1>6 DEF Digit, d

(* So Lowest is text.                                                      *)
LEMMA LowestIsSeq ==
  ASSUME NEW n \in Nat, NEW base \in Nat \ {0, 1}, NEW sign \in Signs
  PROVE  /\ Lowest(n, base, sign) \in Seq(Int)
         /\ Len(Lowest(n, base, sign)) = PlaceCount(n, base)
         /\ \A i \in 1 .. PlaceCount(n, base) :
              Lowest(n, base, sign)[i] = Digit(n, base, sign, i - 1)
<1>1. PlaceCount(n, base) \in Nat
  BY PlaceCountIs
<1>2. \A i \in 1 .. PlaceCount(n, base) : Digit(n, base, sign, i - 1) \in Int
  BY <1>1, DigitIsInt
<1>3. Lowest(n, base, sign) \in [1 .. PlaceCount(n, base) -> Int]
  BY <1>2 DEF Lowest
<1>. QED
  BY <1>1, <1>3 DEF Lowest

(* Its first digit is the remainder, the others are those of the quotient. *)
LEMMA LowestSplits ==
  ASSUME NEW n \in Nat, NEW base \in Nat \ {0, 1}, NEW sign \in Signs
  PROVE  Lowest(n, base, sign)
           = <<DigitChar(sign * (n % base))>>
               \o (IF n < base THEN <<>> ELSE Lowest(n \div base, base, sign))
<1>. DEFINE first == DigitChar(sign * (n % base))
            q == n \div base
            rest == IF n < base THEN <<>> ELSE Lowest(q, base, sign)
            L == Lowest(n, base, sign)
            R == <<first>> \o rest
<1>0. PlaceCount(n, base) \in Nat \ {0} /\ Power(base, 0) = 1 /\ q \in Nat
  BY PlaceCountIs, PowerStep, DivMod
<1>1. Digit(n, base, sign, 0) = first
  <2>1. n \div 1 = n
    OBVIOUS
  <2>. QED
    BY <1>0, <2>1 DEF Digit
<1>2. first \in Int
  BY <1>1, DigitIsInt
<1>3. rest \in Seq(Int) /\ Len(rest) = PlaceCount(n, base) - 1
  <2>1. CASE n < base
    BY <2>1, CountOfSmall
  <2>2. CASE ~(n < base)
    <3>1. Len(Lowest(q, base, sign)) = PlaceCount(q, base) /\ Lowest(q, base, sign) \in Seq(Int)
      BY <1>0, LowestIsSeq
    <3>2. PlaceCount(q, base) \in Nat
      BY <1>0, PlaceCountIs
    <3>3. n >= base
      BY <2>2
    <3>4. PlaceCount(n, base) = PlaceCount(q, base) + 1
      BY <3>3, CountOfGreat
    <3>. QED
      BY <2>2, <3>1, <3>2, <3>4
  <2>. QED
    BY <2>1, <2>2
<1>4. /\ L \in Seq(Int) /\ Len(L) = PlaceCount(n, base)
      /\ \A i \in 1 .. PlaceCount(n, base) : L[i] = Digit(n, base, sign, i - 1)
  BY LowestIsSeq
<1>. HIDE DEF L
<1>5. ASSUME NEW i \in 1 .. (PlaceCount(n, base) - 1) PROVE L[i + 1] = rest[i]
  <2>1. ~(n < base)
    BY <1>5, CountOfSmall
  <2>2. n >= base
    BY <2>1
  <2>3. i \in 1 .. PlaceCount(q, base) /\ i - 1 \in Nat /\ i \in Nat /\ (i + 1) - 1 = i
    <3>1. PlaceCount(q, base) \in Nat
      BY <1>0, PlaceCountIs
    <3>2. PlaceCount(n, base) = PlaceCount(q, base) + 1
      BY <2>2, CountOfGreat
    <3>. QED
      BY <3>1, <3>2
  <2>4. rest[i] = Digit(q, base, sign, i - 1)
    <3>1. ~(n < base) /\ rest = Lowest(q, base, sign)
      BY <1>0, <2>1
    <3>2. q \in Nat
      BY <1>0
    <3>. HIDE DEF rest, q
    <3>3. Lowest(q, base, sign)[i] = Digit(q, base, sign, i - 1)
      BY <2>3, <3>2, LowestIsSeq
    <3>. QED
      BY <3>1, <3>3
  <2>5. L[i + 1] = Digit(n, base, sign, i)
    <3>1. i + 1 \in 1 .. PlaceCount(n, base)
      BY <1>0
    <3>2. L[i + 1] = Digit(n, base, sign, (i + 1) - 1)
      BY <1>4, <3>1
    <3>. QED
      BY <2>3, <3>2
  <2>6. q \div Power(base, i - 1) = n \div (base * Power(base, i - 1))
    <3>1. Power(base, i - 1) \in Nat \ {0}
      BY <2>3, PowerAbove
    <3>. QED
      BY <3>1, DividedTwice
  <2>7. Power(base, i) = base * Power(base, i - 1)
    <3>1. Power(base, (i - 1) + 1) = base * Power(base, i - 1)
      BY <2>3, PowerStep
    <3>. QED
      BY <2>3, <3>1
  <2>. QED
    BY <2>4, <2>5, <2>6, <2>7 DEF Digit
<1>6. L[1] = first
  <2>1. 1 \in 1 .. PlaceCount(n, base) /\ 1 - 1 = 0
    BY <1>0
  <2>2. L[1] = Digit(n, base, sign, 1 - 1)
    BY <1>4, <2>1
  <2>. QED
    BY <1>1, <2>1, <2>2
<1>. HIDE DEF rest, first, q
<1>7. R \in Seq(Int) /\ Len(R) = PlaceCount(n, base)
  BY <1>0, <1>2, <1>3
<1>8. ASSUME NEW i \in 1 .. Len(L) PROVE L[i] = R[i]
  <2>1. CASE i = 1
    BY <1>2, <1>3, <1>6, <2>1
  <2>2. CASE i # 1
    <3>1. i - 1 \in 1 .. (PlaceCount(n, base) - 1) /\ (i - 1) + 1 = i
      BY <1>0, <1>4, <2>2
    <3>2. L[i] = rest[i - 1]
      BY <1>5, <3>1
    <3>3. R[i] = rest[i - 1]
      BY <1>2, <1>3, <3>1
    <3>. QED
      BY <3>2, <3>3
  <2>. QED
    BY <2>1, <2>2
<1>. HIDE DEF R
<1>9. L = R
  BY <1>4, <1>7, <1>8, SeqEqual
<1>. QED
  BY <1>9 DEF L, R, rest, first, q

(* The recursion has one solution.                                         *)
LEMMA LowestUnique ==
  ASSUME NEW base \in Nat \ {0, 1}, NEW sign, NEW f, NEW g,
         IsLowest(base, sign, f), IsLowest(base, sign, g)
  PROVE  f = g
<1>. DEFINE B == {k \in Nat : f[k] # g[k]}
<1>1. ASSUME B # {} PROVE FALSE
  <2>1. PICK m \in B : \A n \in B : m <= n
    <3>1. B \in SUBSET Nat
      OBVIOUS
    <3>. HIDE DEF B
    <3>. QED
      BY <1>1, <3>1, LeastNatural
  <2>2. m \in Nat /\ f[m] # g[m]
    BY <2>1
  <2>. DEFINE q == m \div base
  <2>3. f[m] = <<DigitChar(sign * (m % base))>> \o (IF m < base THEN <<>> ELSE f[q])
    BY <2>2 DEF IsLowest
  <2>4. g[m] = <<DigitChar(sign * (m % base))>> \o (IF m < base THEN <<>> ELSE g[q])
    BY <2>2 DEF IsLowest
  <2>5. ~(m < base) /\ f[q] # g[q]
    BY <2>2, <2>3, <2>4, Zenon
  <2>6. q \in Nat /\ m = base * q + (m % base) /\ m % base \in Nat
    BY <2>2, DivMod
  <2>. HIDE DEF q
  <2>7. q < m
    <3>1. CASE q = 0
      BY <2>2, <2>5, <2>6, <3>1
    <3>2. CASE q # 0
      <4>1. base * q > q
        BY <2>6, <3>2, Grows
      <4>. QED
        BY <2>2, <2>6, <4>1
    <3>. QED
      BY <3>1, <3>2
  <2>8. q \in B
    BY <2>5, <2>6
  <2>. QED
    BY <2>1, <2>2, <2>6, <2>7, <2>8
<1>2. \A k \in Nat : f[k] = g[k]
  BY <1>1
<1>3. f = [k \in Nat |-> f[k]] /\ g = [k \in Nat |-> g[k]]
  BY DEF IsLowest
<1>. QED
  BY <1>2, <1>3

(* itoa's loop stores the digits, the lowest first.                        *)
LEMMA LowestFirstIs ==
  ASSUME NEW n \in Nat, NEW base \in Nat \ {0, 1}, NEW sign \in Signs
  PROVE  LowestFirst(n, base, sign) = Lowest(n, base, sign)
<1>. DEFINE closed == [k \in Nat |-> Lowest(k, base, sign)]
            F == CHOOSE f : IsLowest(base, sign, f)
<1>1. IsLowest(base, sign, closed)
  <2>1. ASSUME NEW k \in Nat
        PROVE  closed[k] = <<DigitChar(sign * (k % base))>>
                             \o (IF k < base THEN <<>> ELSE closed[k \div base])
    <3>1. k \div base \in Nat
      BY DivMod
    <3>2. closed[k] = Lowest(k, base, sign) /\ closed[k \div base] = Lowest(k \div base, base, sign)
      BY <3>1
    <3>. HIDE DEF closed
    <3>. QED
      BY <3>2, LowestSplits
  <2>. QED
    BY <2>1 DEF IsLowest
<1>. HIDE DEF closed
<1>2. IsLowest(base, sign, F)
  BY <1>1
<1>3. LowestFirst(n, base, sign) = F[n]
  BY DEF LowestFirst, IsLowest
<1>. HIDE DEF F
<1>4. F = closed
  BY <1>1, <1>2, LowestUnique
<1>. QED
  BY <1>3, <1>4 DEF closed


-----------------------------------------------------------------------------
(* Text: characters, none of them NUL.                                     *)
Text == Seq(Nat \ {NUL})

Bases == {2, 10, 16}

(* The greatest of a set is what Max gives.                                *)
LEMMA MaxIs ==
  ASSUME NEW S \in SUBSET Int, NEW x \in S, \A y \in S : y <= x
  PROVE  Max(S) = x
<1>1. \E m \in S : \A y \in S : m >= y
  OBVIOUS
<1>2. Max(S) \in S /\ \A y \in S : Max(S) >= y
  BY <1>1, Zenon DEF Max
<1>3. Max(S) \in Int /\ x \in Int /\ Max(S) >= x /\ Max(S) <= x
  BY <1>2
<1>. QED
  BY <1>3

(* Reversed text is text.                                                  *)
LEMMA ReverseIs ==
  ASSUME NEW S, NEW s \in Seq(S)
  PROVE  /\ Reverse(s) \in Seq(S) /\ Len(Reverse(s)) = Len(s)
         /\ \A i \in 1 .. Len(s) : Reverse(s)[i] = s[(Len(s) - i) + 1]
<1>1. Len(s) \in Nat /\ \A i \in 1 .. Len(s) : s[(Len(s) - i) + 1] \in S
  OBVIOUS
<1>2. Reverse(s) \in [1 .. Len(s) -> S]
  BY <1>1 DEF Reverse
<1>. QED
  BY <1>1, <1>2 DEF Reverse

(* No digit is a NUL, not even one that itoa left negative.                *)
LEMMA DigitIsMark ==
  ASSUME NEW n \in Nat, NEW base \in Bases, NEW sign \in Signs, sign = 1 \/ base = 10, NEW i \in Nat
  PROVE  Digit(n, base, sign, i) \in Nat \ {NUL}
<1>. DEFINE d == (n \div Power(base, i)) % base
<1>1. base \in Nat \ {0, 1} /\ base <= 16
  BY DEF Bases
<1>2. d \in 0 .. base - 1
  BY <1>1, DigitIsInt
<1>. HIDE DEF d
<1>3. d \in Nat /\ d < 16 /\ (base = 10 => d < 10)
  BY <1>1, <1>2
<1>4. CASE sign = 1
  <2>1. sign * d = d
    BY <1>3, <1>4
  <2>2. DigitChar(d) \in Nat \ {NUL}
    BY <1>3 DEF DigitChar, DIGIT0, SMALL_A, NUL
  <2>. QED
    BY <2>1, <2>2 DEF Digit, d
<1>5. CASE sign = -1 /\ base = 10
  <2>1. sign * d = -d /\ -d \in Int /\ -d < 10 /\ -d > -10
    BY <1>3, <1>5
  <2>2. DigitChar(-d) \in Nat \ {NUL}
    BY <1>3, <2>1 DEF DigitChar, DIGIT0, SMALL_A, NUL
  <2>. QED
    BY <2>1, <2>2 DEF Digit, d
<1>. QED
  BY <1>4, <1>5 DEF Signs

(* So what the loop stores is text.                                        *)
LEMMA LowestIsText ==
  ASSUME NEW n \in Nat, NEW base \in Bases, NEW sign \in Signs, sign = 1 \/ base = 10
  PROVE  /\ Lowest(n, base, sign) \in Text
         /\ LowestFirst(n, base, sign) = Lowest(n, base, sign)
         /\ Len(Lowest(n, base, sign)) = PlaceCount(n, base)
<1>1. base \in Nat \ {0, 1}
  BY DEF Bases
<1>2. PlaceCount(n, base) \in Nat
  BY <1>1, PlaceCountIs
<1>3. ASSUME NEW i \in 1 .. PlaceCount(n, base) PROVE Digit(n, base, sign, i - 1) \in Nat \ {NUL}
  <2>1. i - 1 \in Nat
    BY <1>2
  <2>. QED
    BY <2>1, DigitIsMark
<1>4. Lowest(n, base, sign) \in [1 .. PlaceCount(n, base) -> Nat \ {NUL}]
  BY <1>3 DEF Lowest
<1>5. Lowest(n, base, sign) \in Text
  BY <1>2, <1>4 DEF Text
<1>. QED
  BY <1>1, <1>5, LowestFirstIs, LowestIsSeq

(* The reference, digit by digit, of m digits.                             *)
HasPlaces(n, base, width, m) ==
  /\ m \in Nat \ {0}
  /\ Places(n, base, width) \in Seq(Int)
  /\ Len(Places(n, base, width)) = m
  /\ \A i \in 1 .. m : Places(n, base, width)[i] = Digit(n, base, 1, m - i)

(* It has as many as the width asks for, and as the number has.            *)
LEMMA PlacesAre ==
  ASSUME NEW n \in Nat, NEW base \in Nat \ {0, 1}, NEW width \in Nat, NEW m,
         m = IF width > PlaceCount(n, base) THEN width ELSE PlaceCount(n, base)
  PROVE  HasPlaces(n, base, width, m)
<1>. DEFINE pc == PlaceCount(n, base)
            places == Max({width, pc})
            D(i) == DigitChar((n \div Power(base, places - i)) % base)
<1>1. pc \in Nat \ {0}
  BY PlaceCountIs
<1>2. places = m
  <2>. HIDE DEF pc
  <2>1. {width, pc} \in SUBSET Int /\ m \in {width, pc} /\ \A y \in {width, pc} : y <= m
    BY <1>1 DEF pc
  <2>. QED
    BY <2>1, MaxIs
<1>3. m \in Nat \ {0}
  BY <1>1
<1>. HIDE DEF places, pc
<1>4. ASSUME NEW i \in 1 .. m PROVE D(i) = Digit(n, base, 1, m - i) /\ D(i) \in Int
  <2>1. m - i \in Nat
    BY <1>3
  <2>2. (n \div Power(base, m - i)) % base \in 0 .. base - 1 /\ 1 \in Signs
    BY <2>1, DigitIsInt DEF Signs
  <2>3. 1 * ((n \div Power(base, m - i)) % base) = (n \div Power(base, m - i)) % base
    BY <2>2
  <2>4. D(i) = Digit(n, base, 1, m - i)
    BY <1>2, <2>3 DEF Digit
  <2>5. Digit(n, base, 1, m - i) \in Int
    BY <2>1, <2>2, DigitIsInt
  <2>. QED
    BY <2>4, <2>5
<1>5. Places(n, base, width) = [i \in 1 .. m |-> D(i)]
  BY <1>2 DEF Places, places, pc
<1>. HIDE DEF D
<1>6. Places(n, base, width) \in [1 .. m -> Int]
  BY <1>4, <1>5
<1>. QED
  BY <1>3, <1>4, <1>5, <1>6 DEF HasPlaces

(* The digits of the loop, reversed, are the reference without a width.    *)
LEMMA ReversedIsPlaces ==
  ASSUME NEW n \in Nat, NEW base \in Nat \ {0, 1}
  PROVE  Reverse(Lowest(n, base, 1)) = Places(n, base, 1)
<1>. DEFINE m == PlaceCount(n, base)
            s == Lowest(n, base, 1)
            t == Places(n, base, 1)
<1>1. m \in Nat \ {0} /\ 1 \in Signs
  BY PlaceCountIs DEF Signs
<1>2. s \in Seq(Int) /\ Len(s) = m /\ \A i \in 1 .. m : s[i] = Digit(n, base, 1, i - 1)
  BY <1>1, LowestIsSeq
<1>3. t \in Seq(Int) /\ Len(t) = m /\ \A i \in 1 .. m : t[i] = Digit(n, base, 1, m - i)
  <2>1. m = IF 1 > PlaceCount(n, base) THEN 1 ELSE PlaceCount(n, base)
    BY <1>1
  <2>2. HasPlaces(n, base, 1, m)
    BY <2>1, PlacesAre
  <2>. HIDE DEF m
  <2>. QED
    BY <2>2 DEF HasPlaces
<1>. HIDE DEF m, s, t
<1>4. Reverse(s) \in Seq(Int) /\ Len(Reverse(s)) = m
  BY <1>2, ReverseIs
<1>5. ASSUME NEW i \in 1 .. Len(Reverse(s)) PROVE Reverse(s)[i] = t[i]
  <2>1. i \in 1 .. m /\ (m - i) + 1 \in 1 .. m /\ ((m - i) + 1) - 1 = m - i
    BY <1>1, <1>4
  <2>2. Reverse(s)[i] = s[(m - i) + 1]
    BY <1>2, <2>1, ReverseIs
  <2>3. s[(m - i) + 1] = Digit(n, base, 1, ((m - i) + 1) - 1)
    BY <1>2, <2>1
  <2>4. t[i] = Digit(n, base, 1, m - i)
    BY <1>3, <2>1
  <2>. QED
    BY <2>1, <2>2, <2>3, <2>4
<1>6. Reverse(s) = t
  BY <1>3, <1>4, <1>5, SeqEqual
<1>. QED
  BY <1>6 DEF s, t

ZeroText(k) == [i \in 1 .. k |-> DIGIT0]

(* A width puts zeros in front.                                            *)
LEMMA PlacesPadded ==
  ASSUME NEW n \in Nat, NEW base \in Nat \ {0, 1}, NEW width \in Nat, width >= PlaceCount(n, base)
  PROVE  Places(n, base, width) = ZeroText(width - PlaceCount(n, base)) \o Places(n, base, 1)
<1>. DEFINE m == PlaceCount(n, base)
            s == Places(n, base, width)
            t == Places(n, base, 1)
            z == ZeroText(width - m)
<1>1. m \in Nat \ {0} /\ Power(base, m) > n
  BY PlaceCountIs DEF IsCount
<1>2. s \in Seq(Int) /\ Len(s) = width /\ \A i \in 1 .. width : s[i] = Digit(n, base, 1, width - i)
  <2>1. width = IF width > PlaceCount(n, base) THEN width ELSE PlaceCount(n, base)
    BY <1>1
  <2>2. HasPlaces(n, base, width, width)
    BY <2>1, PlacesAre
  <2>. QED
    BY <2>2 DEF HasPlaces
<1>3. t \in Seq(Int) /\ Len(t) = m /\ \A i \in 1 .. m : t[i] = Digit(n, base, 1, m - i)
  <2>1. m = IF 1 > PlaceCount(n, base) THEN 1 ELSE PlaceCount(n, base)
    BY <1>1
  <2>2. HasPlaces(n, base, 1, m)
    BY <2>1, PlacesAre
  <2>. HIDE DEF m
  <2>. QED
    BY <2>2 DEF HasPlaces
<1>4. width - m \in Nat
  BY <1>1
<1>. HIDE DEF m, s, t
<1>5. z \in Seq(Int) /\ Len(z) = width - m /\ \A i \in 1 .. width - m : z[i] = DIGIT0
  BY <1>4 DEF ZeroText, DIGIT0
<1>. HIDE DEF z
<1>6. ASSUME NEW i \in 1 .. width - m PROVE s[i] = DIGIT0
  <2>1. width - i \in Nat /\ m <= width - i /\ i \in 1 .. width
    BY <1>1, <1>4
  <2>2. Power(base, m) <= Power(base, width - i) /\ Power(base, width - i) \in Nat \ {0}
    BY <1>1, <2>1, PowersGrow, PowerAbove
  <2>3. Power(base, m) \in Nat
    BY <1>1, PowerStep
  <2>4. n < Power(base, width - i)
    BY <1>1, <2>2, <2>3
  <2>5. n \div Power(base, width - i) = 0
    BY <2>2, <2>4
  <2>6. 1 * (0 % base) = 0
    OBVIOUS
  <2>7. DigitChar(0) = DIGIT0
    BY DEF DigitChar, DIGIT0
  <2>. QED
    BY <1>2, <2>1, <2>5, <2>6, <2>7 DEF Digit
<1>7. /\ (z \o t) \in Seq(Int) /\ Len(z \o t) = width
      /\ \A i \in 1 .. width : (z \o t)[i] = IF i <= width - m THEN z[i] ELSE t[i - (width - m)]
  <2>1. (width - m) + m = width
    BY <1>1
  <2>2. /\ z \o t \in Seq(Int)
        /\ Len(z \o t) = Len(z) + Len(t)
        /\ \A i \in 1 .. Len(z) + Len(t) :
             (z \o t)[i] = IF i <= Len(z) THEN z[i] ELSE t[i - Len(z)]
    BY <1>3, <1>5, ConcatProperties
  <2>3. Len(z) = width - m /\ Len(z) + Len(t) = width
    BY <1>3, <1>5, <2>1
  <2>. QED
    BY <2>2, <2>3
<1>8. ASSUME NEW i \in 1 .. Len(s) PROVE s[i] = (z \o t)[i]
  <2>1. CASE i <= width - m
    BY <1>2, <1>4, <1>5, <1>6, <1>7, <2>1
  <2>2. CASE ~(i <= width - m)
    <3>1. i - (width - m) \in 1 .. m /\ m - (i - (width - m)) = width - i /\ i \in 1 .. width
      BY <1>1, <1>2, <1>4, <2>2
    <3>2. (z \o t)[i] = t[i - (width - m)]
      BY <1>7, <2>2, <3>1
    <3>. QED
      BY <1>2, <1>3, <3>1, <3>2
  <2>. QED
    BY <1>2, <1>4, <2>1, <2>2
<1>9. s = z \o t
  BY <1>2, <1>7, <1>8, SeqEqual
<1>. QED
  BY <1>9 DEF s, z, t, m


-----------------------------------------------------------------------------
(* A number of two halves, the low one with all its digits.                *)
FullHalf(base, h, lo) ==
  /\ lo \in Nat
  /\ Power(base, h - 1) <= lo
  /\ lo < Power(base, h)

(* A full half has the digits of a half.                                   *)
LEMMA CountOfFull ==
  ASSUME NEW base \in Nat \ {0, 1}, NEW h \in Nat \ {0}, NEW lo, FullHalf(base, h, lo)
  PROVE  PlaceCount(lo, base) = h
<1>1. h - 1 \in Nat
  OBVIOUS
<1>2. Power(base, h - 1) \in Nat \ {0} /\ Power(base, h - 1) > h - 1
  BY <1>1, PowerAbove
<1>3. lo \in Nat /\ h \in 1 .. (lo + 1)
  BY <1>1, <1>2 DEF FullHalf
<1>4. Power(base, h) \in Nat
  BY PowerStep
<1>5. Power(base, h) > lo /\ Power(base, h - 1) <= lo
  BY <1>3, <1>4 DEF FullHalf
<1>6. IsCount(lo, base, h)
  BY <1>3, <1>5 DEF IsCount
<1>. QED
  BY <1>3, <1>6, PlaceCountIs, CountUnique

(* The number has those more than its high half.                           *)
LEMMA CountOfHalves ==
  ASSUME NEW base \in Nat \ {0, 1}, NEW h \in Nat \ {0}, NEW hi \in Nat \ {0}, NEW lo \in Nat,
         lo < Power(base, h)
  PROVE  PlaceCount(Power(base, h) * hi + lo, base) = PlaceCount(hi, base) + h
<1>. DEFINE P == Power(base, h)
            c == PlaceCount(hi, base)
            n == P * hi + lo
            q == Power(base, c)
            r == Power(base, c - 1)
<1>1. P \in Nat \ {0}
  BY PowerAbove
<1>2. c \in Nat \ {0} /\ IsCount(hi, base, c)
  BY PlaceCountIs
<1>3. c - 1 \in Nat
  BY <1>2
<1>4. q \in Nat \ {0} /\ r \in Nat \ {0}
  BY <1>2, <1>3, PowerAbove
<1>5. q > hi /\ r <= hi
  <2>1. Power(base, 0) = 1
    BY PowerStep
  <2>2. c = 1 \/ r <= hi
    BY <1>2 DEF IsCount
  <2>3. c = 1 => r = 1
    BY <2>1
  <2>. QED
    BY <1>2, <2>2, <2>3 DEF IsCount
<1>6. Power(base, h + c) = P * q /\ Power(base, h + (c - 1)) = P * r
  BY <1>2, <1>3, PowerOfSum
<1>7. c + h = h + c /\ (c + h) - 1 = h + (c - 1) /\ c + h # 1
  BY <1>2
<1>8. lo < P
  OBVIOUS
<1>. HIDE DEF P, q, r, c
<1>9. n \in Nat
  BY <1>1
<1>10. P * q > n
  <2>1. P * (hi + 1) <= P * q
    BY <1>1, <1>4, <1>5
  <2>2. P * (hi + 1) = P * hi + P
    BY <1>1
  <2>3. P * q \in Nat /\ P * hi \in Nat
    BY <1>1, <1>4
  <2>. QED
    BY <1>1, <1>8, <2>1, <2>2, <2>3
<1>11. P * r <= n
  <2>1. P * r <= P * hi
    BY <1>1, <1>4, <1>5
  <2>2. P * r \in Nat /\ P * hi \in Nat
    BY <1>1, <1>4
  <2>. QED
    BY <2>1, <2>2
<1>12. c + h <= n
  <2>1. Power(base, h + (c - 1)) > h + (c - 1)
    BY <1>2, <1>3, PowerAbove
  <2>2. P * r \in Nat
    BY <1>1, <1>4
  <2>. QED
    BY <1>2, <1>6, <1>9, <1>11, <2>1, <2>2
<1>. HIDE DEF n
<1>13. c + h \in 1 .. (n + 1)
  BY <1>2, <1>9, <1>12
<1>14. IsCount(n, base, c + h)
  <2>1. Power(base, c + h) > n
    BY <1>6, <1>7, <1>10
  <2>2. Power(base, (c + h) - 1) <= n
    BY <1>6, <1>7, <1>11
  <2>. QED
    BY <1>13, <2>1, <2>2 DEF IsCount
<1>15. PlaceCount(n, base) = c + h
  BY <1>9, <1>14, PlaceCountIs, CountUnique
<1>. QED
  BY <1>15 DEF n, P, c

(* Its high digits are those of the high half.                             *)
LEMMA DigitOfHigh ==
  ASSUME NEW base \in Nat \ {0, 1}, NEW h \in Nat, NEW hi \in Nat, NEW lo \in Nat,
         lo < Power(base, h), NEW i \in Nat
  PROVE  Digit(Power(base, h) * hi + lo, base, 1, h + i) = Digit(hi, base, 1, i)
<1>. DEFINE P == Power(base, h)
            Q == Power(base, i)
            n == P * hi + lo
<1>1. P \in Nat \ {0} /\ Q \in Nat \ {0}
  BY PowerAbove
<1>2. Power(base, h + i) = P * Q
  BY PowerOfSum
<1>3. lo < P
  OBVIOUS
<1>. HIDE DEF P, Q
<1>4. n \in Nat /\ n \div P = hi
  <2>1. (P * hi + lo) \div P = hi
    BY <1>1, <1>3, Quotient, SMTT(30)
  <2>2. P * hi \in Nat
    BY <1>1
  <2>. QED
    BY <2>1, <2>2
<1>. HIDE DEF n
<1>5. n \div (P * Q) = hi \div Q
  BY <1>1, <1>4, DividedTwice
<1>. QED
  BY <1>2, <1>5 DEF Digit, P, Q, n

(* Its low digits are those of the low half.                               *)
LEMMA DigitOfLow ==
  ASSUME NEW base \in Nat \ {0, 1}, NEW h \in Nat, NEW hi \in Nat, NEW lo \in Nat,
         NEW i \in Nat, i < h
  PROVE  Digit(Power(base, h) * hi + lo, base, 1, i) = Digit(lo, base, 1, i)
<1>. DEFINE P == Power(base, h)
            Q == Power(base, i)
            e == (h - i) - 1
            R == Power(base, e)
            n == P * hi + lo
            s == lo \div Q
            u == lo % Q
            w == R * hi
            d == s \div base
            t == s % base
<1>1. e \in Nat /\ (e + 1) + i = h /\ e + 1 \in Nat
  OBVIOUS
<1>2. P = (base * R) * Q
  <2>1. Power(base, (e + 1) + i) = Power(base, e + 1) * Q
    BY <1>1, PowerOfSum
  <2>2. Power(base, e + 1) = base * R
    BY <1>1, PowerStep
  <2>. QED
    BY <1>1, <2>1, <2>2
<1>3. Q \in Nat \ {0} /\ R \in Nat \ {0}
  BY <1>1, PowerAbove
<1>. HIDE DEF P, Q, R, e
<1>4. lo = Q * s + u /\ s \in Nat /\ u \in Nat /\ u < Q
  BY <1>3, DivMod
<1>. HIDE DEF s, u
<1>5. s = base * d + t /\ d \in Nat /\ t \in Nat /\ t < base
  <2>1. base \in Nat \ {0} /\ s \in Nat
    BY <1>4
  <2>2. s = base * (s \div base) + (s % base) /\ s \div base \in Nat /\ s % base \in 0 .. base - 1
    BY <2>1, DivMod
  <2>. QED
    BY <2>2
<1>. HIDE DEF d, t
<1>6. w \in Nat
  BY <1>3
<1>7. ((base * R) * Q) * hi = Q * (base * w)
  BY <1>3
<1>. HIDE DEF w
<1>8. base * w \in Nat /\ base * d \in Nat
  BY <1>5, <1>6
<1>9. n = Q * (base * w + s) + u
  <2>. DEFINE v == base * w
  <2>1. Q * v + Q * s = Q * (v + s)
    BY <1>3, <1>4, <1>8
  <2>2. n = Q * v + lo
    BY <1>2, <1>7
  <2>3. Q * v \in Nat /\ Q * s \in Nat
    BY <1>3, <1>4, <1>8
  <2>. HIDE DEF v, n
  <2>4. n = Q * (v + s) + u
    BY <1>4, <2>1, <2>2, <2>3
  <2>. QED
    BY <2>4 DEF v
<1>. HIDE DEF n
<1>10. n \div Q = base * w + s
  <2>1. base * w + s \in Int
    BY <1>4, <1>8
  <2>. QED
    BY <1>3, <1>4, <1>9, <2>1, Quotient
<1>11. base * w + s = base * (w + d) + t
  <2>1. base * (w + d) = base * w + base * d
    BY <1>5, <1>6
  <2>. QED
    BY <1>5, <1>8, <2>1
<1>12. (base * w + s) % base = t
  <2>1. w + d \in Int
    BY <1>5, <1>6
  <2>2. (base * (w + d) + t) % base = t
    BY <1>5, <2>1, Quotient
  <2>. QED
    BY <1>11, <2>2
<1>13. (n \div Q) % base = (lo \div Q) % base
  BY <1>10, <1>12 DEF s, t
<1>. QED
  BY <1>13 DEF Digit, n, P, Q

(* So the halves can be written one behind the other.                      *)
LEMMA HalvesJoin ==
  ASSUME NEW base \in Nat \ {0, 1}, NEW h \in Nat \ {0}, NEW hi \in Nat \ {0}, NEW lo,
         FullHalf(base, h, lo)
  PROVE  Places(Power(base, h) * hi + lo, base, 1) = Places(hi, base, 1) \o Places(lo, base, 1)
<1>. DEFINE P == Power(base, h)
            c == PlaceCount(hi, base)
            n == P * hi + lo
            s == Places(n, base, 1)
            t == Places(hi, base, 1)
            u == Places(lo, base, 1)
<1>0. lo \in Nat /\ lo < P /\ P \in Nat \ {0}
  BY PowerAbove DEF FullHalf
<1>1. c \in Nat \ {0}
  BY PlaceCountIs
<1>2. PlaceCount(n, base) = c + h /\ PlaceCount(lo, base) = h
  BY <1>0, CountOfHalves, CountOfFull
<1>3. n \in Nat
  BY <1>0
<1>4. ASSUME NEW i \in Nat PROVE Digit(n, base, 1, h + i) = Digit(hi, base, 1, i)
  BY <1>0, <1>4, DigitOfHigh
<1>5. ASSUME NEW i \in Nat, i < h PROVE Digit(n, base, 1, i) = Digit(lo, base, 1, i)
  BY <1>0, <1>5, DigitOfLow
<1>. HIDE DEF P, n
<1>6. HasPlaces(n, base, 1, c + h)
  <2>1. c + h = IF 1 > PlaceCount(n, base) THEN 1 ELSE PlaceCount(n, base)
    BY <1>1, <1>2
  <2>. HIDE DEF c
  <2>. QED
    BY <1>3, <2>1, PlacesAre
<1>7. HasPlaces(hi, base, 1, c)
  <2>1. c = IF 1 > PlaceCount(hi, base) THEN 1 ELSE PlaceCount(hi, base)
    BY <1>1
  <2>. HIDE DEF c
  <2>. QED
    BY <2>1, PlacesAre
<1>8. HasPlaces(lo, base, 1, h)
  <2>1. h = IF 1 > PlaceCount(lo, base) THEN 1 ELSE PlaceCount(lo, base)
    BY <1>2
  <2>. QED
    BY <1>0, <2>1, PlacesAre
<1>9. /\ s \in Seq(Int) /\ Len(s) = c + h
      /\ \A i \in 1 .. c + h : s[i] = Digit(n, base, 1, (c + h) - i)
  BY <1>6 DEF HasPlaces
<1>10. t \in Seq(Int) /\ Len(t) = c /\ \A i \in 1 .. c : t[i] = Digit(hi, base, 1, c - i)
  BY <1>7 DEF HasPlaces
<1>11. u \in Seq(Int) /\ Len(u) = h /\ \A i \in 1 .. h : u[i] = Digit(lo, base, 1, h - i)
  BY <1>8 DEF HasPlaces
<1>. HIDE DEF s, t, u, c
<1>12. /\ t \o u \in Seq(Int) /\ Len(t \o u) = c + h
       /\ \A i \in 1 .. c + h : (t \o u)[i] = IF i <= c THEN t[i] ELSE u[i - c]
  <2>1. /\ t \o u \in Seq(Int)
        /\ Len(t \o u) = Len(t) + Len(u)
        /\ \A i \in 1 .. Len(t) + Len(u) :
             (t \o u)[i] = IF i <= Len(t) THEN t[i] ELSE u[i - Len(t)]
    BY <1>10, <1>11, ConcatProperties
  <2>. QED
    BY <1>10, <1>11, <2>1
<1>13. ASSUME NEW i \in 1 .. Len(s) PROVE s[i] = (t \o u)[i]
  <2>0. i \in 1 .. c + h /\ s[i] = Digit(n, base, 1, (c + h) - i)
    BY <1>9
  <2>1. CASE i <= c
    <3>1. c - i \in Nat /\ (c + h) - i = h + (c - i) /\ i \in 1 .. c
      BY <1>1, <2>0, <2>1
    <3>2. Digit(n, base, 1, h + (c - i)) = Digit(hi, base, 1, c - i)
      BY <1>4, <3>1
    <3>. QED
      BY <1>10, <1>12, <2>0, <2>1, <3>1, <3>2
  <2>2. CASE ~(i <= c)
    <3>1. /\ i - c \in 1 .. h /\ h - (i - c) \in Nat /\ h - (i - c) < h
          /\ (c + h) - i = h - (i - c)
      BY <1>1, <2>0, <2>2
    <3>2. Digit(n, base, 1, h - (i - c)) = Digit(lo, base, 1, h - (i - c))
      BY <1>5, <3>1
    <3>. QED
      BY <1>11, <1>12, <2>0, <2>2, <3>1, <3>2
  <2>. QED
    BY <2>1, <2>2
<1>14. s = t \o u
  BY <1>9, <1>12, <1>13, SeqEqual
<1>. QED
  BY <1>14 DEF s, t, u, n, P


-----------------------------------------------------------------------------
(* The value of a width.                                                   *)
IsValues(chars, f) ==
  f = [k \in 0 .. Len(chars) |-> IF k = 0 THEN 0 ELSE 10 * f[k-1] + (chars[k] - DIGIT0)]

(* Numerals have a value.                                                  *)
LEMMA ValuesExist ==
  ASSUME NEW chars \in Seq(Numerals)
  PROVE  \E f \in [0 .. Len(chars) -> Nat] : IsValues(chars, f)
<1>. DEFINE n == Len(chars)
            turn == [j \in 1 .. n |-> [x \in Nat |-> 10 * x + (chars[j] - DIGIT0)]]
<1>1. n \in Nat /\ \A j \in 1 .. n : chars[j] - DIGIT0 \in Nat
  <2>1. \A j \in 1 .. n : chars[j] \in Numerals
    BY ElementOfSeq
  <2>. QED
    BY <2>1 DEF Numerals, DIGIT0
<1>. HIDE DEF n
<1>2. turn \in [1 .. n -> [Nat -> Nat]]
  BY <1>1
<1>3. PICK f : Runs(n, Nat, turn, 0, f)
  <2>. HIDE DEF turn
  <2>. QED
    BY <1>1, <1>2, LoopRuns
<1>4. f \in [0 .. n -> Nat] /\ f[0] = 0
  BY <1>3 DEF Runs
<1>5. ASSUME NEW k \in 0 .. n
      PROVE  f[k] = IF k = 0 THEN 0 ELSE 10 * f[k-1] + (chars[k] - DIGIT0)
  <2>1. CASE k = 0
    BY <1>4, <2>1
  <2>2. CASE k # 0
    <3>1. k \in 1 .. n /\ k - 1 \in 0 .. n
      BY <1>1, <2>2
    <3>2. f[k] = turn[k][f[k-1]]
      BY <1>3, <3>1 DEF Runs
    <3>3. f[k-1] \in Nat
      BY <1>4, <3>1
    <3>. QED
      BY <2>2, <3>1, <3>2, <3>3
  <2>. QED
    BY <2>1, <2>2
<1>6. IsValues(chars, f)
  BY <1>4, <1>5 DEF IsValues, n
<1>. QED
  BY <1>4, <1>6 DEF n

(* So atoi makes a natural of them.                                        *)
LEMMA DigitsAreNatural ==
  ASSUME NEW chars \in Seq(Numerals)
  PROVE  Digits(chars) \in Nat /\ atoi(chars) = Digits(chars)
<1>. DEFINE F == CHOOSE f : IsValues(chars, f)
<1>1. PICK g \in [0 .. Len(chars) -> Nat] : IsValues(chars, g)
  BY ValuesExist
<1>2. IsValues(chars, F)
  BY <1>1
<1>3. Digits(chars) = F[Len(chars)]
  BY DEF Digits, IsValues
<1>. HIDE DEF F
<1>. DEFINE good == [j \in 0 .. Len(chars) |-> Nat]
<1>4. Len(chars) \in Nat
  OBVIOUS
<1>5. F[0] \in good[0]
  BY <1>2, <1>4 DEF IsValues
<1>6. ASSUME NEW j \in 1 .. Len(chars), F[j-1] \in good[j-1] PROVE F[j] \in good[j]
  <2>1. j - 1 \in 0 .. Len(chars) /\ j \in 0 .. Len(chars) /\ j # 0
    BY <1>4
  <2>2. chars[j] - DIGIT0 \in Nat
    <3>1. chars[j] \in Numerals
      BY ElementOfSeq
    <3>. QED
      BY <3>1 DEF Numerals, DIGIT0
  <2>3. F[j-1] \in Nat
    BY <1>6, <2>1
  <2>4. F[j] = 10 * F[j-1] + (chars[j] - DIGIT0)
    BY <1>2, <2>1 DEF IsValues
  <2>5. F[j] \in Nat
    BY <2>2, <2>3, <2>4
  <2>. QED
    BY <2>1, <2>5
<1>7. F[Len(chars)] \in good[Len(chars)]
  <2>. HIDE DEF good
  <2>. QED
    BY <1>4, <1>5, <1>6, LoopKeeps
<1>8. Digits(chars) \in Nat
  BY <1>3, <1>4, <1>7
<1>9. ASSUME chars # <<>> PROVE Head(chars) # MINUS
  <2>1. Head(chars) \in Numerals
    BY <1>9
  <2>. QED
    BY <2>1 DEF Numerals, DIGIT0, MINUS
<1>10. atoi(chars) = Digits(chars)
  BY <1>9 DEF atoi
<1>. QED
  BY <1>8, <1>10

-----------------------------------------------------------------------------
(* itoa.                                                                   *)

(* Half a word.                                                            *)
LEMMA HalfIs ==
  /\ HALF \in Nat \ {0, 1}
  /\ \E h \in Nat \ {0} : h < HALF_SIZE /\ HALF = Power(16, h)
<1>1. PICK h \in 1 .. (HALF_SIZE - 1) : HALF = Power(16, h)
  BY HalfAssumption
<1>2. h \in Nat \ {0} /\ h < HALF_SIZE
  BY <1>1, HalfAssumption
<1>3. Power(16, h) \in Nat \ {0} /\ Power(16, h) > h
  BY <1>2, PowerAbove
<1>. QED
  BY <1>1, <1>2, <1>3

(* A value in its word, and the word in its halves.                        *)
LEMMA WordIs ==
  ASSUME NEW value \in Words
  PROVE  /\ value \in Int /\ Word(value) \in Nat
         /\ value >= 0 => Word(value) = value
         /\ value < 0 =>
              /\ High(value) \in Nat \ {0} /\ High(value) < HALF
              /\ value % HALF \in 0 .. HALF - 1
              /\ Word(value) = HALF * High(value) + (value % HALF)
<1>. DEFINE W == HALF * HALF
            E == HALF \div 2
            X == HALF * E
            w == Word(value)
            hi == w \div HALF
            lo == w % HALF
<1>1. HALF \in Nat \ {0, 1}
  BY HalfIs
<1>2. E \in Nat /\ E + 1 <= HALF
  BY <1>1
<1>. HIDE DEF E
<1>3. W \in Nat \ {0} /\ X \in Nat /\ X + HALF <= W
  <2>1. HALF * (E + 1) <= HALF * HALF
    BY <1>1, <1>2
  <2>2. HALF * (E + 1) = HALF * E + HALF
    BY <1>1, <1>2
  <2>. QED
    BY <1>1, <1>2, <2>1, <2>2
<1>4. value \in -X .. X - 1
  BY DEF Words, E
<1>5. w = value % W
  BY DEF Word
<1>. HIDE DEF X, w
<1>6. value \in Int
  BY <1>3, <1>4
<1>7. w \in Nat /\ w < W
  <2>. HIDE DEF W
  <2>. QED
    BY <1>3, <1>5, <1>6, Division
<1>8. value >= 0 => w = value
  <2>1. ASSUME value >= 0 PROVE w = value
    <3>1. value \in Nat /\ value < W
      BY <1>1, <1>3, <1>4, <1>6, <2>1
    <3>2. W * 0 + value = value
      BY <1>3, <3>1
    <3>. HIDE DEF W
    <3>3. (W * 0 + value) % W = value
      BY <1>3, <3>1, Quotient, SMTT(40)
    <3>. QED
      BY <1>5, <3>2, <3>3
  <2>. QED
    BY <2>1
<1>9. ASSUME value < 0 PROVE w = value + W
  <2>1. value + W \in Nat /\ value + W < W /\ value = W * (-1) + (value + W)
    BY <1>1, <1>3, <1>4, <1>6, <1>9
  <2>. HIDE DEF W
  <2>2. \A q \in Int, r \in Nat : r < W => (W * q + r) % W = r
    BY <1>3, Quotient
  <2>3. -1 \in Int
    OBVIOUS
  <2>4. (W * (-1) + (value + W)) % W = value + W
    BY <2>1, <2>2, <2>3
  <2>. QED
    BY <1>5, <2>1, <2>4
<1>10. hi \in Nat /\ lo \in Nat /\ lo < HALF /\ w = HALF * hi + lo
  BY <1>1, <1>7, DivMod
<1>. HIDE DEF hi, lo
<1>11. ASSUME value < 0 PROVE hi # 0 /\ hi < HALF /\ value % HALF = lo
  <2>1. w >= HALF
    BY <1>1, <1>3, <1>4, <1>6, <1>9, <1>11
  <2>2. hi # 0
    BY <1>1, <1>10, <2>1
  <2>3. hi < HALF
    <3>1. SUFFICES ASSUME hi >= HALF PROVE FALSE
      BY <1>1, <1>10
    <3>2. HALF * hi >= HALF * HALF
      BY <1>1, <1>10, <3>1
    <3>3. HALF * hi \in Nat
      BY <1>1, <1>10
    <3>. QED
      BY <1>3, <1>7, <1>10, <3>2, <3>3
  <2>4. value = HALF * (hi - HALF) + lo
    <3>1. HALF * (hi - HALF) = HALF * hi - HALF * HALF
      BY <1>1, <1>10
    <3>2. HALF * hi \in Nat
      BY <1>1, <1>10
    <3>. QED
      BY <1>3, <1>6, <1>9, <1>10, <1>11, <3>1, <3>2
  <2>5. hi - HALF \in Int /\ HALF \in Nat \ {0}
    BY <1>1, <1>10
  <2>6. (HALF * (hi - HALF) + lo) % HALF = lo
    BY <1>10, <2>5, Quotient
  <2>. QED
    BY <2>2, <2>3, <2>4, <2>6
<1>. HIDE DEF W
<1>12. High(value) = hi
  BY DEF High, hi, w
<1>13. ASSUME value < 0
       PROVE  /\ High(value) \in Nat \ {0} /\ High(value) < HALF
              /\ value % HALF \in 0 .. HALF - 1
              /\ w = HALF * High(value) + (value % HALF)
  <2>1. value % HALF = lo /\ hi # 0 /\ hi < HALF
    BY <1>11, <1>13
  <2>2. lo \in 0 .. HALF - 1
    BY <1>1, <1>10
  <2>. QED
    BY <1>10, <1>12, <2>1, <2>2
<1>. QED
  BY <1>6, <1>7, <1>8, <1>13 DEF w


(* A number below a power has no more digits than its exponent.            *)
LEMMA CountBelow ==
  ASSUME NEW base \in Nat \ {0, 1}, NEW n \in Nat, NEW h \in Nat \ {0}, n < Power(base, h)
  PROVE  PlaceCount(n, base) <= h
<1>. DEFINE c == PlaceCount(n, base)
<1>1. c \in Nat \ {0} /\ IsCount(n, base, c)
  BY PlaceCountIs
<1>. HIDE DEF c
<1>2. SUFFICES ASSUME c > h PROVE FALSE
  BY <1>1 DEF c
<1>3. c - 1 \in Nat /\ h <= c - 1 /\ c # 1
  BY <1>1, <1>2
<1>4. Power(base, h) <= Power(base, c - 1)
  BY <1>3, PowersGrow
<1>5. Power(base, h) \in Nat /\ Power(base, c - 1) \in Nat
  BY <1>3, PowerStep
<1>6. Power(base, c - 1) <= n
  BY <1>1, <1>3 DEF IsCount
<1>. QED
  BY <1>4, <1>5, <1>6

(* What itoa makes of a natural number is the reference.                   *)
LEMMA LoopIsPlaces ==
  ASSUME NEW n \in Nat, NEW base \in Bases
  PROVE  /\ strrev(LowestFirst(n, base, 1)) = Places(n, base, 1)
         /\ Places(n, base, 1) \in Text
         /\ Len(Places(n, base, 1)) = PlaceCount(n, base)
         /\ PlaceCount(n, base) \in Nat \ {0}
<1>. DEFINE s == Lowest(n, base, 1)
<1>1. base \in Nat \ {0, 1} /\ 1 \in Signs
  BY DEF Bases, Signs
<1>2. s \in Text /\ LowestFirst(n, base, 1) = s /\ Len(s) = PlaceCount(n, base)
  BY <1>1, LowestIsText
<1>3. Reverse(s) = Places(n, base, 1)
  BY <1>1, ReversedIsPlaces
<1>4. PlaceCount(n, base) \in Nat \ {0}
  BY <1>1, PlaceCountIs
<1>. HIDE DEF s
<1>5. Reverse(s) \in Text /\ Len(Reverse(s)) = Len(s)
  BY <1>2, ReverseIs DEF Text
<1>. QED
  BY <1>2, <1>3, <1>4, <1>5 DEF strrev

(* A number that is not negative comes out as its digits.                  *)
LEMMA ItoaNatural ==
  ASSUME NEW value \in Nat, NEW base \in Bases
  PROVE  itoa(value, base, HALF) = Places(value, base, 1)
<1>1. value >= 0
  OBVIOUS
<1>. QED
  BY <1>1, LoopIsPlaces DEF itoa

(* Of a negative one, in base 2 and 16, the two halves.                    *)
LEMMA ItoaHalves ==
  ASSUME NEW value \in Words, value < 0, NEW base \in Bases, base # 10
  PROVE  itoa(value, base, HALF) = Places(High(value), base, 1) \o Places(value % HALF, base, 1)
<1>1. High(value) \in Nat /\ value % HALF \in Nat /\ value \in Int
  BY WordIs
<1>2. ~(value >= 0)
  BY <1>1
<1>3. /\ strrev(LowestFirst(High(value), base, 1)) = Places(High(value), base, 1)
      /\ strrev(LowestFirst(value % HALF, base, 1)) = Places(value % HALF, base, 1)
  BY <1>1, LoopIsPlaces
<1>4. High(value) = (value % (HALF * HALF)) \div HALF
  BY DEF High, Word
<1>5. itoa(value, base, HALF)
        = strrev(LowestFirst((value % (HALF * HALF)) \div HALF, base, 1))
            \o strrev(LowestFirst(value % HALF, base, 1))
  BY <1>2, Zenon DEF itoa
<1>. QED
  BY <1>3, <1>4, <1>5, Zenon

(* A text joined to another.                                               *)
LEMMA TextJoined ==
  ASSUME NEW s \in Text, NEW t \in Text
  PROVE  s \o t \in Text /\ Len(s \o t) = Len(s) + Len(t) /\ Len(s) \in Nat /\ Len(t) \in Nat
BY ConcatProperties DEF Text

(* Whatever itoa makes, it is text, and not empty.                         *)
LEMMA ItoaIsText ==
  ASSUME NEW value \in Words, NEW base \in Bases
  PROVE  itoa(value, base, HALF) \in Text /\ Len(itoa(value, base, HALF)) \in Nat \ {0}
<1>1. value \in Int
  BY WordIs
<1>2. CASE value >= 0
  BY <1>1, <1>2, ItoaNatural, LoopIsPlaces
<1>3. CASE value < 0 /\ base # 10
  <2>. DEFINE s == Places(High(value), base, 1)
              t == Places(value % HALF, base, 1)
  <2>1. High(value) \in Nat /\ value % HALF \in Nat
    BY <1>3, WordIs
  <2>2. s \in Text /\ t \in Text /\ Len(s) \in Nat \ {0}
    BY <2>1, LoopIsPlaces
  <2>3. itoa(value, base, HALF) = s \o t
    BY <1>3, ItoaHalves
  <2>. HIDE DEF s, t
  <2>4. s \o t \in Text /\ Len(s \o t) = Len(s) + Len(t) /\ Len(t) \in Nat
    BY <2>2, TextJoined
  <2>. QED
    BY <2>2, <2>3, <2>4
<1>4. CASE value < 0 /\ base = 10
  <2>. DEFINE s == Lowest(-value, base, -1)
              t == <<MINUS>> \o s
  <2>1. -value \in Nat /\ -1 \in Signs
    BY <1>1, <1>4 DEF Signs
  <2>2. s \in Text /\ LowestFirst(-value, base, -1) = s
    BY <1>4, <2>1, LowestIsText
  <2>3. ~(value >= 0)
    BY <1>1, <1>4
  <2>4. itoa(value, base, HALF) = Reverse(<<MINUS>> \o LowestFirst(-value, base, -1))
    BY <1>4, <2>3 DEF itoa, strrev
  <2>5. <<MINUS>> \in Text /\ Len(<<MINUS>>) = 1
    BY DEF Text, MINUS, NUL
  <2>. HIDE DEF s
  <2>6. t \in Text /\ Len(t) \in Nat \ {0}
    <3>. DEFINE u == <<MINUS>>
    <3>1. u \in Text /\ Len(u) = 1
      BY <2>5
    <3>. HIDE DEF u
    <3>2. u \o s \in Text /\ Len(u \o s) = Len(u) + Len(s) /\ Len(s) \in Nat
      BY <2>2, <3>1, TextJoined
    <3>3. Len(u) + Len(s) \in Nat \ {0}
      BY <3>1, <3>2
    <3>. QED
      BY <3>2, <3>3 DEF u
  <2>. HIDE DEF t
  <2>7. Reverse(t) \in Text /\ Len(Reverse(t)) = Len(t)
    BY <2>6, ReverseIs DEF Text
  <2>. QED
    BY <2>2, <2>4, <2>6, <2>7 DEF t
<1>. QED
  BY <1>1, <1>2, <1>3, <1>4

(* It is as long as the room that is counted for it.                       *)
LEMMA ItoaLength ==
  ASSUME NEW value \in Words, NEW base \in Bases
  PROVE  Len(itoa(value, base, HALF)) = NumberLength(value, base)
<1>1. value \in Int
  BY WordIs
<1>2. CASE value >= 0
  <2>1. value \in Nat
    BY <1>1, <1>2
  <2>2. Len(itoa(value, base, HALF)) = PlaceCount(value, base)
    BY <2>1, ItoaNatural, LoopIsPlaces
  <2>. QED
    BY <1>2, <2>2 DEF NumberLength
<1>3. CASE value < 0 /\ base # 10
  <2>. DEFINE s == Places(High(value), base, 1)
              t == Places(value % HALF, base, 1)
  <2>1. High(value) \in Nat /\ value % HALF \in Nat
    BY <1>3, WordIs
  <2>2. /\ s \in Text /\ Len(s) = PlaceCount(High(value), base)
        /\ t \in Text /\ Len(t) = PlaceCount(value % HALF, base)
    BY <2>1, LoopIsPlaces
  <2>3. itoa(value, base, HALF) = s \o t
    BY <1>3, ItoaHalves
  <2>4. ~(value >= 0)
    BY <1>1, <1>3
  <2>5. NumberLength(value, base) = PlaceCount(High(value), base) + PlaceCount(value % HALF, base)
    BY <1>3, <2>4, Zenon DEF NumberLength
  <2>. HIDE DEF s, t
  <2>6. Len(s \o t) = Len(s) + Len(t)
    BY <2>2, TextJoined
  <2>. QED
    BY <2>2, <2>3, <2>5, <2>6, Zenon
<1>4. CASE value < 0 /\ base = 10
  <2>. DEFINE s == Lowest(-value, base, -1)
              u == <<MINUS>>
              t == u \o s
  <2>1. -value \in Nat /\ -1 \in Signs
    BY <1>1, <1>4 DEF Signs
  <2>2. s \in Text /\ LowestFirst(-value, base, -1) = s /\ Len(s) = PlaceCount(-value, base)
    BY <1>4, <2>1, LowestIsText
  <2>3. ~(value >= 0)
    BY <1>1, <1>4
  <2>4. itoa(value, base, HALF) = Reverse(<<MINUS>> \o LowestFirst(-value, base, -1))
    BY <1>4, <2>3 DEF itoa, strrev
  <2>5. u \in Text /\ Len(u) = 1
    BY DEF Text, MINUS, NUL
  <2>6. NumberLength(value, base) = 1 + PlaceCount(-value, base)
    BY <1>4, <2>3, Zenon DEF NumberLength
  <2>7. itoa(value, base, HALF) = Reverse(t)
    BY <2>2, <2>4
  <2>. HIDE DEF s, u
  <2>8. t \in Text /\ Len(t) = Len(u) + Len(s)
    BY <2>2, <2>5, TextJoined
  <2>. HIDE DEF t
  <2>9. Len(Reverse(t)) = Len(t)
    BY <2>8, ReverseIs DEF Text
  <2>. QED
    BY <2>2, <2>5, <2>6, <2>7, <2>8, <2>9, Zenon
<1>. QED
  BY <1>1, <1>2, <1>3, <1>4

(* The halves are as long as they are counted.                             *)
LEMMA HalvesLength ==
  ASSUME NEW value \in Words, value < 0, NEW base \in Bases
  PROVE  (\E half \in Halves(value, base) : Len(half) + 1 > HALF_SIZE)
           <=> \E half \in {High(value), value % HALF} : PlaceCount(half, base) + 1 > HALF_SIZE
<1>1. High(value) \in Nat /\ value % HALF \in Nat
  BY WordIs
<1>2. /\ Len(itoa(High(value), base, HALF)) = PlaceCount(High(value), base)
      /\ Len(itoa(value % HALF, base, HALF)) = PlaceCount(value % HALF, base)
  BY <1>1, ItoaNatural, LoopIsPlaces
<1>3. Halves(value, base) = {itoa(High(value), base, HALF), itoa(value % HALF, base, HALF)}
  BY DEF Halves, High, Word
<1>. QED
  BY <1>2, <1>3, Zenon

(* A negative number in base 16, with a full low half, comes out as it     *)
(* ought to, and its halves fit the arrays.                                *)
LEMMA ItoaFull ==
  ASSUME NEW value \in Words, value < 0, value % HALF >= HALF \div 16
  PROVE  /\ itoa(value, 16, HALF) = Places(Word(value), 16, 1)
         /\ ~OutgrowsLocal(value, 16)
<1>1. PICK h \in Nat \ {0} : h < HALF_SIZE /\ HALF = Power(16, h)
  BY HalfIs
<1>. DEFINE hi == High(value)
            lo == value % HALF
<1>2. /\ hi \in Nat \ {0} /\ hi < HALF
      /\ lo \in 0 .. HALF - 1
      /\ Word(value) = HALF * hi + lo
      /\ lo >= HALF \div 16
      /\ HALF \in Nat
  BY WordIs, HalfIs
<1>3. 16 \in Bases /\ 16 # 10 /\ 16 \in Nat \ {0, 1}
  BY DEF Bases
<1>4. itoa(value, 16, HALF) = Places(hi, 16, 1) \o Places(lo, 16, 1)
  BY <1>3, ItoaHalves
<1>5. hi = (value % (HALF * HALF)) \div HALF
  BY DEF High, Word
<1>. HIDE DEF hi, lo
<1>6. HALF \div 16 = Power(16, h - 1)
  <2>1. h - 1 \in Nat /\ (h - 1) + 1 = h
    BY <1>1
  <2>2. Power(16, (h - 1) + 1) = 16 * Power(16, h - 1) /\ Power(16, h - 1) \in Nat
    BY <2>1, <1>3, PowerStep
  <2>3. \A p \in Nat : (16 * p) \div 16 = p
    OBVIOUS
  <2>. QED
    BY <1>1, <2>1, <2>2, <2>3
<1>7. FullHalf(16, h, lo)
  BY <1>1, <1>2, <1>6 DEF FullHalf
<1>8. Places(HALF * hi + lo, 16, 1) = Places(hi, 16, 1) \o Places(lo, 16, 1)
  BY <1>1, <1>2, <1>3, <1>7, HalvesJoin
<1>9. ASSUME NEW half \in Halves(value, 16) PROVE ~(Len(half) + 1 > HALF_SIZE)
  <2>1. PICK n \in {hi, lo} : half = itoa(n, 16, HALF)
    BY <1>5, <1>9 DEF Halves, lo
  <2>2. n \in Nat /\ n < Power(16, h)
    BY <1>1, <1>2, <2>1
  <2>3. half = Places(n, 16, 1)
    BY <1>3, <2>1, <2>2, ItoaNatural
  <2>4. Len(half) = PlaceCount(n, 16) /\ PlaceCount(n, 16) \in Nat
    BY <1>3, <2>2, <2>3, LoopIsPlaces
  <2>5. PlaceCount(n, 16) <= h
    BY <1>3, <2>2, CountBelow
  <2>. QED
    BY <1>1, <2>4, <2>5, HalfAssumption
<1>10. ~OutgrowsLocal(value, 16)
  BY <1>9 DEF OutgrowsLocal
<1>. QED
  BY <1>2, <1>4, <1>8, <1>10


-----------------------------------------------------------------------------
(* The pieces.                                                             *)
Numbers == {SMALL_B, SMALL_D, SMALL_X}

(* A conversion of a number has a base of itoa's.                          *)
LEMMA BaseIs ==
  /\ DOMAIN Base = Numbers
  /\ \A c \in Numbers : Base[c] \in Bases
<1>1. DOMAIN Base = Numbers
  BY DEF Base, Numbers
<1>2. ASSUME NEW c \in Numbers PROVE Base[c] \in Bases
  <2>1. Base[c] = CASE c = SMALL_B -> 2 [] c = SMALL_D -> 10 [] c = SMALL_X -> 16
    BY DEF Base, Numbers
  <2>2. SMALL_B # SMALL_D /\ SMALL_B # SMALL_X /\ SMALL_D # SMALL_X
    BY DEF SMALL_B, SMALL_D, SMALL_X
  <2>3. CASE c = SMALL_B
    BY <2>1, <2>2, <2>3 DEF Bases
  <2>4. CASE c = SMALL_D
    BY <2>1, <2>2, <2>4 DEF Bases
  <2>5. CASE c = SMALL_X
    BY <2>1, <2>2, <2>5 DEF Bases
  <2>. QED
    BY <2>3, <2>4, <2>5 DEF Numbers
<1>. QED
  BY <1>1, <1>2

(* The kinds of pieces.                                                    *)
Kinds == {"literal", "string", "character", "unknown", "number"}

(* What a piece has, by its kind.                                          *)
LEMMA PieceIs ==
  ASSUME NEW p \in Pieces
  PROVE  /\ p.kind \in Kinds
         /\ p.kind = "literal" => p.c \in ASCII \ {PERCENT}
         /\ p.kind = "string" => p.chars \in Seq(ASCII)
         /\ p.kind = "character" => p.c \in ASCII
         /\ p.kind = "unknown" =>
              p.c \in ASCII \ ({PERCENT, DIGIT0, SMALL_S, SMALL_C} \cup DOMAIN Base)
         /\ p.kind = "number" =>
              p.conversion \in Numbers /\ p.width \in Widths /\ p.value \in Words
<1>1. DOMAIN Base = Numbers
  BY BaseIs
<1>. QED
  BY <1>1 DEF Pieces, Kinds

(* A number of a width that is none, and of one that is as good as none.   *)
LEMMA PlacesShort ==
  ASSUME NEW n \in Nat, NEW base \in Nat \ {0, 1}
  PROVE  Places(n, base, 0) = Places(n, base, 1)
<1>. DEFINE m == PlaceCount(n, base)
            s == Places(n, base, 0)
            t == Places(n, base, 1)
<1>1. m \in Nat \ {0}
  BY PlaceCountIs
<1>2. HasPlaces(n, base, 0, m)
  <2>1. m = IF 0 > PlaceCount(n, base) THEN 0 ELSE PlaceCount(n, base)
    BY <1>1
  <2>. QED
    BY <2>1, PlacesAre
<1>3. HasPlaces(n, base, 1, m)
  <2>1. m = IF 1 > PlaceCount(n, base) THEN 1 ELSE PlaceCount(n, base)
    BY <1>1
  <2>. QED
    BY <2>1, PlacesAre
<1>. HIDE DEF m
<1>4. s \in Seq(Int) /\ Len(s) = m /\ \A i \in 1 .. m : s[i] = Digit(n, base, 1, m - i)
  BY <1>2 DEF HasPlaces
<1>5. t \in Seq(Int) /\ Len(t) = m /\ \A i \in 1 .. m : t[i] = Digit(n, base, 1, m - i)
  BY <1>3 DEF HasPlaces
<1>. HIDE DEF s, t
<1>6. s = t
  BY <1>4, <1>5, SeqEqual
<1>. QED
  BY <1>6 DEF s, t

(* What the loop of vsnprintf puts in front of a number that is not longer *)
(* than its padding.                                                       *)
LEMMA PaddedIs ==
  ASSUME NEW n \in Nat, NEW base \in Bases, NEW width \in Nat,
         width = 0 \/ width >= PlaceCount(n, base)
  PROVE  Places(n, base, width)
           = ZeroText(Zeros(width, PlaceCount(n, base))) \o Places(n, base, 1)
<1>1. base \in Nat \ {0, 1} /\ PlaceCount(n, base) \in Nat \ {0}
  BY PlaceCountIs DEF Bases
<1>2. CASE width = 0
  <2>1. Zeros(width, PlaceCount(n, base)) = 0
    BY <1>1, <1>2 DEF Zeros
  <2>2. ZeroText(0) = <<>>
    BY DEF ZeroText
  <2>3. Places(n, base, 1) \in Text
    BY LoopIsPlaces
  <2>4. <<>> \o Places(n, base, 1) = Places(n, base, 1)
    BY <2>3, ConcatEmptySeq DEF Text
  <2>5. Places(n, base, 0) = Places(n, base, 1)
    BY <1>1, PlacesShort
  <2>. QED
    BY <1>2, <2>1, <2>2, <2>4, <2>5
<1>3. CASE width >= PlaceCount(n, base)
  <2>1. Zeros(width, PlaceCount(n, base)) = width - PlaceCount(n, base)
    BY <1>3 DEF Zeros
  <2>. QED
    BY <1>1, <1>3, <2>1, PlacesPadded
<1>. QED
  BY <1>2, <1>3

NumberOf(p) == itoa(p.value, Base[p.conversion], HALF)

(* A plain number ought to print what vsnprintf stores for it.             *)
LEMMA PlainNumber ==
  ASSUME NEW p \in Pieces, p.kind = "number", Plain(p)
  PROVE  /\ MeansOf(p) = ZeroText(Zeros(Digits(p.width), Len(NumberOf(p)))) \o NumberOf(p)
         /\ ~OutgrowsLocal(p.value, Base[p.conversion])
<1>. DEFINE base == Base[p.conversion]
            value == p.value
            width == Digits(p.width)
<1>1. p.conversion \in Numbers /\ p.width \in Widths /\ value \in Words
  BY PieceIs
<1>2. base \in Bases
  BY <1>1, BaseIs
<1>3. width \in Nat
  BY <1>1, DigitsAreNatural DEF Widths
<1>4. value \in Int /\ Word(value) \in Nat /\ (value >= 0 => Word(value) = value)
  BY <1>1, WordIs
<1>5. /\ value < 0 => base = 16 /\ value % HALF >= HALF \div base
      /\ width = 0 \/ width >= PlaceCount(Word(value), base)
  BY DEF Plain
<1>6. MeansOf(p) = Digitized(value, base, width)
  BY DEF MeansOf
<1>7. NumberOf(p) = itoa(value, base, HALF)
  BY DEF NumberOf
<1>. HIDE DEF base, value, width
<1>8. itoa(value, base, HALF) = Places(Word(value), base, 1) /\ ~OutgrowsLocal(value, base)
  <2>1. CASE value >= 0
    <3>1. value \in Nat /\ ~(value < 0)
      BY <1>4, <2>1
    <3>2. itoa(value, base, HALF) = Places(value, base, 1)
      BY <1>2, <3>1, ItoaNatural
    <3>. QED
      BY <1>4, <2>1, <3>1, <3>2 DEF OutgrowsLocal
  <2>2. CASE value < 0
    <3>1. value \in Words /\ base = 16 /\ value % HALF >= HALF \div 16
      BY <1>1, <1>5, <2>2 DEF value
    <3>2. itoa(value, 16, HALF) = Places(Word(value), 16, 1) /\ ~OutgrowsLocal(value, 16)
      BY <2>2, <3>1, ItoaFull
    <3>. QED
      BY <3>1, <3>2
  <2>. QED
    BY <1>4, <2>1, <2>2
<1>9. Digitized(value, base, width) = Places(Word(value), base, width)
  <2>1. ~(base = 10 /\ value < 0)
    BY <1>5
  <2>. QED
    BY <2>1 DEF Digitized
<1>10. Places(Word(value), base, width)
         = ZeroText(Zeros(width, PlaceCount(Word(value), base))) \o Places(Word(value), base, 1)
  BY <1>2, <1>3, <1>4, <1>5, PaddedIs
<1>11. Len(Places(Word(value), base, 1)) = PlaceCount(Word(value), base)
  BY <1>2, <1>4, LoopIsPlaces
<1>12. MeansOf(p) = ZeroText(Zeros(width, Len(NumberOf(p)))) \o NumberOf(p)
  BY <1>6, <1>7, <1>8, <1>9, <1>10, <1>11
<1>. QED
  BY <1>8, <1>12 DEF width, base, value

(* A number outgrows the arrays when it is counted to.                     *)
LEMMA OutgrowsIs ==
  ASSUME NEW p \in Pieces, p.kind = "number"
  PROVE  Outgrows(p) <=> OutgrowsLocal(p.value, Base[p.conversion])
<1>. DEFINE base == Base[p.conversion]
            value == p.value
<1>1. p.conversion \in Numbers /\ value \in Words
  BY PieceIs
<1>2. base \in Bases
  BY <1>1, BaseIs
<1>3. Outgrows(p) <=>
        /\ value < 0 /\ base # 10
        /\ \E half \in {High(value), value % HALF} : PlaceCount(half, base) + 1 > HALF_SIZE
  BY DEF Outgrows
<1>4. OutgrowsLocal(value, base) <=>
        /\ value < 0 /\ base # 10
        /\ \E half \in Halves(value, base) : Len(half) + 1 > HALF_SIZE
  BY DEF OutgrowsLocal
<1>. HIDE DEF value, base
<1>5. value < 0 => ((\E half \in Halves(value, base) : Len(half) + 1 > HALF_SIZE)
           <=> \E half \in {High(value), value % HALF} : PlaceCount(half, base) + 1 > HALF_SIZE)
  BY <1>1, <1>2, HalvesLength
<1>6. Outgrows(p) <=> OutgrowsLocal(value, base)
  BY <1>3, <1>4, <1>5, Zenon
<1>. QED
  BY <1>6 DEF value, base

(* No plain piece does.                                                    *)
LEMMA PlainFits ==
  ASSUME NEW p \in Pieces, Plain(p)
  PROVE  ~Outgrows(p)
<1>1. CASE p.kind = "number"
  BY <1>1, PlainNumber, OutgrowsIs
<1>2. CASE p.kind # "number"
  BY <1>2 DEF Outgrows
<1>. QED
  BY <1>1, <1>2


-----------------------------------------------------------------------------
(* The buffer with a text in it, and NULs behind the text.                 *)
Filled(out) == [k \in 0 .. SIZE - 1 |-> IF k < Len(out) THEN out[k+1] ELSE NUL]

(* strlen finds the end of the text, or of the buffer.                     *)
LEMMA CharsOfFilled ==
  ASSUME NEW out \in Text, Len(out) <= SIZE
  PROVE  Chars(Filled(out)) = out /\ strlen(Filled(out)) = Len(out)
<1>. DEFINE b == Filled(out)
            ends == {i \in DOMAIN b : b[i] = NUL}
            n == IF ends = {} THEN Cardinality(DOMAIN b) ELSE Min(ends)
<1>1. /\ SIZE \in Nat \ {0} /\ Len(out) \in Nat /\ DOMAIN b = 0 .. SIZE - 1
      /\ \A i \in 1 .. Len(out) : out[i] \in Nat \ {NUL}
  BY SizeAssumption DEF Filled, Text
<1>2. ASSUME NEW i \in 0 .. SIZE - 1
      PROVE  /\ i < Len(out) => b[i] = out[i+1] /\ b[i] # NUL
             /\ ~(i < Len(out)) => b[i] = NUL
  <2>1. i < Len(out) => i + 1 \in 1 .. Len(out)
    BY <1>1
  <2>. QED
    BY <1>1, <2>1 DEF Filled
<1>. HIDE DEF b
<1>3. ends = Len(out) .. SIZE - 1
  BY <1>1, <1>2
<1>4. n = Len(out)
  <2>. HIDE DEF ends
  <2>1. CASE ends = {}
    <3>1. Len(out) = SIZE
      BY <1>1, <1>3, <2>1
    <3>2. Cardinality(0 .. SIZE - 1) = SIZE
      <4>1. 0 \in Int /\ SIZE - 1 \in Int
        BY <1>1
      <4>2. Cardinality(0 .. SIZE - 1)
              = IF 0 > SIZE - 1 THEN 0 ELSE (SIZE - 1) - 0 + 1
        BY <4>1, FS_Interval
      <4>. QED
        BY <1>1, <4>2
    <3>. QED
      BY <1>1, <2>1, <3>1, <3>2
  <2>2. CASE ends # {}
    <3>1. ends \in SUBSET Nat /\ Len(out) \in ends /\ \A i \in ends : Len(out) <= i
      BY <1>1, <1>3, <2>2
    <3>2. Min(ends) \in ends /\ \A i \in ends : Min(ends) <= i
      BY <2>2, <3>1, MinOfNaturals
    <3>3. Min(ends) \in Nat /\ Min(ends) <= Len(out) /\ Len(out) <= Min(ends)
      BY <3>1, <3>2
    <3>. QED
      BY <1>1, <2>2, <3>3
  <2>. QED
    BY <2>1, <2>2
<1>5. Chars(b) = [i \in 1 .. n |-> b[i-1]]
  BY DEF Chars
<1>6. ASSUME NEW i \in 1 .. Len(out) PROVE b[i-1] = out[i]
  <2>1. i - 1 \in 0 .. SIZE - 1 /\ i - 1 < Len(out) /\ (i - 1) + 1 = i
    BY <1>1
  <2>. QED
    BY <1>2, <2>1
<1>. HIDE DEF n
<1>7. Chars(b) = [i \in 1 .. Len(out) |-> out[i]]
  BY <1>4, <1>5, <1>6
<1>8. out = [i \in 1 .. Len(out) |-> out[i]]
  BY DEF Text
<1>9. Chars(b) = out
  BY <1>7, <1>8
<1>. QED
  BY <1>9 DEF strlen, b

(* What is stored behind the text, and what is stored with a NUL.          *)
LEMMA StoredBehind ==
  ASSUME NEW out \in Text, NEW chars \in Text, Len(out) + Len(chars) <= SIZE
  PROVE  /\ Stored(Filled(out), Len(out), chars) = Filled(out \o chars)
         /\ Len(out) + Len(chars) < SIZE => strcat(Filled(out), chars) = Filled(out \o chars)
<1>. DEFINE a == Len(out)
            c == Len(chars)
            both == out \o chars
            ended == chars \o <<NUL>>
<1>0. a \in Nat /\ c \in Nat /\ SIZE \in Nat \ {0}
  BY SizeAssumption DEF Text
<1>1. /\ Len(both) = a + c
      /\ \A i \in 1 .. a + c : both[i] = IF i <= a THEN out[i] ELSE chars[i - a]
  BY ConcatProperties DEF Text
<1>2. DOMAIN chars = 1 .. c
  BY DEF Text
<1>3. /\ DOMAIN ended = 1 .. c + 1
      /\ \A i \in 1 .. c + 1 : ended[i] = IF i <= c THEN chars[i] ELSE NUL
  <2>1. chars \in Seq(Nat) /\ <<NUL>> \in Seq(Nat) /\ Len(<<NUL>>) = 1 /\ <<NUL>>[1] = NUL
    BY DEF Text, NUL
  <2>. DEFINE t == <<NUL>>
  <2>2. t \in Seq(Nat) /\ Len(t) = 1 /\ t[1] = NUL
    BY <2>1
  <2>. HIDE DEF t
  <2>3. /\ chars \o t \in Seq(Nat)
        /\ Len(chars \o t) = c + Len(t)
        /\ \A i \in 1 .. c + Len(t) :
             (chars \o t)[i] = IF i <= c THEN chars[i] ELSE t[i - c]
    BY <2>1, <2>2, ConcatProperties
  <2>4. DOMAIN (chars \o t) = 1 .. c + 1
    BY <2>2, <2>3, LenProperties
  <2>5. ASSUME NEW i \in 1 .. c + 1 PROVE (chars \o t)[i] = IF i <= c THEN chars[i] ELSE NUL
    <3>1. CASE i <= c
      BY <2>2, <2>3, <3>1
    <3>2. CASE ~(i <= c)
      <4>1. i - c = 1
        BY <1>0, <3>2
      <4>. QED
        BY <2>2, <2>3, <3>2, <4>1
    <3>. QED
      BY <3>1, <3>2
  <2>. QED
    BY <2>4, <2>5 DEF t
<1>4. DOMAIN Filled(out) = 0 .. SIZE - 1
  BY DEF Filled
<1>. HIDE DEF both, ended, a, c
<1>5. Stored(Filled(out), a, chars) = Filled(both)
  <2>1. ASSUME NEW k \in 0 .. SIZE - 1
        PROVE  (IF k - a + 1 \in DOMAIN chars THEN chars[k - a + 1] ELSE Filled(out)[k])
                 = IF k < Len(both) THEN both[k+1] ELSE NUL
    <3>1. CASE k < a
      <4>1. ~(k - a + 1 \in DOMAIN chars) /\ k < Len(both) /\ k + 1 \in 1 .. a + c /\ k + 1 <= a
        BY <1>0, <1>1, <1>2, <3>1
      <4>2. Filled(out)[k] = out[k+1]
        BY <3>1 DEF Filled, a
      <4>. QED
        BY <1>1, <4>1, <4>2
    <3>2. CASE ~(k < a) /\ k < a + c
      <4>1. /\ k - a + 1 \in DOMAIN chars /\ k < Len(both)
            /\ k + 1 \in 1 .. a + c /\ ~(k + 1 <= a) /\ (k + 1) - a = k - a + 1
        BY <1>0, <1>1, <1>2, <3>2
      <4>. QED
        BY <1>1, <4>1
    <3>3. CASE ~(k < a + c)
      <4>1. ~(k - a + 1 \in DOMAIN chars) /\ ~(k < Len(both)) /\ ~(k < a)
        BY <1>0, <1>1, <1>2, <3>3
      <4>2. Filled(out)[k] = NUL
        BY <4>1 DEF Filled, a
      <4>. QED
        BY <4>1, <4>2
    <3>. QED
      BY <1>0, <3>1, <3>2, <3>3
  <2>. QED
    BY <1>4, <2>1 DEF Stored, Filled
<1>6. ASSUME a + c < SIZE PROVE Stored(Filled(out), a, ended) = Filled(both)
  <2>1. ASSUME NEW k \in 0 .. SIZE - 1
        PROVE  (IF k - a + 1 \in DOMAIN ended THEN ended[k - a + 1] ELSE Filled(out)[k])
                 = IF k < Len(both) THEN both[k+1] ELSE NUL
    <3>1. CASE k < a
      <4>1. ~(k - a + 1 \in DOMAIN ended) /\ k < Len(both) /\ k + 1 \in 1 .. a + c /\ k + 1 <= a
        BY <1>0, <1>1, <1>3, <3>1
      <4>2. Filled(out)[k] = out[k+1]
        BY <3>1 DEF Filled, a
      <4>. QED
        BY <1>1, <4>1, <4>2
    <3>2. CASE ~(k < a) /\ k < a + c
      <4>1. /\ k - a + 1 \in 1 .. c + 1 /\ k - a + 1 <= c /\ k < Len(both)
            /\ k + 1 \in 1 .. a + c /\ ~(k + 1 <= a) /\ (k + 1) - a = k - a + 1
        BY <1>0, <1>1, <1>3, <3>2
      <4>. QED
        BY <1>1, <1>3, <4>1
    <3>3. CASE k = a + c
      <4>1. k - a + 1 \in 1 .. c + 1 /\ ~(k - a + 1 <= c) /\ ~(k < Len(both))
        BY <1>0, <1>1, <1>3, <3>3
      <4>. QED
        BY <1>3, <4>1
    <3>4. CASE k > a + c
      <4>1. ~(k - a + 1 \in DOMAIN ended) /\ ~(k < Len(both)) /\ ~(k < a)
        BY <1>0, <1>1, <1>3, <3>4
      <4>2. Filled(out)[k] = NUL
        BY <4>1 DEF Filled, a
      <4>. QED
        BY <4>1, <4>2
    <3>. QED
      BY <1>0, <3>1, <3>2, <3>3, <3>4
  <2>. QED
    BY <1>4, <2>1 DEF Stored, Filled
<1>7. strlen(Filled(out)) = a
  <2>1. Len(out) <= SIZE
    BY <1>0 DEF a, c
  <2>. QED
    BY <2>1, CharsOfFilled DEF a
<1>. QED
  BY <1>5, <1>6, <1>7 DEF strcat, a, c, both, ended


-----------------------------------------------------------------------------
(* Sequences joined.                                                       *)
LEMMA Associative ==
  ASSUME NEW S
  PROVE  \A s, t, u \in Seq(S) : (s \o t) \o u = s \o (t \o u)
BY ConcatAssociative

(* As above, for numbers.                                                  *)
LEMMA IntsAssociative ==
  /\ \A s, t, u \in Seq(Nat) : (s \o t) \o u = s \o (t \o u)
  /\ \A s, t, u \in Seq(Int) : (s \o t) \o u = s \o (t \o u)
<1>1. \A s, t, u \in Seq(Nat) : (s \o t) \o u = s \o (t \o u)
  <2>. DEFINE S == Nat
  <2>. HIDE DEF S
  <2>1. \A s, t, u \in Seq(S) : (s \o t) \o u = s \o (t \o u)
    BY Associative
  <2>. QED
    BY <2>1 DEF S
<1>2. \A s, t, u \in Seq(Int) : (s \o t) \o u = s \o (t \o u)
  <2>. DEFINE S == Int
  <2>. HIDE DEF S
  <2>1. \A s, t, u \in Seq(S) : (s \o t) \o u = s \o (t \o u)
    BY Associative
  <2>. QED
    BY <2>1 DEF S
<1>. QED
  BY <1>1, <1>2

(* FlattenSeq is a loop over sequences from the left.                      *)
IsFlat(seqs, f) ==
  f = [i \in 1 .. Len(seqs) |-> IF i = 1 THEN seqs[i] ELSE f[i-1] \o seqs[i]]

(* The loop can be run.                                                    *)
LEMMA FlatExists ==
  ASSUME NEW S, NEW seqs \in Seq(Seq(S)), seqs # <<>>
  PROVE  \E f : IsFlat(seqs, f)
<1>. DEFINE n == Len(seqs) - 1
            U == Seq(S)
            turn == [j \in 1 .. n |-> [t \in U |-> t \o seqs[j+1]]]
<1>1. n \in Nat /\ Len(seqs) = n + 1 /\ \A i \in 1 .. n + 1 : seqs[i] \in U
  BY LenProperties, EmptySeq, ElementOfSeq
<1>. HIDE DEF n
<1>2. ASSUME NEW j \in 1 .. n, NEW t \in U PROVE t \o seqs[j+1] \in U
  <2>1. seqs[j+1] \in U
    BY <1>1
  <2>. QED
    BY <2>1, ConcatProperties
<1>3. turn \in [1 .. n -> [U -> U]]
  <2>. HIDE DEF U
  <2>. QED
    BY <1>2
<1>4. seqs[1] \in U
  BY <1>1
<1>5. PICK after : Runs(n, U, turn, seqs[1], after)
  <2>. HIDE DEF turn, U
  <2>. QED
    BY <1>1, <1>3, <1>4, LoopRuns
<1>. DEFINE f == [i \in 1 .. Len(seqs) |-> after[i-1]]
<1>6. ASSUME NEW i \in 1 .. Len(seqs)
      PROVE  f[i] = IF i = 1 THEN seqs[i] ELSE f[i-1] \o seqs[i]
  <2>1. CASE i = 1
    BY <1>5, <2>1 DEF Runs
  <2>2. CASE i # 1
    <3>1. /\ i - 1 \in 1 .. n /\ i - 1 \in 1 .. Len(seqs) /\ (i - 1) + 1 = i
          /\ (i - 1) - 1 \in 0 .. n
      BY <1>1, <2>2
    <3>. HIDE DEF U
    <3>2. after[i - 1] = turn[i - 1][after[(i - 1) - 1]] /\ after[(i - 1) - 1] \in U
      BY <1>5, <3>1 DEF Runs
    <3>3. after[i - 1] = after[(i - 1) - 1] \o seqs[(i - 1) + 1]
      BY <3>1, <3>2
    <3>4. f[i] = after[i - 1] /\ f[i - 1] = after[(i - 1) - 1]
      BY <3>1
    <3>. QED
      BY <2>2, <3>1, <3>3, <3>4
  <2>. QED
    BY <2>1, <2>2
<1>7. IsFlat(seqs, f)
  BY <1>6 DEF IsFlat
<1>. QED
  BY <1>7

(* FlattenSeq runs it.                                                     *)
LEMMA FlattenIs ==
  ASSUME NEW S, NEW seqs \in Seq(Seq(S)), seqs # <<>>
  PROVE  \E f : IsFlat(seqs, f) /\ FlattenSeq(seqs) = f[Len(seqs)]
<1>. DEFINE F == CHOOSE f : IsFlat(seqs, f)
<1>1. IsFlat(seqs, F)
  BY FlatExists
<1>2. Len(seqs) # 0
  BY EmptySeq
<1>3. FlattenSeq(seqs) = F[Len(seqs)]
  BY <1>2 DEF FlattenSeq, IsFlat
<1>. QED
  BY <1>1, <1>3

(* Its results are sequences of the same things.                           *)
LEMMA FlatType ==
  ASSUME NEW S, NEW seqs \in Seq(Seq(S)), NEW f, IsFlat(seqs, f), NEW i \in 1 .. Len(seqs)
  PROVE  f[i] \in Seq(S)
<1>. DEFINE n == i - 1
            after == [j \in 0 .. n |-> f[j+1]]
            good == [j \in 0 .. n |-> Seq(S)]
<1>0. Len(seqs) \in Nat /\ n \in Nat /\ n + 1 = i /\ i <= Len(seqs)
  BY LenProperties
<1>. HIDE DEF n
<1>1. after[0] \in good[0]
  <2>1. 1 \in 1 .. Len(seqs)
    BY <1>0
  <2>2. f[1] = seqs[1] /\ seqs[1] \in Seq(S)
    BY <2>1, ElementOfSeq DEF IsFlat
  <2>. QED
    BY <1>0, <2>2
<1>2. ASSUME NEW j \in 1 .. n, after[j-1] \in good[j-1] PROVE after[j] \in good[j]
  <2>1. /\ j - 1 \in 0 .. n /\ j \in 0 .. n /\ (j - 1) + 1 = j
        /\ j + 1 \in 1 .. Len(seqs) /\ j + 1 # 1 /\ (j + 1) - 1 = j
    BY <1>0
  <2>2. f[j] \in Seq(S)
    BY <1>2, <2>1
  <2>3. f[j+1] = f[j] \o seqs[j+1]
    BY <2>1 DEF IsFlat
  <2>4. seqs[j+1] \in Seq(S)
    BY <2>1, ElementOfSeq
  <2>5. f[j+1] \in Seq(S)
    BY <2>2, <2>3, <2>4, ConcatProperties
  <2>. QED
    BY <2>1, <2>5
<1>3. after[n] \in good[n]
  <2>. HIDE DEF after, good
  <2>. QED
    BY <1>0, <1>1, <1>2, LoopKeeps
<1>. QED
  BY <1>0, <1>3

(* The first of them comes in front of all the others.                     *)
LEMMA FlattenSplits ==
  ASSUME NEW S, NEW seqs \in Seq(Seq(S)), seqs # <<>>
  PROVE  /\ FlattenSeq(seqs) = Head(seqs) \o FlattenSeq(Tail(seqs))
         /\ FlattenSeq(seqs) \in Seq(S)
<1>. DEFINE rest == Tail(seqs)
            first == Head(seqs)
<1>0. Len(seqs) \in Nat \ {0}
  BY EmptySeq
<1>1. /\ first \in Seq(S) /\ rest \in Seq(Seq(S)) /\ Len(rest) = Len(seqs) - 1
      /\ \A i \in 1 .. Len(rest) : rest[i] = seqs[i+1]
      /\ first = seqs[1]
  BY HeadTailProperties
<1>2. PICK f : IsFlat(seqs, f) /\ FlattenSeq(seqs) = f[Len(seqs)]
  BY FlattenIs
<1>. HIDE DEF rest, first
<1>3. FlattenSeq(seqs) \in Seq(S)
  <2>1. Len(seqs) \in 1 .. Len(seqs)
    BY <1>0
  <2>. QED
    BY <1>2, <2>1, FlatType
<1>4. f[1] = first
  <2>1. 1 \in 1 .. Len(seqs)
    BY <1>0
  <2>. QED
    BY <1>1, <1>2, <2>1 DEF IsFlat
<1>5. CASE rest = <<>>
  <2>1. Len(rest) = 0
    BY <1>5
  <2>2. Len(seqs) = 1
    BY <1>0, <1>1, <2>1
  <2>3. FlattenSeq(rest) = rest
    BY <2>1 DEF FlattenSeq
  <2>4. first \o <<>> = first
    BY <1>1, ConcatEmptySeq
  <2>. QED
    BY <1>2, <1>3, <1>4, <1>5, <2>2, <2>3, <2>4 DEF rest, first
<1>6. CASE rest # <<>>
  <2>1. PICK g : IsFlat(rest, g) /\ FlattenSeq(rest) = g[Len(rest)]
    BY <1>1, <1>6, FlattenIs
  <2>. DEFINE n == Len(rest) - 1
              after == [j \in 0 .. n |-> f[j+2]]
              good == [j \in 0 .. n |-> {first \o g[j+1]}]
  <2>2. n \in Nat /\ n + 1 = Len(rest) /\ n + 2 = Len(seqs)
    <3>1. Len(rest) \in Nat \ {0}
      BY <1>1, <1>6, EmptySeq
    <3>. QED
      BY <1>0, <1>1, <3>1
  <2>. HIDE DEF n
  <2>3. after[0] \in good[0]
    <3>1. 2 \in 1 .. Len(seqs) /\ 2 # 1 /\ 2 - 1 = 1 /\ 1 \in 1 .. Len(rest) /\ 1 + 1 = 2
      BY <2>2
    <3>2. f[2] = f[1] \o seqs[2]
      BY <1>2, <3>1 DEF IsFlat
    <3>3. g[1] = rest[1]
      BY <2>1, <3>1 DEF IsFlat
    <3>4. rest[1] = seqs[2]
      BY <1>1, <3>1
    <3>5. after[0] = f[2] /\ good[0] = {first \o g[1]}
      BY <2>2
    <3>. QED
      BY <1>4, <3>2, <3>3, <3>4, <3>5
  <2>4. ASSUME NEW j \in 1 .. n, after[j-1] \in good[j-1] PROVE after[j] \in good[j]
    <3>1. /\ j - 1 \in 0 .. n /\ j \in 0 .. n
          /\ j + 1 \in 1 .. Len(rest) /\ j \in 1 .. Len(rest) /\ j + 1 # 1 /\ (j + 1) - 1 = j
          /\ j + 2 \in 1 .. Len(seqs) /\ j + 2 # 1 /\ (j + 2) - 1 = j + 1
          /\ (j - 1) + 2 = j + 1 /\ (j - 1) + 1 = j /\ (j + 1) + 1 = j + 2
      BY <2>2
    <3>2. f[j+1] = first \o g[j]
      <4>1. after[j-1] = f[j+1] /\ good[j-1] = {first \o g[j]}
        BY <3>1
      <4>. QED
        BY <2>4, <4>1
    <3>3. f[j+2] = f[j+1] \o seqs[j+2]
      BY <1>2, <3>1 DEF IsFlat
    <3>4. g[j+1] = g[j] \o rest[j+1]
      BY <2>1, <3>1 DEF IsFlat
    <3>5. rest[j+1] = seqs[j+2]
      BY <1>1, <3>1
    <3>6. g[j] \in Seq(S) /\ rest[j+1] \in Seq(S)
      BY <1>1, <2>1, <3>1, FlatType, ElementOfSeq
    <3>7. (first \o g[j]) \o rest[j+1] = first \o (g[j] \o rest[j+1])
      <4>1. \A s, t, u \in Seq(S) : (s \o t) \o u = s \o (t \o u)
        BY Associative, SMTT(40)
      <4>. QED
        BY <1>1, <3>6, <4>1, Zenon
    <3>8. f[j+2] = first \o g[j+1]
      BY <3>2, <3>3, <3>4, <3>5, <3>7
    <3>9. after[j] = f[j+2] /\ good[j] = {first \o g[j+1]}
      BY <3>1
    <3>. QED
      BY <3>8, <3>9
  <2>5. after[n] \in good[n]
    <3>. HIDE DEF after, good
    <3>. QED
      BY <2>2, <2>3, <2>4, LoopKeeps
  <2>6. after[n] = f[n+2] /\ good[n] = {first \o g[n+1]}
    BY <2>2
  <2>7. f[Len(seqs)] = first \o g[Len(rest)]
    BY <2>2, <2>5, <2>6
  <2>. QED
    BY <1>2, <1>3, <2>1, <2>7 DEF rest, first
<1>. QED
  BY <1>5, <1>6

(* What a function makes of the members of a list, joined.                 *)
Over(G, l) == FlattenSeq([i \in DOMAIN l |-> G[l[i]]])

OverIs(G, S, P, l) ==
  /\ Over(G, l) \in Seq(S)
  /\ l = <<>> => Over(G, l) = <<>>
  /\ l # <<>> => Over(G, l) = G[Head(l)] \o Over(G, Tail(l))

(* What it makes of the first one comes in front of the rest.              *)
LEMMA OverSplits ==
  ASSUME NEW S, NEW P, NEW G \in [P -> Seq(S)], NEW l \in Seq(P)
  PROVE  OverIs(G, S, P, l)
<1>. DEFINE m == [i \in DOMAIN l |-> G[l[i]]]
<1>1. m \in Seq(Seq(S)) /\ Len(m) = Len(l) /\ \A i \in 1 .. Len(l) : m[i] = G[l[i]]
  <2>1. DOMAIN l = 1 .. Len(l) /\ Len(l) \in Nat /\ \A i \in 1 .. Len(l) : l[i] \in P
    BY LenProperties, ElementOfSeq
  <2>2. m \in [1 .. Len(l) -> Seq(S)]
    BY <2>1
  <2>. QED
    BY <2>1, <2>2
<1>2. CASE l = <<>>
  <2>1. Len(m) = 0
    BY <1>1, <1>2
  <2>. HIDE DEF m
  <2>2. m = <<>>
    BY <1>1, <2>1, EmptySeq
  <2>3. FlattenSeq(m) = <<>>
    BY <2>1, <2>2 DEF FlattenSeq
  <2>. QED
    BY <1>2, <2>3, EmptySeq DEF Over, OverIs, m
<1>3. CASE l # <<>>
  <2>1. Len(l) \in Nat \ {0}
    BY <1>3, EmptySeq
  <2>. DEFINE r == [i \in DOMAIN Tail(l) |-> G[Tail(l)[i]]]
  <2>2. /\ Tail(l) \in Seq(P) /\ Len(Tail(l)) = Len(l) - 1 /\ DOMAIN Tail(l) = 1 .. Len(l) - 1
        /\ \A i \in 1 .. Len(l) - 1 : Tail(l)[i] = l[i+1]
        /\ Head(l) = l[1]
    BY <1>3, HeadTailProperties, LenProperties
  <2>3. m # <<>>
    <3>. HIDE DEF m
    <3>. QED
      BY <1>1, <2>1, EmptySeq
  <2>4. Head(m) = G[Head(l)]
    <3>. HIDE DEF m
    <3>. QED
      BY <1>1, <2>1, <2>2, <2>3
  <2>5. Tail(m) = r
    <3>1. /\ Tail(m) \in Seq(Seq(S)) /\ Len(Tail(m)) = Len(l) - 1
          /\ \A i \in 1 .. Len(l) - 1 : Tail(m)[i] = m[i+1]
      <4>. HIDE DEF m
      <4>. QED
        BY <1>1, <2>3, HeadTailProperties
    <3>2. ASSUME NEW i \in 1 .. Len(l) - 1 PROVE Tail(m)[i] = G[Tail(l)[i]]
      <4>1. i + 1 \in 1 .. Len(l)
        BY <2>1
      <4>. HIDE DEF m
      <4>. QED
        BY <1>1, <2>2, <3>1, <4>1
    <3>3. Tail(m) = [i \in 1 .. Len(l) - 1 |-> Tail(m)[i]]
      <4>1. DOMAIN Tail(m) = 1 .. Len(l) - 1
        BY <3>1, LenProperties
      <4>2. Tail(m) \in [1 .. Len(l) - 1 -> Seq(S)]
        BY <3>1, LenProperties
      <4>. HIDE DEF m
      <4>. QED
        BY <4>2
    <3>. HIDE DEF m
    <3>. QED
      BY <2>2, <3>2, <3>3
  <2>. HIDE DEF m, r
  <2>6. FlattenSeq(m) = Head(m) \o FlattenSeq(Tail(m)) /\ FlattenSeq(m) \in Seq(S)
    BY <1>1, <2>3, FlattenSplits
  <2>. QED
    BY <1>3, <2>4, <2>5, <2>6 DEF Over, OverIs, m, r
<1>. QED
  BY <1>2, <1>3


-----------------------------------------------------------------------------
(* What the pieces of each kind put into the format, take from the         *)
(* arguments, and ought to print.                                          *)
LEMMA LiteralPiece ==
  ASSUME NEW p \in Pieces, p.kind = "literal"
  PROVE  /\ p.c \in Nat \ {NUL} /\ p.c # PERCENT
         /\ FormatOf(p) = <<p.c>> /\ ArgsOf(p) = <<>> /\ MeansOf(p) = <<p.c>>
<1>1. p.c \in ASCII \ {PERCENT}
  BY PieceIs
<1>2. p.c \in Nat \ {NUL} /\ p.c # PERCENT
  BY <1>1 DEF ASCII, NUL
<1>3. FormatOf(p) = <<p.c>>
  BY DEF FormatOf
<1>4. ArgsOf(p) = <<>>
  BY DEF ArgsOf
<1>5. MeansOf(p) = <<p.c>>
  BY DEF MeansOf
<1>. QED
  BY <1>2, <1>3, <1>4, <1>5

(* So of a string.                                                         *)
LEMMA StringPiece ==
  ASSUME NEW p \in Pieces, p.kind = "string"
  PROVE  /\ p.chars \in Text /\ p.chars \in Seq(ASCII)
         /\ FormatOf(p) = <<PERCENT>> \o <<SMALL_S>>
         /\ ArgsOf(p) = <<p.chars>> /\ MeansOf(p) = p.chars
<1>1. p.chars \in Seq(ASCII)
  BY PieceIs
<1>2. ASCII \subseteq Nat \ {NUL}
  BY DEF ASCII, NUL
<1>3. p.chars \in Text
  BY <1>1, <1>2, SeqMonotonic DEF Text
<1>4. FormatOf(p) = <<PERCENT, SMALL_S>>
  BY DEF FormatOf
<1>5. ArgsOf(p) = <<p.chars>>
  BY DEF ArgsOf
<1>6. MeansOf(p) = p.chars
  BY DEF MeansOf
<1>7. <<PERCENT, SMALL_S>> = <<PERCENT>> \o <<SMALL_S>>
  OBVIOUS
<1>. QED
  BY <1>1, <1>3, <1>4, <1>5, <1>6, <1>7

(* So of a character.                                                      *)
LEMMA CharacterPiece ==
  ASSUME NEW p \in Pieces, p.kind = "character"
  PROVE  /\ p.c \in Nat \ {NUL}
         /\ FormatOf(p) = <<PERCENT>> \o <<SMALL_C>>
         /\ ArgsOf(p) = <<p.c>> /\ MeansOf(p) = <<p.c>>
<1>1. p.c \in ASCII
  BY PieceIs
<1>2. p.c \in Nat \ {NUL}
  BY <1>1 DEF ASCII, NUL
<1>3. FormatOf(p) = <<PERCENT, SMALL_C>>
  BY DEF FormatOf
<1>4. ArgsOf(p) = <<p.c>>
  BY DEF ArgsOf
<1>5. MeansOf(p) = <<p.c>>
  BY DEF MeansOf
<1>6. <<PERCENT, SMALL_C>> = <<PERCENT>> \o <<SMALL_C>>
  OBVIOUS
<1>. QED
  BY <1>2, <1>3, <1>4, <1>5, <1>6

(* So of an unknown conversion, which is not plain.                        *)
LEMMA UnknownPiece ==
  ASSUME NEW p \in Pieces, p.kind = "unknown"
  PROVE  /\ p.c \in Nat /\ p.c # PERCENT /\ p.c \notin {DIGIT0, SMALL_S, SMALL_C} \cup Numbers
         /\ FormatOf(p) = <<PERCENT>> \o <<p.c>>
         /\ ArgsOf(p) = <<>> /\ MeansOf(p) = <<>> /\ ~Plain(p)
<1>1. p.c \in ASCII \ ({PERCENT, DIGIT0, SMALL_S, SMALL_C} \cup Numbers)
  BY PieceIs, BaseIs
<1>2. p.c \in Nat
  BY <1>1 DEF ASCII
<1>3. FormatOf(p) = <<PERCENT, p.c>>
  BY DEF FormatOf
<1>4. ArgsOf(p) = <<>>
  BY DEF ArgsOf
<1>5. MeansOf(p) = <<>>
  BY DEF MeansOf
<1>6. <<PERCENT, p.c>> = <<PERCENT>> \o <<p.c>>
  BY <1>2
<1>7. ~Plain(p)
  BY DEF Plain
<1>. QED
  BY <1>1, <1>2, <1>3, <1>4, <1>5, <1>6, <1>7

(* The flag and the width of a number.                                     *)
Flag(p) == IF p.width = <<>> THEN <<>> ELSE <<DIGIT0>> \o p.width

(* So of a number.                                                         *)
LEMMA NumberPiece ==
  ASSUME NEW p \in Pieces, p.kind = "number"
  PROVE  /\ p.conversion \in Numbers /\ p.conversion \in Nat
         /\ p.width \in Seq(Numerals) /\ p.width \in Seq(Nat) /\ Flag(p) \in Seq(Nat)
         /\ p.value \in Words /\ p.value \in Int /\ Base[p.conversion] \in Bases
         /\ FormatOf(p) = <<PERCENT>> \o (Flag(p) \o <<p.conversion>>)
         /\ ArgsOf(p) = <<p.value>>
         /\ Digits(p.width) \in Nat /\ atoi(p.width) = Digits(p.width)
<1>1. p.conversion \in Numbers /\ p.width \in Widths /\ p.value \in Words
  BY PieceIs
<1>2. p.conversion \in Nat
  BY <1>1 DEF Numbers, SMALL_B, SMALL_D, SMALL_X
<1>3. p.width \in Seq(Numerals)
  BY <1>1 DEF Widths
<1>4. Numerals \subseteq Nat
  BY DEF Numerals, DIGIT0
<1>5. p.width \in Seq(Nat)
  BY <1>3, <1>4, SeqMonotonic
<1>6. Flag(p) \in Seq(Nat)
  <2>1. <<DIGIT0>> \in Seq(Nat)
    BY DEF DIGIT0
  <2>2. <<DIGIT0>> \o p.width \in Seq(Nat)
    BY <1>5, <2>1, ConcatProperties
  <2>. QED
    BY <2>2, EmptySeq DEF Flag
<1>7. FormatOf(p) = (<<PERCENT>> \o Flag(p)) \o <<p.conversion>>
  BY DEF FormatOf, Flag
<1>8. (<<PERCENT>> \o Flag(p)) \o <<p.conversion>> = <<PERCENT>> \o (Flag(p) \o <<p.conversion>>)
  <2>1. <<PERCENT>> \in Seq(Nat) /\ <<p.conversion>> \in Seq(Nat)
    BY <1>2 DEF PERCENT
  <2>. QED
    BY <1>6, <2>1, IntsAssociative, Zenon
<1>9. ArgsOf(p) = <<p.value>>
  BY DEF ArgsOf
<1>10. p.value \in Int
  BY <1>1, WordIs
<1>11. Digits(p.width) \in Nat /\ atoi(p.width) = Digits(p.width)
  BY <1>3, DigitsAreNatural
<1>12. Base[p.conversion] \in Bases
  BY <1>1, BaseIs
<1>. QED
  BY <1>1, <1>2, <1>3, <1>5, <1>6, <1>7, <1>8, <1>9, <1>10, <1>11, <1>12

(* What vsnprintf stores for a number has the room that is counted.        *)
LEMMA RoomOfNumber ==
  ASSUME NEW p \in Pieces, p.kind = "number"
  PROVE  /\ Takes(p) \in Nat
         /\ Len(ZeroText(Zeros(Digits(p.width), Len(NumberOf(p)))) \o NumberOf(p)) = Takes(p)
<1>. DEFINE nbr == NumberOf(p)
            w == Digits(p.width)
            z == ZeroText(Zeros(w, Len(nbr)))
            length == NumberLength(p.value, Base[p.conversion])
<1>1. p.value \in Words /\ Base[p.conversion] \in Bases /\ w \in Nat
  BY NumberPiece
<1>2. nbr \in Text /\ Len(nbr) \in Nat \ {0} /\ Len(nbr) = length
  BY <1>1, ItoaIsText, ItoaLength DEF NumberOf
<1>3. Takes(p) = IF w >= length THEN w ELSE w + length
  BY DEF Takes
<1>. HIDE DEF nbr, w, length
<1>4. Zeros(w, Len(nbr)) \in Nat /\ Takes(p) = Zeros(w, Len(nbr)) + Len(nbr)
  <2>1. CASE w >= length
    BY <1>1, <1>2, <1>3, <2>1 DEF Zeros
  <2>2. CASE ~(w >= length)
    BY <1>1, <1>2, <1>3, <2>2 DEF Zeros
  <2>. QED
    BY <2>1, <2>2
<1>5. z \in Text /\ Len(z) = Zeros(w, Len(nbr))
  <2>1. z \in [1 .. Zeros(w, Len(nbr)) -> Nat \ {NUL}]
    BY DEF ZeroText, DIGIT0, NUL
  <2>. QED
    BY <1>4, <2>1 DEF Text
<1>. HIDE DEF z
<1>6. Len(z \o nbr) = Len(z) + Len(nbr)
  BY <1>2, <1>5, TextJoined
<1>7. Takes(p) \in Nat
  BY <1>2, <1>4
<1>8. Len(z \o nbr) = Takes(p)
  BY <1>4, <1>5, <1>6, Zenon
<1>. QED
  BY <1>7, <1>8 DEF z, nbr, w

(* The room that a piece takes; and only numbers outgrow the arrays.       *)
LEMMA PieceTakes ==
  ASSUME NEW p \in Pieces
  PROVE  /\ Takes(p) \in Nat
         /\ p.kind \in {"literal", "character"} => Takes(p) = 1
         /\ p.kind = "string" => Takes(p) = Len(p.chars)
         /\ p.kind = "unknown" => Takes(p) = 0
         /\ p.kind # "number" => ~Outgrows(p)
<1>1. p.kind \in {"literal", "character"} => Takes(p) = 1
  BY DEF Takes
<1>2. p.kind = "string" => Takes(p) = Len(p.chars) /\ Takes(p) \in Nat
  <2>. SUFFICES ASSUME p.kind = "string" PROVE Takes(p) = Len(p.chars) /\ Takes(p) \in Nat
    OBVIOUS
  <2>1. Takes(p) = Len(p.chars)
    BY DEF Takes
  <2>. QED
    BY <2>1, StringPiece, LenProperties
<1>3. p.kind = "unknown" => Takes(p) = 0
  BY DEF Takes
<1>4. p.kind = "number" => Takes(p) \in Nat
  BY RoomOfNumber
<1>5. p.kind # "number" => ~Outgrows(p)
  BY DEF Outgrows
<1>6. p.kind \in Kinds
  BY PieceIs
<1>7. Takes(p) \in Nat
  BY <1>1, <1>2, <1>3, <1>4, <1>6 DEF Kinds
<1>. QED
  BY <1>1, <1>2, <1>3, <1>5, <1>7

(* What a number ought to print is text of some kind.                      *)
LEMMA DigitizedType ==
  ASSUME NEW p \in Pieces, p.kind = "number"
  PROVE  MeansOf(p) \in Seq(Int)
<1>. DEFINE base == Base[p.conversion]
            value == p.value
            width == Digits(p.width)
<1>1. value \in Words /\ value \in Int /\ base \in Bases /\ width \in Nat
  BY NumberPiece
<1>2. Word(value) \in Nat /\ base \in Nat \ {0, 1}
  BY <1>1, WordIs DEF Bases
<1>3. MeansOf(p) = Digitized(value, base, width)
  BY DEF MeansOf
<1>. HIDE DEF value, base, width
<1>4. ASSUME NEW n \in Nat PROVE Places(n, base, width) \in Seq(Int)
  <2>. DEFINE m == IF width > PlaceCount(n, base) THEN width ELSE PlaceCount(n, base)
  <2>1. HasPlaces(n, base, width, m)
    BY <1>1, <1>2, PlacesAre
  <2>. QED
    BY <2>1 DEF HasPlaces
<1>5. CASE base = 10 /\ value < 0
  <2>1. -value \in Nat
    BY <1>1, <1>5
  <2>. DEFINE t == Places(-value, base, width)
  <2>2. t \in Seq(Int)
    BY <1>4, <2>1
  <2>. HIDE DEF t
  <2>3. <<MINUS>> \in Seq(Int)
    BY DEF MINUS
  <2>4. <<MINUS>> \o t \in Seq(Int)
    BY <2>2, <2>3, ConcatProperties
  <2>5. Digitized(value, base, width) = <<MINUS>> \o t
    BY <1>5 DEF Digitized, t
  <2>. QED
    BY <1>3, <2>4, <2>5
<1>6. CASE ~(base = 10 /\ value < 0)
  <2>1. Digitized(value, base, width) = Places(Word(value), base, width)
    BY <1>6 DEF Digitized
  <2>. QED
    BY <1>2, <1>3, <1>4, <2>1
<1>. QED
  BY <1>5, <1>6

Arguments == Int \cup Seq(ASCII)

Formats == [p \in Pieces |-> FormatOf(p)]
Args == [p \in Pieces |-> ArgsOf(p)]
Meanings == [p \in Pieces |-> MeansOf(p)]
Rooms == [p \in Pieces |-> RoomOf(p)]

(* The room of a piece is so many NULs.                                    *)
LEMMA RoomTypes ==
  /\ Rooms \in [Pieces -> Seq(Nat)]
  /\ \A p \in Pieces : Len(Rooms[p]) = Takes(p)
<1>1. ASSUME NEW p \in Pieces PROVE RoomOf(p) \in Seq(Nat) /\ Len(RoomOf(p)) = Takes(p)
  <2>1. Takes(p) \in Nat
    BY PieceTakes
  <2>2. RoomOf(p) \in [1 .. Takes(p) -> Nat]
    BY DEF RoomOf, NUL
  <2>. QED
    BY <2>1, <2>2
<1>. QED
  BY <1>1 DEF Rooms

(* So they are functions to sequences.                                     *)
LEMMA PieceTypes ==
  /\ Formats \in [Pieces -> Seq(Nat)]
  /\ Args \in [Pieces -> Seq(Arguments)]
  /\ Meanings \in [Pieces -> Seq(Int)]
<1>1. ASSUME NEW p \in Pieces
      PROVE  FormatOf(p) \in Seq(Nat) /\ ArgsOf(p) \in Seq(Arguments) /\ MeansOf(p) \in Seq(Int)
  <2>0. p.kind \in Kinds
    BY PieceIs
  <2>. DEFINE per == <<PERCENT>>
  <2>1. per \in Seq(Nat)
    BY DEF PERCENT
  <2>. HIDE DEF per
  <2>2. \A x \in Nat : per \o <<x>> \in Seq(Nat)
    BY <2>1, ConcatProperties
  <2>3. CASE p.kind = "literal"
    <3>1. /\ FormatOf(p) = <<p.c>> /\ ArgsOf(p) = <<>> /\ MeansOf(p) = <<p.c>>
          /\ p.c \in Nat
      BY <2>3, LiteralPiece
    <3>2. <<p.c>> \in Seq(Nat) /\ <<p.c>> \in Seq(Int)
      BY <3>1
    <3>. QED
      BY <3>1, <3>2, EmptySeq
  <2>4. CASE p.kind = "string"
    <3>1. SMALL_S \in Nat
      BY DEF SMALL_S
    <3>2. /\ FormatOf(p) = per \o <<SMALL_S>> /\ ArgsOf(p) = <<p.chars>> /\ MeansOf(p) = p.chars
          /\ p.chars \in Text /\ p.chars \in Seq(ASCII)
      BY <2>4, StringPiece DEF per
    <3>3. p.chars \in Seq(Int)
      <4>1. Nat \ {NUL} \subseteq Int
        OBVIOUS
      <4>. QED
        BY <3>2, <4>1, SeqMonotonic DEF Text
    <3>4. p.chars \in Arguments
      BY <3>2 DEF Arguments
    <3>5. <<p.chars>> \in Seq(Arguments)
      BY <3>4
    <3>. QED
      BY <2>2, <3>1, <3>2, <3>3, <3>5
  <2>5. CASE p.kind = "character"
    <3>1. SMALL_C \in Nat
      BY DEF SMALL_C
    <3>2. /\ FormatOf(p) = per \o <<SMALL_C>> /\ ArgsOf(p) = <<p.c>> /\ MeansOf(p) = <<p.c>>
          /\ p.c \in Nat
      BY <2>5, CharacterPiece DEF per
    <3>3. p.c \in Arguments /\ p.c \in Int
      BY <3>2 DEF Arguments
    <3>4. <<p.c>> \in Seq(Arguments) /\ <<p.c>> \in Seq(Int)
      BY <3>3
    <3>. QED
      BY <2>2, <3>1, <3>2, <3>4
  <2>6. CASE p.kind = "unknown"
    <3>1. FormatOf(p) = per \o <<p.c>> /\ ArgsOf(p) = <<>> /\ MeansOf(p) = <<>> /\ p.c \in Nat
      BY <2>6, UnknownPiece DEF per
    <3>. QED
      BY <2>2, <3>1, EmptySeq
  <2>7. CASE p.kind = "number"
    <3>1. /\ FormatOf(p) = per \o (Flag(p) \o <<p.conversion>>) /\ ArgsOf(p) = <<p.value>>
          /\ Flag(p) \in Seq(Nat) /\ p.conversion \in Nat /\ p.value \in Int
      BY <2>7, NumberPiece DEF per
    <3>2. Flag(p) \o <<p.conversion>> \in Seq(Nat)
      <4>1. <<p.conversion>> \in Seq(Nat)
        BY <3>1
      <4>. QED
        BY <3>1, <4>1, ConcatProperties
    <3>3. FormatOf(p) \in Seq(Nat)
      BY <2>1, <3>1, <3>2, ConcatProperties
    <3>4. p.value \in Arguments
      BY <3>1 DEF Arguments
    <3>5. ArgsOf(p) \in Seq(Arguments)
      BY <3>1, <3>4
    <3>. QED
      BY <2>7, <3>3, <3>5, DigitizedType
  <2>. QED
    BY <2>0, <2>3, <2>4, <2>5, <2>6, <2>7 DEF Kinds
<1>. QED
  BY <1>1 DEF Formats, Args, Meanings


-----------------------------------------------------------------------------
(* The inductive invariant.  There is a list l of the pieces still to come *)
(* and the text out that is in the buffer: what is left of the format and  *)
(* of the arguments is that of l, from its start, from behind its first    *)
(* "%", or from behind the width of its first piece; if the call is plain  *)
(* it ought to print out and then what l ought to print; it takes the room *)
(* of out and then that of l, and what outgrows the arrays is still in l.  *)
Awaits(l, fmt, args, pad, parsing) ==
  /\ args = Over(Args, l)
  /\ \/ /\ ~parsing /\ pad = 0 /\ fmt = Over(Formats, l)
     \/ /\ parsing /\ pad = 0 /\ l # <<>> /\ Head(l).kind # "literal"
        /\ fmt = Tail(FormatOf(Head(l))) \o Over(Formats, Tail(l))
     \/ /\ parsing /\ l # <<>> /\ Head(l).kind = "number" /\ Head(l).width # <<>>
        /\ pad = Digits(Head(l).width)
        /\ fmt = <<Head(l).conversion>> \o Over(Formats, Tail(l))

Prints(c, out, l) ==
  c.plain => (\A i \in DOMAIN l : Plain(l[i])) /\ c.means = out \o Over(Meanings, l)

Fills(c, out, l) == Len(c.room) = Len(out) + Len(Over(Rooms, l))

Spares(c, l) == c.outgrows <=> \E i \in DOMAIN l : Outgrows(l[i])

Promises(c, out, l) == Prints(c, out, l) /\ Fills(c, out, l) /\ Spares(c, l)

Accounted(c, fmt, args, buffer, at, pad, parsing) ==
  \E l \in Seq(Pieces), out \in Text :
    /\ buffer = Filled(out) /\ at = Len(out) /\ Len(out) <= SIZE
    /\ Awaits(l, fmt, args, pad, parsing)
    /\ Promises(c, out, l)

Accounts == ~overrun => Accounted(call, format, ap, str, ptr, padding, is_parsing)

PlainKeeps == call.plain /\ Len(call.means) < SIZE => ~overrun

IInv == Accounts /\ KeepsToBuffer /\ PlainKeeps

(* What a list of pieces has joined.                                       *)
LEMMA OverPieces ==
  ASSUME NEW l \in Seq(Pieces)
  PROVE  /\ OverIs(Formats, Nat, Pieces, l)
         /\ OverIs(Args, Arguments, Pieces, l)
         /\ OverIs(Meanings, Int, Pieces, l)
         /\ OverIs(Rooms, Nat, Pieces, l)
<1>1. OverIs(Formats, Nat, Pieces, l)
  BY PieceTypes, OverSplits
<1>2. OverIs(Args, Arguments, Pieces, l)
  BY PieceTypes, OverSplits
<1>3. OverIs(Meanings, Int, Pieces, l)
  BY PieceTypes, OverSplits
<1>4. OverIs(Rooms, Nat, Pieces, l)
  BY RoomTypes, OverSplits
<1>. QED
  BY <1>1, <1>2, <1>3, <1>4

(* The first piece of a list and the others.                               *)
LEMMA FirstPiece ==
  ASSUME NEW l \in Seq(Pieces), l # <<>>
  PROVE  /\ Head(l) \in Pieces /\ Tail(l) \in Seq(Pieces)
         /\ Over(Formats, l) = FormatOf(Head(l)) \o Over(Formats, Tail(l))
         /\ Over(Args, l) = ArgsOf(Head(l)) \o Over(Args, Tail(l))
         /\ Over(Meanings, l) = MeansOf(Head(l)) \o Over(Meanings, Tail(l))
<1>1. Head(l) \in Pieces /\ Tail(l) \in Seq(Pieces)
  BY HeadTailProperties
<1>2. Over(Formats, l) = Formats[Head(l)] \o Over(Formats, Tail(l))
  BY OverPieces DEF OverIs
<1>3. Over(Args, l) = Args[Head(l)] \o Over(Args, Tail(l))
  BY OverPieces DEF OverIs
<1>4. Over(Meanings, l) = Meanings[Head(l)] \o Over(Meanings, Tail(l))
  BY OverPieces DEF OverIs
<1>5. /\ Formats[Head(l)] = FormatOf(Head(l)) /\ Args[Head(l)] = ArgsOf(Head(l))
      /\ Meanings[Head(l)] = MeansOf(Head(l))
  BY <1>1 DEF Formats, Args, Meanings
<1>. QED
  BY <1>1, <1>2, <1>3, <1>4, <1>5

(* The types of what they have joined.                                     *)
LEMMA OverTypes ==
  ASSUME NEW l \in Seq(Pieces)
  PROVE  /\ Over(Formats, l) \in Seq(Nat)
         /\ Over(Args, l) \in Seq(Arguments)
         /\ Over(Meanings, l) \in Seq(Int)
         /\ l = <<>> => Over(Formats, l) = <<>> /\ Over(Meanings, l) = <<>>
BY OverPieces DEF OverIs

(* Text is a sequence of integers.                                         *)
LEMMA TextIsInts ==
  ASSUME NEW s \in Text
  PROVE  s \in Seq(Int)
<1>1. Nat \ {NUL} \subseteq Int
  OBVIOUS
<1>. QED
  BY <1>1, SeqMonotonic DEF Text

(* A piece that has been printed leaves the others to print.               *)
LEMMA PrintsOn ==
  ASSUME NEW c, NEW l \in Seq(Pieces), l # <<>>, NEW out \in Text, NEW m \in Text,
         Prints(c, out, l), Plain(Head(l)) => MeansOf(Head(l)) = m
  PROVE  /\ Prints(c, out \o m, Tail(l))
         /\ c.plain /\ Len(c.means) < SIZE => Len(out) + Len(m) < SIZE
         /\ c.plain => Plain(Head(l))
<1>. DEFINE rest == Over(Meanings, Tail(l))
<1>1. Tail(l) \in Seq(Pieces) /\ Over(Meanings, l) = MeansOf(Head(l)) \o rest
  BY FirstPiece
<1>2. rest \in Seq(Int) /\ out \in Seq(Int) /\ m \in Seq(Int)
  BY <1>1, OverTypes, TextIsInts
<1>. HIDE DEF rest
<1>3. Len(l) \in Nat \ {0} /\ DOMAIN l = 1 .. Len(l) /\ Head(l) = l[1]
  BY EmptySeq, LenProperties
<1>4. DOMAIN Tail(l) = 1 .. Len(l) - 1 /\ \A i \in 1 .. Len(l) - 1 : Tail(l)[i] = l[i+1]
  BY HeadTailProperties, LenProperties
<1>5. (out \o m) \o rest = out \o (m \o rest)
  BY <1>2, IntsAssociative, Zenon
<1>6. ASSUME c.plain
      PROVE  /\ \A i \in DOMAIN Tail(l) : Plain(Tail(l)[i])
             /\ Plain(Head(l))
             /\ c.means = (out \o m) \o rest
  <2>1. (\A i \in DOMAIN l : Plain(l[i])) /\ c.means = out \o Over(Meanings, l)
    BY <1>6 DEF Prints
  <2>2. 1 \in DOMAIN l
    BY <1>3
  <2>3. Plain(Head(l))
    BY <1>3, <2>1, <2>2
  <2>4. Over(Meanings, l) = m \o rest
    BY <1>1, <2>3
  <2>5. ASSUME NEW i \in DOMAIN Tail(l) PROVE Plain(Tail(l)[i])
    <3>1. i + 1 \in DOMAIN l /\ Tail(l)[i] = l[i+1]
      BY <1>3, <1>4
    <3>. QED
      BY <2>1, <3>1
  <2>. QED
    BY <1>5, <2>1, <2>3, <2>4, <2>5
<1>7. Prints(c, out \o m, Tail(l))
  BY <1>6 DEF Prints, rest
<1>8. ASSUME c.plain, Len(c.means) < SIZE PROVE Len(out) + Len(m) < SIZE
  <2>1. c.means = (out \o m) \o rest
    BY <1>6, <1>8
  <2>2. out \o m \in Seq(Int) /\ Len(out \o m) = Len(out) + Len(m)
    BY <1>2, ConcatProperties
  <2>. DEFINE both == out \o m
  <2>. HIDE DEF both
  <2>3. Len(both \o rest) = Len(both) + Len(rest)
    BY <1>2, <2>2, ConcatProperties DEF both
  <2>4. Len(both) \in Nat /\ Len(rest) \in Nat
    BY <1>2, <2>2, LenProperties DEF both
  <2>. QED
    BY <1>8, <2>1, <2>2, <2>3, <2>4, SizeAssumption DEF both
<1>. QED
  BY <1>6, <1>7, <1>8

(* It leaves their room.                                                   *)
LEMMA FillsOn ==
  ASSUME NEW c, NEW l \in Seq(Pieces), l # <<>>, NEW out \in Text, NEW m \in Text,
         Fills(c, out, l), Len(m) = Takes(Head(l))
  PROVE  /\ Fills(c, out \o m, Tail(l))
         /\ Len(c.room) < SIZE => Len(out) + Len(m) < SIZE
<1>. DEFINE first == Rooms[Head(l)]
            rest == Over(Rooms, Tail(l))
<1>1. Head(l) \in Pieces /\ Tail(l) \in Seq(Pieces)
  BY HeadTailProperties
<1>2. Over(Rooms, l) = first \o rest
  BY OverPieces DEF OverIs
<1>3. rest \in Seq(Nat)
  BY <1>1, OverPieces DEF OverIs
<1>4. first \in Seq(Nat) /\ Len(first) = Len(m)
  BY <1>1, RoomTypes
<1>5. Len(c.room) = Len(out) + Len(Over(Rooms, l))
  BY DEF Fills
<1>6. Len(out \o m) = Len(out) + Len(m) /\ Len(out) \in Nat /\ Len(m) \in Nat
  BY TextJoined
<1>. HIDE DEF first, rest
<1>7. Len(first \o rest) = Len(first) + Len(rest) /\ Len(rest) \in Nat
  BY <1>3, <1>4, ConcatProperties, LenProperties
<1>8. Len(c.room) = (Len(out) + Len(m)) + Len(rest)
  BY <1>2, <1>4, <1>5, <1>6, <1>7
<1>9. Fills(c, out \o m, Tail(l))
  BY <1>6, <1>8 DEF Fills, rest
<1>10. Len(c.room) < SIZE => Len(out) + Len(m) < SIZE
  BY <1>6, <1>7, <1>8, SizeAssumption
<1>. QED
  BY <1>9, <1>10

(* It leaves those that outgrow the arrays, if it does not.                *)
LEMMA SparesOn ==
  ASSUME NEW c, NEW l \in Seq(Pieces), l # <<>>, Spares(c, l)
  PROVE  /\ ~Outgrows(Head(l)) => Spares(c, Tail(l))
         /\ ~c.outgrows => ~Outgrows(Head(l))
<1>1. Len(l) \in Nat \ {0} /\ DOMAIN l = 1 .. Len(l) /\ Head(l) = l[1]
  BY EmptySeq, LenProperties
<1>2. DOMAIN Tail(l) = 1 .. Len(l) - 1 /\ \A i \in 1 .. Len(l) - 1 : Tail(l)[i] = l[i+1]
  BY HeadTailProperties, LenProperties
<1>3. ~c.outgrows => ~Outgrows(Head(l))
  <2>1. 1 \in DOMAIN l
    BY <1>1
  <2>. QED
    BY <1>1, <2>1, Zenon DEF Spares
<1>4. ASSUME ~Outgrows(Head(l)), NEW i \in DOMAIN l, Outgrows(l[i])
      PROVE  \E j \in DOMAIN Tail(l) : Outgrows(Tail(l)[j])
  <2>1. i # 1
    BY <1>1, <1>4
  <2>2. i - 1 \in DOMAIN Tail(l) /\ (i - 1) + 1 = i
    BY <1>1, <1>2, <2>1
  <2>3. Tail(l)[i - 1] = l[i]
    BY <1>2, <2>2
  <2>. QED
    BY <1>4, <2>2, <2>3
<1>5. ASSUME NEW j \in DOMAIN Tail(l), Outgrows(Tail(l)[j])
      PROVE  \E i \in DOMAIN l : Outgrows(l[i])
  <2>1. j + 1 \in DOMAIN l /\ Tail(l)[j] = l[j+1]
    BY <1>1, <1>2
  <2>. QED
    BY <1>5, <2>1
<1>6. ~Outgrows(Head(l)) => Spares(c, Tail(l))
  BY <1>4, <1>5, Zenon DEF Spares
<1>. QED
  BY <1>3, <1>6

(* So when a piece has been printed the promise is kept for the others.    *)
LEMMA PromiseKept ==
  ASSUME NEW c, NEW l \in Seq(Pieces), l # <<>>, NEW out \in Text, NEW m \in Text,
         Promises(c, out, l), Plain(Head(l)) => MeansOf(Head(l)) = m, Len(m) = Takes(Head(l))
  PROVE  /\ ~Outgrows(Head(l)) => Promises(c, out \o m, Tail(l))
         /\ c.plain /\ Len(c.means) < SIZE => Len(out) + Len(m) < SIZE
         /\ Len(c.room) < SIZE => Len(out) + Len(m) < SIZE
         /\ c.plain \/ ~c.outgrows => ~Outgrows(Head(l))
<1>1. Prints(c, out, l) /\ Fills(c, out, l) /\ Spares(c, l)
  BY DEF Promises
<1>2. /\ Prints(c, out \o m, Tail(l))
      /\ c.plain /\ Len(c.means) < SIZE => Len(out) + Len(m) < SIZE
      /\ c.plain => Plain(Head(l))
  BY <1>1, PrintsOn
<1>3. /\ Fills(c, out \o m, Tail(l))
      /\ Len(c.room) < SIZE => Len(out) + Len(m) < SIZE
  BY <1>1, FillsOn
<1>4. /\ ~Outgrows(Head(l)) => Spares(c, Tail(l))
      /\ ~c.outgrows => ~Outgrows(Head(l))
  BY <1>1, SparesOn
<1>5. Plain(Head(l)) => ~Outgrows(Head(l))
  BY FirstPiece, PlainFits
<1>. QED
  BY <1>2, <1>3, <1>4, <1>5 DEF Promises

(* So a step that prints the first piece, or runs over the buffer, keeps   *)
(* the invariant.                                                          *)
LEMMA PieceDone ==
  ASSUME NEW l \in Seq(Pieces), l # <<>>, NEW out \in Text, NEW m \in Text,
         Promises(call, out, l), Plain(Head(l)) => MeansOf(Head(l)) = m, Len(m) = Takes(Head(l)),
         call' = call, format' = Over(Formats, Tail(l)), ap' = Over(Args, Tail(l)),
         padding' = 0, is_parsing' = FALSE,
         ~overrun' => /\ Len(out) + Len(m) <= SIZE
                      /\ str' = Filled(out \o m) /\ ptr' = Len(out) + Len(m),
         ~overrun' => ~Outgrows(Head(l)),
         ~Outgrows(Head(l)) /\ Len(out) + Len(m) < SIZE => ~overrun'
  PROVE  IInv'
<1>1. /\ ~Outgrows(Head(l)) => Promises(call, out \o m, Tail(l))
      /\ call.plain /\ Len(call.means) < SIZE => Len(out) + Len(m) < SIZE
      /\ Len(call.room) < SIZE => Len(out) + Len(m) < SIZE
      /\ call.plain \/ ~call.outgrows => ~Outgrows(Head(l))
  BY PromiseKept
<1>2. Tail(l) \in Seq(Pieces) /\ out \o m \in Text /\ Len(out \o m) = Len(out) + Len(m)
  BY FirstPiece, TextJoined
<1>3. ASSUME ~overrun' PROVE Accounted(call', format', ap', str', ptr', padding', is_parsing')
  <2>1. Awaits(Tail(l), format', ap', padding', is_parsing')
    BY DEF Awaits
  <2>2. str' = Filled(out \o m) /\ ptr' = Len(out \o m) /\ Len(out \o m) <= SIZE
    BY <1>2, <1>3
  <2>. DEFINE both == out \o m
  <2>3. both \in Text /\ str' = Filled(both) /\ ptr' = Len(both) /\ Len(both) <= SIZE
    BY <1>2, <2>2
  <2>4. Promises(call', both, Tail(l))
    BY <1>1, <1>3
  <2>. HIDE DEF both
  <2>. QED
    BY <1>2, <2>1, <2>3, <2>4, Zenon DEF Accounted
<1>4. KeepsToBuffer'
  BY <1>1 DEF KeepsToBuffer
<1>5. PlainKeeps'
  BY <1>1 DEF PlainKeeps
<1>. QED
  BY <1>3, <1>4, <1>5 DEF IInv, Accounts


-----------------------------------------------------------------------------
(* What comes next in a format and its arguments.                          *)
Starts(s, x, rest) == s # <<>> /\ Head(s) = x /\ Tail(s) = rest

(* What stands in front comes first.                                       *)
LEMMA StartsWith ==
  ASSUME NEW S, NEW x \in S, NEW rest \in Seq(S)
  PROVE  Starts(<<x>> \o rest, x, rest)
BY DEF Starts

StringNext(l, fmt, args, pad) ==
  /\ Head(l).kind = "string" /\ pad = 0
  /\ Starts(fmt, SMALL_S, Over(Formats, Tail(l)))
  /\ Starts(args, Head(l).chars, Over(Args, Tail(l)))

CharacterNext(l, fmt, args, pad) ==
  /\ Head(l).kind = "character" /\ pad = 0
  /\ Starts(fmt, SMALL_C, Over(Formats, Tail(l)))
  /\ Starts(args, Head(l).c, Over(Args, Tail(l)))

UnknownNext(l, fmt, args, pad) ==
  /\ Head(l).kind = "unknown" /\ pad = 0
  /\ Starts(fmt, Head(l).c, Over(Formats, Tail(l)))
  /\ args = Over(Args, Tail(l))

WidthNext(l, fmt, args, pad) ==
  /\ Head(l).kind = "number" /\ Head(l).width # <<>> /\ pad = 0
  /\ Starts(fmt, DIGIT0, Head(l).width \o (<<Head(l).conversion>> \o Over(Formats, Tail(l))))

NumberNext(l, fmt, args, pad) ==
  /\ Head(l).kind = "number" /\ pad = Digits(Head(l).width)
  /\ Starts(fmt, Head(l).conversion, Over(Formats, Tail(l)))
  /\ Starts(args, Head(l).value, Over(Args, Tail(l)))

(* No width is a width of zero.                                            *)
LEMMA DigitsOfNone == Digits(<<>>) = 0
<1>. DEFINE F == CHOOSE f : IsValues(<<>>, f)
<1>1. <<>> \in Seq(Numerals) /\ Len(<<>>) = 0
  BY EmptySeq
<1>2. \E f : IsValues(<<>>, f)
  BY <1>1, ValuesExist
<1>3. IsValues(<<>>, F)
  BY <1>2
<1>4. Digits(<<>>) = F[Len(<<>>)]
  BY DEF Digits, IsValues
<1>. HIDE DEF F
<1>5. F[0] = 0
  BY <1>1, <1>3 DEF IsValues
<1>. QED
  BY <1>1, <1>4, <1>5

(* From its start a list begins with a character or with a "%".            *)
LEMMA FromTheStart ==
  ASSUME NEW l \in Seq(Pieces), l # <<>>
  PROVE  /\ Head(l).kind = "literal" =>
              /\ Starts(Over(Formats, l), Head(l).c, Over(Formats, Tail(l)))
              /\ Over(Args, l) = Over(Args, Tail(l))
         /\ Head(l).kind # "literal" =>
              Starts(Over(Formats, l), PERCENT, Tail(FormatOf(Head(l))) \o Over(Formats, Tail(l)))
<1>. DEFINE p == Head(l)
            R == Over(Formats, Tail(l))
            A == Over(Args, Tail(l))
<1>1. /\ p \in Pieces /\ Tail(l) \in Seq(Pieces)
      /\ Over(Formats, l) = FormatOf(p) \o R /\ Over(Args, l) = ArgsOf(p) \o A
  BY FirstPiece
<1>2. R \in Seq(Nat) /\ A \in Seq(Arguments)
  BY <1>1, OverTypes
<1>. HIDE DEF p, R, A
<1>3. ASSUME p.kind = "literal"
      PROVE  Starts(Over(Formats, l), p.c, R) /\ Over(Args, l) = A
  <2>1. p.c \in Nat /\ FormatOf(p) = <<p.c>> /\ ArgsOf(p) = <<>>
    BY <1>1, <1>3, LiteralPiece
  <2>2. Starts(<<p.c>> \o R, p.c, R)
    BY <1>2, <2>1, StartsWith
  <2>3. <<>> \o A = A
    BY <1>2, ConcatEmptySeq
  <2>. QED
    BY <1>1, <2>1, <2>2, <2>3
<1>4. ASSUME p.kind # "literal"
      PROVE  Starts(Over(Formats, l), PERCENT, Tail(FormatOf(p)) \o R)
  <2>1. \E t \in Seq(Nat) : FormatOf(p) = <<PERCENT>> \o t
    <3>0. p.kind \in Kinds
      BY <1>1, PieceIs
    <3>1. CASE p.kind = "string"
      <4>1. <<SMALL_S>> \in Seq(Nat)
        BY DEF SMALL_S
      <4>. QED
        BY <1>1, <3>1, <4>1, StringPiece
    <3>2. CASE p.kind = "character"
      <4>1. <<SMALL_C>> \in Seq(Nat)
        BY DEF SMALL_C
      <4>. QED
        BY <1>1, <3>2, <4>1, CharacterPiece
    <3>3. CASE p.kind = "unknown"
      <4>1. p.c \in Nat /\ FormatOf(p) = <<PERCENT>> \o <<p.c>>
        BY <1>1, <3>3, UnknownPiece
      <4>2. <<p.c>> \in Seq(Nat)
        BY <4>1
      <4>. QED
        BY <4>1, <4>2
    <3>4. CASE p.kind = "number"
      <4>1. /\ Flag(p) \in Seq(Nat) /\ p.conversion \in Nat
            /\ FormatOf(p) = <<PERCENT>> \o (Flag(p) \o <<p.conversion>>)
        BY <1>1, <3>4, NumberPiece
      <4>2. <<p.conversion>> \in Seq(Nat)
        BY <4>1
      <4>3. Flag(p) \o <<p.conversion>> \in Seq(Nat)
        BY <4>1, <4>2, ConcatProperties
      <4>. QED
        BY <4>1, <4>3
    <3>. QED
      BY <1>4, <3>0, <3>1, <3>2, <3>3, <3>4 DEF Kinds
  <2>2. PICK t \in Seq(Nat) : FormatOf(p) = <<PERCENT>> \o t
    BY <2>1
  <2>3. PERCENT \in Nat
    BY DEF PERCENT
  <2>4. Tail(FormatOf(p)) = t
    BY <2>2, <2>3, StartsWith DEF Starts
  <2>5. <<PERCENT>> \in Seq(Nat)
    BY <2>3
  <2>6. (<<PERCENT>> \o t) \o R = <<PERCENT>> \o (t \o R)
    BY <1>2, <2>5, IntsAssociative, Zenon
  <2>7. t \o R \in Seq(Nat)
    BY <1>2, ConcatProperties
  <2>8. Starts(<<PERCENT>> \o (t \o R), PERCENT, t \o R)
    BY <2>3, <2>7, StartsWith
  <2>. QED
    BY <1>1, <2>2, <2>4, <2>6, <2>8
<1>. QED
  BY <1>3, <1>4 DEF p, R, A


(* Behind a "%" it begins with a conversion, or with a width.              *)
LEMMA BehindThePercent ==
  ASSUME NEW l \in Seq(Pieces), NEW fmt, NEW args, NEW pad, Awaits(l, fmt, args, pad, TRUE)
  PROVE  /\ l # <<>>
         /\ \/ StringNext(l, fmt, args, pad)
            \/ CharacterNext(l, fmt, args, pad)
            \/ UnknownNext(l, fmt, args, pad)
            \/ WidthNext(l, fmt, args, pad)
            \/ NumberNext(l, fmt, args, pad)
<1>. DEFINE p == Head(l)
            R == Over(Formats, Tail(l))
            A == Over(Args, Tail(l))
<1>0. l # <<>>
  BY DEF Awaits
<1>1. /\ p \in Pieces /\ Tail(l) \in Seq(Pieces) /\ Over(Args, l) = ArgsOf(p) \o A
  BY <1>0, FirstPiece
<1>2. R \in Seq(Nat) /\ A \in Seq(Arguments)
  BY <1>1, OverTypes
<1>3. /\ args = ArgsOf(p) \o A
      /\ \/ pad = 0 /\ p.kind # "literal" /\ fmt = Tail(FormatOf(p)) \o R
         \/ /\ p.kind = "number" /\ p.width # <<>> /\ pad = Digits(p.width)
            /\ fmt = <<p.conversion>> \o R
  BY <1>1 DEF Awaits
<1>4. p.kind \in Kinds
  BY <1>1, PieceIs
<1>5. PERCENT \in Nat
  BY DEF PERCENT
<1>. HIDE DEF p, R, A
<1>6. \A t \in Seq(Nat) : FormatOf(p) = <<PERCENT>> \o t => Tail(FormatOf(p)) = t
  BY <1>5, StartsWith DEF Starts
<1>7. CASE p.kind = "string"
  <2>1. SMALL_S \in Nat
    BY DEF SMALL_S
  <2>2. <<SMALL_S>> \in Seq(Nat)
    BY <2>1
  <2>3. /\ FormatOf(p) = <<PERCENT>> \o <<SMALL_S>> /\ ArgsOf(p) = <<p.chars>>
        /\ p.chars \in Seq(ASCII)
    BY <1>1, <1>7, StringPiece
  <2>4. pad = 0 /\ fmt = <<SMALL_S>> \o R
    BY <1>3, <1>6, <1>7, <2>2, <2>3
  <2>5. p.chars \in Arguments
    BY <2>3 DEF Arguments
  <2>6. Starts(fmt, SMALL_S, R)
    BY <1>2, <2>1, <2>4, StartsWith
  <2>7. Starts(args, p.chars, A)
    BY <1>2, <1>3, <2>3, <2>5, StartsWith
  <2>. QED
    BY <1>0, <1>7, <2>4, <2>6, <2>7 DEF StringNext, p, R, A
<1>8. CASE p.kind = "character"
  <2>1. SMALL_C \in Nat
    BY DEF SMALL_C
  <2>2. <<SMALL_C>> \in Seq(Nat)
    BY <2>1
  <2>3. FormatOf(p) = <<PERCENT>> \o <<SMALL_C>> /\ ArgsOf(p) = <<p.c>> /\ p.c \in Nat
    BY <1>1, <1>8, CharacterPiece
  <2>4. pad = 0 /\ fmt = <<SMALL_C>> \o R
    BY <1>3, <1>6, <1>8, <2>2, <2>3
  <2>5. p.c \in Arguments
    BY <2>3 DEF Arguments
  <2>6. Starts(fmt, SMALL_C, R)
    BY <1>2, <2>1, <2>4, StartsWith
  <2>7. Starts(args, p.c, A)
    BY <1>2, <1>3, <2>3, <2>5, StartsWith
  <2>. QED
    BY <1>0, <1>8, <2>4, <2>6, <2>7 DEF CharacterNext, p, R, A
<1>9. CASE p.kind = "unknown"
  <2>1. FormatOf(p) = <<PERCENT>> \o <<p.c>> /\ ArgsOf(p) = <<>> /\ p.c \in Nat
    BY <1>1, <1>9, UnknownPiece
  <2>2. <<p.c>> \in Seq(Nat)
    BY <2>1
  <2>3. pad = 0 /\ fmt = <<p.c>> \o R
    BY <1>3, <1>6, <1>9, <2>1, <2>2
  <2>4. Starts(fmt, p.c, R)
    BY <1>2, <2>1, <2>3, StartsWith
  <2>5. args = A
    BY <1>2, <1>3, <2>1, ConcatEmptySeq
  <2>. QED
    BY <1>0, <1>9, <2>3, <2>4, <2>5 DEF UnknownNext, p, R, A
<1>10. CASE p.kind = "number"
  <2>. DEFINE conv == <<p.conversion>>
  <2>1. /\ p.conversion \in Nat /\ p.width \in Seq(Nat) /\ Flag(p) \in Seq(Nat)
        /\ FormatOf(p) = <<PERCENT>> \o (Flag(p) \o conv)
        /\ ArgsOf(p) = <<p.value>> /\ p.value \in Int
    BY <1>1, <1>10, NumberPiece
  <2>2. conv \in Seq(Nat)
    BY <2>1
  <2>3. Starts(conv \o R, p.conversion, R)
    BY <1>2, <2>1, StartsWith
  <2>4. p.value \in Arguments
    BY <2>1 DEF Arguments
  <2>5. Starts(args, p.value, A)
    BY <1>2, <1>3, <2>1, <2>4, StartsWith
  <2>. HIDE DEF conv
  <2>6. Flag(p) \o conv \in Seq(Nat)
    BY <2>1, <2>2, ConcatProperties
  <2>7. Tail(FormatOf(p)) = Flag(p) \o conv
    BY <1>6, <2>1, <2>6
  <2>8. CASE pad = Digits(p.width) /\ fmt = conv \o R
    BY <1>0, <1>10, <2>3, <2>5, <2>8 DEF NumberNext, p, R, A
  <2>9. CASE pad = 0 /\ fmt = (Flag(p) \o conv) \o R
    <3>1. CASE p.width = <<>>
      <4>1. Flag(p) \o conv = conv
        BY <2>2, <3>1, ConcatEmptySeq DEF Flag
      <4>2. pad = Digits(p.width)
        BY <2>9, <3>1, DigitsOfNone
      <4>. QED
        BY <2>8, <2>9, <4>1, <4>2
    <3>2. CASE p.width # <<>>
      <4>. DEFINE zero0 == <<DIGIT0>>
                  w == p.width
      <4>1. Flag(p) = zero0 \o w
        BY <3>2 DEF Flag
      <4>2. zero0 \in Seq(Nat) /\ DIGIT0 \in Nat
        BY DEF DIGIT0
      <4>3. w \in Seq(Nat)
        BY <2>1
      <4>. HIDE DEF zero0, w
      <4>4. w \o conv \in Seq(Nat) /\ conv \o R \in Seq(Nat)
        BY <1>2, <2>2, <4>3, ConcatProperties
      <4>5. w \o (conv \o R) \in Seq(Nat)
        BY <4>3, <4>4, ConcatProperties
      <4>6. (zero0 \o w) \o conv = zero0 \o (w \o conv)
        BY <2>2, <4>2, <4>3, IntsAssociative, ZenonT(30)
      <4>7. (zero0 \o (w \o conv)) \o R = zero0 \o ((w \o conv) \o R)
        BY <1>2, <4>2, <4>4, IntsAssociative, ZenonT(30)
      <4>8. (w \o conv) \o R = w \o (conv \o R)
        BY <1>2, <2>2, <4>3, IntsAssociative, ZenonT(30)
      <4>9. fmt = <<DIGIT0>> \o (w \o (conv \o R))
        BY <2>9, <4>1, <4>6, <4>7, <4>8 DEF zero0
      <4>10. Starts(fmt, DIGIT0, w \o (conv \o R))
        BY <4>2, <4>5, <4>9, StartsWith
      <4>. QED
        BY <1>0, <1>10, <2>9, <3>2, <4>10 DEF WidthNext, p, R, w, conv
    <3>. QED
      BY <3>1, <3>2
  <2>. QED
    BY <1>3, <2>7, <2>8, <2>9 DEF conv
<1>. QED
  BY <1>3, <1>4, <1>7, <1>8, <1>9, <1>10 DEF Kinds


(* What stands there tells which.                                          *)
LEMMA ByItsMark ==
  ASSUME NEW l \in Seq(Pieces), NEW fmt, NEW args, NEW pad, Awaits(l, fmt, args, pad, TRUE)
  PROVE  /\ l # <<>> /\ fmt # <<>> /\ Head(fmt) # PERCENT
         /\ Head(fmt) = SMALL_S => StringNext(l, fmt, args, pad)
         /\ Head(fmt) = SMALL_C => CharacterNext(l, fmt, args, pad)
         /\ Head(fmt) = DIGIT0 => WidthNext(l, fmt, args, pad)
         /\ Head(fmt) \in Numbers => NumberNext(l, fmt, args, pad)
         /\ Head(fmt) \notin {DIGIT0, SMALL_S, SMALL_C} \cup Numbers
              => UnknownNext(l, fmt, args, pad)
<1>. DEFINE marks == {PERCENT, DIGIT0, SMALL_S, SMALL_C}
<1>1. l # <<>> /\ Head(l) \in Pieces
  BY BehindThePercent, FirstPiece
<1>2. /\ PERCENT \notin {DIGIT0, SMALL_S, SMALL_C} \cup Numbers
      /\ DIGIT0 \notin {SMALL_S, SMALL_C} \cup Numbers
      /\ SMALL_S \notin {SMALL_C} \cup Numbers
      /\ SMALL_C \notin Numbers
  BY DEF PERCENT, DIGIT0, SMALL_S, SMALL_C, Numbers, SMALL_B, SMALL_D, SMALL_X
<1>3. CASE StringNext(l, fmt, args, pad)
  <2>1. fmt # <<>> /\ Head(fmt) = SMALL_S
    BY <1>3 DEF StringNext, Starts
  <2>. QED
    BY <1>1, <1>2, <1>3, <2>1
<1>4. CASE CharacterNext(l, fmt, args, pad)
  <2>1. fmt # <<>> /\ Head(fmt) = SMALL_C
    BY <1>4 DEF CharacterNext, Starts
  <2>. QED
    BY <1>1, <1>2, <1>4, <2>1
<1>5. CASE UnknownNext(l, fmt, args, pad)
  <2>1. fmt # <<>> /\ Head(fmt) = Head(l).c /\ Head(l).kind = "unknown"
    BY <1>5 DEF UnknownNext, Starts
  <2>2. Head(fmt) # PERCENT /\ Head(fmt) \notin {DIGIT0, SMALL_S, SMALL_C} \cup Numbers
    BY <1>1, <2>1, UnknownPiece
  <2>. QED
    BY <1>1, <1>5, <2>1, <2>2
<1>6. CASE WidthNext(l, fmt, args, pad)
  <2>1. fmt # <<>> /\ Head(fmt) = DIGIT0
    BY <1>6 DEF WidthNext, Starts
  <2>. QED
    BY <1>1, <1>2, <1>6, <2>1
<1>7. CASE NumberNext(l, fmt, args, pad)
  <2>1. fmt # <<>> /\ Head(fmt) = Head(l).conversion /\ Head(l).kind = "number"
    BY <1>7 DEF NumberNext, Starts
  <2>2. Head(fmt) \in Numbers
    BY <1>1, <2>1, NumberPiece
  <2>. QED
    BY <1>1, <1>2, <1>7, <2>1, <2>2
<1>. QED
  BY <1>3, <1>4, <1>5, <1>6, <1>7, BehindThePercent

-----------------------------------------------------------------------------
(* A step that stores nothing keeps the invariant, if it waits for the     *)
(* same pieces in another way.                                             *)
LEMMA NothingStored ==
  ASSUME NEW l \in Seq(Pieces), NEW out \in Text, Len(out) <= SIZE,
         str' = Filled(out), ptr' = Len(out), ~overrun',
         Awaits(l, format', ap', padding', is_parsing'), Promises(call', out, l)
  PROVE  IInv'
<1>1. Accounted(call', format', ap', str', ptr', padding', is_parsing')
  BY Zenon DEF Accounted
<1>. QED
  BY <1>1 DEF IInv, Accounts, KeepsToBuffer, PlainKeeps

(* The buffer is cleared first, and the pieces of the call are to come.    *)
LEMMA Initially == Init => IInv
<1>. SUFFICES ASSUME Init PROVE IInv
  OBVIOUS
<1>1. PICK l \in Calls : call = Call(l)
  BY DEF Init
<1>2. l \in Seq(Pieces) /\ \A i \in DOMAIN l : l[i] \in Pieces
  <2>1. l \in Seq(Pieces)
    BY CallsAssumption
  <2>2. DOMAIN l = 1 .. Len(l) /\ \A i \in 1 .. Len(l) : l[i] \in Pieces
    BY <2>1, LenProperties, ElementOfSeq
  <2>. QED
    BY <2>1, <2>2
<1>3. /\ [i \in DOMAIN l |-> FormatOf(l[i])] = [i \in DOMAIN l |-> Formats[l[i]]]
      /\ [i \in DOMAIN l |-> ArgsOf(l[i])] = [i \in DOMAIN l |-> Args[l[i]]]
      /\ [i \in DOMAIN l |-> MeansOf(l[i])] = [i \in DOMAIN l |-> Meanings[l[i]]]
      /\ [i \in DOMAIN l |-> RoomOf(l[i])] = [i \in DOMAIN l |-> Rooms[l[i]]]
  BY <1>2 DEF Formats, Args, Meanings, Rooms
<1>4. /\ call.format = Over(Formats, l) /\ call.args = Over(Args, l)
      /\ call.means = Over(Meanings, l) /\ call.room = Over(Rooms, l)
  BY <1>1, <1>3 DEF Call, Over
<1>5. call.plain => \A i \in DOMAIN l : Plain(l[i])
  BY <1>1 DEF Call
<1>. DEFINE out == <<>>
<1>6. out \in Text /\ Len(out) = 0 /\ Len(out) <= SIZE
  BY EmptySeq, SizeAssumption DEF Text
<1>7. str = Filled(out)
  <2>1. \A k \in 0 .. SIZE - 1 : ~(k < Len(out))
    BY <1>6, SizeAssumption
  <2>2. str = [k \in 0 .. SIZE - 1 |-> NUL]
    BY DEF Init, Cleared
  <2>. QED
    BY <2>1, <2>2 DEF Filled
<1>8. \A s \in Seq(Int) : out \o s = s
  BY ConcatEmptySeq
<1>9. Awaits(l, format, ap, padding, is_parsing)
  BY <1>4 DEF Awaits, Init
<1>10. Over(Meanings, l) \in Seq(Int)
  BY <1>2, OverTypes
<1>. HIDE DEF out
<1>11. Promises(call, out, l)
  <2>1. Prints(call, out, l)
    BY <1>4, <1>5, <1>8, <1>10 DEF Prints
  <2>2. Over(Rooms, l) \in Seq(Nat)
    BY <1>2, OverPieces DEF OverIs
  <2>3. Len(Over(Rooms, l)) \in Nat
    BY <2>2, LenProperties
  <2>4. Fills(call, out, l)
    BY <1>4, <1>6, <2>3 DEF Fills
  <2>5. Spares(call, l)
    BY <1>1, Zenon DEF Call, Spares
  <2>. QED
    BY <2>1, <2>4, <2>5 DEF Promises
<1>12. Accounted(call, format, ap, str, ptr, padding, is_parsing)
  <2>1. ptr = Len(out)
    BY <1>6 DEF Init
  <2>. QED
    BY <1>2, <1>6, <1>7, <1>9, <1>11, <2>1, Zenon DEF Accounted
<1>. QED
  BY <1>12 DEF IInv, Accounts, KeepsToBuffer, PlainKeeps, Init

(* "%": the pieces are the same, and the first of them is a conversion.    *)
LEMMA PercentKeeps == IInv /\ percent => IInv'
<1>. SUFFICES ASSUME IInv, percent PROVE IInv'
  OBVIOUS
<1>1. PICK l \in Seq(Pieces), out \in Text :
        /\ str = Filled(out) /\ ptr = Len(out) /\ Len(out) <= SIZE
        /\ Awaits(l, format, ap, padding, is_parsing)
        /\ Promises(call, out, l)
  BY DEF IInv, Accounts, Accounted, percent, Turns
<1>2. ~is_parsing
  <2>1. is_parsing => Awaits(l, format, ap, padding, TRUE)
    BY <1>1 DEF Awaits
  <2>. QED
    BY <2>1, ByItsMark DEF percent
<1>3. padding = 0 /\ format = Over(Formats, l) /\ ap = Over(Args, l)
  BY <1>1, <1>2 DEF Awaits
<1>4. format # <<>> /\ Head(format) = PERCENT
  BY DEF percent, Turns
<1>5. l # <<>>
  BY <1>3, <1>4, OverTypes
<1>6. Head(l) \in Pieces
  BY <1>5, FirstPiece
<1>7. Head(l).kind # "literal"
  <2>1. Head(l).kind = "literal" => Head(format) = Head(l).c
    BY <1>3, <1>5, FromTheStart DEF Starts
  <2>. QED
    BY <1>4, <1>6, <2>1, LiteralPiece
<1>8. Tail(format) = Tail(FormatOf(Head(l))) \o Over(Formats, Tail(l))
  BY <1>3, <1>5, <1>7, FromTheStart DEF Starts
<1>9. Awaits(l, format', ap', padding', is_parsing')
  BY <1>3, <1>5, <1>7, <1>8 DEF Awaits, percent
<1>10. str' = Filled(out) /\ ptr' = Len(out) /\ ~overrun' /\ Promises(call', out, l)
  BY <1>1 DEF percent, Turns
<1>. QED
  BY <1>1, <1>9, <1>10, NothingStored


(* A character at ptr is a character behind the text.                      *)
LEMMA PutCharIs ==
  ASSUME NEW out \in Text, NEW c \in Nat \ {NUL}, str = Filled(out), ptr = Len(out), PutChar(c)
  PROVE  /\ <<c>> \in Text /\ Len(<<c>>) = 1
         /\ ~overrun' => /\ Len(out) + Len(<<c>>) <= SIZE
                         /\ str' = Filled(out \o <<c>>) /\ ptr' = Len(out) + Len(<<c>>)
         /\ Len(out) + Len(<<c>>) < SIZE => ~overrun'
<1>. DEFINE m == <<c>>
<1>1. m \in Text /\ Len(m) = 1
  BY DEF Text
<1>2. Len(out) \in Nat /\ SIZE \in Nat
  BY LenProperties, SizeAssumption DEF Text
<1>3. str' = Stored(Filled(out), Len(out), m) /\ ptr' = Len(out) + 1
  BY DEF PutChar
<1>4. overrun' <=> Len(out) >= SIZE
  BY DEF PutChar
<1>. HIDE DEF m
<1>5. ASSUME ~overrun' PROVE Len(out) + Len(m) <= SIZE
  BY <1>1, <1>2, <1>5, <1>4
<1>6. ASSUME ~overrun' PROVE str' = Filled(out \o m)
  BY <1>1, <1>3, <1>5, <1>6, StoredBehind
<1>7. Len(out) + Len(m) < SIZE => ~overrun'
  BY <1>1, <1>2, <1>4
<1>. QED
  BY <1>1, <1>3, <1>5, <1>6, <1>7 DEF m

(* Text: a literal character is stored.                                    *)
LEMMA TextKeeps == IInv /\ text => IInv'
<1>. SUFFICES ASSUME IInv, text PROVE IInv'
  OBVIOUS
<1>1. PICK l \in Seq(Pieces), out \in Text :
        /\ str = Filled(out) /\ ptr = Len(out) /\ Len(out) <= SIZE
        /\ Awaits(l, format, ap, padding, is_parsing)
        /\ Promises(call, out, l)
  BY DEF IInv, Accounts, Accounted, text, Turns
<1>2. format = Over(Formats, l) /\ ap = Over(Args, l) /\ padding = 0
  BY <1>1 DEF Awaits, text
<1>3. format # <<>> /\ Head(format) # PERCENT
  BY DEF text, Turns
<1>4. l # <<>>
  BY <1>2, <1>3, OverTypes
<1>5. Head(l).kind = "literal"
  BY <1>2, <1>3, <1>4, FromTheStart DEF Starts
<1>. DEFINE c == Head(l).c
<1>6. /\ Head(format) = c /\ Tail(format) = Over(Formats, Tail(l)) /\ ap = Over(Args, Tail(l))
  BY <1>2, <1>4, <1>5, FromTheStart DEF Starts
<1>7. Head(l) \in Pieces
  BY <1>4, FirstPiece
<1>8. c \in Nat \ {NUL} /\ MeansOf(Head(l)) = <<c>>
  BY <1>5, <1>7, LiteralPiece
<1>9. PutChar(c)
  BY <1>6 DEF text
<1>. HIDE DEF c
<1>10. /\ <<c>> \in Text
       /\ ~overrun' => /\ Len(out) + Len(<<c>>) <= SIZE
                       /\ str' = Filled(out \o <<c>>) /\ ptr' = Len(out) + Len(<<c>>)
       /\ Len(out) + Len(<<c>>) < SIZE => ~overrun'
  BY <1>1, <1>8, <1>9, PutCharIs
<1>. DEFINE m == <<c>>
<1>11. m \in Text /\ (Plain(Head(l)) => MeansOf(Head(l)) = m) /\ Len(m) = Takes(Head(l))
  <2>1. Takes(Head(l)) = 1
    BY <1>5, <1>7, PieceTakes
  <2>. QED
    BY <1>8, <1>10, <2>1
<1>12. /\ call' = call /\ format' = Over(Formats, Tail(l)) /\ ap' = Over(Args, Tail(l))
       /\ padding' = 0 /\ is_parsing' = FALSE
  <2>1. is_parsing = FALSE
    BY DEF text
  <2>. QED
    BY <1>2, <1>6, <2>1 DEF text
<1>13. /\ ~overrun' => /\ Len(out) + Len(m) <= SIZE
                       /\ str' = Filled(out \o m) /\ ptr' = Len(out) + Len(m)
       /\ Len(out) + Len(m) < SIZE => ~overrun'
  BY <1>10
<1>14. ~Outgrows(Head(l))
  BY <1>5, <1>7, PieceTakes
<1>. HIDE DEF m
<1>. QED
  BY <1>1, <1>4, <1>11, <1>12, <1>13, <1>14, PieceDone


(* Behind a "%" there is the text so far, and pieces that wait for it.     *)
LEMMA Converting ==
  ASSUME IInv, Converts
  PROVE  \E l \in Seq(Pieces), out \in Text :
           /\ str = Filled(out) /\ ptr = Len(out) /\ Len(out) <= SIZE
           /\ Awaits(l, format, ap, padding, TRUE)
           /\ Promises(call, out, l)
<1>1. PICK l \in Seq(Pieces), out \in Text :
        /\ str = Filled(out) /\ ptr = Len(out) /\ Len(out) <= SIZE
        /\ Awaits(l, format, ap, padding, is_parsing)
        /\ Promises(call, out, l)
  BY DEF IInv, Accounts, Accounted, Converts, Turns
<1>2. Awaits(l, format, ap, padding, TRUE)
  BY <1>1 DEF Awaits, Converts
<1>. QED
  BY <1>1, <1>2

(* %c: the argument is stored.                                             *)
LEMMA CharacterKeeps == IInv /\ character => IInv'
<1>. SUFFICES ASSUME IInv, character PROVE IInv'
  OBVIOUS
<1>1. PICK l \in Seq(Pieces), out \in Text :
        /\ str = Filled(out) /\ ptr = Len(out) /\ Len(out) <= SIZE
        /\ Awaits(l, format, ap, padding, TRUE)
        /\ Promises(call, out, l)
  BY Converting DEF character
<1>2. l # <<>> /\ CharacterNext(l, format, ap, padding)
  BY <1>1, ByItsMark DEF character
<1>. DEFINE c == Head(l).c
            m == <<c>>
<1>3. Head(l) \in Pieces
  BY <1>2, FirstPiece
<1>4. c \in Nat \ {NUL} /\ MeansOf(Head(l)) = m
  BY <1>2, <1>3, CharacterPiece DEF CharacterNext
<1>5. /\ padding = 0 /\ Tail(format) = Over(Formats, Tail(l))
      /\ Head(ap) = c /\ Tail(ap) = Over(Args, Tail(l))
  BY <1>2 DEF CharacterNext, Starts
<1>6. PutChar(c)
  BY <1>5 DEF character
<1>7. /\ call' = call /\ format' = Over(Formats, Tail(l)) /\ ap' = Over(Args, Tail(l))
      /\ padding' = 0 /\ is_parsing' = FALSE
  BY <1>5 DEF character
<1>. HIDE DEF c
<1>8. /\ m \in Text
      /\ ~overrun' => /\ Len(out) + Len(m) <= SIZE
                      /\ str' = Filled(out \o m) /\ ptr' = Len(out) + Len(m)
      /\ Len(out) + Len(m) < SIZE => ~overrun'
  BY <1>1, <1>4, <1>6, PutCharIs
<1>9. Len(m) = Takes(Head(l)) /\ ~Outgrows(Head(l))
  <2>1. Len(m) = 1
    OBVIOUS
  <2>. HIDE DEF m
  <2>. QED
    BY <1>2, <1>3, <2>1, PieceTakes DEF CharacterNext
<1>. HIDE DEF m
<1>. QED
  BY <1>1, <1>2, <1>4, <1>7, <1>8, <1>9, PieceDone

(* Any other character behind the "%": it prints nothing, and no call with *)
(* one is plain.                                                           *)
LEMMA UnknownKeeps == IInv /\ unknown => IInv'
<1>. SUFFICES ASSUME IInv, unknown PROVE IInv'
  OBVIOUS
<1>1. PICK l \in Seq(Pieces), out \in Text :
        /\ str = Filled(out) /\ ptr = Len(out) /\ Len(out) <= SIZE
        /\ Awaits(l, format, ap, padding, TRUE)
        /\ Promises(call, out, l)
  BY Converting DEF unknown
<1>2. l # <<>> /\ UnknownNext(l, format, ap, padding)
  <2>1. Head(format) \notin {DIGIT0, SMALL_S, SMALL_C} \cup Numbers
    BY BaseIs DEF unknown
  <2>. QED
    BY <1>1, <2>1, ByItsMark
<1>3. Head(l) \in Pieces
  BY <1>2, FirstPiece
<1>4. ~Plain(Head(l))
  BY <1>2, <1>3, UnknownPiece DEF UnknownNext
<1>5. padding = 0 /\ Tail(format) = Over(Formats, Tail(l)) /\ ap = Over(Args, Tail(l))
  BY <1>2 DEF UnknownNext, Starts
<1>6. /\ call' = call /\ format' = Over(Formats, Tail(l)) /\ ap' = Over(Args, Tail(l))
      /\ padding' = 0 /\ is_parsing' = FALSE
  BY <1>5 DEF unknown
<1>. DEFINE m == <<>>
<1>7. m \in Text /\ Len(m) = 0 /\ out \o m = out
  BY EmptySeq, ConcatEmptySeq DEF Text
<1>8. str' = str /\ ptr' = ptr /\ ~overrun'
  BY DEF unknown, Converts, Turns
<1>. HIDE DEF m
<1>9. Len(out) + Len(m) = Len(out)
  <2>1. Len(out) \in Nat
    BY LenProperties DEF Text
  <2>. QED
    BY <1>7, <2>1
<1>10. Len(m) = Takes(Head(l)) /\ ~Outgrows(Head(l))
  BY <1>2, <1>3, <1>7, PieceTakes DEF UnknownNext
<1>. QED
  BY <1>1, <1>2, <1>4, <1>6, <1>7, <1>8, <1>9, <1>10, PieceDone

(* %s: the string goes behind the text.                                    *)
LEMMA StringKeeps == IInv /\ string => IInv'
<1>. SUFFICES ASSUME IInv, string PROVE IInv'
  OBVIOUS
<1>1. PICK l \in Seq(Pieces), out \in Text :
        /\ str = Filled(out) /\ ptr = Len(out) /\ Len(out) <= SIZE
        /\ Awaits(l, format, ap, padding, TRUE)
        /\ Promises(call, out, l)
  BY Converting DEF string
<1>2. l # <<>> /\ StringNext(l, format, ap, padding)
  BY <1>1, ByItsMark DEF string
<1>. DEFINE m == Head(l).chars
<1>3. Head(l) \in Pieces
  BY <1>2, FirstPiece
<1>4. m \in Text /\ MeansOf(Head(l)) = m /\ Len(m) = Takes(Head(l)) /\ ~Outgrows(Head(l))
  BY <1>2, <1>3, StringPiece, PieceTakes DEF StringNext
<1>5. /\ padding = 0 /\ Tail(format) = Over(Formats, Tail(l))
      /\ Head(ap) = m /\ Tail(ap) = Over(Args, Tail(l))
  BY <1>2 DEF StringNext, Starts
<1>. HIDE DEF m
<1>6. /\ call' = call /\ format' = Over(Formats, Tail(l)) /\ ap' = Over(Args, Tail(l))
      /\ padding' = 0 /\ is_parsing' = FALSE
  BY <1>5 DEF string
<1>7. str' = strcat(Filled(out), m) /\ ptr' = Len(out) + Len(m)
  BY <1>1, <1>5 DEF string
<1>8. overrun' <=> Len(out) + Len(m) >= SIZE
  <2>1. strlen(str) = Len(out)
    BY <1>1, CharsOfFilled
  <2>2. overrun' <=> strlen(str) + Len(m) >= SIZE
    BY <1>5 DEF string
  <2>. QED
    BY <2>1, <2>2
<1>9. Len(out) + Len(m) \in Nat /\ SIZE \in Nat
  <2>1. Len(out) \in Nat /\ Len(m) \in Nat
    BY <1>4, LenProperties DEF Text
  <2>. QED
    BY <2>1, SizeAssumption
<1>10. ~overrun' => Len(out) + Len(m) < SIZE /\ Len(out) + Len(m) <= SIZE
  BY <1>8, <1>9
<1>11. ~overrun' => str' = Filled(out \o m)
  BY <1>4, <1>7, <1>10, StoredBehind
<1>12. Len(out) + Len(m) < SIZE => ~overrun'
  BY <1>8, <1>9
<1>. QED
  BY <1>1, <1>2, <1>4, <1>6, <1>7, <1>10, <1>11, <1>12, PieceDone


(* A part of a sequence of numbers.                                        *)
LEMMA PartIs ==
  ASSUME NEW s, NEW m \in Int, NEW n \in Int, \A i \in m .. n : s[i] \in Nat
  PROVE  /\ SubSeq(s, m, n) \in Seq(Nat)
         /\ Len(SubSeq(s, m, n)) = IF m <= n THEN n - m + 1 ELSE 0
         /\ \A i \in 1 .. n - m + 1 : SubSeq(s, m, n)[i] = s[m + i - 1]
<1>. DEFINE S == Nat
<1>1. \A i \in m .. n : s[i] \in S
  OBVIOUS
<1>. HIDE DEF S
<1>2. /\ SubSeq(s, m, n) \in Seq(S)
      /\ Len(SubSeq(s, m, n)) = IF m <= n THEN n - m + 1 ELSE 0
      /\ \A i \in 1 .. n - m + 1 : SubSeq(s, m, n)[i] = s[m + i - 1]
  BY <1>1, SubSeqProperties
<1>. QED
  BY <1>2 DEF S

(* The loop of "%0" takes the width w and leaves t.                        *)
TakesWidth(rest, w, t) ==
  /\ Max({0} \cup {k \in DOMAIN rest : \A i \in 1 .. k : rest[i] \in Numerals}) = Len(w)
  /\ SubSeq(rest, 1, Len(w)) = w
  /\ SubSeq(rest, Len(w) + 1, Len(rest)) = t

(* The numerals in front of a character that is none are all it takes.     *)
LEMMA WidthEnds ==
  ASSUME NEW w \in Seq(Numerals), NEW c \in Nat \ Numerals, NEW R \in Seq(Nat), NEW rest,
         rest = w \o (<<c>> \o R)
  PROVE  TakesWidth(rest, w, <<c>> \o R)
<1>. DEFINE n == Len(w)
            z == <<c>>
            t == z \o R
            ends == {0} \cup {k \in DOMAIN rest : \A i \in 1 .. k : rest[i] \in Numerals}
<1>1. w \in Seq(Nat) /\ n \in Nat
  <2>1. Numerals \subseteq Nat
    BY DEF Numerals, DIGIT0
  <2>. QED
    BY <2>1, SeqMonotonic, LenProperties
<1>2. z \in Seq(Nat) /\ Len(z) = 1 /\ z[1] = c
  OBVIOUS
<1>. HIDE DEF z
<1>3. t \in Seq(Nat) /\ Len(t) = 1 + Len(R) /\ t[1] = c /\ Len(R) \in Nat
  <2>1. /\ z \o R \in Seq(Nat) /\ Len(z \o R) = Len(z) + Len(R)
        /\ \A i \in 1 .. Len(z) + Len(R) : (z \o R)[i] = IF i <= Len(z) THEN z[i] ELSE R[i - Len(z)]
    BY <1>2, ConcatProperties
  <2>2. Len(R) \in Nat
    BY LenProperties
  <2>3. 1 \in 1 .. Len(z) + Len(R) /\ 1 <= Len(z)
    BY <1>2, <2>2
  <2>. QED
    BY <1>2, <2>1, <2>2, <2>3
<1>. HIDE DEF t
<1>4. /\ rest \in Seq(Nat) /\ Len(rest) = n + Len(t)
      /\ \A i \in 1 .. n + Len(t) : rest[i] = IF i <= n THEN w[i] ELSE t[i - n]
  BY <1>1, <1>3, ConcatProperties DEF t, z
<1>5. DOMAIN rest = 1 .. n + Len(t) /\ Len(t) \in Nat \ {0}
  BY <1>3, <1>4, LenProperties
<1>6. /\ \A i \in 1 .. n : rest[i] \in Numerals
      /\ rest[n+1] \notin Numerals
  <2>1. \A i \in 1 .. n : w[i] \in Numerals
    BY ElementOfSeq
  <2>2. \A i \in 1 .. n : i \in 1 .. n + Len(t) /\ i <= n
    BY <1>1, <1>5
  <2>3. n + 1 \in 1 .. n + Len(t) /\ ~(n + 1 <= n) /\ (n + 1) - n = 1
    BY <1>1, <1>5
  <2>. QED
    BY <1>3, <1>4, <2>1, <2>2, <2>3
<1>. HIDE DEF n
<1>7. Max(ends) = n
  <2>1. ends \in SUBSET Int
    BY <1>1, <1>5
  <2>2. n \in ends
    <3>1. CASE n = 0
      BY <3>1
    <3>2. CASE n # 0
      <4>1. n \in 1 .. n + Len(t)
        BY <1>1, <1>5, <3>2
      <4>. QED
        BY <1>5, <1>6, <4>1
    <3>. QED
      BY <3>1, <3>2
  <2>3. ASSUME NEW k \in ends PROVE k <= n
    <3>1. CASE k = 0
      BY <1>1, <3>1
    <3>2. CASE k \in 1 .. n + Len(t) /\ \A i \in 1 .. k : rest[i] \in Numerals
      <4>1. n + 1 \notin 1 .. k
        BY <1>6, <3>2
      <4>. QED
        BY <1>1, <1>5, <3>2, <4>1
    <3>. QED
      BY <1>5, <3>1, <3>2
  <2>. HIDE DEF ends
  <2>. QED
    BY <2>1, <2>2, <2>3, MaxIs
<1>8. SubSeq(rest, 1, n) = w
  <2>. DEFINE first == 1
              s == SubSeq(rest, first, n)
  <2>1. \A i \in first .. n : rest[i] \in Nat
    <3>1. \A i \in first .. n : i \in 1 .. Len(rest)
      BY <1>1, <1>4, <1>5
    <3>. QED
      BY <1>4, <3>1, ElementOfSeq
  <2>2. first = 1
    OBVIOUS
  <2>3. first \in Int /\ n \in Int
    BY <1>1
  <2>. HIDE DEF first
  <2>4. /\ s \in Seq(Nat) /\ Len(s) = (IF first <= n THEN n - first + 1 ELSE 0)
        /\ \A i \in 1 .. n - first + 1 : s[i] = rest[first + i - 1]
    BY <2>1, <2>3, PartIs
  <2>. HIDE DEF s
  <2>5. Len(s) = n
    BY <1>1, <2>2, <2>4
  <2>6. ASSUME NEW i \in 1 .. n PROVE s[i] = w[i]
    <3>1. /\ i \in 1 .. n - first + 1 /\ first + i - 1 = i
          /\ i \in 1 .. n + Len(t) /\ i <= n
      BY <1>1, <1>5, <2>2
    <3>. QED
      BY <1>4, <2>4, <3>1
  <2>7. Len(w) = n
    BY DEF n
  <2>8. s = w
    BY <1>1, <2>4, <2>5, <2>6, <2>7, SeqEqual
  <2>. QED
    BY <2>2, <2>8 DEF s
<1>9. SubSeq(rest, n + 1, Len(rest)) = t
  <2>. DEFINE last == n + Len(t)
              s == SubSeq(rest, n + 1, last)
  <2>1. n + 1 \in Int /\ last \in Int /\ n + 1 <= last /\ last - (n + 1) + 1 = Len(t)
    BY <1>1, <1>5
  <2>2. \A i \in n + 1 .. last : rest[i] \in Nat
    <3>1. \A i \in n + 1 .. last : i \in 1 .. Len(rest)
      BY <1>1, <1>4, <1>5
    <3>. QED
      BY <1>4, <3>1, ElementOfSeq
  <2>. HIDE DEF last
  <2>3. /\ s \in Seq(Nat) /\ Len(s) = (IF n + 1 <= last THEN last - (n + 1) + 1 ELSE 0)
        /\ \A i \in 1 .. last - (n + 1) + 1 : s[i] = rest[(n + 1) + i - 1]
    BY <2>1, <2>2, PartIs
  <2>4. Len(s) = Len(t)
    BY <2>1, <2>3
  <2>. HIDE DEF s
  <2>5. ASSUME NEW i \in 1 .. Len(t) PROVE s[i] = t[i]
    <3>1. (n + 1) + i - 1 = n + i /\ n + i \in 1 .. n + Len(t) /\ ~(n + i <= n) /\ (n + i) - n = i
      BY <1>1, <1>5
    <3>. QED
      BY <1>4, <2>1, <2>3, <3>1
  <2>6. s = t
    BY <1>3, <2>3, <2>4, <2>5, SeqEqual
  <2>. QED
    BY <1>4, <2>6 DEF s, last
<1>. QED
  BY <1>7, <1>8, <1>9 DEF TakesWidth, n, t, z


(* No letter of a conversion is a numeral.                                 *)
LEMMA LettersAreNoNumerals == \A c \in Numbers : c \notin Numerals
  BY DEF Numbers, Numerals, DIGIT0, SMALL_B, SMALL_D, SMALL_X

(* "%0" and a width: the same piece is waited for, from behind the width.  *)
LEMMA ZeroKeeps == IInv /\ zero => IInv'
<1>. SUFFICES ASSUME IInv, zero PROVE IInv'
  OBVIOUS
<1>1. PICK l \in Seq(Pieces), out \in Text :
        /\ str = Filled(out) /\ ptr = Len(out) /\ Len(out) <= SIZE
        /\ Awaits(l, format, ap, padding, TRUE)
        /\ Promises(call, out, l)
  BY Converting DEF zero
<1>2. l # <<>> /\ WidthNext(l, format, ap, padding)
  BY <1>1, ByItsMark DEF zero
<1>. DEFINE w == Head(l).width
            c == Head(l).conversion
            R == Over(Formats, Tail(l))
            rest == Tail(format)
            n == Max({0} \cup {k \in DOMAIN rest : \A i \in 1 .. k : rest[i] \in Numerals})
<1>3. Head(l) \in Pieces /\ R \in Seq(Nat)
  BY <1>2, FirstPiece, OverTypes
<1>4. Head(l).kind = "number" /\ w # <<>> /\ rest = w \o (<<c>> \o R)
  BY <1>2 DEF WidthNext, Starts
<1>5. w \in Seq(Numerals) /\ c \in Nat /\ c \in Numbers
  BY <1>3, <1>4, NumberPiece
<1>6. c \notin Numerals
  BY <1>5, LettersAreNoNumerals
<1>7. padding' = atoi(SubSeq(rest, 1, n)) /\ format' = SubSeq(rest, n + 1, Len(rest))
  BY DEF zero
<1>8. ap' = ap /\ call' = call /\ str' = str /\ ptr' = ptr /\ is_parsing' = is_parsing
  BY DEF zero
<1>9. is_parsing /\ ~overrun'
  BY DEF zero, Converts, Turns
<1>10. ap = Over(Args, l)
  BY <1>1 DEF Awaits
<1>. HIDE DEF w, c, R, rest
<1>11. TakesWidth(rest, w, <<c>> \o R)
  BY <1>3, <1>4, <1>5, <1>6, WidthEnds
<1>. HIDE DEF n
<1>12. padding' = Digits(w) /\ format' = <<c>> \o R
  <2>1. /\ n = Len(w) /\ SubSeq(rest, 1, Len(w)) = w
        /\ SubSeq(rest, Len(w) + 1, Len(rest)) = <<c>> \o R
    BY <1>11 DEF TakesWidth, n
  <2>. QED
    BY <1>5, <1>7, <2>1, DigitsAreNatural
<1>13. Awaits(l, format', ap', padding', is_parsing')
  BY <1>2, <1>4, <1>8, <1>9, <1>10, <1>12 DEF Awaits, w, c, R
<1>. QED
  BY <1>1, <1>8, <1>9, <1>13, NothingStored

(* Zeros and a number go behind the text.                                  *)
LEMMA PutNumberIs ==
  ASSUME NEW out \in Text, NEW nbr \in Text, NEW outgrown \in BOOLEAN, padding \in Nat,
         str = Filled(out), ptr = Len(out), PutNumber(nbr, outgrown),
         NEW m, m = ZeroText(Zeros(padding, Len(nbr))) \o nbr
  PROVE  /\ m \in Text
         /\ ~overrun' => /\ Len(out) + Len(m) <= SIZE
                         /\ str' = Filled(out \o m) /\ ptr' = Len(out) + Len(m)
         /\ ~outgrown /\ Len(out) + Len(m) < SIZE => ~overrun'
         /\ ~overrun' => ~outgrown
<1>. DEFINE zeros == Zeros(padding, Len(nbr))
            z == ZeroText(zeros)
            a == Len(out)
            k == Len(nbr)
            padded == Stored(str, ptr, z)
<1>1. a \in Nat /\ k \in Nat /\ SIZE \in Nat
  BY LenProperties, SizeAssumption DEF Text
<1>2. zeros \in Nat
  BY <1>1 DEF Zeros
<1>3. /\ str' = strcat(padded, nbr) /\ ptr' = ptr + zeros + k
      /\ overrun' <=> \/ ptr + zeros > SIZE
                      \/ strlen(padded) + k >= SIZE
                      \/ outgrown
  BY DEF PutNumber, ZeroText
<1>. HIDE DEF zeros
<1>4. z \in Text /\ Len(z) = zeros
  <2>1. z \in [1 .. zeros -> Nat \ {NUL}]
    BY DEF ZeroText, DIGIT0, NUL
  <2>. QED
    BY <1>2, <2>1 DEF Text
<1>5. m = z \o nbr
  BY DEF zeros
<1>6. padded = Stored(Filled(out), a, z)
  OBVIOUS
<1>. HIDE DEF z, padded
<1>7. m \in Text /\ Len(m) = zeros + k
  BY <1>4, <1>5, TextJoined
<1>8. /\ out \o z \in Text /\ Len(out \o z) = a + zeros
      /\ (out \o z) \o nbr = out \o m
  <2>1. out \o z \in Text /\ Len(out \o z) = a + zeros
    BY <1>4, TextJoined
  <2>2. out \in Seq(Int) /\ z \in Seq(Int) /\ nbr \in Seq(Int)
    BY <1>4, TextIsInts
  <2>3. (out \o z) \o nbr = out \o (z \o nbr)
    BY <2>2, IntsAssociative, Zenon
  <2>. QED
    BY <1>5, <2>1, <2>3
<1>9. a + zeros <= SIZE => padded = Filled(out \o z) /\ strlen(padded) = a + zeros
  <2>1. a + zeros <= SIZE => padded = Filled(out \o z)
    BY <1>4, <1>6, StoredBehind
  <2>2. a + zeros <= SIZE => strlen(Filled(out \o z)) = a + zeros
    BY <1>8, CharsOfFilled
  <2>. QED
    BY <2>1, <2>2
<1>. DEFINE before == out \o z
<1>10. before \in Text /\ Len(before) = a + zeros /\ before \o nbr = out \o m
  BY <1>8
<1>11. a + zeros <= SIZE => padded = Filled(before) /\ strlen(padded) = a + zeros
  BY <1>9
<1>. HIDE DEF before, a, k
<1>12. ASSUME ~overrun' PROVE a + zeros + k < SIZE /\ a + zeros <= SIZE
  BY <1>1, <1>2, <1>3, <1>11, <1>12 DEF a
<1>13. ASSUME ~overrun' PROVE str' = Filled(out \o m)
  <2>1. padded = Filled(before) /\ Len(before) + Len(nbr) < SIZE /\ Len(before) + Len(nbr) <= SIZE
    BY <1>1, <1>2, <1>10, <1>11, <1>12, <1>13 DEF k
  <2>2. strcat(Filled(before), nbr) = Filled(before \o nbr)
    BY <1>10, <2>1, StoredBehind
  <2>. QED
    BY <1>3, <1>10, <2>1, <2>2
<1>14. ASSUME ~overrun' PROVE a + Len(m) <= SIZE /\ ptr' = a + Len(m)
  BY <1>1, <1>2, <1>3, <1>7, <1>12, <1>14 DEF a, k
<1>15. ASSUME ~outgrown, a + Len(m) < SIZE PROVE ~overrun'
  <2>1. a + zeros <= SIZE /\ ~(a + zeros > SIZE) /\ ~((a + zeros) + k >= SIZE)
    BY <1>1, <1>2, <1>7, <1>15 DEF k
  <2>. QED
    BY <1>3, <1>11, <1>15, <2>1 DEF a
<1>16. ~overrun' => ~outgrown
  BY <1>3
<1>. QED
  BY <1>7, <1>13, <1>14, <1>15, <1>16 DEF a


(* %d, %x and %b: the number goes behind the text, padded to the width     *)
(* that was read.                                                          *)
LEMMA NumberKeeps == IInv /\ number => IInv'
<1>. SUFFICES ASSUME IInv, number PROVE IInv'
  OBVIOUS
<1>1. PICK l \in Seq(Pieces), out \in Text :
        /\ str = Filled(out) /\ ptr = Len(out) /\ Len(out) <= SIZE
        /\ Awaits(l, format, ap, padding, TRUE)
        /\ Promises(call, out, l)
  BY Converting DEF number
<1>2. l # <<>> /\ NumberNext(l, format, ap, padding)
  <2>1. Head(format) \in Numbers
    BY BaseIs DEF number
  <2>. QED
    BY <1>1, <2>1, ByItsMark
<1>. DEFINE p == Head(l)
            nbr == NumberOf(p)
            outgrown == OutgrowsLocal(p.value, Base[p.conversion])
            m == ZeroText(Zeros(padding, Len(nbr))) \o nbr
<1>3. p \in Pieces
  BY <1>2, FirstPiece
<1>4. /\ p.kind = "number" /\ padding = Digits(p.width)
      /\ Head(format) = p.conversion /\ Tail(format) = Over(Formats, Tail(l))
      /\ Head(ap) = p.value /\ Tail(ap) = Over(Args, Tail(l))
  BY <1>2 DEF NumberNext, Starts
<1>. HIDE DEF p
<1>5. /\ p.width \in Seq(Numerals) /\ p.value \in Words /\ Base[p.conversion] \in Bases
  BY <1>3, <1>4, NumberPiece
<1>6. padding \in Nat
  BY <1>4, <1>5, DigitsAreNatural
<1>7. nbr \in Text
  BY <1>5, ItoaIsText DEF NumberOf
<1>8. outgrown \in BOOLEAN
  BY DEF OutgrowsLocal
<1>9. PutNumber(nbr, outgrown)
  BY <1>4 DEF number, NumberOf
<1>10. /\ call' = call /\ format' = Over(Formats, Tail(l)) /\ ap' = Over(Args, Tail(l))
       /\ padding' = 0 /\ is_parsing' = FALSE
  BY <1>4 DEF number
<1>11. (Plain(p) => MeansOf(p) = m) /\ Len(m) = Takes(p)
  BY <1>3, <1>4, PlainNumber, RoomOfNumber
<1>12. m = ZeroText(Zeros(padding, Len(nbr))) \o nbr
  OBVIOUS
<1>13. Outgrows(p) <=> outgrown
  BY <1>3, <1>4, OutgrowsIs
<1>. HIDE DEF nbr, outgrown, m
<1>14. /\ m \in Text
       /\ ~overrun' => /\ Len(out) + Len(m) <= SIZE
                       /\ str' = Filled(out \o m) /\ ptr' = Len(out) + Len(m)
       /\ ~outgrown /\ Len(out) + Len(m) < SIZE => ~overrun'
       /\ ~overrun' => ~outgrown
  BY <1>1, <1>6, <1>7, <1>8, <1>9, <1>12, PutNumberIs
<1>15. /\ Plain(Head(l)) => MeansOf(Head(l)) = m
       /\ Len(m) = Takes(Head(l))
       /\ ~Outgrows(Head(l)) /\ Len(out) + Len(m) < SIZE => ~overrun'
       /\ ~overrun' => ~Outgrows(Head(l))
  BY <1>11, <1>13, <1>14 DEF p
<1>. QED
  BY <1>1, <1>2, <1>10, <1>14, <1>15, PieceDone

-----------------------------------------------------------------------------
(* Every turn of the loop keeps the invariant.                             *)
LEMMA EveryTurnKeeps == IInv /\ [Next]_vars => IInv'
<1>. SUFFICES ASSUME IInv, [Next]_vars PROVE IInv'
  OBVIOUS
<1>1. CASE percent
  BY <1>1, PercentKeeps
<1>2. CASE text
  BY <1>2, TextKeeps
<1>3. CASE zero
  BY <1>3, ZeroKeeps
<1>4. CASE string
  BY <1>4, StringKeeps
<1>5. CASE number
  BY <1>5, NumberKeeps
<1>6. CASE character
  BY <1>6, CharacterKeeps
<1>7. CASE unknown
  BY <1>7, UnknownKeeps
<1>8. CASE UNCHANGED vars
  BY <1>8 DEF vars, IInv, Accounts, KeepsToBuffer, PlainKeeps
<1>. QED
  BY <1>1, <1>2, <1>3, <1>4, <1>5, <1>6, <1>7, <1>8 DEF Next, Returned

(* What is in the buffer is text, and what is left of the call is that of  *)
(* the pieces still to come (vsnprintf).                                   *)
THEOREM AccountsAlways == Spec => []IInv
BY Initially, EveryTurnKeeps, PTL DEF Spec

(* The text ends where the next character goes, so that PutChar at ptr and *)
(* strcat behind the string agree (vsnprintf's str[ptr++] and its strcat). *)
LEMMA LengthFollows == IInv => PtrIsLength
<1>. SUFFICES ASSUME IInv, ~overrun PROVE ptr = strlen(str)
  BY DEF PtrIsLength
<1>1. PICK l \in Seq(Pieces), out \in Text :
        str = Filled(out) /\ ptr = Len(out) /\ Len(out) <= SIZE
  BY DEF IInv, Accounts, Accounted
<1>. QED
  BY <1>1, CharsOfFilled

(* At the end of the format no piece is left, and what was promised is in  *)
(* the buffer.                                                             *)
LEMMA NothingLeft ==
  ASSUME IInv, ~overrun, format = <<>>
  PROVE  \E l \in Seq(Pieces), out \in Text :
           /\ str = Filled(out) /\ Len(out) <= SIZE
           /\ l = <<>> /\ Promises(call, out, l)
<1>1. PICK l \in Seq(Pieces), out \in Text :
        /\ str = Filled(out) /\ ptr = Len(out) /\ Len(out) <= SIZE
        /\ Awaits(l, format, ap, padding, is_parsing)
        /\ Promises(call, out, l)
  BY DEF IInv, Accounts, Accounted
<1>2. l = <<>>
  <2>1. CASE is_parsing
    <3>1. Awaits(l, format, ap, padding, TRUE)
      BY <1>1, <2>1 DEF Awaits
    <3>. QED
      BY <3>1, ByItsMark
  <2>2. CASE ~is_parsing
    <3>1. Over(Formats, l) = <<>>
      BY <1>1, <2>2 DEF Awaits
    <3>. QED
      BY <3>1, FromTheStart DEF Starts
  <2>. QED
    BY <2>1, <2>2
<1>. QED
  BY <1>1, <1>2

(* So a plain call has printed what it ought to.                           *)
LEMMA MeaningFollows == IInv => PrintsItsMeaning
<1>. SUFFICES ASSUME IInv, call.plain, Len(call.means) < SIZE, format = <<>>
              PROVE  Chars(str) = call.means
  BY DEF PrintsItsMeaning
<1>1. ~overrun
  BY DEF IInv, PlainKeeps
<1>2. PICK l \in Seq(Pieces), out \in Text :
        /\ str = Filled(out) /\ Len(out) <= SIZE
        /\ l = <<>> /\ Promises(call, out, l)
  BY <1>1, NothingLeft
<1>3. call.means = out \o Over(Meanings, l)
  BY <1>2 DEF Promises, Prints
<1>4. Over(Meanings, l) = <<>>
  BY <1>2, OverTypes
<1>5. out \o <<>> = out
  BY ConcatEmptySeq DEF Text
<1>. QED
  BY <1>2, <1>3, <1>4, <1>5, CharsOfFilled

(* And any call had room for all that it stored.                           *)
LEMMA RoomFollows == IInv => NothingIsCut
<1>. SUFFICES ASSUME IInv, ~overrun, format = <<>>
              PROVE  ~call.outgrows /\ Len(call.room) <= SIZE
  BY DEF NothingIsCut
<1>1. PICK l \in Seq(Pieces), out \in Text :
        /\ str = Filled(out) /\ Len(out) <= SIZE
        /\ l = <<>> /\ Promises(call, out, l)
  BY NothingLeft
<1>2. Over(Rooms, l) = <<>>
  BY <1>1, OverPieces DEF OverIs
<1>3. Len(call.room) = Len(out) + Len(Over(Rooms, l))
  BY <1>1 DEF Promises, Fills
<1>4. Len(Over(Rooms, l)) = 0 /\ Len(out) \in Nat
  BY <1>2, LenProperties DEF Text
<1>5. Len(call.room) <= SIZE
  BY <1>1, <1>3, <1>4
<1>6. call.outgrows <=> \E i \in DOMAIN l : Outgrows(l[i])
  BY <1>1 DEF Promises, Spares
<1>7. DOMAIN l = {}
  BY <1>1
<1>. QED
  BY <1>5, <1>6, <1>7

(* PtrIsLength: the two ways of storing agree, whatever pieces a call is   *)
(* made of and however long the buffer is (vsnprintf).                     *)
THEOREM PtrIsLengthAlways == Spec => []PtrIsLength
BY AccountsAlways, LengthFollows, PTL

(* KeepsToBuffer: a call of any conversions keeps to the buffer, and itoa  *)
(* to its local arrays, when the characters they take and a NUL do         *)
(* (vsnprintf, itoa).                                                      *)
THEOREM KeepsToBufferAlways == Spec => []KeepsToBuffer
<1>1. IInv => KeepsToBuffer
  BY DEF IInv
<1>. QED
  BY <1>1, AccountsAlways, PTL

(* NothingIsCut: nothing else stops a call; one that comes to its end had  *)
(* room for all of it (the condition of vsnprintf's loop).                 *)
THEOREM NothingIsCutAlways == Spec => []NothingIsCut
BY AccountsAlways, RoomFollows, PTL

(* PrintsItsMeaning: a plain call prints, for each of its pieces, what the *)
(* piece ought to: the digits of the number by division, the halves of a   *)
(* negative one joined, the zeros up to the width (vsnprintf, itoa, atoi). *)
THEOREM PrintsItsMeaningAlways == Spec => []PrintsItsMeaning
BY AccountsAlways, MeaningFollows, PTL

=============================================================================
