--------------------------- MODULE Console_proofs ---------------------------
(***************************************************************************)
(* Proofs about the console, for every set of strings whose escape         *)
(* sequences are whole, every screen and any number of exceptions.  The    *)
(* escape machine and its number buffer are at each character what the     *)
(* text printed so far says, whatever came before it.                      *)
(***************************************************************************)
EXTENDS Console, FiniteLemmas, FiniteSetTheorems

-----------------------------------------------------------------------------
(* The escape sequences that a text has begun and not ended.               *)
OpenIn(p) == {i \in 1 .. Len(p) : p[i] = ESC /\ \A j \in i .. Len(p) : p[j] # EM}

Characters == 1 .. 127

(* What a character more is.                                               *)
LEMMA Extended ==
  ASSUME NEW p \in Seq(Characters), NEW c \in Characters
  PROVE  /\ Len(p) \in Nat /\ DOMAIN p = 1 .. Len(p)
         /\ Append(p, c) \in Seq(Characters) /\ Len(Append(p, c)) = Len(p) + 1
         /\ DOMAIN Append(p, c) = 1 .. (Len(p) + 1)
         /\ Append(p, c)[Len(p) + 1] = c
         /\ \A k \in 1 .. Len(p) : Append(p, c)[k] = p[k]
OBVIOUS

(* ESC begins a sequence, 'm' ends any.                                    *)
LEMMA OpenNext ==
  ASSUME NEW p \in Seq(Characters), NEW c \in Characters
  PROVE  OpenIn(Append(p, c)) =
           (IF c = EM THEN {} ELSE OpenIn(p)) \cup (IF c = ESC THEN {Len(p) + 1} ELSE {})
<1>. DEFINE q == Append(p, c)
            n == Len(p)
<1>1. n \in Nat /\ Len(q) = n + 1 /\ q[n+1] = c /\ \A k \in 1 .. n : q[k] = p[k]
  BY Extended
<1>2. ESC # EM
  BY DEF ESC, EM
<1>. HIDE DEF q
<1>3. ASSUME NEW i \in 1 .. n
      PROVE  i \in OpenIn(q) <=> i \in OpenIn(p) /\ c # EM
  <2>1. \A j : j \in i .. (n + 1) <=> j \in i .. n \/ j = n + 1
    BY <1>1
  <2>2. \A j \in i .. n : j \in 1 .. n
    BY <1>1
  <2>. HIDE DEF n
  <2>3. (\A j \in i .. (n + 1) : q[j] # EM) <=> (\A j \in i .. n : p[j] # EM) /\ c # EM
    BY <1>1, <2>1, <2>2
  <2>4. i \in 1 .. (n + 1) /\ q[i] = p[i]
    BY <1>1
  <2>. QED
    BY <1>1, <2>3, <2>4 DEF OpenIn, n
<1>4. n + 1 \in OpenIn(q) <=> c = ESC
  <2>1. \A j \in (n + 1) .. (n + 1) : j = n + 1
    BY <1>1
  <2>2. n + 1 \in 1 .. (n + 1)
    BY <1>1
  <2>. HIDE DEF n
  <2>. QED
    BY <1>1, <1>2, <2>1, <2>2 DEF OpenIn, n
<1>5. OpenIn(q) \subseteq 1 .. (n + 1) /\ OpenIn(p) \subseteq 1 .. n
  BY <1>1 DEF OpenIn
<1>6. \A i \in 1 .. (n + 1) : i \in 1 .. n \/ i = n + 1
  BY <1>1
<1>7. n + 1 \notin 1 .. n
  BY <1>1
<1>. HIDE DEF n
<1>. QED
  BY <1>2, <1>3, <1>4, <1>5, <1>6, <1>7 DEF q, n

(* A sequence that a string is in after its first characters p, and what   *)
(* comes next: '[', digits and no more of them than nbr has room for, 'm'. *)
LEMMA OpenIs ==
  ASSUME NEW p \in Seq(Characters), NEW t \in Seq(Characters), p \o t \in Strings,
         NEW i \in OpenIn(p)
  PROVE  /\ t # <<>> /\ i \in 1 .. Len(p) /\ p[i] = ESC
         /\ i = Len(p) => Head(t) = BRACKET
         /\ i < Len(p) =>
              /\ p[i+1] = BRACKET
              /\ Head(t) = EM
                 \/ (Head(t) \in DIGIT0 .. (DIGIT0 + 9) /\ Len(p) - i < NBR)
         /\ Len(p) - i <= NBR
         /\ \A k \in (i + 2) .. Len(p) : p[k] \in DIGIT0 .. (DIGIT0 + 9)
         /\ \A k \in OpenIn(p) : k <= i
<1>. DEFINE s == p \o t
            n == Len(p)
            c == Head(t)
<1>1. n \in Nat /\ Len(t) \in Nat /\ s \in Seq(Characters) /\ Len(s) = n + Len(t)
      /\ DOMAIN s = 1 .. (n + Len(t))
  OBVIOUS
<1>2. \A k \in 1 .. n : s[k] = p[k]
  OBVIOUS
<1>3. t # <<>> => s[n+1] = c
  OBVIOUS
<1>4. i \in 1 .. n /\ p[i] = ESC /\ \A j \in i .. n : p[j] # EM
  BY DEF OpenIn
<1>5. PICK j \in DOMAIN s : IsEscape(s, i, j) /\ j - i - 2 < NBR
  <2>1. i \in DOMAIN s /\ s[i] = ESC
    BY <1>1, <1>2, <1>4
  <2>. HIDE DEF s
  <2>2. s \in Strings
    BY DEF s
  <2>. QED
    BY <2>1, <2>2 DEF Strings
<1>. HIDE DEF s, n, c
<1>6. /\ i + 1 < j /\ s[i+1] = BRACKET /\ s[j] = EM
      /\ \A k \in (i + 2) .. (j - 1) : s[k] \in DIGIT0 .. (DIGIT0 + 9)
      /\ j \in 1 .. (n + Len(t)) /\ j - i - 2 < NBR /\ NBR = 3
  BY <1>1, <1>5 DEF IsEscape, NBR
<1>7. n < j
  <2>1. j <= n => p[j] = EM
    BY <1>1, <1>2, <1>6
  <2>. QED
    BY <1>1, <1>4, <1>6, <2>1
<1>8. Len(t) # 0 /\ n + 1 \in 1 .. (n + Len(t))
  BY <1>1, <1>6, <1>7
<1>9. t # <<>>
  BY <1>8
<1>10. i = n => c = BRACKET
  BY <1>3, <1>6, <1>9
<1>11. i < n => p[i+1] = BRACKET
  BY <1>1, <1>2, <1>4, <1>6
<1>12. i < n => c = EM \/ (c \in DIGIT0 .. (DIGIT0 + 9) /\ n - i < NBR)
  <2>1. CASE j = n + 1
    BY <1>3, <1>6, <1>9, <2>1
  <2>2. CASE j # n + 1
    <3>1. i < n => n + 1 \in (i + 2) .. (j - 1) /\ n - i < NBR
      <4>1. i \in Int /\ j \in Int /\ n \in Int /\ j - i - 2 < 3 /\ n < j /\ NBR = 3
        BY <1>1, <1>4, <1>6, <1>7
      <4>. QED
        BY <2>2, <4>1
    <3>. QED
      BY <1>3, <1>6, <1>9, <3>1
  <2>. QED
    BY <2>1, <2>2
<1>13. n - i <= NBR
  BY <1>1, <1>4, <1>6, <1>7
<1>14. \A k \in (i + 2) .. n : p[k] \in DIGIT0 .. (DIGIT0 + 9)
  <2>1. \A k \in (i + 2) .. n : k \in (i + 2) .. (j - 1) /\ k \in 1 .. n
    BY <1>1, <1>4, <1>6, <1>7
  <2>. QED
    BY <1>2, <1>6, <2>1
<1>15. \A k \in OpenIn(p) : k <= i
  <2>1. \A k \in 1 .. n : p[k] = ESC /\ i < k => FALSE
    <3>1. \A k \in 1 .. n : i < k => k = i + 1 \/ k \in (i + 2) .. n
      BY <1>1, <1>4
    <3>2. i < n => p[i+1] # ESC
      BY <1>11 DEF BRACKET, ESC
    <3>3. \A k \in (i + 2) .. n : p[k] # ESC
      <4>1. ESC \notin DIGIT0 .. (DIGIT0 + 9)
        BY DEF DIGIT0, ESC
      <4>. QED
        BY <1>14, <4>1, Zenon
    <3>4. i + 1 \in 1 .. n => i < n
      BY <1>1, <1>4
    <3>. QED
      BY <3>1, <3>2, <3>3, <3>4
  <2>. QED
    BY <1>1, <1>4, <2>1 DEF OpenIn, n
<1>. QED
  BY <1>4, <1>9, <1>10, <1>11, <1>12, <1>13, <1>14, <1>15 DEF n, c

(* It is in one sequence at most.                                          *)
LEMMA OneOpen ==
  ASSUME NEW p \in Seq(Characters), NEW t \in Seq(Characters), p \o t \in Strings
  PROVE  \A i, k \in OpenIn(p) : i = k
<1>1. \A i, k \in OpenIn(p) : k <= i
  BY OpenIs
<1>2. OpenIn(p) \subseteq Int
  BY DEF OpenIn
<1>. QED
  BY <1>1, <1>2

(* A whole string is in none.                                              *)
LEMMA NoneOpen ==
  ASSUME NEW p \in Strings
  PROVE  OpenIn(p) = {}
<1>1. p \in Seq(Characters) /\ p \o <<>> = p /\ <<>> \in Seq(Characters)
  BY DEF Strings, Characters
<1>. QED
  BY <1>1, OpenIs


-----------------------------------------------------------------------------
(* A character ends an escape sequence when it is the 'm' of an open one.  *)
LEMMA EscapesNext ==
  ASSUME NEW p \in Seq(Characters), NEW t \in Seq(Characters), p \o t \in Strings, t # <<>>
  PROVE  Escapes(Append(p, Head(t))) =
           Escapes(p) \cup (IF Head(t) = EM THEN {<<i, Len(p) + 1>> : i \in OpenIn(p)} ELSE {})
<1>. DEFINE c == Head(t)
            q == Append(p, c)
            n == Len(p)
<1>1. c \in Characters
  OBVIOUS
<1>2. /\ n \in Nat /\ Len(q) = n + 1 /\ q[n+1] = c
      /\ DOMAIN p = 1 .. n /\ DOMAIN q = 1 .. (n + 1)
      /\ \A k \in 1 .. n : q[k] = p[k]
  BY <1>1, Extended
<1>3. \A i \in OpenIn(p) :
        /\ i \in 1 .. n /\ p[i] = ESC
        /\ c = EM => i < n /\ p[i+1] = BRACKET
        /\ \A k \in (i + 2) .. n : p[k] \in DIGIT0 .. (DIGIT0 + 9)
  <2>1. \A i \in OpenIn(p) : i \in 1 .. n /\ p[i] = ESC
    BY OpenIs
  <2>2. \A i \in OpenIn(p) : \A k \in (i + 2) .. n : p[k] \in DIGIT0 .. (DIGIT0 + 9)
    BY OpenIs
  <2>3. \A i \in OpenIn(p) : (i = n => c = BRACKET) /\ (i < n => p[i+1] = BRACKET)
    BY OpenIs
  <2>. QED
    BY <1>2, <2>1, <2>2, <2>3 DEF BRACKET, EM
<1>. HIDE DEF c, q, n
<1>4. ASSUME NEW i \in 1 .. (n + 1), NEW j \in 1 .. n
      PROVE  IsEscape(q, i, j) <=> i \in 1 .. n /\ IsEscape(p, i, j)
  <2>1. SUFFICES ASSUME i + 1 < j PROVE IsEscape(q, i, j) <=> IsEscape(p, i, j)
    BY <1>2 DEF IsEscape
  <2>2. i \in 1 .. n /\ i + 1 \in 1 .. n /\ \A k \in (i + 2) .. (j - 1) : k \in 1 .. n
    BY <1>2, <2>1
  <2>. QED
    BY <1>2, <2>2 DEF IsEscape
<1>5. ASSUME NEW i \in 1 .. (n + 1)
      PROVE  IsEscape(q, i, n + 1) <=> c = EM /\ i \in OpenIn(p)
  <2>1. ASSUME IsEscape(q, i, n + 1) PROVE c = EM /\ i \in OpenIn(p)
    <3>1. /\ i + 1 < n + 1 /\ q[i] = ESC /\ q[i+1] = BRACKET /\ q[n+1] = EM
          /\ \A k \in (i + 2) .. ((n + 1) - 1) : q[k] \in DIGIT0 .. (DIGIT0 + 9)
      BY <2>1 DEF IsEscape
    <3>2. i \in 1 .. n /\ i + 1 \in 1 .. n /\ (n + 1) - 1 = n
      BY <1>2, <3>1
    <3>3. \A k \in i .. n : k \in 1 .. n /\ (k = i \/ k = i + 1 \/ k \in (i + 2) .. n)
      BY <1>2, <3>2
    <3>4. \A k \in i .. n : p[k] # EM
      <4>1. \A k \in (i + 2) .. n : q[k] \in DIGIT0 .. (DIGIT0 + 9)
        BY <3>1, <3>2
      <4>2. ESC # EM /\ BRACKET # EM /\ \A d \in DIGIT0 .. (DIGIT0 + 9) : d # EM
        BY DEF ESC, BRACKET, EM, DIGIT0
      <4>3. \A k \in i .. n : q[k] # EM
        BY <3>1, <3>3, <4>1, <4>2
      <4>. QED
        BY <1>2, <3>3, <4>3
    <3>5. p[i] = ESC
      BY <1>2, <3>1, <3>2
    <3>. QED
      BY <1>2, <3>1, <3>2, <3>4, <3>5 DEF OpenIn, n
  <2>2. ASSUME c = EM, i \in OpenIn(p) PROVE IsEscape(q, i, n + 1)
    <3>1. i \in 1 .. n /\ p[i] = ESC /\ i < n /\ p[i+1] = BRACKET /\ i + 1 \in 1 .. n
      BY <1>2, <1>3, <2>2
    <3>2. \A k \in (i + 2) .. n : p[k] \in DIGIT0 .. (DIGIT0 + 9) /\ k \in 1 .. n
      BY <1>2, <1>3, <2>2, <3>1
    <3>3. (n + 1) - 1 = n /\ i + 1 < n + 1
      BY <1>2, <3>1
    <3>. QED
      BY <1>2, <2>2, <3>1, <3>2, <3>3 DEF IsEscape
  <2>. QED
    BY <2>1, <2>2
<1>6. ASSUME NEW i, NEW j
      PROVE  <<i, j>> \in Escapes(q)
               <=> \/ <<i, j>> \in Escapes(p)
                   \/ c = EM /\ i \in OpenIn(p) /\ j = n + 1
  <2>1. <<i, j>> \in Escapes(q) <=> i \in 1 .. (n + 1) /\ j \in 1 .. (n + 1) /\ IsEscape(q, i, j)
    BY <1>2 DEF Escapes
  <2>2. <<i, j>> \in Escapes(p) <=> i \in 1 .. n /\ j \in 1 .. n /\ IsEscape(p, i, j)
    BY <1>2 DEF Escapes
  <2>3. /\ j \in 1 .. (n + 1) <=> j \in 1 .. n \/ j = n + 1
        /\ n + 1 \notin 1 .. n
        /\ i \in 1 .. n => i \in 1 .. (n + 1)
        /\ i \in OpenIn(p) => i \in 1 .. n
    BY <1>2, <1>3
  <2>. QED
    BY <1>4, <1>5, <2>1, <2>2, <2>3
<1>7. \A s : Escapes(s) \subseteq {<<i, j>> : i \in DOMAIN s, j \in DOMAIN s}
  BY DEF Escapes
<1>8. ASSUME NEW span
      PROVE  span \in Escapes(q) <=>
               \/ span \in Escapes(p)
               \/ c = EM /\ \E i \in OpenIn(p) : span = <<i, n + 1>>
  <2>1. span \in Escapes(q) \/ span \in Escapes(p) => \E i, j : span = <<i, j>>
    BY <1>7
  <2>. QED
    BY <1>6, <2>1
<1>. QED
  BY <1>8 DEF c, q, n

(* The number of a sequence stays.                                         *)
LEMMA NumbersStay ==
  ASSUME NEW p \in Seq(Characters), NEW c \in Characters, NEW a \in Nat, NEW b \in 0 .. Len(p)
  PROVE  SubSeq(Append(p, c), a + 2, b) = SubSeq(p, a + 2, b)
OBVIOUS

(* The sequences that set a colour, and the last of them.                  *)
Effective(s) == {span \in Escapes(s) : Number(s, span) \in {0} \cup (30 .. 37)}

LastOf(s) == {span \in Effective(s) : \A other \in Effective(s) : other[1] <= span[1]}

(* ColourOf in those words.                                                *)
LEMMA ColourIs ==
  ASSUME NEW s, NEW colour
  PROVE  ColourOf(s, colour) = IF LastOf(s) = {} THEN colour
                               ELSE Painted(Number(s, One(LastOf(s))), colour)
BY DEF ColourOf, LastOf, Effective, One


(* The colour a text ends in changes with a character that ends a          *)
(* sequence, to what its number says.                                      *)
LEMMA ColourNext ==
  ASSUME NEW p \in Seq(Characters), NEW t \in Seq(Characters), p \o t \in Strings, t # <<>>,
         NEW colour
  PROVE  /\ Head(t) # EM \/ OpenIn(p) = {} =>
              ColourOf(Append(p, Head(t)), colour) = ColourOf(p, colour)
         /\ \A i \in OpenIn(p) :
              Head(t) = EM =>
                ColourOf(Append(p, Head(t)), colour)
                  = Painted(Digits(SubSeq(p, i + 2, Len(p))), ColourOf(p, colour))
<1>. DEFINE c == Head(t)
            q == Append(p, c)
            n == Len(p)
<1>1. c \in Characters /\ n \in Nat
  OBVIOUS
<1>2. \A span \in Escapes(p) : Number(q, span) = Number(p, span)
  <2>. SUFFICES ASSUME NEW a \in 1 .. n, NEW b \in 1 .. n
                PROVE  Number(q, <<a, b>>) = Number(p, <<a, b>>)
    BY DEF Escapes
  <2>1. a \in Nat /\ b - 1 \in 0 .. n
    BY <1>1
  <2>2. SubSeq(q, a + 2, b - 1) = SubSeq(p, a + 2, b - 1)
    BY <1>1, <2>1, NumbersStay
  <2>. HIDE DEF q
  <2>. QED
    BY <2>2, Zenon DEF Number
<1>. HIDE DEF c, q, n
<1>3. Escapes(q) = Escapes(p) \cup (IF c = EM THEN {<<i, n + 1>> : i \in OpenIn(p)} ELSE {})
  BY EscapesNext DEF c, q, n
<1>4. ASSUME LastOf(q) = LastOf(p)
      PROVE  ColourOf(q, colour) = ColourOf(p, colour)
  <2>. DEFINE last == One(LastOf(p))
  <2>1. LastOf(p) # {} => last \in LastOf(p)
    BY Zenon DEF One
  <2>2. LastOf(p) # {} => Number(q, last) = Number(p, last)
    BY <1>2, <2>1 DEF LastOf, Effective
  <2>3. ColourOf(p, colour) = IF LastOf(p) = {} THEN colour ELSE Painted(Number(p, last), colour)
    BY ColourIs, Zenon
  <2>4. ColourOf(q, colour) = IF LastOf(p) = {} THEN colour ELSE Painted(Number(q, last), colour)
    <3>1. ColourOf(q, colour) = IF LastOf(q) = {} THEN colour
                                ELSE Painted(Number(q, One(LastOf(q))), colour)
      BY ColourIs, Zenon
    <3>. QED
      BY <1>4, <3>1
  <2>. HIDE DEF last
  <2>. QED
    BY <2>2, <2>3, <2>4
<1>5. ASSUME c # EM \/ OpenIn(p) = {}
      PROVE  ColourOf(q, colour) = ColourOf(p, colour)
  <2>1. Escapes(q) = Escapes(p)
    BY <1>3, <1>5
  <2>2. Effective(q) = Effective(p)
    BY <1>2, <2>1 DEF Effective
  <2>3. LastOf(q) = LastOf(p)
    BY <2>2, Zenon DEF LastOf
  <2>. QED
    BY <1>4, <2>3
<1>6. ASSUME NEW i \in OpenIn(p), c = EM
      PROVE  ColourOf(q, colour) = Painted(Digits(SubSeq(p, i + 2, n)), ColourOf(p, colour))
  <2>. DEFINE span   == <<i, n + 1>>
              number == Digits(SubSeq(p, i + 2, n))
  <2>1. OpenIn(p) = {i}
    BY OneOpen
  <2>2. Escapes(q) = Escapes(p) \cup {span}
    BY <1>3, <1>6, <2>1
  <2>3. i \in 1 .. n /\ i < n /\ p[i+1] = BRACKET
        /\ \A k \in (i + 2) .. n : p[k] \in DIGIT0 .. (DIGIT0 + 9)
    <3>1. i \in 1 .. n /\ \A k \in (i + 2) .. n : p[k] \in DIGIT0 .. (DIGIT0 + 9)
      BY OpenIs DEF n
    <3>2. (i = n => c = BRACKET) /\ (i < n => p[i+1] = BRACKET)
      BY OpenIs DEF c, n
    <3>. QED
      BY <1>1, <1>6, <3>1, <3>2 DEF EM, BRACKET
  <2>4. Number(q, span) = number
    <3>1. i \in Nat /\ n \in 0 .. n /\ (n + 1) - 1 = n
      BY <1>1, <2>3
    <3>2. SubSeq(q, i + 2, n) = SubSeq(p, i + 2, n)
      BY <1>1, <3>1, NumbersStay DEF q, n
    <3>3. span[1] = i /\ span[2] = n + 1
      OBVIOUS
    <3>. HIDE DEF span
    <3>4. Number(q, span) = Digits(SubSeq(q, i + 2, n))
      BY <3>1, <3>3 DEF Number
    <3>. QED
      BY <3>2, <3>4, Zenon
  <2>5. \A other \in Escapes(p) : other[1] \in 1 .. n /\ other[1] < i
    <3>. SUFFICES ASSUME NEW a \in 1 .. n, NEW b \in 1 .. n, IsEscape(p, a, b)
                  PROVE  a < i
      BY DEF Escapes, n
    <3>1. p[a] = ESC /\ p[b] = EM /\ a + 1 < b
      BY DEF IsEscape
    <3>2. \A k \in i .. n : p[k] # EM
      BY DEF OpenIn, n
    <3>3. a # i
      BY <1>1, <3>1, <3>2
    <3>4. a > i => FALSE
      <4>1. a > i => a = i + 1 \/ a \in (i + 2) .. n
        BY <1>1, <2>3
      <4>2. ESC # BRACKET /\ \A d \in DIGIT0 .. (DIGIT0 + 9) : d # ESC
        BY DEF ESC, BRACKET, DIGIT0
      <4>. QED
        BY <2>3, <3>1, <4>1, <4>2
    <3>. QED
      BY <1>1, <2>3, <3>3, <3>4
  <2>. HIDE DEF number
  <2>6. CASE number \in {0} \cup (30 .. 37)
    <3>1. Effective(q) = Effective(p) \cup {span}
      BY <1>2, <2>2, <2>4, <2>6 DEF Effective
    <3>2. \A other \in Effective(q) : other[1] <= i /\ (other[1] = i => other = span)
      BY <2>3, <2>5, <3>1 DEF Effective
    <3>3. LastOf(q) = {span}
      <4>1. span \in Effective(q) /\ span[1] = i
        BY <3>1
      <4>2. span \in LastOf(q)
        BY <3>2, <4>1 DEF LastOf
      <4>3. \A other \in LastOf(q) : i <= other[1] /\ other[1] <= i
        BY <3>2, <4>1 DEF LastOf
      <4>4. \A other \in LastOf(q) : other[1] \in Int
        BY <2>3, <2>5, <3>1 DEF LastOf, Effective
      <4>5. \A other \in LastOf(q) : other[1] = i
        BY <2>3, <4>3, <4>4
      <4>6. \A other \in LastOf(q) : other = span
        BY <3>2, <4>5 DEF LastOf
      <4>. QED
        BY <4>2, <4>6
    <3>4. One({span}) = span
      BY DEF One
    <3>5. ColourOf(q, colour) = Painted(number, colour)
      <4>. HIDE DEF span
      <4>. QED
        BY <2>4, <3>3, <3>4, ColourIs, Zenon
    <3>6. \A one, two : Painted(number, one) = Painted(number, two)
      BY <2>6 DEF Painted
    <3>. QED
      BY <3>5, <3>6, Zenon DEF number
  <2>7. CASE number \notin {0} \cup (30 .. 37)
    <3>1. Effective(q) = Effective(p)
      BY <1>2, <2>2, <2>4, <2>7 DEF Effective
    <3>2. LastOf(q) = LastOf(p)
      BY <3>1, Zenon DEF LastOf
    <3>3. Painted(number, ColourOf(p, colour)) = ColourOf(p, colour)
      BY <2>7 DEF Painted
    <3>. QED
      BY <1>4, <3>2, <3>3, Zenon DEF number
  <2>. QED
    BY <2>6, <2>7
<1>. QED
  BY <1>5, <1>6 DEF c, q, n


-----------------------------------------------------------------------------
(* The newlines of a text, and what it draws on its last line.             *)
Breaks(s) == {k \in DOMAIN s : s[k] = NEWLINE}

OnLine(s) ==
  {k \in (DOMAIN s \ InEscape(s)) \ Breaks(s) : \A b \in Breaks(s) : b < k}

(* A character outside an escape sequence goes behind those on its line,   *)
(* and a newline ends the line.                                            *)
LEMMA LineNext ==
  ASSUME NEW p \in Seq(Characters), NEW c \in Characters
  PROVE  /\ Breaks(Append(p, c)) = Breaks(p) \cup (IF c = NEWLINE THEN {Len(p) + 1} ELSE {})
         /\ OnLine(Append(p, c)) =
              IF c = NEWLINE THEN {}
              ELSE OnLine(p) \cup (IF c = ESC \/ OpenIn(p) # {} THEN {} ELSE {Len(p) + 1})
         /\ IsFiniteSet(Breaks(p)) /\ IsFiniteSet(OnLine(p))
         /\ Len(p) + 1 \notin Breaks(p) /\ Len(p) + 1 \notin OnLine(p)
<1>. DEFINE q == Append(p, c)
            n == Len(p)
<1>1. /\ n \in Nat /\ Len(q) = n + 1 /\ q[n+1] = c
      /\ DOMAIN p = 1 .. n /\ DOMAIN q = 1 .. (n + 1)
      /\ \A k \in 1 .. n : q[k] = p[k]
  BY Extended
<1>. HIDE DEF q, n
<1>2. \A k : k \in 1 .. (n + 1) <=> k \in 1 .. n \/ k = n + 1
  BY <1>1
<1>3. n + 1 \notin 1 .. n /\ \A k \in 1 .. n : k < n + 1
  BY <1>1
<1>4. Breaks(q) = Breaks(p) \cup (IF c = NEWLINE THEN {n + 1} ELSE {})
  BY <1>1, <1>2, <1>3 DEF Breaks
<1>5. ASSUME NEW k \in 1 .. n
      PROVE  k \in InEscape(q) <=> k \in InEscape(p)
  <2>1. \A i \in 1 .. k : i \in 1 .. n /\ \A j \in i .. (k - 1) : j \in 1 .. n
    BY <1>1
  <2>2. \A i \in 1 .. k :
          (q[i] = ESC /\ \A j \in i .. (k - 1) : q[j] # EM)
            <=> (p[i] = ESC /\ \A j \in i .. (k - 1) : p[j] # EM)
    BY <1>1, <2>1
  <2>3. k \in 1 .. (n + 1)
    BY <1>2
  <2>. QED
    BY <1>1, <2>2, <2>3 DEF InEscape
<1>6. n + 1 \in InEscape(q) <=> c = ESC \/ OpenIn(p) # {}
  <2>1. n + 1 \in InEscape(q)
          <=> \E i \in 1 .. (n + 1) : q[i] = ESC /\ \A j \in i .. ((n + 1) - 1) : q[j] # EM
    BY <1>1, <1>2 DEF InEscape
  <2>2. (n + 1) - 1 = n /\ (n + 1) .. n = {}
    BY <1>1
  <2>3. \A i \in 1 .. n : (q[i] = ESC /\ \A j \in i .. n : q[j] # EM) <=> i \in OpenIn(p)
    <3>1. \A i \in 1 .. n : \A j \in i .. n : j \in 1 .. n
      BY <1>1
    <3>. QED
      BY <1>1, <3>1 DEF OpenIn, n
  <2>4. OpenIn(p) \subseteq 1 .. n
    BY DEF OpenIn, n
  <2>. QED
    BY <1>1, <1>2, <2>1, <2>2, <2>3, <2>4
<1>7. InEscape(q) = InEscape(p) \cup (IF c = ESC \/ OpenIn(p) # {} THEN {n + 1} ELSE {})
  <2>1. InEscape(q) \subseteq 1 .. (n + 1) /\ InEscape(p) \subseteq 1 .. n
    BY <1>1 DEF InEscape
  <2>. QED
    BY <1>2, <1>3, <1>5, <1>6, <2>1
<1>8. Breaks(p) \subseteq 1 .. n /\ OnLine(p) \subseteq 1 .. n
  BY <1>1 DEF Breaks, OnLine
<1>9. c = NEWLINE => OnLine(q) = {}
  <2>1. c = NEWLINE => n + 1 \in Breaks(q)
    BY <1>4
  <2>2. \A k \in 1 .. (n + 1) : ~ (n + 1 < k)
    BY <1>1
  <2>. QED
    BY <1>1, <2>1, <2>2 DEF OnLine
<1>10. ASSUME c # NEWLINE
       PROVE  OnLine(q) = OnLine(p) \cup (IF c = ESC \/ OpenIn(p) # {} THEN {} ELSE {n + 1})
  <2>1. Breaks(q) = Breaks(p)
    BY <1>4, <1>10
  <2>2. \A k \in 1 .. n : k \in OnLine(q) <=> k \in OnLine(p)
    BY <1>1, <1>2, <1>5, <2>1 DEF OnLine
  <2>3. n + 1 \in OnLine(q) <=> ~ (c = ESC \/ OpenIn(p) # {})
    <3>1. \A b \in Breaks(p) : b < n + 1
      BY <1>3, <1>8
    <3>2. n + 1 \notin Breaks(p) /\ n + 1 \in 1 .. (n + 1)
      BY <1>2, <1>3, <1>8
    <3>. QED
      BY <1>1, <1>6, <2>1, <3>1, <3>2 DEF OnLine
  <2>4. OnLine(q) \subseteq 1 .. (n + 1)
    BY <1>1 DEF OnLine
  <2>. QED
    BY <1>2, <1>3, <1>8, <2>2, <2>3, <2>4
<1>11. IsFiniteSet(Breaks(p)) /\ IsFiniteSet(OnLine(p))
  <2>1. IsFiniteSet(1 .. n)
    BY <1>1, FS_Interval
  <2>. QED
    BY <1>8, <2>1, FS_Subset
<1>12. n + 1 \notin Breaks(p) /\ n + 1 \notin OnLine(p)
  BY <1>3, <1>8
<1>. QED
  BY <1>4, <1>9, <1>10, <1>11, <1>12 DEF q, n

-----------------------------------------------------------------------------
(* The escape machine is where the text printed so far has brought it.     *)
Machine(p) ==
  state = IF OpenIn(p) = {} THEN "OFF"
          ELSE IF Len(p) \in OpenIn(p) THEN "PRE_PARSING" ELSE "PARSING"

(* nbr has the digits of the open sequence, ptr their number.              *)
Holds(at, buffer, count, p) ==
  /\ at # "PARSING" => count = 0
  /\ \A i \in OpenIn(p) : i < Len(p) =>
       /\ count = Len(p) - i - 1
       /\ \A k \in 0 .. (count - 1) : buffer[k] = p[i + 2 + k]
  /\ \A k \in 0 .. (NBR - 1) : count <= k => buffer[k] = 0

Buffered(p) == Holds(state, nbr, ptr, p)

(* The five things putc_fb does with a character of a string.              *)
Putc(p, c) ==
  \/ OpenIn(p) = {} /\ c # ESC /\ UNCHANGED <<machine, overrun>>
  \/ OpenIn(p) = {} /\ c = ESC /\ Escape(c)
  \/ c = BRACKET /\ Bracket(c) /\ \E i \in OpenIn(p) : i = Len(p)
  \/ Digit(c) /\ c \in DIGIT0 .. (DIGIT0 + 9)
       /\ \E i \in OpenIn(p) : i < Len(p) /\ Len(p) - i < NBR
  \/ c = EM /\ Colour(c) /\ \E i \in OpenIn(p) : i < Len(p)

(* Of a string, putc_fb has only these five things to do.                  *)
LEMMA PutcDoes ==
  ASSUME NEW p \in Seq(Characters), NEW t \in Seq(Characters), p \o t \in Strings, t # <<>>,
         Machine(p), putc_fb(Head(t))
  PROVE  /\ Putc(p, Head(t))
         /\ Draws(Head(t)) <=> OpenIn(p) = {} /\ Head(t) \notin {NEWLINE, ESC}
<1>. DEFINE c == Head(t)
            n == Len(p)
<1>. USE DEF ESC, BRACKET, EM, NEWLINE, SEMICOLON, DIGIT0, NBR
<1>1. /\ \/ Escape(c)
         \/ Digit(c)
         \/ Bracket(c)
         \/ Colour(c)
         \/ (c = NEWLINE \/ Draws(c)) /\ UNCHANGED <<machine, overrun>>
  BY DEF putc_fb
<1>2. CASE OpenIn(p) = {}
  <2>1. state = "OFF"
    BY <1>2 DEF Machine
  <2>. QED
    BY <1>1, <1>2, <2>1 DEF Putc, Draws, Escape, Digit, Bracket, Colour
<1>3. ASSUME NEW i \in OpenIn(p), i = n PROVE Putc(p, c) /\ ~Draws(c)
  <2>1. state = "PRE_PARSING" /\ c = BRACKET
    BY <1>3, OpenIs DEF Machine
  <2>. QED
    BY <1>1, <1>3, <2>1 DEF Putc, Draws, Escape, Digit, Bracket, Colour
<1>4. ASSUME NEW i \in OpenIn(p), i # n PROVE Putc(p, c) /\ ~Draws(c)
  <2>1. i < n
    BY <1>4 DEF OpenIn
  <2>2. state = "PARSING"
    <3>1. n \notin OpenIn(p)
      BY <1>4, OneOpen
    <3>. QED
      BY <1>4, <3>1 DEF Machine
  <2>3. c = EM \/ (c \in 48 .. 57 /\ n - i < NBR)
    BY <2>1, OpenIs
  <2>. HIDE DEF c
  <2>4. ~Draws(c) /\ c \notin {NEWLINE, ESC, BRACKET}
    <3>1. \A d \in 48 .. 57 : d # 10 /\ d # 27 /\ d # 59 /\ d # 91
      OBVIOUS
    <3>2. c # 10 /\ c # 27 /\ c # 59 /\ c # 91
      BY <2>3, <3>1, SMTT(30)
    <3>. QED
      BY <2>2, <3>2 DEF Draws
  <2>5. (Digit(c) /\ c # EM) \/ (Colour(c) /\ c = EM)
    BY <1>1, <2>2, <2>4 DEF Escape, Digit, Bracket, Colour
  <2>6. Putc(p, c)
    BY <1>4, <2>1, <2>3, <2>5 DEF Putc
  <2>. QED
    BY <2>4, <2>6
<1>. QED
  BY <1>2, <1>3, <1>4


-----------------------------------------------------------------------------
(* While a string is printed it is whole, and the machine follows it.  As  *)
(* long as there was no exception, so does nbr, and nothing breaks off.    *)
Typed ==
  /\ waiting \in Seq(Strings)
  /\ text \in Seq(Characters) /\ said \in Seq(Characters)
  /\ printing \in BOOLEAN
  /\ state \in {"OFF", "PRE_PARSING", "PARSING"}
  /\ nbr \in [0 .. (NBR - 1) -> 0 .. 127]
  /\ ptr \in 0 .. (NBR + 1) /\ (overrun <=> ptr = NBR + 1)
  /\ overrun \in BOOLEAN
  /\ fg \in Colours
  /\ x \in Nat /\ y \in Nat
  /\ before.x \in Nat /\ before.y \in Nat
  /\ exceptions \in Nat

Reading == printing \/ exceptions = 0 => said \o text \in Strings /\ Machine(said)

Unbroken ==
  exceptions = 0 => ~overrun /\ Buffered(said) /\ (~printing => text = <<>>)

Inv == Typed /\ Reading /\ Unbroken /\ ColourFollowsText /\ CursorFollowsText

(* Where the cursor is, by the newlines and what is on the line.           *)
LEMMA CursorIs ==
  CursorFollowsText <=>
    (printing /\ y + FONT_HEIGHT < Height =>
       /\ y = before.y + FONT_SPACE_Y * Cardinality(Breaks(said))
       /\ x = (IF Breaks(said) = {} THEN before.x ELSE defaultX - FONT_WIDTH)
                + FONT_WIDTH * Cardinality(OnLine(said)))
BY DEF CursorFollowsText, Breaks, OnLine

(* A text of no character has no colour, and leaves the cursor alone.      *)
LEMMA NothingSaid ==
  /\ OpenIn(<<>>) = {} /\ Breaks(<<>>) = {} /\ OnLine(<<>>) = {}
  /\ \A colour : ColourOf(<<>>, colour) = colour
  /\ Cardinality({}) = 0
<1>1. Len(<<>>) = 0 /\ DOMAIN <<>> = {}
  OBVIOUS
<1>2. OpenIn(<<>>) = {} /\ Breaks(<<>>) = {} /\ OnLine(<<>>) = {}
  BY <1>1 DEF OpenIn, Breaks, OnLine
<1>3. LastOf(<<>>) = {}
  <2>1. Escapes(<<>>) = {}
    BY <1>1 DEF Escapes
  <2>. QED
    BY <2>1 DEF LastOf, Effective
<1>4. \A colour : ColourOf(<<>>, colour) = colour
  BY <1>3, ColourIs
<1>. QED
  BY <1>2, <1>4, FS_EmptySet

(* What the kernel starts with.                                            *)
LEMMA InvInit == Init => Inv
<1>. SUFFICES ASSUME Init PROVE Inv
  OBVIOUS
<1>1. Typed
  <2>1. overrun = FALSE /\ ptr = 0 /\ nbr = [i \in 0 .. (NBR - 1) |-> 0]
    BY DEF Init
  <2>2. 0 # NBR + 1 /\ 0 \in 0 .. (NBR + 1) /\ 0 \in 0 .. 127
    BY DEF NBR
  <2>3. (overrun <=> ptr = NBR + 1) /\ overrun \in BOOLEAN /\ ptr \in 0 .. (NBR + 1)
    BY <2>1, <2>2, Zenon
  <2>4. nbr \in [0 .. (NBR - 1) -> 0 .. 127]
    BY <2>1, <2>2
  <2>5. /\ waiting \in Seq(Strings)
        /\ text \in Seq(Characters) /\ said \in Seq(Characters)
        /\ state \in {"OFF", "PRE_PARSING", "PARSING"}
    BY DEF Init
  <2>6. printing \in BOOLEAN
    BY DEF Init
  <2>7. fg \in Colours
    BY DEF Init, Colours
  <2>8. /\ x \in Nat /\ y \in Nat
        /\ before.x \in Nat /\ before.y \in Nat
        /\ exceptions \in Nat
    BY ScreenAssumption DEF Init
  <2>. QED
    BY <2>3, <2>4, <2>5, <2>6, <2>7, <2>8, Zenon DEF Typed
<1>2. said = <<>> /\ text = <<>> /\ said \o text = <<>> /\ <<>> \in Strings
  BY DEF Init, Strings
<1>3. Reading
  BY <1>2, NothingSaid DEF Init, Reading, Machine
<1>4. Unbroken
  BY <1>2, NothingSaid DEF Init, Unbroken, Buffered, Holds
<1>5. ColourFollowsText
  BY <1>2, NothingSaid DEF Init, ColourFollowsText
<1>6. CursorFollowsText
  BY CursorIs DEF Init
<1>. QED
  BY <1>1, <1>3, <1>4, <1>5, <1>6 DEF Inv

(* A string that starts is whole, and nothing of it is said.               *)
LEMMA StartsKeeps ==
  ASSUME Inv, NEW string \in Strings, Starts(string),
         waiting' \in Seq(Strings)
  PROVE  Inv'
<1>1. /\ printing' = TRUE /\ text' = string /\ state' = "OFF" /\ said' = <<>>
      /\ before' = [fg |-> fg, x |-> x, y |-> y]
      /\ UNCHANGED <<nbr, ptr, fg, x, y, overrun, exceptions>>
      /\ ~printing
  BY DEF Starts
<1>2. string \in Seq(Characters) /\ <<>> \o string = string
  BY DEF Strings, Characters
<1>3. Typed'
  BY <1>1, <1>2 DEF Inv, Typed
<1>4. Reading'
  <2>1. OpenIn(said') = {}
    BY <1>1, NothingSaid
  <2>2. Machine(said)'
    BY <1>1, <2>1 DEF Machine, OpenIn
  <2>. QED
    BY <1>1, <1>2, <2>2 DEF Reading
<1>5. Unbroken'
  <2>. SUFFICES ASSUME exceptions' = 0
                PROVE  (~overrun /\ Buffered(said) /\ (~printing => text = <<>>))'
    BY DEF Unbroken
  <2>1. exceptions = 0 /\ text = <<>> /\ ~overrun /\ Buffered(said) /\ Machine(said)
        /\ said \o text \in Strings
    BY <1>1 DEF Inv, Unbroken, Reading
  <2>2. OpenIn(said) = {}
    <3>1. said \o <<>> = said
      BY DEF Inv, Typed
    <3>. QED
      BY <2>1, <3>1, NoneOpen
  <2>3. ptr = 0 /\ \A k \in 0 .. (NBR - 1) : nbr[k] = 0
    <3>1. state = "OFF"
      BY <2>1, <2>2 DEF Machine
    <3>2. ptr = 0
      BY <2>1, <3>1 DEF Buffered, Holds
    <3>. QED
      BY <2>1, <3>2 DEF Buffered, Holds
  <2>4. OpenIn(said') = {}
    BY <1>1, NothingSaid
  <2>5. Buffered(said)'
    BY <1>1, <2>3, <2>4 DEF Buffered, Holds, OpenIn
  <2>. QED
    BY <1>1, <2>1, <2>5
<1>6. ColourFollowsText'
  BY <1>1, NothingSaid DEF ColourFollowsText
<1>7. CursorFollowsText'
  <2>1. x \in Nat /\ y \in Nat /\ FONT_WIDTH \in Nat /\ FONT_SPACE_Y \in Nat
    BY ScreenAssumption DEF Inv, Typed
  <2>2. Breaks(said') = {} /\ OnLine(said') = {} /\ Cardinality({}) = 0
    BY <1>1, NothingSaid
  <2>3. y + FONT_SPACE_Y * 0 = y /\ x + FONT_WIDTH * 0 = x
    BY <2>1
  <2>4. y' = before'.y + FONT_SPACE_Y * Cardinality(Breaks(said'))
        /\ x' = (IF Breaks(said') = {} THEN before'.x ELSE defaultX - FONT_WIDTH)
                  + FONT_WIDTH * Cardinality(OnLine(said'))
    BY <1>1, <2>2, <2>3
  <2>. QED
    BY <2>4, CursorIs DEF CursorFollowsText, Breaks, OnLine
<1>. QED
  BY <1>3, <1>4, <1>5, <1>6, <1>7 DEF Inv


-----------------------------------------------------------------------------
(* What puts_fb does with the next character.                              *)
LEMMA PutsDoes ==
  ASSUME Inv, puts_fb
  PROVE  /\ printing /\ ~overrun /\ said \o text \in Strings /\ Machine(said)
         /\ said \in Seq(Characters) /\ text \in Seq(Characters) /\ text # <<>>
         /\ Head(text) \in Characters
         /\ Putc(said, Head(text)) /\ putc_fb(Head(text))
         /\ Draws(Head(text)) <=> OpenIn(said) = {} /\ Head(text) \notin {NEWLINE, ESC}
         /\ said' = Append(said, Head(text)) /\ said' \in Seq(Characters)
         /\ text' \in Seq(Characters) /\ said' \o text' = said \o text
         /\ UNCHANGED <<waiting, printing, counts, before>>
<1>1. /\ printing /\ ~overrun /\ text # <<>> /\ putc_fb(Head(text))
      /\ text' = Tail(text) /\ said' = Append(said, Head(text))
      /\ UNCHANGED <<waiting, printing, counts, before>>
  BY DEF puts_fb
<1>2. said \in Seq(Characters) /\ text \in Seq(Characters)
  BY DEF Inv, Typed
<1>3. said \o text \in Strings /\ Machine(said)
  BY <1>1 DEF Inv, Reading
<1>4. Head(text) \in Characters /\ Tail(text) \in Seq(Characters)
      /\ Append(said, Head(text)) \in Seq(Characters)
  BY <1>1, <1>2
<1>5. Append(said, Head(text)) \o Tail(text) = said \o text
  BY <1>1, <1>2
<1>6. /\ Putc(said, Head(text))
      /\ Draws(Head(text)) <=> OpenIn(said) = {} /\ Head(text) \notin {NEWLINE, ESC}
  BY <1>1, <1>2, <1>3, PutcDoes
<1>. QED
  BY <1>1, <1>2, <1>3, <1>4, <1>5, <1>6

(* The machine follows.                                                    *)
LEMMA PutsMachine ==
  ASSUME NEW p \in Seq(Characters), NEW c \in Characters,
         Machine(p), Putc(p, c), said' = Append(p, c)
  PROVE  Machine(said)'
<1>. USE DEF ESC, EM, BRACKET, DIGIT0
<1>. DEFINE n == Len(p)
<1>1. n \in Nat /\ Len(Append(p, c)) = n + 1
  BY Extended
<1>2. OpenIn(p) \subseteq 1 .. n /\ n + 1 \notin 1 .. n
  BY <1>1 DEF OpenIn
<1>3. OpenIn(Append(p, c)) =
        (IF c = EM THEN {} ELSE OpenIn(p)) \cup (IF c = ESC THEN {n + 1} ELSE {})
  BY OpenNext
<1>. DEFINE open == OpenIn(Append(p, c))
<1>4. Machine(said)'
        <=> state' = IF open = {} THEN "OFF"
                     ELSE IF n + 1 \in open THEN "PRE_PARSING" ELSE "PARSING"
  BY <1>1 DEF Machine, OpenIn
<1>. HIDE DEF open, n
<1>5. open = (IF c = EM THEN {} ELSE OpenIn(p)) \cup (IF c = ESC THEN {n + 1} ELSE {})
  BY <1>3 DEF open, n
<1>6. CASE OpenIn(p) = {} /\ c # ESC /\ UNCHANGED <<machine, overrun>>
  <2>1. open = {} /\ state = "OFF" /\ state' = state
    BY <1>5, <1>6 DEF Machine, machine
  <2>. QED
    BY <1>4, <2>1
<1>7. CASE OpenIn(p) = {} /\ c = ESC /\ Escape(c)
  <2>1. open = {n + 1} /\ state' = "PRE_PARSING"
    BY <1>5, <1>7 DEF Escape
  <2>. QED
    BY <1>4, <2>1
<1>8. ASSUME NEW i \in OpenIn(p), c \notin {ESC, EM}, state' = "PARSING"
      PROVE  Machine(said)'
  <2>1. open = OpenIn(p) /\ n + 1 \notin open /\ open # {}
    BY <1>2, <1>5, <1>8 DEF n
  <2>. QED
    BY <1>4, <1>8, <2>1
<1>9. CASE c = BRACKET /\ Bracket(c) /\ \E i \in OpenIn(p) : i = Len(p)
  <2>1. c \notin {ESC, EM} /\ state' = "PARSING"
    BY <1>9 DEF Bracket
  <2>. QED
    BY <1>8, <1>9, <2>1
<1>10. CASE Digit(c) /\ c \in DIGIT0 .. (DIGIT0 + 9)
              /\ \E i \in OpenIn(p) : i < Len(p) /\ Len(p) - i < NBR
  <2>1. c \notin {ESC, EM} /\ state' = "PARSING"
    BY <1>10 DEF Digit
  <2>. QED
    BY <1>8, <1>10, <2>1
<1>11. CASE c = EM /\ Colour(c) /\ \E i \in OpenIn(p) : i < Len(p)
  <2>1. open = {} /\ state' = "OFF"
    BY <1>5, <1>11 DEF Colour
  <2>. QED
    BY <1>4, <2>1
<1>. QED
  BY <1>6, <1>7, <1>9, <1>10, <1>11 DEF Putc

(* nbr follows: a digit goes behind those of its sequence, and there is    *)
(* room for it.                                                            *)
LEMMA PutsBuffered ==
  ASSUME NEW p \in Seq(Characters), NEW c \in Characters, Typed,
         Machine(p), Buffered(p), Putc(p, c), said' = Append(p, c), Machine(said)',
         \A i, k \in OpenIn(p) : i = k
  PROVE  Buffered(said)' /\ overrun' = overrun
<1>. USE DEF ESC, EM, BRACKET, DIGIT0, NBR
<1>. DEFINE n == Len(p)
            q == Append(p, c)
            open == OpenIn(q)
<1>1. /\ n \in Nat /\ Len(q) = n + 1 /\ q[n+1] = c
      /\ \A k \in 1 .. n : q[k] = p[k]
  BY Extended
<1>2. OpenIn(p) \subseteq 1 .. n /\ n + 1 \notin 1 .. n
  BY <1>1 DEF OpenIn
<1>3. open = (IF c = EM THEN {} ELSE OpenIn(p)) \cup (IF c = ESC THEN {n + 1} ELSE {})
  BY OpenNext
<1>4. Buffered(said)' <=>
        /\ state' # "PARSING" => ptr' = 0
        /\ \A i \in open : i < n + 1 =>
             /\ ptr' = (n + 1) - i - 1
             /\ \A k \in 0 .. (ptr' - 1) : nbr'[k] = q[i + 2 + k]
        /\ \A k \in 0 .. (NBR - 1) : ptr' <= k => nbr'[k] = 0
  <2>1. Buffered(said)' = Holds(state', nbr', ptr', q)
    BY DEF Buffered, Holds, OpenIn
  <2>. HIDE DEF q, n
  <2>. QED
    BY <1>1, <2>1 DEF Holds
<1>. HIDE DEF open, q, n
<1>5. ASSUME UNCHANGED <<nbr, ptr>>, ptr = 0, \A i \in open : i < n + 1 => i = n
      PROVE  Buffered(said)'
  <2>1. \A k \in 0 .. (NBR - 1) : nbr[k] = 0
    BY <1>5 DEF Buffered, Holds
  <2>2. \A i \in open : i < n + 1 => 0 = (n + 1) - i - 1
    BY <1>1, <1>5
  <2>3. 0 .. (0 - 1) = {}
    OBVIOUS
  <2>. QED
    BY <1>4, <1>5, <2>1, <2>2, <2>3
<1>6. CASE OpenIn(p) = {} /\ c # ESC /\ UNCHANGED <<machine, overrun>>
  <2>1. open = {} /\ state = "OFF"
    BY <1>3, <1>6 DEF Machine
  <2>2. ptr = 0 /\ UNCHANGED <<nbr, ptr>> /\ overrun' = overrun
    BY <1>6, <2>1 DEF Buffered, Holds, machine
  <2>. QED
    BY <1>5, <2>1, <2>2
<1>7. CASE OpenIn(p) = {} /\ c = ESC /\ Escape(c)
  <2>1. open = {n + 1} /\ state = "OFF"
    BY <1>3, <1>7 DEF Machine
  <2>2. ptr = 0 /\ UNCHANGED <<nbr, ptr>> /\ overrun' = overrun
    BY <1>7, <2>1 DEF Buffered, Holds, Escape
  <2>. QED
    BY <1>1, <1>5, <2>1, <2>2
<1>8. CASE c = BRACKET /\ Bracket(c) /\ \E i \in OpenIn(p) : i = Len(p)
  <2>1. open = {n}
    BY <1>3, <1>8 DEF n
  <2>2. ptr = 0 /\ UNCHANGED <<nbr, ptr>> /\ overrun' = overrun
    BY <1>8 DEF Buffered, Holds, Bracket
  <2>. QED
    BY <1>1, <1>5, <2>1, <2>2
<1>9. CASE Digit(c) /\ c \in DIGIT0 .. (DIGIT0 + 9)
              /\ \E i \in OpenIn(p) : i < Len(p) /\ Len(p) - i < NBR
  <2>1. PICK i \in OpenIn(p) : i < n /\ n - i < NBR
    BY <1>9 DEF n
  <2>2. i \in 1 .. n /\ open = {i}
    BY <1>2, <1>3, <1>9, <2>1
  <2>3. /\ ptr = n - i - 1
        /\ \A k \in 0 .. (ptr - 1) : nbr[k] = p[i + 2 + k]
        /\ \A k \in 0 .. (NBR - 1) : ptr <= k => nbr[k] = 0
    BY <2>1 DEF Buffered, Holds, n
  <2>4. ptr \in 0 .. (NBR - 1) /\ ptr < NBR /\ ptr + 1 = (n + 1) - i - 1
    BY <1>1, <2>1, <2>2, <2>3
  <2>6. nbr \in [0 .. (NBR - 1) -> 0 .. 127] /\ DOMAIN nbr = 0 .. (NBR - 1)
    BY DEF Typed
  <2>5. /\ nbr' = [k \in DOMAIN nbr |-> IF k = ptr THEN c ELSE nbr[k]] /\ ptr' = ptr + 1
        /\ overrun' = overrun /\ state' = "PARSING"
    <3>1. ptr \in DOMAIN nbr /\ ptr # NBR + 1
      BY <2>4, <2>6 DEF NBR
    <3>2. overrun = FALSE
      BY <3>1, Zenon DEF Typed
    <3>3. overrun' = (ptr \notin DOMAIN nbr) /\ state' = state /\ state = "PARSING"
      BY <1>9, Zenon DEF Digit
    <3>4. overrun' = overrun
      BY <3>1, <3>2, <3>3, Zenon
    <3>. QED
      BY <1>9, <3>3, <3>4, Zenon DEF Digit
  <2>7. nbr'[ptr] = c /\ \A k \in 0 .. (NBR - 1) : k # ptr => nbr'[k] = nbr[k]
    BY <2>4, <2>5, <2>6
  <2>8. \A k \in 0 .. (ptr' - 1) : nbr'[k] = q[i + 2 + k]
    <3>1. \A k \in 0 .. (ptr' - 1) : k = ptr \/ (k \in 0 .. (ptr - 1) /\ k \in 0 .. (NBR - 1))
      BY <2>4, <2>5
    <3>2. i + 2 + ptr = n + 1
      BY <1>1, <2>2, <2>3
    <3>3. \A k \in 0 .. (ptr - 1) : i + 2 + k \in 1 .. n /\ k # ptr
      BY <1>1, <2>2, <2>3
    <3>. QED
      BY <1>1, <2>3, <2>7, <3>1, <3>2, <3>3
  <2>9. \A k \in 0 .. (NBR - 1) : ptr' <= k => nbr'[k] = 0
    <3>1. \A k \in 0 .. (NBR - 1) : ptr' <= k => ptr <= k /\ k # ptr
      BY <2>4, <2>5
    <3>. QED
      BY <2>3, <2>7, <3>1
  <2>10. Buffered(said)'
    BY <1>4, <2>2, <2>4, <2>5, <2>8, <2>9
  <2>. QED
    BY <2>5, <2>10
<1>10. CASE c = EM /\ Colour(c) /\ \E i \in OpenIn(p) : i < Len(p)
  <2>1. open = {}
    BY <1>3, <1>10
  <2>2. nbr' = [i \in 0 .. (NBR - 1) |-> 0] /\ ptr' = 0 /\ overrun' = overrun
    BY <1>10 DEF Colour, Typed
  <2>. QED
    BY <1>4, <2>1, <2>2
<1>. QED
  BY <1>6, <1>7, <1>8, <1>9, <1>10 DEF Putc


(* atoi reads the digits of the open sequence, and finds their end.        *)
LEMMA NumberRead ==
  ASSUME Typed, NEW p \in Seq(Characters), Buffered(p),
         NEW i \in OpenIn(p), i < Len(p), Len(p) - i <= NBR,
         \A k \in (i + 2) .. Len(p) : p[k] \in DIGIT0 .. (DIGIT0 + 9)
  PROVE  ~Unterminated /\ atoi(Chars(nbr)) = Digits(SubSeq(p, i + 2, Len(p)))
<1>. USE DEF NBR, NUL
<1>. DEFINE n == Len(p)
            ends == {k \in DOMAIN nbr : nbr[k] = NUL}
            digits == SubSeq(p, i + 2, n)
<1>1. n \in Nat /\ i \in 1 .. n
  BY DEF OpenIn
<1>2. /\ ptr = n - i - 1
      /\ \A k \in 0 .. (ptr - 1) : nbr[k] = p[i + 2 + k]
      /\ \A k \in 0 .. (NBR - 1) : ptr <= k => nbr[k] = 0
  BY DEF Buffered, Holds
<1>3. ptr \in 0 .. (NBR - 1) /\ DOMAIN nbr = 0 .. (NBR - 1)
  BY <1>1, <1>2 DEF Typed
<1>4. ~Unterminated
  BY <1>2, <1>3 DEF Unterminated
<1>5. \A k \in 0 .. (ptr - 1) : nbr[k] \in DIGIT0 .. (DIGIT0 + 9)
  <2>1. \A k \in 0 .. (ptr - 1) : i + 2 + k \in (i + 2) .. n
    BY <1>1, <1>2, <1>3
  <2>. QED
    BY <1>2, <2>1
<1>6. ptr \in ends /\ \A k \in ends : ptr <= k
  <2>1. ptr \in ends
    BY <1>2, <1>3
  <2>2. \A k \in 0 .. (ptr - 1) : nbr[k] # 0
    BY <1>5 DEF DIGIT0
  <2>3. \A k \in ends : k \in 0 .. (NBR - 1) /\ nbr[k] = 0
    BY <1>3
  <2>. HIDE DEF ends
  <2>. QED
    BY <1>3, <2>1, <2>2, <2>3
<1>7. Min(ends) = ptr
  <2>1. ends \in SUBSET Nat
    BY <1>3
  <2>. HIDE DEF ends
  <2>2. Min(ends) \in ends /\ \A k \in ends : Min(ends) <= k
    BY <1>6, <2>1, MinOfNaturals
  <2>3. Min(ends) <= ptr /\ ptr <= Min(ends)
    BY <1>6, <2>2, Zenon
  <2>4. Min(ends) \in Nat
    BY <2>1, <2>2, Zenon
  <2>. QED
    BY <1>3, <2>3, <2>4
<1>8. Chars(nbr) = [k \in 1 .. ptr |-> nbr[k - 1]]
  BY <1>6, <1>7, Zenon DEF Chars
<1>9. digits \in Seq(Characters) /\ Len(digits) = ptr
      /\ \A k \in 1 .. ptr : digits[k] = p[i + 1 + k]
  <2>1. i + 2 \in Nat /\ i + 2 >= 1 /\ n - (i + 2) + 1 = ptr
    BY <1>1, <1>2
  <2>2. \A k \in (i + 2) .. n : p[k] \in Characters
    BY <1>1
  <2>. QED
    BY <1>1, <1>3, <2>1, <2>2
<1>10. \A k \in 1 .. ptr : nbr[k - 1] = digits[k]
  <2>1. \A k \in 1 .. ptr : k - 1 \in 0 .. (ptr - 1) /\ i + 2 + (k - 1) = i + 1 + k
    BY <1>1, <1>3
  <2>. HIDE DEF digits
  <2>. QED
    BY <1>2, <1>9, <2>1
<1>11. Chars(nbr) = digits
  <2>. HIDE DEF digits
  <2>1. digits = [k \in 1 .. ptr |-> digits[k]]
    BY <1>9
  <2>2. [k \in 1 .. ptr |-> nbr[k - 1]] = [k \in 1 .. ptr |-> digits[k]]
    BY <1>10, Zenon
  <2>. QED
    BY <1>8, <2>1, <2>2, Zenon
<1>12. digits # <<>> => Head(digits) # MINUS
  <2>1. digits # <<>> => Head(digits) = nbr[0] /\ 0 \in 0 .. (ptr - 1)
    <3>. HIDE DEF digits
    <3>1. digits # <<>> => 1 \in 1 .. ptr /\ Head(digits) = digits[1]
      BY <1>3, <1>9
    <3>2. 1 \in 1 .. ptr => nbr[1 - 1] = digits[1]
      BY <1>10
    <3>. QED
      BY <1>3, <3>1, <3>2
  <2>. HIDE DEF digits
  <2>2. digits # <<>> => Head(digits) \in DIGIT0 .. (DIGIT0 + 9)
    BY <1>5, <2>1
  <2>. QED
    BY <2>2 DEF DIGIT0, MINUS
<1>. HIDE DEF digits
<1>13. atoi(digits) = Digits(digits)
  BY <1>12 DEF atoi
<1>. QED
  BY <1>4, <1>11, <1>13 DEF digits, n

(* The colour follows.                                                     *)
LEMMA PutsColour ==
  ASSUME Inv, puts_fb, exceptions = 0
  PROVE  fg' = ColourOf(said', before.fg)
<1>. DEFINE p == said
            c == Head(text)
            q == Append(p, c)
<1>. USE DEF ESC, EM, BRACKET, DIGIT0
<1>1. /\ p \o text \in Strings /\ p \in Seq(Characters) /\ text \in Seq(Characters)
      /\ text # <<>> /\ Putc(p, c) /\ said' = q
  BY PutsDoes
<1>2. fg = ColourOf(p, before.fg) /\ Buffered(p) /\ Typed
  BY DEF Inv, ColourFollowsText, Unbroken
<1>3. c # EM \/ OpenIn(p) = {} => ColourOf(q, before.fg) = ColourOf(p, before.fg)
  BY <1>1, ColourNext
<1>4. \A i \in OpenIn(p) : c = EM =>
        ColourOf(q, before.fg) = Painted(Digits(SubSeq(p, i + 2, Len(p))), ColourOf(p, before.fg))
  BY <1>1, ColourNext
<1>5. \A i \in OpenIn(p) : Len(p) - i <= NBR
                           /\ \A k \in (i + 2) .. Len(p) : p[k] \in DIGIT0 .. (DIGIT0 + 9)
  BY <1>1, OpenIs
<1>. SUFFICES fg' = ColourOf(q, before.fg)
  BY <1>1
<1>. HIDE DEF p, c, q
<1>6. ASSUME c # EM \/ OpenIn(p) = {}, fg' = fg
      PROVE  fg' = ColourOf(q, before.fg)
  BY <1>2, <1>3, <1>6
<1>7. CASE OpenIn(p) = {} /\ c # ESC /\ UNCHANGED <<machine, overrun>>
  BY <1>6, <1>7 DEF machine
<1>8. CASE OpenIn(p) = {} /\ c = ESC /\ Escape(c)
  BY <1>6, <1>8 DEF Escape
<1>9. CASE c = BRACKET /\ Bracket(c) /\ \E i \in OpenIn(p) : i = Len(p)
  BY <1>6, <1>9 DEF Bracket
<1>10. CASE Digit(c) /\ c \in DIGIT0 .. (DIGIT0 + 9)
              /\ \E i \in OpenIn(p) : i < Len(p) /\ Len(p) - i < NBR
  BY <1>6, <1>10 DEF Digit
<1>11. CASE c = EM /\ Colour(c) /\ \E i \in OpenIn(p) : i < Len(p)
  <2>1. PICK i \in OpenIn(p) : i < Len(p)
    BY <1>11
  <2>2. ~Unterminated /\ atoi(Chars(nbr)) = Digits(SubSeq(p, i + 2, Len(p)))
    <3>1. p \in Seq(Characters)
      BY <1>1
    <3>. QED
      BY <1>2, <1>5, <2>1, <3>1, NumberRead
  <2>3. fg' = Painted(atoi(Chars(nbr)), fg)
    BY <1>11, <2>2, Zenon DEF Colour
  <2>4. ColourOf(q, before.fg) = Painted(Digits(SubSeq(p, i + 2, Len(p))), fg)
    BY <1>2, <1>4, <1>11, Zenon
  <2>. QED
    BY <2>2, <2>3, <2>4, Zenon
<1>. QED
  BY <1>1, <1>7, <1>8, <1>9, <1>10, <1>11 DEF Putc


(* The cursor follows, above the bottom line.                              *)
LEMMA PutsCursor ==
  ASSUME Inv, puts_fb
  PROVE  CursorFollowsText' /\ x' \in Nat /\ y' \in Nat
<1>. DEFINE p == said
            c == Head(text)
            q == Append(p, c)
            n == Len(p)
            W == FONT_WIDTH
            S == FONT_SPACE_Y
            at == [x |-> x, y |-> y]
            to == Moved(c, Feed(at))
<1>1. /\ p \in Seq(Characters) /\ c \in Characters /\ said' = q /\ before' = before /\ printing
      /\ Draws(c) <=> OpenIn(p) = {} /\ c \notin {NEWLINE, ESC}
  BY PutsDoes
<1>2. x' = to.x /\ y' = to.y
  BY PutsDoes DEF putc_fb
<1>3. /\ x \in Nat /\ y \in Nat /\ W \in Nat /\ S \in Nat /\ FONT_HEIGHT \in Nat /\ Height \in Nat
      /\ defaultX \in Nat /\ defaultX - W \in Nat
      /\ before.x \in Nat /\ before.y \in Nat
  BY ScreenAssumption DEF Inv, Typed
<1>4. /\ Feed(at).x \in Nat /\ Feed(at).y \in Nat
      /\ y + FONT_HEIGHT >= Height => Feed(at).y = y + S
      /\ y + FONT_HEIGHT < Height => Feed(at).x = x /\ Feed(at).y = y
      /\ Feed(at) = [x |-> Feed(at).x, y |-> Feed(at).y]
  BY <1>3 DEF Feed
<1>. DEFINE fed == Feed(at)
<1>. HIDE DEF at, fed
<1>5. /\ x' = IF c = NEWLINE THEN defaultX - W ELSE IF Draws(c) THEN fed.x + W ELSE fed.x
      /\ y' = IF c = NEWLINE THEN fed.y + S ELSE fed.y
  <2>1. x' = Moved(c, fed).x /\ y' = Moved(c, fed).y
    BY <1>2 DEF fed
  <2>2. fed = [x |-> fed.x, y |-> fed.y]
    BY <1>4 DEF fed
  <2>3. c = NEWLINE => ~Draws(c)
    BY DEF Draws
  <2>. HIDE DEF c
  <2>4. CASE c = NEWLINE
    <3>1. Moved(c, fed) = [x |-> defaultX - FONT_WIDTH, y |-> fed.y + FONT_SPACE_Y]
      BY <2>3, <2>4 DEF Moved
    <3>. QED
      BY <2>1, <2>4, <3>1
  <2>5. CASE Draws(c)
    BY <2>1, <2>2, <2>3, <2>5 DEF Moved, W
  <2>6. CASE c # NEWLINE /\ ~Draws(c)
    BY <2>1, <2>6 DEF Moved
  <2>. QED
    BY <2>3, <2>4, <2>5, <2>6
<1>6. x' \in Nat /\ y' \in Nat
  BY <1>3, <1>4, <1>5 DEF fed
<1>7. ASSUME y' + FONT_HEIGHT < Height
      PROVE  y + FONT_HEIGHT < Height /\ fed.x = x /\ fed.y = y
  BY <1>3, <1>4, <1>5, <1>7 DEF fed
<1>8. /\ Breaks(q) = Breaks(p) \cup (IF c = NEWLINE THEN {n + 1} ELSE {})
      /\ OnLine(q) = IF c = NEWLINE THEN {}
                     ELSE OnLine(p) \cup (IF c = ESC \/ OpenIn(p) # {} THEN {} ELSE {n + 1})
      /\ IsFiniteSet(Breaks(p)) /\ IsFiniteSet(OnLine(p))
      /\ n + 1 \notin Breaks(p) /\ n + 1 \notin OnLine(p)
  BY <1>1, LineNext
<1>. DEFINE b == Cardinality(Breaks(p))
            l == Cardinality(OnLine(p))
            column == IF Breaks(p) = {} THEN before.x ELSE defaultX - W
<1>9. b \in Nat /\ l \in Nat
  BY <1>8, FS_CardinalityType
<1>10. y + FONT_HEIGHT < Height => y = before.y + S * b /\ x = column + W * l
  BY <1>1, CursorIs DEF Inv
<1>11. SUFFICES ASSUME y' + FONT_HEIGHT < Height
                PROVE  /\ y' = before.y + S * Cardinality(Breaks(q))
                       /\ x' = (IF Breaks(q) = {} THEN before.x ELSE defaultX - W)
                                 + W * Cardinality(OnLine(q))
  BY <1>1, <1>6 DEF CursorFollowsText, Breaks, OnLine
<1>. HIDE DEF p, c, q, n, W, S, b, l
<1>12. CASE c = NEWLINE
  <2>1. OnLine(q) = {} /\ Breaks(q) = Breaks(p) \cup {n + 1} /\ Breaks(q) # {}
    BY <1>8, <1>12
  <2>2. Cardinality(Breaks(q)) = b + 1 /\ Cardinality(OnLine(q)) = 0
    BY <1>8, <2>1, FS_AddElement, FS_EmptySet, ZenonT(40) DEF b
  <2>3. y' = y + S /\ x' = defaultX - W /\ y = before.y + S * b
    <3>1. y + FONT_HEIGHT < Height /\ fed.y = y
      BY <1>7, <1>11
    <3>. QED
      BY <1>5, <1>10, <1>12, <3>1
  <2>4. S * (b + 1) = S * b + S /\ W * 0 = 0 /\ S * b \in Nat
    BY <1>3, <1>9
  <2>5. y' = before.y + S * (b + 1)
    <3>. DEFINE lines == S * b
    <3>1. lines \in Nat /\ y' = (before.y + lines) + S /\ S * (b + 1) = lines + S
      BY <2>3, <2>4
    <3>. HIDE DEF lines
    <3>. QED
      BY <1>3, <3>1
  <2>6. x' = (defaultX - W) + W * 0
    BY <1>3, <2>3, <2>4
  <2>. QED
    BY <2>1, <2>2, <2>5, <2>6
<1>13. CASE c # NEWLINE
  <2>1. Breaks(q) = Breaks(p) /\ y' = y /\ y = before.y + S * b /\ x = column + W * l
    BY <1>5, <1>7, <1>8, <1>10, <1>11, <1>13
  <2>2. y' = before.y + S * Cardinality(Breaks(q))
    BY <2>1 DEF b
  <2>3. CASE Draws(c)
    <3>1. OnLine(q) = OnLine(p) \cup {n + 1}
      BY <1>1, <1>8, <1>13, <2>3
    <3>2. Cardinality(OnLine(q)) = l + 1
      BY <1>8, <3>1, FS_AddElement DEF l
    <3>3. x' = x + W
      BY <1>5, <1>7, <1>11, <1>13, <2>3
    <3>4. W * (l + 1) = W * l + W /\ W * l \in Nat /\ column \in Nat
      BY <1>3, <1>9
    <3>5. x' = column + W * (l + 1)
      <4>. DEFINE along == W * l
      <4>1. along \in Nat /\ x' = (column + along) + W /\ W * (l + 1) = along + W
        BY <2>1, <3>3, <3>4
      <4>. HIDE DEF along, column
      <4>. QED
        BY <1>3, <3>4, <4>1
    <3>. QED
      BY <2>1, <2>2, <3>2, <3>5
  <2>4. CASE ~Draws(c)
    <3>1. OnLine(q) = OnLine(p)
      BY <1>1, <1>8, <1>13, <2>4
    <3>2. x' = x
      BY <1>5, <1>7, <1>11, <1>13, <2>4
    <3>. QED
      BY <2>1, <2>2, <3>1, <3>2 DEF l
  <2>. QED
    BY <2>3, <2>4
<1>. QED
  BY <1>12, <1>13

(* A digit of the colour scheme, or the default.                           *)
LEMMA PaintedIsColour ==
  ASSUME NEW digit, NEW colour \in Colours
  PROVE  Painted(digit, colour) \in Colours
BY DEF Painted, Colours

(* A character keeps the invariant.                                        *)
LEMMA PutsKeeps ==
  ASSUME Inv, puts_fb
  PROVE  Inv'
<1>. DEFINE c == Head(text)
<1>1. /\ printing /\ ~overrun /\ said \o text \in Strings /\ Machine(said)
      /\ said \in Seq(Characters) /\ text \in Seq(Characters) /\ text # <<>>
      /\ c \in Characters /\ Putc(said, c)
      /\ said' = Append(said, c) /\ said' \in Seq(Characters)
      /\ text' \in Seq(Characters) /\ said' \o text' = said \o text
      /\ UNCHANGED <<waiting, printing, counts, before>>
  BY PutsDoes
<1>. HIDE DEF c
<1>2. Typed
  BY DEF Inv
<1>3. state' \in {"OFF", "PRE_PARSING", "PARSING"} /\ nbr' \in [0 .. (NBR - 1) -> 0 .. 127]
      /\ ptr' \in 0 .. (NBR + 1) /\ (overrun' <=> ptr' = NBR + 1) /\ overrun' \in BOOLEAN
      /\ fg' \in Colours
  <2>1. c \in 0 .. 127
    BY <1>1 DEF Characters
  <2>2. CASE OpenIn(said) = {} /\ c # ESC /\ UNCHANGED <<machine, overrun>>
    BY <1>2, <2>2 DEF Typed, machine
  <2>3. CASE Escape(c)
    BY <1>2, <2>3 DEF Typed, Escape
  <2>4. CASE Bracket(c)
    BY <1>2, <2>4 DEF Typed, Bracket
  <2>5. CASE Digit(c)
    <3>1. /\ UNCHANGED <<state, fg>> /\ ptr' = ptr + 1
          /\ nbr' = [k \in DOMAIN nbr |-> IF k = ptr THEN c ELSE nbr[k]]
          /\ overrun' = (ptr \notin DOMAIN nbr)
      BY <2>5 DEF Digit
    <3>2. ptr \in 0 .. NBR /\ DOMAIN nbr = 0 .. (NBR - 1)
      BY <1>1, <1>2 DEF Typed, NBR
    <3>3. ptr \notin DOMAIN nbr <=> ptr + 1 = NBR + 1
      BY <3>2 DEF NBR
    <3>4. nbr' \in [0 .. (NBR - 1) -> 0 .. 127]
      BY <1>2, <2>1, <3>1 DEF Typed
    <3>5. ptr' \in 0 .. (NBR + 1)
      BY <3>1, <3>2 DEF NBR
    <3>6. (overrun' <=> ptr' = NBR + 1) /\ overrun' \in BOOLEAN
      BY <3>1, <3>3, Zenon
    <3>. QED
      BY <1>2, <3>1, <3>4, <3>5, <3>6 DEF Typed
  <2>6. CASE Colour(c)
    <3>1. /\ state' = "OFF" /\ ptr' = 0 /\ nbr' = [i \in DOMAIN nbr |-> 0]
      BY <2>6 DEF Colour
    <3>2. overrun' = overrun /\ overrun = FALSE
      BY <1>1, <1>2, <2>6, Zenon DEF Colour, Typed
    <3>3. 0 # NBR + 1 /\ 0 \in 0 .. (NBR + 1)
      BY DEF NBR
    <3>4. (overrun' <=> ptr' = NBR + 1) /\ overrun' \in BOOLEAN /\ ptr' \in 0 .. (NBR + 1)
      BY <3>1, <3>2, <3>3, Zenon
    <3>5. fg' \in Colours
      BY <1>2, <2>6, PaintedIsColour DEF Typed, Colour
    <3>6. nbr' \in [0 .. (NBR - 1) -> 0 .. 127]
      BY <1>2, <3>1 DEF Typed
    <3>. QED
      BY <3>1, <3>4, <3>5, <3>6, Zenon
  <2>. QED
    BY <1>1, <2>2, <2>3, <2>4, <2>5, <2>6 DEF Putc
<1>4. Typed'
  BY <1>1, <1>2, <1>3, PutsCursor DEF Typed, counts
<1>5. Machine(said)'
  BY <1>1, PutsMachine
<1>6. Reading'
  BY <1>1, <1>5 DEF Reading
<1>7. Unbroken'
  <2>1. \A i, k \in OpenIn(said) : i = k
    BY <1>1, OneOpen
  <2>2. exceptions = 0 => Buffered(said)' /\ overrun' = overrun
    BY <1>1, <1>2, <1>5, <2>1, PutsBuffered DEF Inv, Unbroken
  <2>. QED
    BY <1>1, <2>2 DEF Unbroken, counts
<1>8. ColourFollowsText'
  <2>1. exceptions = 0 => fg' = ColourOf(said', before.fg)
    BY PutsColour
  <2>2. exceptions' = exceptions /\ before' = before
    BY <1>1 DEF counts
  <2>3. (ColourFollowsText)' <=> (exceptions' = 0 => fg' = ColourOf(said', before'.fg))
    BY DEF ColourFollowsText, ColourOf, Escapes, Number
  <2>. QED
    BY <2>1, <2>2, <2>3
<1>. QED
  BY <1>4, <1>6, <1>7, <1>8, PutsCursor DEF Inv




(* The end of a string keeps the invariant.                                *)
LEMMA ReturnKeeps ==
  ASSUME Inv, printf_fb_return
  PROVE  Inv'
<1>1. /\ printing /\ ~overrun /\ text = <<>> /\ ~printing' /\ printing' \in BOOLEAN
      /\ x' = defaultX /\ y' = y + FONT_SPACE_Y
      /\ UNCHANGED <<waiting, text, machine, overrun, counts, said, before>>
  BY DEF printf_fb_return
<1>2. x' \in Nat /\ y' \in Nat
  BY <1>1, ScreenAssumption DEF Inv, Typed
<1>3. Typed'
  BY <1>1, <1>2 DEF Inv, Typed, machine, counts
<1>4. Reading'
  BY <1>1 DEF Inv, Reading, Machine, OpenIn, machine, counts
<1>5. Unbroken'
  BY <1>1 DEF Inv, Unbroken, Buffered, Holds, OpenIn, machine, counts
<1>6. ColourFollowsText'
  <2>1. (ColourFollowsText)' <=> (exceptions' = 0 => fg' = ColourOf(said', before'.fg))
    BY DEF ColourFollowsText, ColourOf, Escapes, Number
  <2>. QED
    BY <1>1, <2>1 DEF Inv, ColourFollowsText, machine, counts
<1>7. CursorFollowsText'
  BY <1>1 DEF CursorFollowsText
<1>. QED
  BY <1>3, <1>4, <1>5, <1>6, <1>7 DEF Inv

(* An exception takes the caller's strings away.                           *)
LEMMA ExceptionKeeps ==
  ASSUME Inv, exception
  PROVE  Inv'
<1>1. /\ exceptions' = exceptions + 1 /\ waiting' = PanicTexts
      /\ ~printing' /\ printing' \in BOOLEAN /\ text' = <<>>
      /\ UNCHANGED <<machine, x, y, overrun, strings, said, before>>
  BY DEF exception
<1>2. exceptions' \in Nat /\ exceptions' # 0
  BY <1>1 DEF Inv, Typed
<1>3. Typed'
  BY <1>1, <1>2, TextsAssumption DEF Inv, Typed, machine
<1>4. Reading'
  BY <1>1, <1>2 DEF Reading
<1>5. Unbroken' /\ ColourFollowsText'
  BY <1>2 DEF Unbroken, ColourFollowsText
<1>6. CursorFollowsText'
  BY <1>1 DEF CursorFollowsText
<1>. QED
  BY <1>3, <1>4, <1>5, <1>6 DEF Inv

(* Every step keeps the invariant.                                         *)
LEMMA InvNext == Inv /\ [Next]_vars => Inv'
<1>. SUFFICES ASSUME Inv, [Next]_vars PROVE Inv'
  OBVIOUS
<1>1. ASSUME NEW string \in Texts, printf_fb(string) PROVE Inv'
  <2>1. string \in Strings /\ Starts(string) /\ waiting' = waiting
    BY <1>1, TextsAssumption DEF printf_fb
  <2>2. waiting' \in Seq(Strings)
    BY <2>1 DEF Inv, Typed
  <2>. QED
    BY <2>1, <2>2, StartsKeeps
<1>2. CASE printf_fb_panic
  <2>1. waiting \in Seq(Strings) /\ waiting # <<>>
        /\ Starts(Head(waiting)) /\ waiting' = Tail(waiting)
    BY <1>2 DEF printf_fb_panic, Inv, Typed
  <2>2. Head(waiting) \in Strings /\ waiting' \in Seq(Strings)
    <3>. HIDE DEF Strings
    <3>. QED
      BY <2>1
  <2>. QED
    BY <2>1, <2>2, StartsKeeps
<1>3. CASE puts_fb
  BY <1>3, PutsKeeps
<1>4. CASE printf_fb_return
  BY <1>4, ReturnKeeps
<1>5. CASE exception
  BY <1>5, ExceptionKeeps
<1>6. CASE UNCHANGED vars
  <2>1. UNCHANGED <<waiting, text, printing, state, nbr, ptr, fg, x, y, overrun, strings,
                    exceptions, said, before>>
    BY <1>6 DEF vars, machine, counts
  <2>2. Typed' /\ Reading' /\ Unbroken'
    <3>1. Typed'
      BY <2>1 DEF Inv, Typed
    <3>2. Reading'
      BY <2>1 DEF Inv, Reading, Machine, OpenIn
    <3>3. Unbroken'
      BY <2>1 DEF Inv, Unbroken, Buffered, Holds, OpenIn
    <3>. QED
      BY <3>1, <3>2, <3>3
  <2>3. ColourFollowsText'
    <3>1. (ColourFollowsText)' <=> (exceptions' = 0 => fg' = ColourOf(said', before'.fg))
      BY DEF ColourFollowsText, ColourOf, Escapes, Number
    <3>. QED
      BY <2>1, <3>1 DEF Inv, ColourFollowsText
  <2>4. CursorFollowsText'
    BY <2>1 DEF Inv, CursorFollowsText, InEscape
  <2>. QED
    BY <2>2, <2>3, <2>4 DEF Inv
<1>. QED
  BY <1>1, <1>2, <1>3, <1>4, <1>5, <1>6 DEF Next, Idle, Lost

(* So the invariant holds of the console, whatever strings it prints.      *)
THEOREM Invariance == Spec => []Inv
<1>. QED
  BY InvInit, InvNext, PTL DEF Spec


-----------------------------------------------------------------------------
(* The console keeps its types: the machine is in one of its states, its   *)
(* three bytes hold characters, the colour is one of the scheme, and ptr   *)
(* passes the buffer with the first digit stored outside it and never      *)
(* before, whatever is printed and whatever breaks in.                     *)
THEOREM ConsoleTyped == Spec => []TypeOK
<1>1. Inv => TypeOK
  <2>. SUFFICES ASSUME Inv PROVE TypeOK
    OBVIOUS
  <2>1. Strings \subseteq Seq(1 .. 127)
    BY DEF Strings
  <2>2. waiting \in Seq(Seq(1 .. 127))
    <3>. HIDE DEF Strings
    <3>. QED
      BY <2>1 DEF Inv, Typed
  <2>. QED
    BY <2>2 DEF Inv, Typed, TypeOK, Characters
<1>. QED
  BY <1>1, Invariance, PTL

(* putc_fb's machine draws a text in the colours it names: the colour is   *)
(* the one its last sequence sets, from the one it began with, and nothing *)
(* an earlier text left in the static buffer takes part.                   *)
THEOREM ColourFollowsTextAlways == Spec => []ColourFollowsText
<1>1. Inv => ColourFollowsText
  BY DEF Inv
<1>. QED
  BY <1>1, Invariance, PTL

(* Above the bottom line, puts_fb and putc_fb put the cursor where the     *)
(* newlines and the drawn characters of the text say, even in the panic    *)
(* messages an exception prints over a broken text.                        *)
THEOREM CursorFollowsTextAlways == Spec => []CursorFollowsText
<1>1. Inv => CursorFollowsText
  BY DEF Inv
<1>. QED
  BY <1>1, Invariance, PTL

(* Until an exception, putc_fb never stores outside nbr, the buffer that   *)
(* atoi is given ends in a NUL, and it is empty between two texts.         *)
THEOREM NumberFitsAlways == Spec => []NumberFits
<1>1. Inv => NumberFits
  <2>. SUFFICES ASSUME Inv, exceptions = 0
                PROVE  /\ ~overrun /\ ~Unterminated
                       /\ ~printing => ptr = 0 /\ \A i \in DOMAIN nbr : nbr[i] = 0
    BY DEF NumberFits
  <2>1. /\ ~overrun /\ Buffered(said) /\ Machine(said) /\ Typed
        /\ ~printing => text = <<>>
        /\ said \o text \in Strings
    BY DEF Inv, Unbroken, Reading
  <2>2. ~Unterminated
    <3>1. CASE state # "PARSING"
      <4>1. nbr[0] = 0
        BY <2>1, <3>1 DEF Buffered, Holds, NBR
      <4>. QED
        BY <2>1, <4>1 DEF Unterminated, Typed, NBR
    <3>2. CASE state = "PARSING"
      <4>1. OpenIn(said) # {} /\ Len(said) \notin OpenIn(said)
        BY <2>1, <3>2 DEF Machine
      <4>2. PICK i \in OpenIn(said) : i # Len(said)
        BY <4>1
      <4>3. i \in 1 .. Len(said) /\ Len(said) - i <= NBR
        BY <2>1, OpenIs DEF Typed
      <4>4. ptr = Len(said) - i - 1
        BY <2>1, <4>2, <4>3 DEF Buffered, Holds
      <4>5. nbr[NBR - 1] = 0
        BY <2>1, <4>3, <4>4 DEF Buffered, Holds, NBR
      <4>. QED
        BY <2>1, <4>5 DEF Unterminated, Typed, NBR
    <3>. QED
      BY <3>1, <3>2
  <2>3. ASSUME ~printing
        PROVE  ptr = 0 /\ \A i \in DOMAIN nbr : nbr[i] = 0
    <3>1. text = <<>> /\ said \o text = said
      BY <2>1, <2>3 DEF Typed
    <3>2. OpenIn(said) = {}
      BY <2>1, <3>1, NoneOpen DEF Typed
    <3>3. state = "OFF"
      BY <2>1, <3>2 DEF Machine
    <3>4. ptr = 0
      BY <2>1, <3>3 DEF Buffered, Holds
    <3>. QED
      BY <2>1, <3>3, <3>4 DEF Buffered, Holds, Typed
  <2>. QED
    BY <2>1, <2>2, <2>3
<1>. QED
  BY <1>1, Invariance, PTL

=============================================================================
