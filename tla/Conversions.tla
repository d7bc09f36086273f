---------------------------- MODULE Conversions -----------------------------
(***************************************************************************)
(* Calls of vsnprintf made of pieces, a character of text or a conversion  *)
(* each, and what each piece ought to print: the digits of a number by     *)
(* division with powers of its base, the two's complement of a negative    *)
(* one in base 2 and 16, zeros up to the width.                            *)
(***************************************************************************)
EXTENDS Libc

CONSTANTS
  HALF,      \* 2^32
  HALF_SIZE  \* bytes of left_str and right_str in itoa

PERCENT == 37
SMALL_B == 98
SMALL_C == 99
SMALL_D == 100
SMALL_S == 115
SMALL_X == 120

Base ==
  [c \in {SMALL_B, SMALL_D, SMALL_X} |->
     CASE c = SMALL_B -> 2 [] c = SMALL_D -> 10 [] c = SMALL_X -> 16]

Power(base, k) ==
  LET power[j \in 0 .. k] == IF j = 0 THEN 1 ELSE base * power[j-1]
  IN  power[k]

(* Half a word is some hexadecimal digits long, and they fit itoa's arrays *)
(* with the NUL behind them.                                               *)
ASSUME HalfAssumption ==
  /\ HALF_SIZE \in Nat
  /\ \E h \in 1 .. (HALF_SIZE - 1) : HALF = Power(16, h)

-----------------------------------------------------------------------------
(* The pieces.  A width is what stands behind "%0", if that does.          *)
ASCII  == 1 .. 127
Numerals == DIGIT0 .. (DIGIT0 + 9)
Widths == {digits \in Seq(Numerals) : Len(digits) < 10}
Words  == -(HALF * (HALF \div 2)) .. (HALF * (HALF \div 2) - 1)

Pieces ==
       [kind : {"literal"}, c : ASCII \ {PERCENT}]
  \cup [kind : {"string"}, chars : Seq(ASCII)]
  \cup [kind : {"character"}, c : ASCII]
  \cup [kind : {"unknown"}, c : ASCII \ ({PERCENT, DIGIT0, SMALL_S, SMALL_C} \cup DOMAIN Base)]
  \cup [kind : {"number"}, conversion : DOMAIN Base, width : Widths, value : Words]

FormatOf(p) ==
  CASE p.kind = "literal"   -> <<p.c>>
    [] p.kind = "string"    -> <<PERCENT, SMALL_S>>
    [] p.kind = "character" -> <<PERCENT, SMALL_C>>
    [] p.kind = "unknown"   -> <<PERCENT, p.c>>
    [] p.kind = "number"    -> <<PERCENT>> \o (IF p.width = <<>> THEN <<>> ELSE <<DIGIT0>> \o p.width)
                                 \o <<p.conversion>>

ArgsOf(p) ==
  CASE p.kind = "string"    -> <<p.chars>>
    [] p.kind = "character" -> <<p.c>>
    [] p.kind = "number"    -> <<p.value>>
    [] OTHER                -> <<>>

-----------------------------------------------------------------------------
(* How many digits n has.                                                  *)
PlaceCount(n, base) ==
  CHOOSE k \in 1 .. (n + 1) : Power(base, k) > n /\ (k = 1 \/ Power(base, k - 1) <= n)

(* The digits of n, the highest first, at least as many as width.          *)
Places(n, base, width) ==
  LET places == Max({width, PlaceCount(n, base)})
  IN  [i \in 1 .. places |-> DigitChar((n \div Power(base, places - i)) % base)]

(* The word that a value is kept in.                                       *)
Word(value) == value % (HALF * HALF)

Digitized(value, base, width) ==
  IF base = 10 /\ value < 0
  THEN <<MINUS>> \o Places(-value, base, width)
  ELSE Places(Word(value), base, width)

MeansOf(p) ==
  CASE p.kind = "string"                 -> p.chars
    [] p.kind \in {"literal", "character"} -> <<p.c>>
    [] p.kind = "unknown"                -> <<>>
    [] p.kind = "number" -> Digitized(p.value, Base[p.conversion], Digits(p.width))

(* How many characters of the buffer a piece takes: a negative number in   *)
(* base 10 one for its sign, one in base 2 and 16 the digits of its        *)
(* halves, and a number longer than its width is padded by the whole of    *)
(* the width (padding - strlen(nbr) wraps).                                *)
High(value) == Word(value) \div HALF

NumberLength(value, base) ==
  IF value >= 0 THEN PlaceCount(value, base)
  ELSE IF base = 10 THEN 1 + PlaceCount(-value, base)
  ELSE PlaceCount(High(value), base) + PlaceCount(value % HALF, base)

Takes(p) ==
  CASE p.kind = "string"                 -> Len(p.chars)
    [] p.kind \in {"literal", "character"} -> 1
    [] p.kind = "unknown"                -> 0
    [] p.kind = "number" ->
         LET length == NumberLength(p.value, Base[p.conversion])
             width  == Digits(p.width)
         IN  IF width >= length THEN width ELSE width + length

RoomOf(p) == [i \in 1 .. Takes(p) |-> NUL]

(* A negative number in base 2 or 16 one of whose halves, with its NUL, is *)
(* longer than the arrays of itoa.                                         *)
Outgrows(p) ==
  /\ p.kind = "number" /\ p.value < 0 /\ Base[p.conversion] # 10
  /\ \E half \in {High(p.value), p.value % HALF} :
       PlaceCount(half, Base[p.conversion]) + 1 > HALF_SIZE

(* Not plain: a negative number in base 10, one whose low half begins with *)
(* a zero, one in base 2 whose halves outgrow itoa's arrays, and a number  *)
(* longer than its padding.                                                *)
Plain(p) ==
  /\ p.kind # "unknown"
  /\ p.kind = "number" =>
       LET base == Base[p.conversion] IN
         /\ p.value < 0 => base = 16 /\ p.value % HALF >= HALF \div base
         /\ Digits(p.width) = 0 \/ Digits(p.width) >= PlaceCount(Word(p.value), base)

(* A call, what it ought to print, and the room for what it does print.    *)
Call(pieces) ==
  [format   |-> FlattenSeq([i \in DOMAIN pieces |-> FormatOf(pieces[i])]),
   args     |-> FlattenSeq([i \in DOMAIN pieces |-> ArgsOf(pieces[i])]),
   means    |-> FlattenSeq([i \in DOMAIN pieces |-> MeansOf(pieces[i])]),
   plain    |-> \A i \in DOMAIN pieces : Plain(pieces[i]),
   room     |-> FlattenSeq([i \in DOMAIN pieces |-> RoomOf(pieces[i])]),
   outgrows |-> \E i \in DOMAIN pieces : Outgrows(pieces[i])]

=============================================================================
