------------------------------- MODULE Format -------------------------------
(***************************************************************************)
(* vsnprintf (libc/stdio.c) and itoa (libc/stdlib.c): one action per turn  *)
(* of the loop over the format, for every call in Calls.  A string is      *)
(* stored in two ways that must agree: characters at ptr, strings with     *)
(* strcat behind what is there.                                            *)
(***************************************************************************)
EXTENDS Conversions

CONSTANTS
  Calls,     \* the calls, each a sequence of pieces
  SIZE       \* bytes of the caller's buffer

ASSUME CallsAssumption == Calls \subseteq Seq(Pieces)

ASSUME SizeAssumption == SIZE \in Nat \ {0}

-----------------------------------------------------------------------------
(* The halves of a negative number are made in local arrays, which in base *)
(* 2 hold the digits of half a word, but not the NUL behind them.          *)
Halves(value, base) ==
  {itoa((value % (HALF * HALF)) \div HALF, base, HALF), itoa(value % HALF, base, HALF)}

OutgrowsLocal(value, base) ==
  value < 0 /\ base # 10 /\ \E half \in Halves(value, base) : Len(half) + 1 > HALF_SIZE

(* The zeros in front of a number: padding - strlen(nbr) is unsigned, and  *)
(* a number longer than the padding wraps it.                              *)
Zeros_one_more(padding, length) ==
  IF padding >= length THEN padding - length + 1 ELSE padding

Zeros(padding, length) == IF padding >= length THEN padding - length ELSE padding

-----------------------------------------------------------------------------
VARIABLES
  call,         \* the call that is being made, and what it ought to print
  format,       \* what is left of the format
  ap,           \* what is left of the arguments
  str, ptr,     \* the buffer, and where the next character goes
  padding,
  is_parsing,
  overrun       \* something was stored outside the buffer, or an array of itoa

vars == <<call, format, ap, str, ptr, padding, is_parsing, overrun>>

(* Callers clear the buffer first.                                         *)
Init ==
  /\ \E pieces \in Calls : call = Call(pieces)
  /\ format = call.format /\ ap = call.args
  /\ str = Cleared([i \in 0 .. (SIZE - 1) |-> NUL]) /\ ptr = 0
  /\ padding = 0 /\ is_parsing = FALSE /\ overrun = FALSE

Turns == ~overrun /\ format # <<>>

Converts == Turns /\ is_parsing /\ Head(format) # PERCENT

percent ==
  /\ Turns /\ Head(format) = PERCENT
  /\ is_parsing' = TRUE
  /\ format' = Tail(format)
  /\ UNCHANGED <<call, ap, str, ptr, padding, overrun>>

(* str[ptr++] = c                                                          *)
PutChar(c) ==
  /\ str' = Stored(str, ptr, <<c>>)
  /\ ptr' = ptr + 1
  /\ overrun' = (ptr >= SIZE)

text ==
  /\ Turns /\ ~is_parsing /\ Head(format) # PERCENT
  /\ PutChar(Head(format))
  /\ format' = Tail(format)
  /\ UNCHANGED <<call, ap, padding, is_parsing>>

(* "%0": all the digits that follow are the padding, and the conversion is *)
(* still to come.                                                          *)
zero ==
  /\ Converts /\ Head(format) = DIGIT0
  /\ LET rest == Tail(format)
         n    == Max({0} \cup {k \in DOMAIN rest :
                   \A i \in 1 .. k : rest[i] \in Numerals})
     IN  /\ padding' = atoi(SubSeq(rest, 1, n))
         /\ format' = SubSeq(rest, n + 1, Len(rest))
  /\ UNCHANGED <<call, ap, str, ptr, is_parsing, overrun>>

string ==
  /\ Converts /\ Head(format) = SMALL_S
  /\ LET s == Head(ap) IN
       /\ str' = strcat(str, s)
       /\ ptr' = ptr + Len(s)
       /\ overrun' = (strlen(str) + Len(s) >= SIZE)
  /\ ap' = Tail(ap)
  /\ format' = Tail(format)
  /\ is_parsing' = FALSE
  /\ UNCHANGED <<call, padding>>

(* %d, %x and %b: zeros at ptr, then the number behind what is there.      *)
PutNumber_no_advance(nbr, outgrown) ==
  LET zeros  == Zeros(padding, Len(nbr))
      padded == Stored(str, ptr, [i \in 1 .. zeros |-> DIGIT0])
  IN  /\ str' = strcat(padded, nbr)
      /\ ptr' = ptr + Len(nbr)
      /\ overrun' = \/ ptr + zeros > SIZE
                    \/ strlen(padded) + Len(nbr) >= SIZE
                    \/ outgrown

PutNumber(nbr, outgrown) ==
  LET zeros  == Zeros(padding, Len(nbr))
      padded == Stored(str, ptr, [i \in 1 .. zeros |-> DIGIT0])
  IN  /\ str' = strcat(padded, nbr)
      /\ ptr' = ptr + zeros + Len(nbr)
      /\ overrun' = \/ ptr + zeros > SIZE
                    \/ strlen(padded) + Len(nbr) >= SIZE
                    \/ outgrown

number_keeps_padding ==
  /\ Converts /\ Head(format) \in DOMAIN Base
  /\ \E nbr \in {itoa(Head(ap), Base[Head(format)], HALF)} :
       PutNumber(nbr, OutgrowsLocal(Head(ap), Base[Head(format)]))
  /\ ap' = Tail(ap)
  /\ format' = Tail(format)
  /\ is_parsing' = FALSE
  /\ UNCHANGED <<call, padding>>

number ==
  /\ Converts /\ Head(format) \in DOMAIN Base
  /\ \E nbr \in {itoa(Head(ap), Base[Head(format)], HALF)} :
       PutNumber(nbr, OutgrowsLocal(Head(ap), Base[Head(format)]))
  /\ padding' = 0
  /\ ap' = Tail(ap)
  /\ format' = Tail(format)
  /\ is_parsing' = FALSE
  /\ UNCHANGED call

character ==
  /\ Converts /\ Head(format) = SMALL_C
  /\ PutChar(Head(ap))
  /\ ap' = Tail(ap)
  /\ format' = Tail(format)
  /\ is_parsing' = FALSE
  /\ UNCHANGED <<call, padding>>

unknown_stays ==
  /\ Converts /\ Head(format) \notin {DIGIT0, SMALL_S, SMALL_C} \cup DOMAIN Base
  /\ UNCHANGED vars

unknown ==
  /\ Converts /\ Head(format) \notin {DIGIT0, SMALL_S, SMALL_C} \cup DOMAIN Base
  /\ format' = Tail(format)
  /\ is_parsing' = FALSE
  /\ UNCHANGED <<call, ap, str, ptr, padding, overrun>>

(* The end of the format; and what a store outside the buffer leads to,    *)
(* which is not modelled.                                                  *)
Returned == (overrun \/ format = <<>>) /\ UNCHANGED vars

Next ==
  \/ percent
  \/ text
  \/ zero
  \/ string
  \/ number
  \/ character
  \/ unknown
  \/ Returned

Spec == Init /\ [][Next]_vars /\ WF_vars(Next)

-----------------------------------------------------------------------------
(* The two ways of storing agree: where the next character goes is where   *)
(* strcat would put a string.  (A %c of NUL would part them for good.)     *)
PtrIsLength == ~overrun => ptr = strlen(str)

(* A call of plain conversions prints what it ought to, in a buffer that   *)
(* is big enough for that.                                                 *)
PrintsItsMeaning ==
  call.plain /\ Len(call.means) < SIZE /\ format = <<>> => Chars(str) = call.means

(* Whatever the conversions, vsnprintf keeps to the buffer, and itoa to    *)
(* its arrays, when the characters they take and a NUL do: signs, padding  *)
(* that wraps and the halves of negative numbers are all counted.          *)
KeepsToBuffer ==
  ~call.outgrows /\ Len(call.room) < SIZE => ~overrun

(* The size that vsnprintf is given stops nothing: a call that returns     *)
(* without a store outside the buffer or an array had room for all of it.  *)
NothingIsCut ==
  format = <<>> /\ ~overrun => ~call.outgrows /\ Len(call.room) <= SIZE

(* Every call comes to the end of its format, if it keeps to the buffer.   *)
Ends == <>(format = <<>> \/ overrun)

=============================================================================
