-------------------------------- MODULE Libc --------------------------------
(***************************************************************************)
(* Strings and numbers of the C library (libc/string.c, libc/stdlib.c).    *)
(* Characters are their ASCII codes; a buffer is a function from 0 on, the *)
(* string in it what lies before the first NUL.                            *)
(***************************************************************************)
EXTENDS Integers, SequencesExt

NUL     == 0
MINUS   == 45
DIGIT0  == 48
SMALL_A == 97

(* strlen, and what it measures: with no NUL the whole buffer.             *)
Chars(buffer) ==
  LET ends == {i \in DOMAIN buffer : buffer[i] = NUL}
      n    == IF ends = {} THEN Cardinality(DOMAIN buffer) ELSE Min(ends)
  IN  [i \in 1 .. n |-> buffer[i-1]]

strlen(buffer) == Len(Chars(buffer))

(* memcpy into a buffer; what falls outside it is not kept.                *)
Stored(buffer, at, chars) ==
  [k \in DOMAIN buffer |->
     IF k - at + 1 \in DOMAIN chars THEN chars[k - at + 1] ELSE buffer[k]]

(* memset to 0 of a whole buffer.                                          *)
Cleared(buffer) == [k \in DOMAIN buffer |-> NUL]

(* strcpy copies the characters but not the NUL behind them: what was in   *)
(* the buffer beyond them stays there.                                     *)
strcpy(buffer, chars) == Stored(buffer, 0, chars)

(* strcat, by strncat, does end what it stores.                            *)
strcat(buffer, chars) == Stored(buffer, strlen(buffer), chars \o <<NUL>>)

(* The sum of atoi: every character counts as a digit, by its distance     *)
(* from '0', with the power of ten of its place.                           *)
Digits(chars) ==
  LET value[k \in 0 .. Len(chars)] ==
        IF k = 0 THEN 0 ELSE 10 * value[k-1] + (chars[k] - DIGIT0)
  IN  value[Len(chars)]

atoi(chars) ==
  IF chars # <<>> /\ Head(chars) = MINUS THEN -Digits(Tail(chars)) ELSE Digits(chars)

(* The loop of itoa stores the lowest digit first; a digit below ten goes  *)
(* by its distance from '0', negative or not.                              *)
DigitChar(digit) == IF digit < 10 THEN DIGIT0 + digit ELSE SMALL_A + digit - 10

LowestFirst(n, base, sign) ==
  LET places[k \in Nat] ==
        <<DigitChar(sign * (k % base))>> \o (IF k < base THEN <<>> ELSE places[k \div base])
  IN  places[n]

(* strrev swaps from both ends until they meet.                            *)
strrev(s) == Reverse(s)

(* A negative number is written in halves in base 2 and 16.  In base 10    *)
(* value *= 1 leaves it negative, each digit of it too, and the reversal   *)
(* takes the sign in front along to the end.                               *)
itoa(value, base, half) ==
  IF value >= 0 THEN strrev(LowestFirst(value, base, 1))
  ELSE IF base # 10
  THEN strrev(LowestFirst((value % (half * half)) \div half, base, 1))
         \o strrev(LowestFirst(value % half, base, 1))
  ELSE strrev(<<MINUS>> \o LowestFirst(-value, base, -1))

=============================================================================
