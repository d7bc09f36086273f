------------------------------ MODULE MCFormat ------------------------------
(***************************************************************************)
(* Calls of two and three pieces.  The word is of sixteen bits.            *)
(***************************************************************************)
EXTENDS Format

Literal(c) == [kind |-> "literal", c |-> c]

String(chars) == [kind |-> "string", chars |-> chars]

Character(c) == [kind |-> "character", c |-> c]

Unknown(c) == [kind |-> "unknown", c |-> c]

Number(conversion, width, value) ==
  [kind |-> "number", conversion |-> conversion, width |-> width, value |-> value]

(* "%x", and "%0" with a width of one or two numerals.                     *)
None   == <<>>
Two    == <<DIGIT0 + 2>>
Three  == <<DIGIT0 + 3>>
Four   == <<DIGIT0, DIGIT0 + 4>>
Eleven == <<DIGIT0 + 1, DIGIT0 + 1>>

Various ==
  {Literal(65), String(<<>>), String(<<66, 67>>), Character(68), Unknown(117)}
  \cup {Number(SMALL_D, None, v) : v \in {0, 9, 10, 205, -15}}
  \cup {Number(SMALL_D, Three, 42), Number(SMALL_D, Two, 205), Number(SMALL_B, None, 5),
        Number(SMALL_B, None, -1), Number(SMALL_B, Eleven, 5)}
  \cup {Number(SMALL_X, w, v) : w \in {None, Four}, v \in {0, 10, 4096, -1, -248}}

(* Any two, and any three of a few.                                        *)
Few == {Literal(65), String([i \in 1 .. 8 |-> 66]), Number(SMALL_D, None, 9),
        Number(SMALL_D, Two, 205), Number(SMALL_X, Four, 10), Number(SMALL_X, None, -1)}

MCCalls ==
  {<<p, q>> : p \in Various, q \in Various} \cup {<<p, q, r>> : p \in Few, q \in Few, r \in Few}

=============================================================================
