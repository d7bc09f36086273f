------------------------------- MODULE Blocks -------------------------------
(***************************************************************************)
(* What a heap promises: each block that is live has bytes of its own, at  *)
(* an aligned address.  A block is given, taken back, cut down in place,   *)
(* or moved to a bigger one which is found while the old one is still      *)
(* live.  A request that cannot be met changes nothing, except that one to *)
(* grow a block takes the block (a C library would keep it).               *)
(***************************************************************************)
EXTENDS Integers

CONSTANT Align       \* every block's address is a multiple of it

VARIABLE live        \* the blocks: where, and how many bytes were asked for

Apart(a, b) ==
  /\ a.p # b.p
  /\ a.p + a.size <= b.p \/ b.p + b.size <= a.p

Fresh(block) ==
  /\ block.p # 0
  /\ block.p % Align = 0
  /\ \A other \in live : Apart(block, other)

Init == live = {}

Give ==
  \E block \in live' \ live : live' = live \cup {block} /\ Fresh(block)

Take ==
  \E block \in live : live' = live \ {block}

Cut ==
  \E block \in live, smaller \in live' :
    /\ smaller.p = block.p /\ smaller.size < block.size
    /\ live' = (live \ {block}) \cup {smaller}

Move ==
  \E block \in live, bigger \in live' \ live :
    /\ bigger.size > block.size
    /\ Fresh(bigger)
    /\ live' = (live \ {block}) \cup {bigger}

Next == Give \/ Take \/ Cut \/ Move

Spec == Init /\ [][Next]_live

=============================================================================
