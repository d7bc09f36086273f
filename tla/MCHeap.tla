------------------------------- MODULE MCHeap -------------------------------
(***************************************************************************)
(* Small heaps: majors of three pages of eight bytes, four for the larger  *)
(* requests.                                                               *)
(***************************************************************************)
EXTENDS Heap, TLC

MCArenas == {64, 128, 192}

(* Nothing, a few bytes, more than a major of three pages holds, and, as   *)
(* an unsigned int ends at 64, two requests too large for one: a byte more *)
(* than it counts in whole pages, and one that is itself cut short.        *)
MCRequests == {0, 3, 16, 46, 79}

=============================================================================
