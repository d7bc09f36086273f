--------------------------- MODULE PageAllocator ---------------------------
(***************************************************************************)
(* What a page allocator promises its callers, without a word on how: it   *)
(* manages a pool fixed when it starts, hands each page of the pool to one *)
(* caller at a time, and gives up only when every page is out.             *)
(*                                                                         *)
(* The allocator keeps its own notes in the pages `notes'.  Nothing is     *)
(* promised once a caller that was granted one of them has written to it.  *)
(***************************************************************************)
CONSTANT Pages

VARIABLES
  state,     \* "boot", "ready" or "halted"
  pool,      \* the pages it may hand out
  notes,     \* the pages its own records lie in
  held,      \* the pages that are out
  broken     \* a caller wrote to the notes

vars == <<state, pool, notes, held, broken>>

Init ==
  /\ state = "boot"
  /\ pool = {}
  /\ notes = {}
  /\ held = {}
  /\ broken = FALSE

Start ==
  /\ state = "boot"
  /\ state' = "ready"
  /\ pool' \in SUBSET Pages
  /\ notes' \in SUBSET Pages
  /\ UNCHANGED <<held, broken>>

StartFails ==
  /\ state = "boot"
  /\ state' = "halted"
  /\ UNCHANGED <<pool, notes, held, broken>>

Grant ==
  /\ state = "ready"
  /\ \E page \in pool \ held : held' = held \cup {page}
  /\ UNCHANGED <<state, pool, notes, broken>>

Refuse ==
  /\ state = "ready"
  /\ pool \subseteq held
  /\ state' = "halted"
  /\ UNCHANGED <<pool, notes, held, broken>>

Release ==
  /\ state = "ready"
  /\ \E page \in held : held' = held \ {page}
  /\ UNCHANGED <<state, pool, notes, broken>>

Break ==
  /\ state = "ready"
  /\ held \cap notes # {}
  /\ broken' = TRUE
  /\ UNCHANGED <<state, pool, notes, held>>

Chaos ==
  /\ state = "ready" /\ broken
  /\ state' \in {"ready", "halted"}
  /\ held' \in SUBSET Pages
  /\ UNCHANGED <<pool, notes, broken>>

Next == Start \/ StartFails \/ Grant \/ Refuse \/ Release \/ Break \/ Chaos

Spec == Init /\ [][Next]_vars

=============================================================================
