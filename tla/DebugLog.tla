------------------------------ MODULE DebugLog ------------------------------
(***************************************************************************)
(* The names the log prints (libk/debug.c): that of the module at work,    *)
(* and one saved while the page allocator is at work inside it.  One       *)
(* operator per function, for the next state of both buffers.              *)
(***************************************************************************)
EXTENDS Libc

CONSTANT LENGTH       \* bytes of a buffer

ASSUME LengthAssumption == LENGTH \in Nat \ {0}

VARIABLES
  modulename,   \* the module whose lines these are
  previous      \* the one it interrupted

Buffers == [0 .. (LENGTH - 1) -> 0 .. 127]

(* Both are static: zero when the kernel starts.                           *)
InitNames ==
  modulename = [i \in 0 .. (LENGTH - 1) |-> NUL] /\ previous = modulename

Named == <<modulename, previous>>

module(name) ==
  /\ modulename' = strcpy(Cleared(modulename), name)
  /\ UNCHANGED previous

module_push ==
  /\ previous' = strcpy(previous, Chars(modulename))
  /\ UNCHANGED modulename

(* previous is cleared, so that the next push finds it empty; modulename   *)
(* is not: a name shorter than the one it replaces keeps its tail.         *)
module_pop ==
  /\ modulename' = strcpy(modulename, Chars(previous))
  /\ previous' = Cleared(previous)

(* log_debug with an empty message, which closes what a push left open.    *)
log_debug == IF previous[0] # NUL THEN module_pop ELSE UNCHANGED Named

=============================================================================
