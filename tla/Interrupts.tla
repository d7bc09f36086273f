----------------------------- MODULE Interrupts -----------------------------
(***************************************************************************)
(* Interrupts and exceptions (kernel/int): the CPU's flag and gates, the   *)
(* two 8259 PICs, and interrupts_handler, one action per step that another *)
(* interrupt may come between.                                             *)
(*                                                                         *)
(* The main program runs when there is no frame on the stack; otherwise    *)
(* the handler of the last frame does.  The CPU accepts an interrupt at    *)
(* the next instruction, so no step is taken while one is accepted.        *)
(***************************************************************************)
EXTENDS Integers, SequencesExt

CONSTANTS
  Lines,        \* the PIC inputs with a device
  Noisy,        \* those whose device may take a request back
  Faults,       \* the exceptions that may come
  MaxPanics,    \* bound on their number
  TICKS         \* 2^w for the width of tick

CASCADE  == 2     \* the master's input from the slave
NMI      == 2     \* a vector
INTGATE  == "interrupt gate"
TRAPGATE == "trap gate"

ASSUME InterruptsAssumption ==
  /\ Lines \subseteq (0 .. 15) \ {CASCADE}
  /\ Noisy \subseteq Lines
  /\ Faults \subseteq 0 .. 31
  /\ MaxPanics \in Nat
  /\ TICKS \in Nat \ {0}

VARIABLES
  segments,     \* the kernel's descriptors are loaded
  gates,        \* the interrupt table, from vectors to kinds of gate
  flag,         \* the CPU takes interrupts
  remapped,     \* the PICs have been given their vectors
  requested,    \* the lines that want service
  serviced,     \* the inputs in service, of both PICs
  stack,        \* the frames of the handlers at work
  tick

tables == <<segments, gates, remapped>>
pics   == <<requested, serviced>>

interrupt_vars == <<tables, flag, pics, stack, tick>>

InitInterrupts ==
  /\ segments = FALSE /\ gates = <<>> /\ flag = FALSE /\ remapped = FALSE
  /\ requested = {} /\ serviced = {}
  /\ stack = <<>>
  /\ tick = 0

-----------------------------------------------------------------------------
(* The initialisers.  Vectors 3 and 4 have trap gates, which leave the     *)
(* flag as it was.                                                         *)
Gates_all_trap == [vector \in 0 .. 47 |-> TRAPGATE]

Gates == [vector \in 0 .. 47 |-> IF vector \in {3, 4} THEN TRAPGATE ELSE INTGATE]

init_gdt == segments' = TRUE /\ UNCHANGED <<gates, remapped, pics>>

(* Every line is unmasked; the PIC forgets what was requested before.      *)
init_pic ==
  /\ remapped' = TRUE /\ requested' = {} /\ serviced' = {}
  /\ UNCHANGED <<segments, gates>>

init_idt == gates' = Gates /\ UNCHANGED <<segments, remapped, pics>>

-----------------------------------------------------------------------------
(* The PICs.  A slave's line is in service in both.  The master's inputs   *)
(* take precedence from 0 on, the slave's among themselves.                *)
Input(line) == IF line >= 8 THEN CASCADE ELSE line

Inputs(line) == {line, Input(line)}

Master == 0 .. 7
Slave  == 8 .. 15

Deliverable(line) ==
  /\ line \in requested
  /\ \A s \in serviced \cap Master : Input(line) < s
  /\ line \in Slave => \A s \in serviced \cap Slave : line < s

Rank(line) == 16 * Input(line) + line

First(line) ==
  \A other \in requested : Deliverable(other) => Rank(line) <= Rank(other)

(* Before init_pic the firmware's vectors, among those of exceptions.      *)
Vector(line) ==
  IF remapped THEN 32 + line ELSE IF line \in Master THEN 8 + line ELSE 104 + line

(* An end of interrupt, without the input, ends the first in service.      *)
Highest(inputs) == IF inputs = {} THEN {} ELSE {Min(inputs)}

EndOfInterrupt_past_40(intno) ==
  Highest(serviced \cap Master) \cup (IF intno > 40 THEN Highest(serviced \cap Slave) ELSE {})

EndOfInterrupt(intno) ==
  Highest(serviced \cap Master) \cup (IF intno >= 40 THEN Highest(serviced \cap Slave) ELSE {})

-----------------------------------------------------------------------------
(* The CPU.  Without a gate, or a segment for it, it resets the machine.   *)
Top == Last(stack)

At(where) == stack # <<>> /\ Top.at = where

Enter(vector) ==
  LET caught == segments /\ vector \in DOMAIN gates
      frame  == [intno |-> vector, at |-> IF caught THEN "entry" ELSE "reset", flag |-> flag]
  IN  /\ stack' = Append(stack, frame)
      /\ flag'  = (flag /\ caught /\ gates[vector] = TRAPGATE)

raise(line) ==
  /\ line \in Lines \ requested /\ ~At("reset")
  /\ requested' = requested \cup {line}
  /\ UNCHANGED <<tables, flag, serviced, stack, tick>>

Accepts == flag /\ ~At("reset") /\ \E line \in requested : Deliverable(line)

(* A request taken back before it is acknowledged comes as the last input  *)
(* of its PIC, which is then not in service; the cascade is.               *)
interrupt(line) ==
  /\ Accepts /\ Deliverable(line) /\ First(line)
  /\ requested' = requested \ {line}
  /\ \/ serviced' = serviced \cup Inputs(line) /\ Enter(Vector(line))
     \/ /\ line \in Noisy
        /\ serviced' = serviced \cup (Inputs(line) \ {line})
        /\ Enter(Vector(IF line \in Slave THEN 15 ELSE 7))
  /\ UNCHANGED <<tables, tick>>

Panics == {k \in DOMAIN stack : stack[k].intno < 32}

(* An exception of whatever runs; only an NMI comes in a halted CPU, and   *)
(* none before the last one's handler has returned.                        *)
exception(vector) ==
  /\ vector \in Faults /\ Cardinality(Panics) < MaxPanics
  /\ ~At("reset")
  /\ IF vector = NMI THEN \A k \in Panics : stack[k].intno # NMI ELSE ~At("hlt")
  /\ Enter(vector)
  /\ UNCHANGED <<tables, pics, tick>>

-----------------------------------------------------------------------------
(* interrupts_handler, and __interrupt_common around it.                   *)
Handles(where) == At(where) /\ ~Accepts

Goes(where) == stack' = [stack EXCEPT ![Len(stack)].at = where]

panic ==
  /\ Handles("entry") /\ Top.intno < 32
  /\ Goes("panic")
  /\ UNCHANGED <<tables, flag, pics, tick>>

halt_open ==
  /\ Handles("panic")
  /\ Goes("hlt")
  /\ UNCHANGED <<tables, flag, pics, tick>>

halt ==
  /\ Handles("panic")
  /\ flag' = FALSE
  /\ Goes("hlt")
  /\ UNCHANGED <<tables, pics, tick>>

serve ==
  /\ Handles("entry") /\ Top.intno >= 32
  /\ tick' = IF Top.intno = 32 THEN (tick + 1) % TICKS ELSE tick
  /\ Goes("eoi")
  /\ UNCHANGED <<tables, flag, pics>>

PIC_sendEOI ==
  /\ Handles("eoi")
  /\ serviced' = serviced \ EndOfInterrupt(Top.intno)
  /\ Goes("iretq")
  /\ UNCHANGED <<tables, flag, requested, tick>>

(* A halted CPU that is woken goes on behind hlt.                          *)
iretq ==
  /\ Handles("iretq")
  /\ flag' = Top.flag
  /\ LET rest == Front(stack) IN
       stack' = IF rest # <<>> /\ Last(rest).at = "hlt"
                THEN [rest EXCEPT ![Len(rest)].at = "eoi"] ELSE rest
  /\ UNCHANGED <<tables, pics, tick>>

Halted == (At("hlt") \/ At("reset")) /\ UNCHANGED interrupt_vars

-----------------------------------------------------------------------------
(* An end of interrupt ends the input that its handler was called for, and *)
(* nothing else, though it does not say which: a request that is taken     *)
(* back must not end the service of another line.                          *)
EoiEndsItsOwn ==
  [][\A s \in serviced \ serviced' :
       At("eoi") => s \in Inputs(Top.intno - 32)]_interrupt_vars

(* A panic is the end: whatever interrupts come, nothing below its frame   *)
(* runs again.                                                             *)
PanicIsFinal ==
  [][\A k \in DOMAIN stack :
       stack[k].at = "hlt" => k \in DOMAIN stack' /\ stack'[k] = stack[k]]_interrupt_vars

(* No line stays in service for good, or all below it would be lost: it is *)
(* acknowledged, or the kernel has panicked.                               *)
Panicked == \E k \in DOMAIN stack : stack[k].intno \in Faults \cup {1} \/ stack[k].at = "reset"

Acknowledged == serviced # {} ~> serviced = {} \/ Panicked

=============================================================================
