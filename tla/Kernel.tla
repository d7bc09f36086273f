------------------------------- MODULE Kernel -------------------------------
(***************************************************************************)
(* The kernel as one program on one CPU: bootstrap (kernel/bootstrap.c)    *)
(* with its initialisers in their order, the log and the asserts, the      *)
(* serial port they wait for, and the lock of the heap - the only code     *)
(* that turns interrupts on - under the interrupts that may come between   *)
(* any two steps.  The program is the sequence of the steps still to take. *)
(***************************************************************************)
EXTENDS Interrupts, DebugLog

CONSTANTS
  Drivers,      \* the names of drivers that run once the kernel has booted
  Tables,       \* pages init_vmm asks for
  LOCKS         \* 2^w for the width of lock_queue

ASSUME KernelAssumption ==
  /\ \A name \in Drivers : name \in Seq(1 .. 127) /\ Len(name) < LENGTH
  /\ LENGTH > 3
  /\ Tables \in Nat
  /\ LOCKS \in Nat \ (0 .. 1)
  /\ 1 \notin Faults

VARIABLES
  todo,         \* the steps still to take
  screen,       \* init_fb has set the console's config
  serial,       \* init_serial has set up the port
  transmitter,  \* the port's transmitter is empty
  lock_queue

vars == <<interrupt_vars, Named, todo, screen, serial, transmitter, lock_queue>>

-----------------------------------------------------------------------------
(* Programs.  A step that names a module, or prints a name, has it.        *)
Step(step)          == <<[step |-> step, name |-> <<>>]>>
StepFor(step, name) == <<[step |-> step, name |-> name]>>

GDT == <<71, 68, 84>>
PIC == <<80, 73, 67>>
IDT == <<73, 68, 84>>
PMM == <<80, 77, 77>>
VMM == <<86, 77, 77>>

(* Most initialisers name themselves, work, and log that they are done.    *)
Initialiser(name, work) == StepFor("module", name) \o work \o StepFor("log", name)

alloc_pmm_late_push ==
  StepFor("module", PMM) \o Step("push") \o Step("assert") \o Step("pop")

(* The allocator names itself within the module that calls it.             *)
alloc_pmm == Step("push") \o StepFor("module", PMM) \o Step("assert") \o Step("pop")

init_pmm ==
  Initialiser(PMM, StepFor("note", PMM) \o StepFor("note", PMM) \o Step("assert"))

Repeated(program, times) ==
  [k \in 1 .. (times * Len(program)) |-> program[((k - 1) % Len(program)) + 1]]

init_vmm == Initialiser(VMM, Repeated(alloc_pmm, Tables))

Devices == Step("init_fb") \o Step("print") \o Step("init_serial")

Segments == Initialiser(GDT, Step("init_gdt"))
Pics     == Initialiser(PIC, Step("init_pic"))
Idt      == Initialiser(IDT, Step("init_idt"))

bootstrap_late_idt ==
  Step("print") \o Devices \o Segments \o Pics \o init_pmm \o Idt \o init_vmm

bootstrap_late_devices ==
  Step("print") \o Segments \o Devices \o Pics \o Idt \o init_pmm \o init_vmm

(* The parser prints each tag it does not know; the memory's size goes to  *)
(* the serial port before that is set up.                                  *)
bootstrap == Step("print") \o Devices \o Segments \o Pics \o Idt \o init_pmm \o init_vmm

(* A call of the heap.  Interrupts are turned off before it is counted,    *)
(* and turned on again when the last one has been.                         *)
liballoc_lock_late == Step("count") \o Step("cli")
liballoc_lock      == Step("cli") \o Step("count")
liballoc_unlock    == Step("uncount") \o Step("sti")

HeapCall_unlocked_twice == liballoc_lock \o liballoc_unlock \o liballoc_unlock
HeapCall                == liballoc_lock \o liballoc_unlock

(* realloc unlocks before it calls malloc and free, which lock again.      *)
liballoc_realloc_kept == liballoc_lock \o HeapCall \o HeapCall
liballoc_realloc      == HeapCall \o HeapCall \o HeapCall

Driver(name) == StepFor("module", name) \o alloc_pmm \o StepFor("note", name) \o StepFor("log", name)

-----------------------------------------------------------------------------
Init ==
  /\ InitInterrupts /\ InitNames
  /\ todo = bootstrap
  /\ screen = FALSE /\ serial = FALSE /\ transmitter = TRUE
  /\ lock_queue = 0

(* The main program's next step, when no handler is at work.               *)
Next_step == Head(todo)

Takes(step) ==
  /\ stack = <<>> /\ ~Accepts
  /\ todo # <<>> /\ Next_step.step = step
  /\ todo' = Tail(todo)

(* putc_serial waits until the transmitter is empty.  One character stands *)
(* for a text.                                                             *)
putc_serial_inverted == transmitter = FALSE /\ transmitter' = TRUE
putc_serial          == transmitter = TRUE /\ transmitter' = FALSE

transmit ==
  /\ transmitter = FALSE /\ transmitter' = TRUE
  /\ UNCHANGED <<interrupt_vars, Named, todo, screen, serial, lock_queue>>

init_fb ==
  /\ Takes("init_fb")
  /\ screen' = TRUE
  /\ UNCHANGED <<interrupt_vars, Named, serial, transmitter, lock_queue>>

init_serial ==
  /\ Takes("init_serial")
  /\ serial' = TRUE
  /\ UNCHANGED <<interrupt_vars, Named, screen, transmitter, lock_queue>>

set_up ==
  /\ \/ Takes("init_gdt") /\ init_gdt
     \/ Takes("init_pic") /\ init_pic
     \/ Takes("init_idt") /\ init_idt
  /\ UNCHANGED <<flag, stack, tick, Named, screen, serial, transmitter, lock_queue>>

names ==
  /\ \/ Takes("module") /\ module(Next_step.name)
     \/ Takes("push") /\ module_push
     \/ Takes("pop") /\ module_pop
  /\ UNCHANGED <<interrupt_vars, screen, serial, transmitter, lock_queue>>

(* printf_serial, and log_debug with and without a message.                *)
prints ==
  /\ \/ (Takes("print") \/ Takes("note")) /\ UNCHANGED Named
     \/ Takes("log") /\ log_debug
  /\ putc_serial
  /\ UNCHANGED <<interrupt_vars, screen, serial, lock_queue>>

assert_holds ==
  /\ Takes("assert")
  /\ UNCHANGED <<interrupt_vars, Named, screen, serial, transmitter, lock_queue>>

(* __assert prints and raises the debug exception: int $1.                 *)
assert_fails ==
  /\ Takes("assert")
  /\ putc_serial
  /\ Enter(1)
  /\ UNCHANGED <<tables, pics, tick, Named, screen, serial, lock_queue>>

lock ==
  /\ \/ Takes("cli") /\ flag' = FALSE /\ UNCHANGED lock_queue
     \/ Takes("count") /\ lock_queue' = (lock_queue + 1) % LOCKS /\ UNCHANGED flag
     \/ Takes("uncount") /\ lock_queue' = (lock_queue - 1) % LOCKS /\ UNCHANGED flag
     \/ Takes("sti") /\ flag' = (flag \/ lock_queue = 0) /\ UNCHANGED lock_queue
  /\ UNCHANGED <<tables, pics, stack, tick, Named, screen, serial, transmitter>>

(* Once it has booted the kernel only loops.  What it is there for is      *)
(* called from that loop: the heap, and drivers that log what they do.     *)
calls(program) ==
  /\ stack = <<>> /\ ~Accepts /\ todo = <<>>
  /\ todo' = program
  /\ UNCHANGED <<interrupt_vars, Named, screen, serial, transmitter, lock_queue>>

loops == stack = <<>> /\ todo = <<>> /\ UNCHANGED vars

(* A panic prints too.                                                     *)
Handler ==
  /\ \/ panic /\ putc_serial
     \/ (halt \/ serve \/ PIC_sendEOI \/ iretq) /\ UNCHANGED transmitter
  /\ UNCHANGED <<Named, todo, screen, serial, lock_queue>>

Hardware ==
  /\ \/ \E line \in Lines : raise(line)
     \/ \E vector \in Faults : exception(vector)
  /\ UNCHANGED <<Named, todo, screen, serial, transmitter, lock_queue>>

Interrupted ==
  /\ \E line \in Lines : interrupt(line)
  /\ UNCHANGED <<Named, todo, screen, serial, transmitter, lock_queue>>

Stopped == Halted /\ UNCHANGED vars

Processor ==
  \/ init_fb \/ init_serial \/ set_up \/ names \/ prints \/ assert_holds \/ assert_fails \/ lock
  \/ Handler
  \/ Interrupted

Next ==
  \/ Processor
  \/ transmit
  \/ Hardware
  \/ \E program \in {HeapCall, liballoc_realloc} \cup {Driver(name) : name \in Drivers} :
       calls(program)
  \/ loops
  \/ Stopped

(* The CPU goes on, and a character is sent at last; nothing else need     *)
(* ever happen.                                                            *)
Spec == Init /\ [][Next]_vars /\ WF_vars(Processor) /\ WF_vars(transmit)

-----------------------------------------------------------------------------
Frames ==
  [intno : 0 .. 255, flag : BOOLEAN,
   at : {"entry", "panic", "hlt", "eoi", "iretq", "reset"}]

(* lock_queue never wraps round, and never counts a call inside a call.    *)
TypeOK ==
  /\ gates \in {<<>>, Gates}
  /\ {segments, flag, remapped, screen, serial, transmitter} \subseteq BOOLEAN
  /\ requested \subseteq Lines /\ serviced \subseteq 0 .. 15
  /\ stack \in Seq(Frames) /\ Cardinality(Panics) <= MaxPanics + 1
  /\ tick \in 0 .. (TICKS - 1)
  /\ {modulename, previous} \subseteq Buffers
  /\ lock_queue \in {0, 1}

(* While the heap is being changed nothing else runs but a panic, which    *)
(* does not return.                                                        *)
HeapExclusive ==
  lock_queue > 0 => \A k \in DOMAIN stack : stack[k].intno < 32

(* A timer request that comes while the heap is locked is only held up: it *)
(* is counted, unless the kernel panics.                                   *)
HeldTicksCome ==
  \A t \in 0 .. (TICKS - 1) :
    lock_queue > 0 /\ 0 \in requested /\ tick = t ~> tick # t \/ Panicked

(* Every line of the log carries the name of the module that logs it,      *)
(* whatever it called in between; a name shorter than the allocator's own  *)
(* need not survive that.                                                  *)
LogsOwnName ==
  todo # <<>> /\ Next_step.step \in {"note", "log"} /\ Len(Next_step.name) >= Len(PMM) =>
    Chars(modulename) = Next_step.name

(* A line of the log, or a panic, is written only when both devices it     *)
(* goes to have been set up.                                               *)
LogsAreSeen ==
  \/ At("panic")
  \/ stack = <<>> /\ todo # <<>> /\ Next_step.step \in {"note", "log"}
  => screen /\ serial

(* The machine is reset only by a fault of its own that comes before there *)
(* is an interrupt table: an assert that fails, and a line that wants      *)
(* service, always find a handler.                                         *)
AssertsAreCaught ==
  \A k \in DOMAIN stack :
    stack[k].at = "reset" => stack[k].intno \in Faults /\ ~(segments /\ gates = Gates)

(* The kernel comes to its loop, or it stops; it never waits for ever.     *)
BootCompletes == <>(todo = <<>> \/ At("hlt") \/ At("reset"))

=============================================================================
