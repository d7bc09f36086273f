--------------------------- MODULE Kernel_proofs ---------------------------
(***************************************************************************)
(* Proofs about the kernel: its safety properties hold for every set of    *)
(* interrupt lines and faults, any number of panics, drivers of any name   *)
(* and any number of pages that init_vmm asks for.                         *)
(*                                                                         *)
(* The inductive invariant has two halves.  StackInv says which frames can *)
(* lie on which: above the frame of an interrupt, and above a halted one,  *)
(* there are only exceptions that came with interrupts off.  Progress says *)
(* how far the main program has come, and what is ready, named and locked  *)
(* there.  They meet in Interruptible: an interrupt finds the kernel set   *)
(* up and its heap unlocked, or does not come.                             *)
(***************************************************************************)
EXTENDS Kernel, FiniteLemmas, SequenceTheorems

-----------------------------------------------------------------------------
(* The programs, step by step.                                             *)
StepNames ==
  {"print", "init_fb", "init_serial", "module", "init_gdt", "init_pic", "init_idt",
   "push", "pop", "note", "log", "assert", "cli", "count", "uncount", "sti"}

Names == Seq(1 .. 127)

Programs == Seq([step : StepNames, name : Names])

(* Programs are put together from steps and from programs.                 *)
LEMMA Composing ==
  /\ \A step \in StepNames : Step(step) \in Programs
  /\ \A step \in StepNames, name \in Names : StepFor(step, name) \in Programs
  /\ \A p \in Programs, q \in Programs : p \o q \in Programs
<1>1. \A step \in StepNames : Step(step) \in Programs
  BY DEF Step, Names, Programs
<1>2. \A step \in StepNames, name \in Names : StepFor(step, name) \in Programs
  BY DEF StepFor, Programs
<1>3. \A p \in Programs, q \in Programs : p \o q \in Programs
  BY DEF Programs
<1>. QED
  BY <1>1, <1>2, <1>3

(* The names the initialisers log under.                                   *)
LEMMA ModuleNames ==
  /\ GDT \in Names /\ PIC \in Names /\ IDT \in Names /\ PMM \in Names /\ VMM \in Names
  /\ Len(GDT) = 3 /\ Len(PIC) = 3 /\ Len(IDT) = 3 /\ Len(PMM) = 3 /\ Len(VMM) = 3
BY DEF GDT, PIC, IDT, PMM, VMM, Names

(* A driver's name fits in the buffer with its NUL.                        *)
LEMMA DriverNames ==
  ASSUME NEW name \in Drivers
  PROVE  name \in Names /\ Len(name) \in Nat /\ Len(name) < LENGTH
BY KernelAssumption DEF Names

(* A program repeated, step by step.                                       *)
LEMMA RepeatedProgram ==
  ASSUME NEW S, NEW program \in Seq(S), program # <<>>, NEW times \in Nat
  PROVE  /\ Repeated(program, times) \in Seq(S)
         /\ Len(Repeated(program, times)) = times * Len(program)
         /\ \A k \in 1 .. (times * Len(program)) :
              Repeated(program, times)[k] = program[((k - 1) % Len(program)) + 1]
<1>. DEFINE n == times * Len(program)
<1>1. Len(program) \in Nat \ {0}
  OBVIOUS
<1>2. n \in Nat
  BY <1>1
<1>3. \A k \in 1 .. n : ((k - 1) % Len(program)) + 1 \in 1 .. Len(program)
  BY <1>1
<1>4. \A k \in 1 .. n : program[((k - 1) % Len(program)) + 1] \in S
  BY <1>3
<1>. QED
  BY <1>2, <1>4 DEF Repeated

(* A call of alloc_pmm, step by step.                                      *)
LEMMA AllocProgram ==
  /\ alloc_pmm \in Programs /\ Len(alloc_pmm) = 4
  /\ alloc_pmm[1].step = "push"
  /\ alloc_pmm[2] = [step |-> "module", name |-> PMM]
  /\ alloc_pmm[3].step = "assert"
  /\ alloc_pmm[4].step = "pop"
<1>1. alloc_pmm \in Programs
  BY Composing, ModuleNames, Zenon DEF alloc_pmm, StepNames
<1>. QED
  BY <1>1 DEF alloc_pmm, Step, StepFor

(* What init_vmm asks the allocator for.                                   *)
Allocs == Repeated(alloc_pmm, Tables)

(* The calls of alloc_pmm that init_vmm makes, step by step.               *)
LEMMA AllocsProgram ==
  /\ Allocs \in Programs /\ Len(Allocs) = 4 * Tables
  /\ \A i \in 1 .. (4 * Tables) : Allocs[i] = alloc_pmm[((i - 1) % 4) + 1]
<1>1. alloc_pmm \in Programs /\ alloc_pmm # <<>> /\ Len(alloc_pmm) = 4 /\ Tables \in Nat
  BY AllocProgram, KernelAssumption
<1>2. /\ Allocs \in Programs
      /\ Len(Allocs) = Tables * Len(alloc_pmm)
      /\ \A k \in 1 .. (Tables * Len(alloc_pmm)) :
           Allocs[k] = alloc_pmm[((k - 1) % Len(alloc_pmm)) + 1]
  BY <1>1, RepeatedProgram, Zenon DEF Allocs, Programs
<1>. QED
  BY <1>1, <1>2

(* The bootstrap is a program.                                             *)
LEMMA BootType == bootstrap \in Programs
<1>1. \A name \in Names, work \in Programs : Initialiser(name, work) \in Programs
  BY Composing, Zenon DEF Initialiser, StepNames
<1>2. StepFor("note", PMM) \o StepFor("note", PMM) \o Step("assert") \in Programs
  BY Composing, ModuleNames, Zenon DEF StepNames
<1>3. init_pmm \in Programs /\ init_vmm \in Programs
  BY <1>1, <1>2, ModuleNames, AllocsProgram, Zenon DEF init_pmm, init_vmm, Allocs
<1>4. Segments \in Programs /\ Pics \in Programs /\ Idt \in Programs /\ Devices \in Programs
  BY <1>1, Composing, ModuleNames, Zenon DEF Segments, Pics, Idt, Devices, StepNames
<1>. QED
  BY <1>3, <1>4, Composing, Zenon DEF bootstrap, StepNames

(* The bootstrap, with the place of every step.                            *)
LEMMA BootProgram ==
  /\ Len(bootstrap) = 20 + 4 * Tables
  /\ bootstrap[1].step = "print"
  /\ bootstrap[2].step = "init_fb"
  /\ bootstrap[3].step = "print"
  /\ bootstrap[4].step = "init_serial"
  /\ bootstrap[5] = [step |-> "module", name |-> GDT]
  /\ bootstrap[6].step = "init_gdt"
  /\ bootstrap[7] = [step |-> "log", name |-> GDT]
  /\ bootstrap[8] = [step |-> "module", name |-> PIC]
  /\ bootstrap[9].step = "init_pic"
  /\ bootstrap[10] = [step |-> "log", name |-> PIC]
  /\ bootstrap[11] = [step |-> "module", name |-> IDT]
  /\ bootstrap[12].step = "init_idt"
  /\ bootstrap[13] = [step |-> "log", name |-> IDT]
  /\ bootstrap[14] = [step |-> "module", name |-> PMM]
  /\ bootstrap[15] = [step |-> "note", name |-> PMM]
  /\ bootstrap[16] = [step |-> "note", name |-> PMM]
  /\ bootstrap[17].step = "assert"
  /\ bootstrap[18] = [step |-> "log", name |-> PMM]
  /\ bootstrap[19] = [step |-> "module", name |-> VMM]
  /\ \A i \in 20 .. (19 + 4 * Tables) : bootstrap[i] = alloc_pmm[((i - 20) % 4) + 1]
  /\ bootstrap[20 + 4 * Tables] = [step |-> "log", name |-> VMM]
<1>. USE KernelAssumption, AllocsProgram
     DEF bootstrap, Devices, Segments, Pics, Idt, init_pmm, init_vmm, Initialiser, Step, StepFor
<1>1. Allocs = Repeated(alloc_pmm, Tables)
  BY DEF Allocs
<1>2. Len(bootstrap) = 20 + 4 * Tables
  BY <1>1
<1>3. /\ bootstrap[1].step = "print"
      /\ bootstrap[2].step = "init_fb"
      /\ bootstrap[3].step = "print"
      /\ bootstrap[4].step = "init_serial"
  BY <1>1
<1>4. /\ bootstrap[5] = [step |-> "module", name |-> GDT]
      /\ bootstrap[6].step = "init_gdt"
      /\ bootstrap[7] = [step |-> "log", name |-> GDT]
  BY <1>1
<1>5. /\ bootstrap[8] = [step |-> "module", name |-> PIC]
      /\ bootstrap[9].step = "init_pic"
      /\ bootstrap[10] = [step |-> "log", name |-> PIC]
  BY <1>1
<1>6. /\ bootstrap[11] = [step |-> "module", name |-> IDT]
      /\ bootstrap[12].step = "init_idt"
      /\ bootstrap[13] = [step |-> "log", name |-> IDT]
  BY <1>1
<1>7. /\ bootstrap[14] = [step |-> "module", name |-> PMM]
      /\ bootstrap[15] = [step |-> "note", name |-> PMM]
      /\ bootstrap[16] = [step |-> "note", name |-> PMM]
      /\ bootstrap[17].step = "assert"
      /\ bootstrap[18] = [step |-> "log", name |-> PMM]
  BY <1>1
<1>8. bootstrap[19] = [step |-> "module", name |-> VMM]
  BY <1>1
<1>9. \A i \in 20 .. (19 + 4 * Tables) : bootstrap[i] = alloc_pmm[((i - 20) % 4) + 1]
  <2>1. \A i \in 1 .. (4 * Tables) : bootstrap[i + 19] = alloc_pmm[((i - 1) % 4) + 1]
    BY <1>1
  <2>2. ASSUME NEW i \in 20 .. (19 + 4 * Tables)
        PROVE  i - 19 \in 1 .. (4 * Tables) /\ (i - 19) + 19 = i /\ (i - 19) - 1 = i - 20
    OBVIOUS
  <2>. HIDE DEF bootstrap
  <2>. QED
    BY <2>1, <2>2
<1>10. bootstrap[20 + 4 * Tables] = [step |-> "log", name |-> VMM]
  BY <1>1, <1>2
<1>. QED
  BY <1>2, <1>3, <1>4, <1>5, <1>6, <1>7, <1>8, <1>9, <1>10

HeapPrograms == {HeapCall, liballoc_realloc}

(* A call of the heap takes and releases the lock, once or three times.    *)
LEMMA HeapProgram ==
  ASSUME NEW program \in HeapPrograms
  PROVE  /\ program \in Programs
         /\ Len(program) \in {4, 12}
         /\ \A i \in 1 .. Len(program) :
              /\ i % 4 = 1 => program[i].step = "cli"
              /\ i % 4 = 2 => program[i].step = "count"
              /\ i % 4 = 3 => program[i].step = "uncount"
              /\ i % 4 = 0 => program[i].step = "sti"
<1>1. liballoc_lock \in Programs /\ liballoc_unlock \in Programs
  BY Composing, Zenon DEF liballoc_lock, liballoc_unlock, StepNames
<1>2. HeapCall \in Programs /\ liballoc_realloc \in Programs
  BY <1>1, Composing, Zenon DEF HeapCall, liballoc_realloc
<1>3. /\ Len(HeapCall) = 4
      /\ HeapCall[1].step = "cli" /\ HeapCall[2].step = "count"
      /\ HeapCall[3].step = "uncount" /\ HeapCall[4].step = "sti"
  BY DEF HeapCall, liballoc_lock, liballoc_unlock, Step
<1>4. Len(liballoc_realloc) = 12
  BY DEF liballoc_realloc, HeapCall, liballoc_lock, liballoc_unlock, Step
<1>5. \A i \in {1, 5, 9} :
        /\ liballoc_realloc[i].step = "cli" /\ liballoc_realloc[i + 1].step = "count"
        /\ liballoc_realloc[i + 2].step = "uncount" /\ liballoc_realloc[i + 3].step = "sti"
  BY DEF liballoc_realloc, HeapCall, liballoc_lock, liballoc_unlock, Step
<1>6. CASE program = HeapCall
  <2>1. ASSUME NEW i \in 1 .. 4
        PROVE  /\ i % 4 = 1 => HeapCall[i].step = "cli"
               /\ i % 4 = 2 => HeapCall[i].step = "count"
               /\ i % 4 = 3 => HeapCall[i].step = "uncount"
               /\ i % 4 = 0 => HeapCall[i].step = "sti"
    BY <1>3
  <2>. QED
    BY <1>2, <1>3, <1>6, <2>1
<1>7. CASE program = liballoc_realloc
  <2>1. ASSUME NEW i \in 1 .. 12
        PROVE  /\ i % 4 = 1 => liballoc_realloc[i].step = "cli"
               /\ i % 4 = 2 => liballoc_realloc[i].step = "count"
               /\ i % 4 = 3 => liballoc_realloc[i].step = "uncount"
               /\ i % 4 = 0 => liballoc_realloc[i].step = "sti"
    BY <1>5
  <2>. QED
    BY <1>2, <1>4, <1>5, <1>7, <2>1
<1>. QED
  BY <1>6, <1>7 DEF HeapPrograms

(* A driver's turn, step by step.                                          *)
LEMMA DriverProgram ==
  ASSUME NEW name \in Names
  PROVE  /\ Driver(name) \in Programs
         /\ Len(Driver(name)) = 7
         /\ Driver(name)[1] = [step |-> "module", name |-> name]
         /\ Driver(name)[2].step = "push"
         /\ Driver(name)[3] = [step |-> "module", name |-> PMM]
         /\ Driver(name)[4].step = "assert"
         /\ Driver(name)[5].step = "pop"
         /\ Driver(name)[6] = [step |-> "note", name |-> name]
         /\ Driver(name)[7] = [step |-> "log", name |-> name]
<1>1. Driver(name) \in Programs
  BY AllocProgram, Composing, Zenon DEF Driver, StepNames
<1>. QED
  BY <1>1 DEF Driver, alloc_pmm, Step, StepFor

-----------------------------------------------------------------------------
(* The stack.  An exception's frame never comes to acknowledge anything,   *)
(* an interrupt's never to panic.  What lies above a frame that has turned *)
(* interrupts off came with interrupts off.                                *)
Interruptible == flag \/ \E k \in DOMAIN stack : stack[k].flag

Closes(frame) == frame.intno >= 32 \/ frame.at = "hlt"

Sound(frame) ==
  /\ frame.intno < 32 => frame.at \in {"entry", "panic", "hlt", "reset"}
  /\ frame.intno >= 32 =>
       frame.intno < 48 /\ frame.flag /\ frame.at \in {"entry", "eoi", "iretq"}

FramesInv ==
  \A k \in DOMAIN stack : Sound(stack[k]) /\ (stack[k].at # "reset" => segments)

ClosedInv ==
  \A k \in DOMAIN stack :
    Closes(stack[k]) => ~flag /\ \A j \in DOMAIN stack : j > k => ~stack[j].flag

(* A reset ends everything.                                                *)
ResetInv ==
  \A k \in DOMAIN stack :
    stack[k].at = "reset" =>
      k = Len(stack) /\ stack[k].intno \in Faults /\ ~(segments /\ gates = Gates)

(* What is in service is the input of an interrupt that has yet to be      *)
(* acknowledged.                                                           *)
ServicedInv ==
  \A s \in serviced :
    \E k \in DOMAIN stack :
      /\ stack[k].intno >= 32
      /\ stack[k].at \in {"entry", "eoi"}
      /\ s \in Inputs(stack[k].intno - 32)

StackInv == FramesInv /\ ClosedInv /\ ResetInv /\ ServicedInv

-----------------------------------------------------------------------------
(* The names.  Between a push and its pop the name is in previous, and     *)
(* what the allocator wrote over it is no longer than its own name.        *)
Quiet == \A i \in 0 .. (LENGTH - 1) : previous[i] = NUL

Keeps(owner) == Quiet /\ (Len(owner) >= 3 => Chars(modulename) = owner)

Saves(owner) == Len(owner) >= 3 => Chars(previous) = owner

Tailless == \A i \in 3 .. (LENGTH - 1) : modulename[i] = NUL

Within(j, owner) ==
  /\ j = 0 => Keeps(owner)
  /\ j > 0 => Saves(owner)
  /\ j > 1 => Tailless

(* How far the main program has come.                                      *)
BootNames(n) ==
  /\ n < 5 => Quiet
  /\ n \in 5 .. 7 => Keeps(GDT)
  /\ n \in 8 .. 10 => Keeps(PIC)
  /\ n \in 11 .. 13 => Keeps(IDT)
  /\ n \in 14 .. 18 => Keeps(PMM)
  /\ n \in 19 .. (19 + 4 * Tables) => Within((n - 19) % 4, VMM)
  /\ n = 20 + 4 * Tables => Keeps(VMM)

SetUp(n) ==
  /\ screen <=> n >= 2
  /\ serial <=> n >= 4
  /\ segments <=> n >= 6
  /\ remapped <=> n >= 9
  /\ gates = IF n >= 12 THEN Gates ELSE <<>>

Booting(n) ==
  /\ todo = SubSeq(bootstrap, n + 1, Len(bootstrap))
  /\ SetUp(n)
  /\ BootNames(n)
  /\ lock_queue = 0
  /\ ~Interruptible

Locking(program, n) ==
  /\ todo = SubSeq(program, n + 1, Len(program))
  /\ SetUp(Len(bootstrap))
  /\ Quiet
  /\ lock_queue = IF n % 4 = 2 THEN 1 ELSE 0
  /\ n % 4 # 0 => ~Interruptible

Driving(name, n) ==
  /\ todo = SubSeq(Driver(name), n + 1, Len(Driver(name)))
  /\ SetUp(Len(bootstrap))
  /\ lock_queue = 0
  /\ n = 0 => Quiet
  /\ n \in 1 .. 4 => Within(n - 1, name)
  /\ n >= 5 => Keeps(name)

Progress ==
  \/ \E n \in 0 .. Len(bootstrap) : Booting(n)
  \/ \E program \in HeapPrograms : \E n \in 0 .. Len(program) : Locking(program, n)
  \/ \E name \in Drivers : \E n \in 0 .. 7 : Driving(name, n)

IInv == TypeOK /\ StackInv /\ Progress

-----------------------------------------------------------------------------
(* What the steps do to the stack.                                         *)
LEMMA LastIndex ==
  ASSUME NEW n \in Nat
  PROVE  /\ \A k \in 1 .. n : k \in 1 .. (n - 1) \/ k = n
         /\ \A k \in 1 .. (n - 1) : k \in 1 .. n /\ k # n /\ n > k
         /\ \A k \in 1 .. n : ~(k > n)
OBVIOUS

(* A frame is that of an exception or of a line.                           *)
LEMMA FrameVector ==
  ASSUME NEW frame \in Frames
  PROVE  /\ frame.intno \in 0 .. 255
         /\ ~(frame.intno < 32 /\ frame.intno >= 32)
         /\ ~(frame.intno < 32) => frame.intno >= 32
<1>1. frame.intno \in 0 .. 255
  BY Zenon DEF Frames
<1>. QED
  BY <1>1

(* An interrupt pushes a frame and clears the flag, unless its gate is a   *)
(* trap gate.                                                              *)
LEMMA EnterStack ==
  ASSUME TypeOK, NEW vector \in 0 .. 255, Enter(vector)
  PROVE  /\ stack' \in Seq(Frames) /\ Len(stack') = Len(stack) + 1
         /\ \A k \in 1 .. Len(stack) : stack'[k] = stack[k]
         /\ stack'[Len(stack) + 1].intno = vector
         /\ stack'[Len(stack) + 1].flag = flag
         /\ stack'[Len(stack) + 1].at =
              IF segments /\ vector \in DOMAIN gates THEN "entry" ELSE "reset"
         /\ flag' = (flag /\ segments /\ vector \in DOMAIN gates /\ gates[vector] = TRAPGATE)
<1>. DEFINE caught == segments /\ vector \in DOMAIN gates
            frame  == [intno |-> vector, at |-> IF caught THEN "entry" ELSE "reset", flag |-> flag]
<1>1. frame \in Frames
  BY DEF TypeOK, Frames
<1>2. stack' = Append(stack, frame) /\ flag' = (flag /\ caught /\ gates[vector] = TRAPGATE)
  BY DEF Enter
<1>3. stack \in Seq(Frames)
  BY DEF TypeOK
<1>4. frame.intno = vector /\ frame.flag = flag /\ frame.at = IF caught THEN "entry" ELSE "reset"
  OBVIOUS
<1>. HIDE DEF frame
<1>5. /\ stack' \in Seq(Frames) /\ Len(stack') = Len(stack) + 1
      /\ \A k \in 1 .. Len(stack) : stack'[k] = stack[k]
      /\ stack'[Len(stack) + 1] = frame
  BY <1>1, <1>2, <1>3, AppendProperties
<1>. QED
  BY <1>2, <1>4, <1>5, Zenon

(* A step of the handler changes how far the last frame has come.          *)
LEMMA GoesStack ==
  ASSUME TypeOK, stack # <<>>,
         NEW where \in {"entry", "panic", "hlt", "eoi", "iretq", "reset"}, Goes(where)
  PROVE  /\ stack' \in Seq(Frames) /\ Len(stack') = Len(stack)
         /\ \A k \in 1 .. (Len(stack) - 1) : stack'[k] = stack[k]
         /\ stack'[Len(stack)].intno = Top.intno
         /\ stack'[Len(stack)].flag = Top.flag
         /\ stack'[Len(stack)].at = where
<1>. DEFINE frame == [Top EXCEPT !.at = where]
<1>1. stack \in Seq(Frames) /\ Len(stack) \in 1 .. Len(stack)
  BY DEF TypeOK
<1>2. Top \in Frames /\ Top = stack[Len(stack)]
  BY <1>1 DEF Top, Last
<1>3. stack' = [stack EXCEPT ![Len(stack)] = frame]
  BY <1>1, <1>2 DEF Goes
<1>4. frame \in Frames
  BY <1>2 DEF Frames
<1>5. /\ stack' \in Seq(Frames) /\ Len(stack') = Len(stack)
      /\ \A k \in 1 .. Len(stack) :
           stack'[k] = IF k = Len(stack) THEN frame ELSE stack[k]
  BY <1>1, <1>3, <1>4, ExceptSeq
<1>6. /\ frame.at = where
      /\ frame.intno = Top.intno
      /\ frame.flag = Top.flag
  BY <1>2 DEF Frames
<1>. HIDE DEF frame
<1>7. stack'[Len(stack)] = frame
  BY <1>1, <1>5
<1>8. \A k \in 1 .. (Len(stack) - 1) : stack'[k] = stack[k]
  BY <1>1, <1>5
<1>. QED
  BY <1>5, <1>6, <1>7, <1>8, Zenon

(* The handler that returns never interrupted a halted CPU.                *)
LEMMA IretStack ==
  ASSUME TypeOK, StackInv, iretq
  PROVE  /\ stack' \in Seq(Frames) /\ Len(stack') = Len(stack) - 1
         /\ \A k \in 1 .. (Len(stack) - 1) : stack'[k] = stack[k]
         /\ Top.intno >= 32 /\ Top.flag /\ flag'
         /\ Len(stack) \in DOMAIN stack /\ Top = stack[Len(stack)]
<1>1. /\ stack \in Seq(Frames) /\ Len(stack) \in Nat /\ DOMAIN stack = 1 .. Len(stack)
      /\ stack # <<>> /\ Top.at = "iretq" /\ flag' = Top.flag
  BY DEF TypeOK, iretq, Handles, At
<1>2. Len(stack) \in DOMAIN stack /\ Top = stack[Len(stack)] /\ Top \in Frames
  BY <1>1 DEF Top, Last
<1>3. Top.intno >= 32 /\ Top.flag
  <2>1. Top.intno \in 0 .. 255
    BY <1>2, Zenon DEF Frames
  <2>2. ~(Top.intno < 32) => Top.intno >= 32
    BY <2>1
  <2>. QED
    BY <1>1, <1>2, <2>2, Zenon DEF StackInv, FramesInv, Sound
<1>4. Front(stack) \in Seq(Frames) /\ Len(Front(stack)) = Len(stack) - 1
      /\ \A k \in 1 .. (Len(stack) - 1) : Front(stack)[k] = stack[k]
  BY <1>1 DEF Front
<1>5. ~(Front(stack) # <<>> /\ Last(Front(stack)).at = "hlt")
  <2>. SUFFICES ASSUME Front(stack) # <<>>, Last(Front(stack)).at = "hlt" PROVE FALSE
    OBVIOUS
  <2>1. /\ Len(stack) - 1 \in DOMAIN stack /\ Len(stack) > Len(stack) - 1
        /\ stack[Len(stack) - 1].at = "hlt"
    BY <1>1, <1>4 DEF Last
  <2>. QED
    BY <1>2, <1>3, <2>1, Zenon DEF StackInv, ClosedInv, Closes
<1>6. stack' = Front(stack)
  BY <1>5 DEF iretq
<1>. QED
  BY <1>1, <1>2, <1>3, <1>4, <1>6

(* An interrupt keeps the invariant on the stack.                          *)
LEMMA EnteredStack ==
  ASSUME TypeOK, StackInv, ~At("reset"), NEW vector \in 0 .. 255, Enter(vector),
         UNCHANGED tables,
         \/ vector < 32 /\ (vector \in Faults \/ (segments /\ gates = Gates))
         \/ vector \in 32 .. 47 /\ flag /\ segments /\ gates = Gates
  PROVE  /\ FramesInv' /\ ClosedInv' /\ ResetInv'
         /\ Interruptible' => Interruptible
<1>. DEFINE new == Len(stack) + 1
<1>1. /\ stack \in Seq(Frames) /\ Len(stack) \in Nat /\ DOMAIN stack = 1 .. Len(stack)
      /\ flag \in BOOLEAN
      /\ segments' = segments /\ gates' = gates
  BY DEF TypeOK, tables
<1>2. /\ stack' \in Seq(Frames) /\ Len(stack') = Len(stack) + 1
      /\ \A k \in 1 .. Len(stack) : stack'[k] = stack[k]
      /\ stack'[new].intno = vector
      /\ stack'[new].flag = flag
      /\ stack'[new].at = IF segments /\ vector \in DOMAIN gates THEN "entry" ELSE "reset"
      /\ flag' = (flag /\ segments /\ vector \in DOMAIN gates /\ gates[vector] = TRAPGATE)
  BY EnterStack
<1>3. DOMAIN stack' = 1 .. new /\ new \in Nat
  BY <1>1, <1>2
<1>4. \A k \in 1 .. new : k \in 1 .. Len(stack) \/ k = new
  BY <1>1
<1>5. \A k \in 1 .. Len(stack) : stack[k].at # "reset"
  BY <1>1 DEF StackInv, ResetInv, At, Top, Last
<1>6. segments /\ gates = Gates =>
        DOMAIN gates = 0 .. 47 /\ (vector >= 32 /\ vector < 48 => gates[vector] = INTGATE)
  BY DEF Gates
<1>7. TRAPGATE # INTGATE
  BY DEF TRAPGATE, INTGATE
<1>8. vector < 32 \/ (vector \in 32 .. 47 /\ vector >= 32 /\ vector < 48)
  OBVIOUS
<1>9. vector \in 0 .. 47 /\ (vector < 32 => ~(vector >= 32))
  BY <1>8
<1>. HIDE DEF new
<1>10. FramesInv'
  <2>1. Sound(stack'[new]) /\ (stack'[new].at # "reset" => segments)
    BY <1>2, <1>6, <1>8, <1>9, Zenon DEF Sound
  <2>2. \A k \in 1 .. new : Sound(stack'[k]) /\ (stack'[k].at # "reset" => segments)
    BY <1>1, <1>2, <1>4, <2>1, ZenonT(40) DEF StackInv, FramesInv
  <2>. QED
    BY <1>1, <1>3, <2>2, Zenon DEF FramesInv
<1>11. ClosedInv'
  <2>1. ASSUME NEW k \in 1 .. Len(stack), Closes(stack[k])
        PROVE  ~flag /\ \A j \in 1 .. Len(stack) : j > k => ~stack[j].flag
    BY <1>1, <2>1 DEF StackInv, ClosedInv
  <2>2. vector >= 32 => ~flag'
    BY <1>2, <1>6, <1>7, <1>8, <1>9
  <2>3. Closes(stack'[new]) => vector >= 32
    BY <1>2, Zenon DEF Closes
  <2>4. \A j \in 1 .. new : ~(j > new)
    BY <1>1 DEF new
  <2>5. ASSUME NEW k \in 1 .. new, Closes(stack'[k])
        PROVE  ~flag' /\ \A j \in 1 .. new : j > k => ~stack'[j].flag
    BY <1>2, <1>4, <2>1, <2>2, <2>3, <2>4, <2>5, Zenon
  <2>. QED
    BY <1>3, <2>5, Zenon DEF ClosedInv
<1>12. ResetInv'
  <2>1. ASSUME NEW k \in 1 .. new, stack'[k].at = "reset"
        PROVE  k = Len(stack') /\ stack'[k].intno \in Faults /\ ~(segments /\ gates = Gates)
    <3>1. k = new /\ new = Len(stack')
      BY <1>2, <1>4, <1>5, <2>1, Zenon DEF new
    <3>2. ~(segments /\ vector \in DOMAIN gates)
      BY <1>2, <2>1, <3>1, Zenon
    <3>3. ~(segments /\ gates = Gates)
      BY <1>6, <1>9, <3>2, Zenon
    <3>. QED
      BY <1>2, <3>1, <3>3, Zenon
  <2>2. Gates' = Gates
    BY DEF Gates
  <2>. QED
    BY <1>1, <1>3, <2>1, <2>2, ZenonT(40) DEF ResetInv
<1>13. Interruptible' => Interruptible
  BY <1>1, <1>2, <1>3, <1>4, Zenon DEF Interruptible
<1>. QED
  BY <1>10, <1>11, <1>12, <1>13


(* A step of the handler keeps the invariant on the stack.                 *)
LEMMA WentStack ==
  ASSUME TypeOK, StackInv, stack # <<>>,
         NEW where \in {"entry", "panic", "hlt", "eoi", "iretq", "reset"}, Goes(where),
         UNCHANGED tables,
         Top.at # "reset", flag' => flag, where = "hlt" => ~flag',
         \/ Top.intno < 32 /\ where \in {"panic", "hlt"}
         \/ Top.intno >= 32 /\ where \in {"eoi", "iretq"}
  PROVE  /\ FramesInv' /\ ClosedInv' /\ ResetInv'
         /\ Interruptible' => Interruptible
         /\ Panics' = Panics
<1>. DEFINE top == Len(stack)
<1>1. /\ stack \in Seq(Frames) /\ top \in Nat /\ top \in 1 .. top /\ DOMAIN stack = 1 .. top
      /\ Top = stack[top] /\ Top \in Frames
      /\ segments' = segments /\ gates' = gates
  BY DEF TypeOK, tables, Top, Last
<1>2. /\ stack' \in Seq(Frames) /\ Len(stack') = top
      /\ \A k \in 1 .. (top - 1) : stack'[k] = stack[k]
      /\ stack'[top].intno = stack[top].intno
      /\ stack'[top].flag = stack[top].flag
      /\ stack'[top].at = where
  BY <1>1, GoesStack
<1>3. DOMAIN stack' = 1 .. top
  BY <1>1, <1>2
<1>4. \A k \in 1 .. top : k \in 1 .. (top - 1) \/ k = top
  BY <1>1, LastIndex, Zenon
<1>5. \A k \in 1 .. (top - 1) : k \in 1 .. top /\ k # top
  BY <1>1, LastIndex, Zenon
<1>7. ~(stack[top].intno < 32 /\ stack[top].intno >= 32)
  BY <1>1, FrameVector, Zenon
<1>8. \A k \in 1 .. top : Sound(stack[k]) /\ (stack[k].at # "reset" => segments)
  BY <1>1, Zenon DEF StackInv, FramesInv
<1>9. \A k \in 1 .. top : stack'[k].intno = stack[k].intno /\ stack'[k].flag = stack[k].flag
  BY <1>2, <1>4, Zenon
<1>10. \A k \in 1 .. top : ~(k > top)
  BY <1>1, LastIndex, Zenon
<1>. HIDE DEF top
<1>11. FramesInv'
  <2>1. Sound(stack'[top]) /\ segments
    BY <1>1, <1>2, <1>7, <1>8, Zenon DEF Sound
  <2>2. \A k \in 1 .. top : Sound(stack'[k]) /\ (stack'[k].at # "reset" => segments)
    BY <1>2, <1>4, <1>5, <1>8, <2>1, Zenon
  <2>. QED
    BY <1>1, <1>3, <2>2, Zenon DEF FramesInv
<1>12. ClosedInv'
  <2>1. ASSUME NEW k \in 1 .. top, Closes(stack'[k])
        PROVE  ~flag' /\ \A j \in 1 .. top : j > k => ~stack'[j].flag
    <3>1. CASE Closes(stack[k])
      <4>1. ~flag /\ \A j \in 1 .. top : j > k => ~stack[j].flag
        BY <1>1, <3>1, Zenon DEF StackInv, ClosedInv
      <4>. QED
        BY <1>9, <4>1, Zenon
    <3>2. CASE ~Closes(stack[k])
      <4>1. k = top /\ where = "hlt"
        BY <1>2, <1>4, <2>1, <3>2, Zenon DEF Closes
      <4>. QED
        BY <1>10, <4>1, Zenon
    <3>. QED
      BY <3>1, <3>2
  <2>. QED
    BY <1>3, <2>1, Zenon DEF ClosedInv
<1>13. ResetInv'
  <2>1. \A k \in 1 .. top : stack'[k].at # "reset"
    <3>1. \A k \in 1 .. top : stack[k].at = "reset" => k = top
      BY <1>1, Zenon DEF StackInv, ResetInv, top
    <3>. QED
      BY <1>1, <1>2, <1>4, <3>1, Zenon
  <2>. QED
    BY <1>3, <2>1, Zenon DEF ResetInv
<1>14. Interruptible' => Interruptible
  BY <1>1, <1>3, <1>9, Zenon DEF Interruptible
<1>15. Panics' = Panics
  BY <1>1, <1>3, <1>9, Zenon DEF Panics
<1>. QED
  BY <1>11, <1>12, <1>13, <1>14, <1>15

(* What lies below the frame of a handler that returns is as before.       *)
LEMMA ReturnedStack ==
  ASSUME TypeOK, StackInv, iretq
  PROVE  /\ FramesInv' /\ ClosedInv' /\ ResetInv' /\ ServicedInv'
         /\ Interruptible' => Interruptible
         /\ Panics' = Panics
<1>. DEFINE top  == Len(stack)
            rest == Len(stack) - 1
<1>1. /\ stack \in Seq(Frames) /\ top \in Nat /\ DOMAIN stack = 1 .. top
      /\ segments' = segments /\ gates' = gates /\ serviced' = serviced
      /\ Top.at = "iretq"
  BY DEF TypeOK, iretq, tables, pics, Handles, At
<1>2. /\ stack' \in Seq(Frames) /\ Len(stack') = rest
      /\ \A k \in 1 .. rest : stack'[k] = stack[k]
      /\ Top.intno >= 32 /\ Top.flag /\ flag'
      /\ top \in 1 .. top /\ Top = stack[top]
  BY <1>1, IretStack
<1>3. DOMAIN stack' = 1 .. rest
  BY <1>1, <1>2
<1>4. \A k \in 1 .. rest : k \in 1 .. top /\ top > k
  BY <1>1, LastIndex, Zenon
<1>5. \A k \in 1 .. top : k \in 1 .. rest \/ k = top
  BY <1>1, LastIndex, Zenon
<1>6. stack[top] \in Frames
  BY <1>1, <1>2
<1>7. ~(stack[top].intno < 32)
  BY <1>2, <1>6, FrameVector, Zenon
<1>8. \A k \in 1 .. rest : k # Len(stack)
  BY <1>1, LastIndex, Zenon
<1>. HIDE DEF top, rest
<1>9. FramesInv'
  BY <1>1, <1>2, <1>3, <1>4, Zenon DEF StackInv, FramesInv
<1>10. ClosedInv'
  BY <1>1, <1>2, <1>3, <1>4, Zenon DEF StackInv, ClosedInv
<1>11. ResetInv'
  BY <1>1, <1>2, <1>3, <1>4, <1>8, Zenon DEF StackInv, ResetInv
<1>12. ServicedInv'
  BY <1>1, <1>2, <1>3, <1>5, Zenon DEF StackInv, ServicedInv
<1>13. Interruptible
  BY <1>1, <1>2, Zenon DEF Interruptible
<1>14. Panics' = Panics
  BY <1>1, <1>2, <1>3, <1>4, <1>5, <1>7, Zenon DEF Panics
<1>. QED
  BY <1>9, <1>10, <1>11, <1>12, <1>13, <1>14


(* What is in service stays so only under a handler that has it to         *)
(* acknowledge.                                                            *)
LEMMA ServicedKept ==
  ASSUME ServicedInv, serviced' \subseteq serviced,
         \A k \in DOMAIN stack :
           stack[k].intno >= 32 /\ stack[k].at \in {"entry", "eoi"} =>
             /\ k \in DOMAIN stack' /\ stack'[k].intno = stack[k].intno
             /\ stack'[k].at \in {"entry", "eoi"}
  PROVE  ServicedInv'
<1>. SUFFICES ASSUME NEW s \in serviced'
              PROVE  \E k \in DOMAIN stack' :
                       /\ stack'[k].intno >= 32
                       /\ stack'[k].at \in {"entry", "eoi"}
                       /\ s \in Inputs(stack'[k].intno - 32)
  BY Zenon DEF ServicedInv, Inputs, Input, CASCADE
<1>1. PICK k \in DOMAIN stack :
        /\ stack[k].intno >= 32
        /\ stack[k].at \in {"entry", "eoi"}
        /\ s \in Inputs(stack[k].intno - 32)
  BY Zenon DEF ServicedInv
<1>. QED
  BY <1>1, Zenon

(* In the handler of a line only its own inputs are in service.            *)
LEMMA OneInput ==
  ASSUME TypeOK, StackInv, stack # <<>>, Top.intno >= 32
  PROVE  serviced \subseteq Inputs(Top.intno - 32) /\ Top.intno < 48 /\ Top.intno \in 32 .. 47
<1>. DEFINE top == Len(stack)
<1>1. /\ stack \in Seq(Frames) /\ top \in Nat /\ top \in 1 .. top /\ DOMAIN stack = 1 .. top
      /\ Top = stack[top] /\ Top \in Frames
  BY DEF TypeOK, Top, Last
<1>2. Top.flag /\ Top.intno < 48
  BY <1>1, Zenon DEF StackInv, FramesInv, Sound
<1>3. \A k \in 1 .. top : k = top \/ top > k
  BY <1>1, LastIndex, Zenon
<1>4. Top.intno \in 0 .. 255
  BY <1>1, FrameVector, Zenon
<1>5. Top.intno \in 32 .. 47
  <2>. DEFINE vector == Top.intno
  <2>1. vector \in 0 .. 255 /\ vector >= 32 /\ vector < 48
    BY <1>2, <1>4, Zenon
  <2>. HIDE DEF vector
  <2>2. vector \in 32 .. 47
    BY <2>1
  <2>. QED
    BY <2>2 DEF vector
<1>. HIDE DEF top
<1>6. \A k \in 1 .. top : stack[k].intno >= 32 => k = top
  BY <1>1, <1>2, <1>3, Zenon DEF StackInv, ClosedInv, Closes
<1>7. serviced \subseteq Inputs(Top.intno - 32)
  BY <1>1, <1>6, Zenon DEF StackInv, ServicedInv
<1>. QED
  BY <1>2, <1>5, <1>7

(* The first of at most one input in service is that one.                  *)
LEMMA HighestOfOne ==
  ASSUME NEW S \in SUBSET Nat, NEW a, S \subseteq {a}
  PROVE  Highest(S) = S
<1>1. CASE S = {}
  BY <1>1 DEF Highest
<1>2. CASE S # {}
  <2>1. Min(S) \in S
    BY <1>2, MinOfNaturals, Zenon
  <2>2. Highest(S) = {Min(S)}
    BY <1>2, Zenon DEF Highest
  <2>. HIDE DEF Highest
  <2>. QED
    BY <2>1, <2>2
<1>. QED
  BY <1>1, <1>2

(* One acknowledgement ends all that is in service.                        *)
LEMMA EndsAll ==
  ASSUME TypeOK, NEW intno \in 32 .. 47, serviced \subseteq Inputs(intno - 32)
  PROVE  serviced \ EndOfInterrupt(intno) = {}
<1>. DEFINE line == intno - 32
<1>1. serviced \in SUBSET (0 .. 15)
  BY DEF TypeOK
<1>2. serviced \cap Master \in SUBSET Nat /\ serviced \cap Slave \in SUBSET Nat
  BY <1>1 DEF Master, Slave
<1>3. serviced = (serviced \cap Master) \cup (serviced \cap Slave)
  <2>1. \A s \in 0 .. 15 : s \in 0 .. 7 \/ s \in 8 .. 15
    OBVIOUS
  <2>. QED
    BY <1>1, <2>1, Zenon DEF Master, Slave
<1>4. CASE intno >= 40
  <2>1. serviced \cap Master \subseteq {CASCADE} /\ serviced \cap Slave \subseteq {line}
    BY <1>4 DEF Inputs, Input, CASCADE, Master, Slave
  <2>. QED
    BY <1>2, <1>3, <1>4, <2>1, HighestOfOne, Zenon DEF EndOfInterrupt
<1>5. CASE ~(intno >= 40)
  <2>1. serviced \cap Master \subseteq {line} /\ serviced \cap Slave = {}
    BY <1>5 DEF Inputs, Input, CASCADE, Master, Slave
  <2>. QED
    BY <1>2, <1>3, <1>5, <2>1, HighestOfOne, Zenon DEF EndOfInterrupt
<1>. QED
  BY <1>4, <1>5

-----------------------------------------------------------------------------
(* How far the main program has come, under the handlers.                  *)
LEMMA SetUpWhenInterruptible ==
  ASSUME Progress, Interruptible
  PROVE  segments /\ remapped /\ gates = Gates /\ lock_queue = 0
<1>1. Len(bootstrap) = 20 + 4 * Tables /\ Tables \in Nat
  BY BootProgram, KernelAssumption
<1>2. Len(bootstrap) >= 6 /\ Len(bootstrap) >= 9 /\ Len(bootstrap) >= 12
  BY <1>1
<1>3. SetUp(Len(bootstrap)) /\ lock_queue = 0
  <2>1. \A program \in HeapPrograms : \A n \in 0 .. Len(program) :
          Locking(program, n) => SetUp(Len(bootstrap)) /\ lock_queue = 0
    <3>1. ~(0 = 2)
      OBVIOUS
    <3>. QED
      BY <3>1, Zenon DEF Locking
  <2>2. \A name \in Drivers : \A n \in 0 .. 7 :
          Driving(name, n) => SetUp(Len(bootstrap)) /\ lock_queue = 0
    BY Zenon DEF Driving
  <2>3. \A n \in 0 .. Len(bootstrap) : ~Booting(n)
    BY Zenon DEF Booting
  <2>. QED
    BY <2>1, <2>2, <2>3, Zenon DEF Progress
<1>. QED
  BY <1>2, <1>3, Zenon DEF SetUp

(* Steps that leave the names alone keep all that is said of them.         *)
LEMMA NamesKept ==
  ASSUME UNCHANGED Named
  PROVE  /\ Quiet' <=> Quiet
         /\ \A owner : (Keeps(owner)' <=> Keeps(owner)) /\ (Saves(owner)' <=> Saves(owner))
         /\ \A j, owner : Within(j, owner)' <=> Within(j, owner)
         /\ \A n : BootNames(n)' <=> BootNames(n)
<1>1. modulename' = modulename /\ previous' = previous
  BY DEF Named
<1>2. Quiet' <=> Quiet
  BY <1>1, Zenon DEF Quiet
<1>3. ASSUME NEW owner PROVE (Keeps(owner)' <=> Keeps(owner)) /\ (Saves(owner)' <=> Saves(owner))
  BY <1>1, <1>2, Zenon DEF Keeps, Saves
<1>4. ASSUME NEW j, NEW owner PROVE Within(j, owner)' <=> Within(j, owner)
  BY <1>1, <1>3, Zenon DEF Within, Tailless
<1>5. ASSUME NEW n PROVE BootNames(n)' <=> BootNames(n)
  BY <1>2, <1>3, <1>4, SMT DEF BootNames
<1>. QED
  BY <1>2, <1>3, <1>4, <1>5

(* Steps that leave devices and tables alone keep what has been set up.    *)
LEMMA SetUpKept ==
  ASSUME UNCHANGED <<tables, screen, serial>>, NEW n
  PROVE  SetUp(n)' <=> SetUp(n)
<1>1. Gates' = Gates
  BY DEF Gates
<1>. QED
  BY <1>1, SMT DEF SetUp, tables

(* Interrupts keep the place of the main program.                          *)
LEMMA ProgressKept ==
  ASSUME Progress, UNCHANGED <<tables, Named, todo, screen, serial, lock_queue>>,
         Interruptible' => Interruptible
  PROVE  Progress'
<1>1. todo' = todo /\ lock_queue' = lock_queue /\ UNCHANGED Named /\ UNCHANGED <<tables, screen, serial>>
  OBVIOUS
<1>2. \A n \in 0 .. Len(bootstrap) : Booting(n) => Booting(n)'
  BY <1>1, SetUpKept, NamesKept, Zenon DEF Booting
<1>3. \A program \in HeapPrograms : \A n \in 0 .. Len(program) :
        Locking(program, n) => Locking(program, n)'
  BY <1>1, SetUpKept, NamesKept, Zenon DEF Locking
<1>4. \A name \in Drivers : \A n \in 0 .. 7 : Driving(name, n) => Driving(name, n)'
  BY <1>1, SetUpKept, NamesKept, Zenon DEF Driving
<1>. QED
  BY <1>2, <1>3, <1>4, Zenon DEF Progress

-----------------------------------------------------------------------------
(* Steps of handlers and of the hardware.                                  *)
LEMMA TypeKept ==
  ASSUME TypeOK, UNCHANGED <<tables, Named, screen, serial, lock_queue>>,
         flag' \in BOOLEAN, transmitter' \in BOOLEAN,
         requested' \subseteq Lines, serviced' \subseteq 0 .. 15,
         stack' \in Seq(Frames), Cardinality(Panics') <= MaxPanics + 1,
         tick' \in 0 .. (TICKS - 1)
  PROVE  TypeOK'
<1>1. /\ segments' = segments /\ gates' = gates /\ remapped' = remapped
      /\ modulename' = modulename /\ previous' = previous
      /\ screen' = screen /\ serial' = serial /\ lock_queue' = lock_queue
  BY DEF tables, Named
<1>2. Gates' = Gates /\ Frames' = Frames /\ Buffers' = Buffers
  BY DEF Gates, Frames, Buffers
<1>3. gates' \in {<<>>, Gates} /\ {modulename', previous'} \subseteq Buffers /\ lock_queue' \in {0, 1}
  BY <1>1, Zenon DEF TypeOK
<1>4. {segments', flag', remapped', screen', serial', transmitter'} \subseteq BOOLEAN
  BY <1>1, Zenon DEF TypeOK
<1>. QED
  BY <1>2, <1>3, <1>4, Zenon DEF TypeOK

(* The panics on the stack can be counted.                                 *)
LEMMA PanicsCount ==
  ASSUME TypeOK
  PROVE  /\ IsFiniteSet(Panics) /\ Cardinality(Panics) \in Nat
         /\ Panics \subseteq 1 .. Len(stack)
<1>1. Panics \subseteq 1 .. Len(stack) /\ Len(stack) \in Nat
  BY DEF TypeOK, Panics
<1>2. IsFiniteSet(1 .. Len(stack))
  BY <1>1, FS_Interval
<1>3. IsFiniteSet(Panics)
  BY <1>1, <1>2, FS_Subset, Zenon
<1>. QED
  BY <1>1, <1>3, FS_CardinalityType, Zenon

-----------------------------------------------------------------------------
(* Steps of handlers and of the hardware.                                  *)
LEMMA EnteredPanics ==
  ASSUME TypeOK, NEW vector \in 0 .. 255, Enter(vector),
         Cardinality(Panics) <= MaxPanics \/ vector >= 32
  PROVE  Cardinality(Panics') <= MaxPanics + 1
<1>. DEFINE new == Len(stack) + 1
<1>1. /\ stack \in Seq(Frames) /\ Len(stack) \in Nat /\ DOMAIN stack = 1 .. Len(stack)
      /\ Cardinality(Panics) <= MaxPanics + 1
  BY DEF TypeOK
<1>2. /\ stack' \in Seq(Frames) /\ Len(stack') = Len(stack) + 1
      /\ \A k \in 1 .. Len(stack) : stack'[k] = stack[k]
      /\ stack'[new].intno = vector
  BY EnterStack
<1>3. DOMAIN stack' = 1 .. new /\ \A k \in 1 .. new : k \in 1 .. Len(stack) \/ k = new
  BY <1>1, <1>2
<1>4. IsFiniteSet(Panics) /\ Cardinality(Panics) \in Nat /\ Panics \subseteq 1 .. Len(stack)
  BY PanicsCount
<1>5. \A k \in 1 .. Len(stack) : k \in 1 .. new /\ k # new
  BY <1>1
<1>. HIDE DEF new
<1>6. Panics' \subseteq Panics \cup {new}
  BY <1>1, <1>2, <1>3, Zenon DEF Panics
<1>7. new \notin Panics
  BY <1>4, <1>5, Zenon
<1>8. /\ IsFiniteSet(Panics \cup {new})
      /\ Cardinality(Panics \cup {new}) = Cardinality(Panics) + 1
  BY <1>4, <1>7, FS_AddElement, Zenon
<1>9. CASE Cardinality(Panics) <= MaxPanics
  <2>1. /\ Cardinality(Panics') <= Cardinality(Panics \cup {new})
        /\ Cardinality(Panics') \in Nat
    BY <1>6, <1>8, FS_Subset, FS_CardinalityType, Zenon
  <2>. QED
    BY <1>4, <1>8, <1>9, <2>1, InterruptsAssumption
<1>10. CASE vector >= 32
  <2>1. ~(vector < 32)
    BY <1>10
  <2>2. Panics' \subseteq Panics
    BY <1>1, <1>2, <1>3, <2>1, Zenon DEF Panics
  <2>3. Cardinality(Panics') <= Cardinality(Panics) /\ Cardinality(Panics') \in Nat
    BY <1>4, <2>2, FS_Subset, FS_CardinalityType, Zenon
  <2>. QED
    BY <1>1, <1>4, <2>3, InterruptsAssumption
<1>. QED
  BY <1>9, <1>10

(* A step of the handler keeps types and stack, and touches nothing of the *)
(* main program.                                                           *)
LEMMA HandlerStep ==
  ASSUME TypeOK, StackInv, Handler
  PROVE  /\ TypeOK' /\ StackInv'
         /\ Interruptible' => Interruptible
         /\ UNCHANGED <<tables, Named, todo, screen, serial, lock_queue>>
<1>. DEFINE top == Len(stack)
<1>1. UNCHANGED <<tables, Named, todo, screen, serial, lock_queue>>
  BY DEF Handler, panic, halt, serve, PIC_sendEOI, iretq
<1>2. stack # <<>> /\ Top.at \in {"entry", "panic", "eoi", "iretq"}
  BY DEF Handler, panic, halt, serve, PIC_sendEOI, iretq, Handles, At
<1>3. /\ stack \in Seq(Frames) /\ top \in Nat /\ top \in 1 .. top /\ DOMAIN stack = 1 .. top
      /\ Top = stack[top] /\ Top \in Frames
      /\ requested \subseteq Lines /\ serviced \subseteq 0 .. 15 /\ tick \in 0 .. (TICKS - 1)
      /\ flag \in BOOLEAN /\ Cardinality(Panics) <= MaxPanics + 1
  BY <1>2 DEF TypeOK, Top, Last
<1>4. transmitter' \in BOOLEAN
  BY Zenon DEF Handler, putc_serial, TypeOK
<1>5. tick' \in 0 .. (TICKS - 1)
  <2>1. (tick + 1) % TICKS \in 0 .. (TICKS - 1)
    BY <1>3, InterruptsAssumption
  <2>2. tick' \in {tick, (tick + 1) % TICKS}
    BY Zenon DEF Handler, panic, halt, serve, PIC_sendEOI, iretq
  <2>. QED
    BY <1>3, <2>1, <2>2, Zenon
<1>6. serviced' \subseteq serviced /\ requested' = requested
  BY DEF Handler, panic, halt, serve, PIC_sendEOI, iretq, pics
<1>7. Sound(Top)
  BY <1>3, Zenon DEF StackInv, FramesInv
<1>8. CASE iretq
  <2>1. StackInv' /\ (Interruptible' => Interruptible) /\ Panics' = Panics
    BY <1>8, ReturnedStack, Zenon DEF StackInv
  <2>2. stack' \in Seq(Frames) /\ flag' \in BOOLEAN
    BY <1>3, <1>8, IretStack, Zenon DEF iretq, Frames
  <2>. QED
    BY <1>1, <1>3, <1>4, <1>5, <1>6, <2>1, <2>2, TypeKept, Zenon
<1>9. ASSUME NEW where \in {"panic", "hlt", "eoi", "iretq"}, Goes(where),
             flag' => flag, flag' \in BOOLEAN, where = "hlt" => ~flag',
             \/ Top.intno < 32 /\ where \in {"panic", "hlt"}
             \/ Top.intno >= 32 /\ where \in {"eoi", "iretq"},
             where = "iretq" => serviced' = {}
      PROVE  TypeOK' /\ StackInv' /\ (Interruptible' => Interruptible)
  <2>1. where \in {"entry", "panic", "hlt", "eoi", "iretq", "reset"} /\ Top.at # "reset"
    BY <1>2, <1>9, Zenon
  <2>2. /\ FramesInv' /\ ClosedInv' /\ ResetInv'
        /\ Interruptible' => Interruptible
        /\ Panics' = Panics
    BY <1>1, <1>2, <1>9, <2>1, WentStack, Zenon
  <2>3. /\ stack' \in Seq(Frames) /\ Len(stack') = Len(stack)
        /\ \A k \in 1 .. (Len(stack) - 1) : stack'[k] = stack[k]
        /\ stack'[Len(stack)].intno = Top.intno
        /\ stack'[Len(stack)].at = where
    BY <1>2, <1>9, <2>1, GoesStack, Zenon
  <2>4. DOMAIN stack' = 1 .. top
    BY <1>3, <2>3
  <2>5. ServicedInv'
    <3>1. CASE where = "iretq"
      BY <1>9, <3>1, Zenon DEF ServicedInv
    <3>2. CASE where # "iretq"
      <4>1. \A k \in DOMAIN stack :
              stack[k].intno >= 32 /\ stack[k].at \in {"entry", "eoi"} =>
                /\ k \in DOMAIN stack' /\ stack'[k].intno = stack[k].intno
                /\ stack'[k].at \in {"entry", "eoi"}
        <5>1. \A k \in 1 .. top : k \in 1 .. (top - 1) \/ k = top
          BY <1>3, LastIndex, Zenon
        <5>2. ~(Top.intno < 32 /\ Top.intno >= 32)
          BY <1>3, FrameVector, Zenon
        <5>. QED
          BY <1>3, <1>9, <2>3, <2>4, <3>2, <5>1, <5>2, Zenon
      <4>. QED
        BY <1>6, <4>1, ServicedKept, Zenon DEF StackInv
    <3>. QED
      BY <3>1, <3>2
  <2>. QED
    BY <1>1, <1>3, <1>4, <1>5, <1>6, <1>9, <2>2, <2>3, <2>5, TypeKept, Zenon DEF StackInv
<1>10. CASE panic
  <2>1. Goes("panic") /\ Top.intno < 32 /\ flag' = flag
    BY <1>10 DEF panic
  <2>. QED
    BY <1>1, <1>3, <1>9, <2>1, Zenon
<1>11. CASE halt
  <2>1. Goes("hlt") /\ flag' = FALSE /\ Top.at = "panic"
    BY <1>11 DEF halt, Handles, At
  <2>2. Top.intno < 32
    BY <1>3, <1>7, <2>1, FrameVector, Zenon DEF Sound
  <2>. QED
    BY <1>1, <1>3, <1>9, <2>1, <2>2, Zenon
<1>12. CASE serve
  <2>1. Goes("eoi") /\ Top.intno >= 32 /\ flag' = flag
    BY <1>12 DEF serve
  <2>. QED
    BY <1>1, <1>3, <1>9, <2>1, Zenon
<1>13. CASE PIC_sendEOI
  <2>1. Goes("iretq") /\ Top.at = "eoi" /\ flag' = flag /\ serviced' = serviced \ EndOfInterrupt(Top.intno)
    BY <1>13 DEF PIC_sendEOI, Handles, At
  <2>2. Top.intno >= 32
    BY <1>3, <1>7, <2>1, FrameVector, Zenon DEF Sound
  <2>3. serviced' = {}
    BY <1>2, <2>1, <2>2, OneInput, EndsAll, Zenon
  <2>. QED
    BY <1>1, <1>3, <1>9, <2>1, <2>2, <2>3, Zenon
<1>. QED
  BY <1>1, <1>8, <1>10, <1>11, <1>12, <1>13, Zenon DEF Handler


-----------------------------------------------------------------------------
(* What a copy leaves in a buffer (libc/string.c).  strcpy does not store  *)
(* the NUL behind the characters, so the string that can be read           *)
(* afterwards is the one copied only if there was a NUL in its place       *)
(* already.                                                                *)

(* A string is read back as it was copied, when the buffer has a NUL where *)
(* its own would have been.                                                *)
LEMMA CopiedString ==
  ASSUME NEW L \in Nat \ {0}, NEW b \in [0 .. (L - 1) -> Nat],
         NEW chars \in Seq(Nat \ {0}), Len(chars) < L,
         b[Len(chars)] = NUL
  PROVE  Chars(strcpy(b, chars)) = chars
<1>. DEFINE copy == strcpy(b, chars)
            ends == {i \in DOMAIN copy : copy[i] = NUL}
<1>1. DOMAIN copy = 0 .. (L - 1)
  BY DEF strcpy, Stored
<1>2. \A k \in 0 .. (L - 1) : copy[k] = IF k < Len(chars) THEN chars[k + 1] ELSE b[k]
  BY DEF strcpy, Stored
<1>. HIDE DEF copy
<1>3. Len(chars) \in ends /\ \A i \in ends : Len(chars) <= i
  BY <1>1, <1>2 DEF NUL
<1>4. ends \in SUBSET Nat /\ ends # {}
  <2>1. ends \subseteq 0 .. (L - 1)
    BY <1>1
  <2>2. 0 .. (L - 1) \subseteq Nat
    OBVIOUS
  <2>. HIDE DEF ends
  <2>. QED
    BY <1>3, <2>1, <2>2, Zenon
<1>5. Min(ends) = Len(chars)
  <2>. HIDE DEF ends
  <2>1. Min(ends) \in ends /\ \A n \in ends : Min(ends) <= n
    BY <1>4, MinOfNaturals
  <2>2. Min(ends) <= Len(chars) /\ Len(chars) <= Min(ends)
    BY <1>3, <2>1, Zenon
  <2>3. Min(ends) \in Nat
    BY <1>4, <2>1, Zenon
  <2>. QED
    BY <2>2, <2>3
<1>6. Chars(copy) = [i \in 1 .. Len(chars) |-> copy[i - 1]]
  BY <1>4, <1>5, Zenon DEF Chars
<1>7. \A i \in 1 .. Len(chars) : copy[i - 1] = chars[i]
  BY <1>2
<1>8. [i \in 1 .. Len(chars) |-> copy[i - 1]] = chars
  <2>1. chars = [i \in 1 .. Len(chars) |-> chars[i]]
    OBVIOUS
  <2>2. [i \in 1 .. Len(chars) |-> copy[i - 1]] = [i \in 1 .. Len(chars) |-> chars[i]]
    BY <1>7, Zenon
  <2>. QED
    BY <2>1, <2>2, Zenon
<1>. QED
  BY <1>6, <1>8, Zenon DEF copy

(* The string in a buffer is made of the buffer's characters.              *)
LEMMA StringOfBuffer ==
  ASSUME NEW L \in Nat \ {0}, NEW C, NEW b \in [0 .. (L - 1) -> C]
  PROVE  Chars(b) \in Seq(C) /\ Len(Chars(b)) <= L
<1>. DEFINE ends == {i \in DOMAIN b : b[i] = NUL}
            n    == IF ends = {} THEN Cardinality(DOMAIN b) ELSE Min(ends)
<1>1. Cardinality(DOMAIN b) = L
  <2>1. DOMAIN b = 0 .. (L - 1) /\ 0 \in Int /\ L - 1 \in Int
    OBVIOUS
  <2>2. Cardinality(0 .. (L - 1)) = IF 0 > L - 1 THEN 0 ELSE L - 1 - 0 + 1
    BY <2>1, FS_Interval
  <2>. QED
    BY <2>1, <2>2
<1>2. n \in 0 .. L
  <2>1. ASSUME ends # {} PROVE Min(ends) \in 0 .. (L - 1)
    <3>1. ends \in SUBSET (0 .. (L - 1)) /\ ends \in SUBSET Nat
      OBVIOUS
    <3>. QED
      BY <2>1, <3>1, MinOfNaturals
  <2>. QED
    BY <1>1, <2>1
<1>3. Chars(b) = [i \in 1 .. n |-> b[i - 1]]
  BY Zenon DEF Chars
<1>. HIDE DEF n
<1>4. \A i \in 1 .. n : b[i - 1] \in C
  BY <1>2
<1>. QED
  BY <1>2, <1>3, <1>4

(* strcpy keeps to the buffer.                                             *)
LEMMA CopyType ==
  ASSUME NEW L \in Nat \ {0}, NEW C, NEW b \in [0 .. (L - 1) -> C], NEW chars \in Seq(C)
  PROVE  strcpy(b, chars) \in [0 .. (L - 1) -> C]
BY DEF strcpy, Stored

-----------------------------------------------------------------------------
(* The names.                                                              *)
LEMMA BuffersType ==
  ASSUME TypeOK
  PROVE  /\ modulename \in Buffers /\ previous \in Buffers
         /\ LENGTH \in Nat \ {0}
         /\ \A b \in Buffers : Chars(b) \in Seq(0 .. 127) /\ Cleared(b) \in Buffers
         /\ \A b \in Buffers, chars \in Seq(0 .. 127) : strcpy(b, chars) \in Buffers
         /\ Names \subseteq Seq(0 .. 127)
<1>1. modulename \in Buffers /\ previous \in Buffers
  BY Zenon DEF TypeOK
<1>2. LENGTH \in Nat \ {0}
  BY LengthAssumption
<1>3. \A b \in Buffers : Chars(b) \in Seq(0 .. 127)
  BY <1>2, StringOfBuffer, Zenon DEF Buffers
<1>4. \A b \in Buffers : Cleared(b) \in Buffers
  BY DEF Buffers, Cleared, NUL
<1>5. \A b \in Buffers, chars \in Seq(0 .. 127) : strcpy(b, chars) \in Buffers
  BY <1>2, CopyType, Zenon DEF Buffers
<1>6. Names \subseteq Seq(0 .. 127)
  BY DEF Names
<1>. QED
  BY <1>1, <1>2, <1>3, <1>4, <1>5, <1>6

(* The name buffers stay buffers.                                          *)
LEMMA NamesType ==
  ASSUME TypeOK,
         (\E name \in Names : module(name)) \/ module_push \/ module_pop \/ log_debug
  PROVE  modulename' \in Buffers /\ previous' \in Buffers
<1>. USE BuffersType
<1>1. ASSUME NEW name \in Names, module(name)
      PROVE  modulename' \in Buffers /\ previous' \in Buffers
  BY <1>1, Zenon DEF module
<1>2. module_push => modulename' \in Buffers /\ previous' \in Buffers
  BY Zenon DEF module_push
<1>3. module_pop => modulename' \in Buffers /\ previous' \in Buffers
  BY Zenon DEF module_pop
<1>4. log_debug => modulename' \in Buffers /\ previous' \in Buffers
  BY <1>3, Zenon DEF log_debug, Named
<1>. QED
  BY <1>1, <1>2, <1>3, <1>4, Zenon

(* A name is read back from a buffer with a NUL behind its place.          *)
LEMMA NameCopied ==
  ASSUME NEW b \in Buffers, NEW owner \in Names, Len(owner) < LENGTH,
         b[Len(owner)] = NUL
  PROVE  Chars(strcpy(b, owner)) = owner
<1>1. LENGTH \in Nat \ {0}
  BY LengthAssumption
<1>2. b \in [0 .. (LENGTH - 1) -> Nat]
  <2>1. 0 .. 127 \subseteq Nat
    OBVIOUS
  <2>. QED
    BY <2>1, Zenon DEF Buffers
<1>3. owner \in Seq(Nat \ {0})
  <2>1. 1 .. 127 \subseteq Nat \ {0}
    OBVIOUS
  <2>2. \A i \in 1 .. Len(owner) : owner[i] \in 1 .. 127
    BY ElementOfSeq, Zenon DEF Names
  <2>3. Len(owner) \in Nat /\ owner = [i \in 1 .. Len(owner) |-> owner[i]]
    BY DEF Names
  <2>4. \A i \in 1 .. Len(owner) : owner[i] \in Nat \ {0}
    BY <2>1, <2>2, Zenon
  <2>. QED
    BY <2>3, <2>4
<1>. QED
  BY <1>1, <1>2, <1>3, CopiedString, Zenon

(* The lengths of names are places in the buffer.                          *)
LEMMA NameIndex ==
  ASSUME NEW owner \in Names, Len(owner) < LENGTH
  PROVE  /\ Len(owner) \in 0 .. (LENGTH - 1)
         /\ Len(owner) >= 3 => Len(owner) \in 3 .. (LENGTH - 1)
BY LengthAssumption DEF Names

(* module puts a name in the buffer.                                       *)
LEMMA ModuleKeeps ==
  ASSUME TypeOK, Quiet, NEW owner \in Names, Len(owner) < LENGTH, module(owner)
  PROVE  Keeps(owner)'
<1>1. modulename' = strcpy(Cleared(modulename), owner) /\ previous' = previous
  BY DEF module
<1>2. modulename \in Buffers /\ Cleared(modulename) \in Buffers
  BY BuffersType, Zenon
<1>3. Cleared(modulename)[Len(owner)] = NUL
  BY <1>2, NameIndex DEF Cleared, Buffers
<1>4. Chars(modulename') = owner
  BY <1>1, <1>2, <1>3, NameCopied, Zenon
<1>5. Quiet'
  BY <1>1, Zenon DEF Quiet
<1>. QED
  BY <1>4, <1>5, Zenon DEF Keeps

(* module_push saves the name.                                             *)
LEMMA PushSaves ==
  ASSUME TypeOK, NEW owner \in Names, Len(owner) < LENGTH, Keeps(owner), module_push
  PROVE  Saves(owner)'
<1>1. previous' = strcpy(previous, Chars(modulename))
  BY DEF module_push
<1>2. previous \in Buffers /\ previous[Len(owner)] = NUL
  BY BuffersType, NameIndex, Zenon DEF Keeps, Quiet
<1>3. Len(owner) >= 3 => Chars(previous') = owner
  BY <1>1, <1>2, NameCopied, Zenon DEF Keeps
<1>. QED
  BY <1>3, Zenon DEF Saves

(* The allocator's name is written over, and leaves the saved one alone.   *)
LEMMA AllocatorWrites ==
  ASSUME TypeOK, NEW owner, Saves(owner), module(PMM)
  PROVE  Saves(owner)' /\ Tailless'
<1>1. modulename' = strcpy(Cleared(modulename), PMM) /\ previous' = previous
  BY DEF module
<1>2. modulename \in [0 .. (LENGTH - 1) -> 0 .. 127]
  BY DEF TypeOK, Buffers
<1>3. Tailless'
  BY <1>1, <1>2, LengthAssumption DEF Tailless, strcpy, Stored, Cleared, PMM
<1>. QED
  BY <1>1, <1>3, Zenon DEF Saves

(* module_pop brings back the saved name, when nothing is left in the      *)
(* buffer behind three letters.                                            *)
LEMMA PopKeeps ==
  ASSUME TypeOK, NEW owner \in Names, Len(owner) < LENGTH, Saves(owner), Tailless, module_pop
  PROVE  Keeps(owner)'
<1>1. /\ modulename' = strcpy(modulename, Chars(previous))
      /\ previous' = Cleared(previous)
  BY DEF module_pop
<1>2. Quiet'
  BY <1>1 DEF Quiet, Cleared, TypeOK, Buffers
<1>3. modulename \in Buffers
  BY BuffersType, Zenon
<1>4. Len(owner) >= 3 => Chars(modulename') = owner
  BY <1>1, <1>3, NameIndex, NameCopied, Zenon DEF Saves, Tailless
<1>. QED
  BY <1>2, <1>4, Zenon DEF Keeps

(* A line of the log leaves quiet names alone.                             *)
LEMMA LogKeeps ==
  ASSUME Quiet, log_debug
  PROVE  UNCHANGED Named
<1>1. 0 \in 0 .. (LENGTH - 1)
  BY LengthAssumption
<1>. QED
  BY <1>1, Zenon DEF Quiet, log_debug


-----------------------------------------------------------------------------
(* The next step of a program, and what it is.                             *)
LEMMA HeadOfRest ==
  ASSUME NEW program \in Programs, NEW n \in 0 .. Len(program),
         todo = SubSeq(program, n + 1, Len(program)), todo # <<>>
  PROVE  /\ n \in 0 .. (Len(program) - 1)
         /\ Next_step = program[n + 1]
         /\ Tail(todo) = SubSeq(program, (n + 1) + 1, Len(program))
<1>1. program \in Seq([step : StepNames, name : Names]) /\ Len(program) \in Nat
  BY DEF Programs
<1>. HIDE DEF StepNames, Names
<1>2. n + 1 \in 1 .. Len(program)
  BY <1>1
<1>3. n \in 0 .. (Len(program) - 1) /\ n + 1 <= Len(program)
  BY <1>1, <1>2
<1>4. /\ Head(SubSeq(program, n + 1, Len(program))) = program[n + 1]
      /\ Tail(SubSeq(program, n + 1, Len(program))) = SubSeq(program, (n + 1) + 1, Len(program))
  BY <1>1, <1>2
<1>. QED
  BY <1>3, <1>4 DEF Next_step

(* Where the next step lies in the program that runs.                      *)
LEMMA NextPlaces ==
  ASSUME Progress, todo # <<>>
  PROVE  \/ \E n \in 0 .. (19 + 4 * Tables) :
              /\ Booting(n)
              /\ Next_step = bootstrap[n + 1]
              /\ Tail(todo) = SubSeq(bootstrap, (n + 1) + 1, Len(bootstrap))
         \/ \E program \in HeapPrograms : \E n \in 0 .. (Len(program) - 1) :
              /\ Locking(program, n)
              /\ Next_step = program[n + 1]
              /\ Tail(todo) = SubSeq(program, (n + 1) + 1, Len(program))
         \/ \E name \in Drivers : \E n \in 0 .. 6 :
              /\ Driving(name, n)
              /\ Next_step = Driver(name)[n + 1]
              /\ Tail(todo) = SubSeq(Driver(name), (n + 1) + 1, Len(Driver(name)))
<1>1. ASSUME NEW n \in 0 .. Len(bootstrap), Booting(n)
      PROVE  \E m \in 0 .. (19 + 4 * Tables) :
               /\ Booting(m)
               /\ Next_step = bootstrap[m + 1]
               /\ Tail(todo) = SubSeq(bootstrap, (m + 1) + 1, Len(bootstrap))
  <2>1. /\ n \in 0 .. (Len(bootstrap) - 1)
        /\ Next_step = bootstrap[n + 1]
        /\ Tail(todo) = SubSeq(bootstrap, (n + 1) + 1, Len(bootstrap))
    BY <1>1, BootType, HeadOfRest, Zenon DEF Booting
  <2>2. Len(bootstrap) - 1 = 19 + 4 * Tables
    BY BootProgram, KernelAssumption
  <2>. QED
    BY <1>1, <2>1, <2>2, Zenon
<1>2. ASSUME NEW program \in HeapPrograms, NEW n \in 0 .. Len(program), Locking(program, n)
      PROVE  \E m \in 0 .. (Len(program) - 1) :
               /\ Locking(program, m)
               /\ Next_step = program[m + 1]
               /\ Tail(todo) = SubSeq(program, (m + 1) + 1, Len(program))
  BY <1>2, HeapProgram, HeadOfRest, Zenon DEF Locking
<1>3. ASSUME NEW name \in Drivers, NEW n \in 0 .. 7, Driving(name, n)
      PROVE  \E m \in 0 .. 6 :
               /\ Driving(name, m)
               /\ Next_step = Driver(name)[m + 1]
               /\ Tail(todo) = SubSeq(Driver(name), (m + 1) + 1, Len(Driver(name)))
  <2>1. name \in Names /\ Driver(name) \in Programs /\ Len(Driver(name)) = 7
    BY DriverNames, DriverProgram, Zenon
  <2>2. 7 - 1 = 6
    OBVIOUS
  <2>. QED
    BY <1>3, <2>1, <2>2, HeadOfRest, Zenon DEF Driving
<1>. QED
  BY <1>1, <1>2, <1>3, Zenon DEF Progress

(* Where a step that is taken lies, and what is left behind it.            *)
LEMMA Positions ==
  ASSUME Progress, NEW step, Takes(step)
  PROVE  \/ \E n \in 0 .. (19 + 4 * Tables) :
              /\ Booting(n)
              /\ Next_step = bootstrap[n + 1] /\ bootstrap[n + 1].step = step
              /\ todo' = SubSeq(bootstrap, (n + 1) + 1, Len(bootstrap))
         \/ \E program \in HeapPrograms : \E n \in 0 .. (Len(program) - 1) :
              /\ Locking(program, n)
              /\ Next_step = program[n + 1] /\ program[n + 1].step = step
              /\ todo' = SubSeq(program, (n + 1) + 1, Len(program))
         \/ \E name \in Drivers : \E n \in 0 .. 6 :
              /\ Driving(name, n)
              /\ Next_step = Driver(name)[n + 1] /\ Driver(name)[n + 1].step = step
              /\ todo' = SubSeq(Driver(name), (n + 1) + 1, Len(Driver(name)))
<1>1. todo # <<>> /\ Next_step.step = step /\ todo' = Tail(todo)
  BY DEF Takes
<1>. QED
  BY <1>1, NextPlaces, Zenon

(* Where a step of the boot lies in a call of alloc_pmm.                   *)
LEMMA AllocPlaces ==
  ASSUME NEW n \in 19 .. (18 + 4 * Tables), NEW j, j = (n - 19) % 4
  PROVE  /\ j \in 0 .. 3 /\ bootstrap[n + 1] = alloc_pmm[j + 1]
         /\ j < 3 => (n + 1 - 19) % 4 = j + 1
         /\ j = 3 => (n + 1 - 19) % 4 = 0
         /\ n + 1 \in 19 .. (19 + 4 * Tables)
<1>1. Tables \in Nat
  BY KernelAssumption
<1>2. n + 1 \in 20 .. (19 + 4 * Tables) /\ (n + 1) - 20 = n - 19
  BY <1>1
<1>3. bootstrap[n + 1] = alloc_pmm[((n - 19) % 4) + 1]
  BY <1>2, BootProgram
<1>. QED
  BY <1>1, <1>3

(* What the bootstrap does where.                                          *)
LEMMA BootPlaces ==
  ASSUME NEW n \in 0 .. (19 + 4 * Tables)
  PROVE  LET here == bootstrap[n + 1] IN
         \/ n \in {0, 2} /\ here.step = "print"
         \/ n = 1 /\ here.step = "init_fb"
         \/ n = 3 /\ here.step = "init_serial"
         \/ n = 4 /\ here.step = "module" /\ here.name = GDT
         \/ n = 5 /\ here.step = "init_gdt"
         \/ n = 6 /\ here.step = "log" /\ here.name = GDT
         \/ n = 7 /\ here.step = "module" /\ here.name = PIC
         \/ n = 8 /\ here.step = "init_pic"
         \/ n = 9 /\ here.step = "log" /\ here.name = PIC
         \/ n = 10 /\ here.step = "module" /\ here.name = IDT
         \/ n = 11 /\ here.step = "init_idt"
         \/ n = 12 /\ here.step = "log" /\ here.name = IDT
         \/ n = 13 /\ here.step = "module" /\ here.name = PMM
         \/ n \in {14, 15} /\ here.step = "note" /\ here.name = PMM
         \/ n = 16 /\ here.step = "assert"
         \/ n = 17 /\ here.step = "log" /\ here.name = PMM
         \/ n = 18 /\ here.step = "module" /\ here.name = VMM
         \/ /\ n \in 19 .. (18 + 4 * Tables)
            /\ \/ (n - 19) % 4 = 0 /\ here.step = "push"
               \/ (n - 19) % 4 = 1 /\ here.step = "module" /\ here.name = PMM
               \/ (n - 19) % 4 = 2 /\ here.step = "assert"
               \/ (n - 19) % 4 = 3 /\ here.step = "pop"
         \/ n = 19 + 4 * Tables /\ here.step = "log" /\ here.name = VMM
<1>. DEFINE here == bootstrap[n + 1]
<1>1. Tables \in Nat
  BY KernelAssumption
<1>2. /\ n = 0 => here.step = "print"
      /\ n = 1 => here.step = "init_fb"
      /\ n = 2 => here.step = "print"
      /\ n = 3 => here.step = "init_serial"
  <2>1. /\ bootstrap[1].step = "print" /\ bootstrap[2].step = "init_fb"
        /\ bootstrap[3].step = "print" /\ bootstrap[4].step = "init_serial"
    BY BootProgram, Zenon
  <2>. QED
    BY <2>1
<1>3. /\ n = 4 => here.step = "module" /\ here.name = GDT
      /\ n = 5 => here.step = "init_gdt"
      /\ n = 6 => here.step = "log" /\ here.name = GDT
  <2>1. /\ bootstrap[5] = [step |-> "module", name |-> GDT]
        /\ bootstrap[6].step = "init_gdt"
        /\ bootstrap[7] = [step |-> "log", name |-> GDT]
    BY BootProgram, Zenon
  <2>. QED
    BY <2>1
<1>4. /\ n = 7 => here.step = "module" /\ here.name = PIC
      /\ n = 8 => here.step = "init_pic"
      /\ n = 9 => here.step = "log" /\ here.name = PIC
  <2>1. /\ bootstrap[8] = [step |-> "module", name |-> PIC]
        /\ bootstrap[9].step = "init_pic"
        /\ bootstrap[10] = [step |-> "log", name |-> PIC]
    BY BootProgram, Zenon
  <2>. QED
    BY <2>1
<1>5. /\ n = 10 => here.step = "module" /\ here.name = IDT
      /\ n = 11 => here.step = "init_idt"
      /\ n = 12 => here.step = "log" /\ here.name = IDT
  <2>1. /\ bootstrap[11] = [step |-> "module", name |-> IDT]
        /\ bootstrap[12].step = "init_idt"
        /\ bootstrap[13] = [step |-> "log", name |-> IDT]
    BY BootProgram, Zenon
  <2>. QED
    BY <2>1
<1>6. /\ n = 13 => here.step = "module" /\ here.name = PMM
      /\ n = 14 => here.step = "note" /\ here.name = PMM
      /\ n = 15 => here.step = "note" /\ here.name = PMM
      /\ n = 16 => here.step = "assert"
  <2>1. /\ bootstrap[14] = [step |-> "module", name |-> PMM]
        /\ bootstrap[15] = [step |-> "note", name |-> PMM]
        /\ bootstrap[16] = [step |-> "note", name |-> PMM]
        /\ bootstrap[17].step = "assert"
    BY BootProgram, Zenon
  <2>. QED
    BY <2>1
<1>7. /\ n = 17 => here.step = "log" /\ here.name = PMM
      /\ n = 18 => here.step = "module" /\ here.name = VMM
  <2>1. /\ bootstrap[18] = [step |-> "log", name |-> PMM]
        /\ bootstrap[19] = [step |-> "module", name |-> VMM]
    BY BootProgram, Zenon
  <2>. QED
    BY <2>1
<1>8. ASSUME n \in 19 .. (18 + 4 * Tables)
      PROVE  \/ (n - 19) % 4 = 0 /\ here.step = "push"
             \/ (n - 19) % 4 = 1 /\ here.step = "module" /\ here.name = PMM
             \/ (n - 19) % 4 = 2 /\ here.step = "assert"
             \/ (n - 19) % 4 = 3 /\ here.step = "pop"
  <2>. DEFINE j == (n - 19) % 4
  <2>1. j \in 0 .. 3 /\ here = alloc_pmm[j + 1]
    BY <1>8, AllocPlaces
  <2>2. /\ j = 0 => here.step = "push"
        /\ j = 1 => here.step = "module" /\ here.name = PMM
        /\ j = 2 => here.step = "assert"
        /\ j = 3 => here.step = "pop"
    BY <2>1, AllocProgram
  <2>3. j = 0 \/ j = 1 \/ j = 2 \/ j = 3
    BY <2>1
  <2>. HIDE DEF j
  <2>4. \/ j = 0 /\ here.step = "push"
        \/ j = 1 /\ here.step = "module" /\ here.name = PMM
        \/ j = 2 /\ here.step = "assert"
        \/ j = 3 /\ here.step = "pop"
    BY <2>2, <2>3
  <2>. QED
    BY <2>4 DEF j
<1>9. n = 19 + 4 * Tables => here.step = "log" /\ here.name = VMM
  <2>1. n = 19 + 4 * Tables => n + 1 = 20 + 4 * Tables
    BY <1>1
  <2>2. n = 19 + 4 * Tables => here = [step |-> "log", name |-> VMM]
    BY <2>1, BootProgram, Zenon
  <2>. QED
    BY <2>2
<1>10. \/ n = 0 \/ n = 1 \/ n = 2 \/ n = 3 \/ n = 4 \/ n = 5 \/ n = 6 \/ n = 7 \/ n = 8 \/ n = 9
       \/ n = 10 \/ n = 11 \/ n = 12 \/ n = 13 \/ n = 14 \/ n = 15 \/ n = 16 \/ n = 17 \/ n = 18
       \/ n \in 19 .. (18 + 4 * Tables) \/ n = 19 + 4 * Tables
  BY <1>1
<1>. QED
  BY <1>2, <1>3, <1>4, <1>5, <1>6, <1>7, <1>8, <1>9, <1>10

-----------------------------------------------------------------------------
(* A step of the main program takes it one place further.                  *)
LEMMA SetUpAdvances ==
  ASSUME NEW n \in Nat, SetUp(n),
         screen' <=> (screen \/ n = 1), serial' <=> (serial \/ n = 3),
         segments' <=> (segments \/ n = 5), remapped' <=> (remapped \/ n = 8),
         gates' = IF n = 11 THEN Gates ELSE gates
  PROVE  SetUp(n + 1)'
<1>1. Gates' = Gates
  BY DEF Gates
<1>2. /\ n + 1 >= 2 <=> n >= 2 \/ n = 1
      /\ n + 1 >= 4 <=> n >= 4 \/ n = 3
      /\ n + 1 >= 6 <=> n >= 6 \/ n = 5
      /\ n + 1 >= 9 <=> n >= 9 \/ n = 8
      /\ n + 1 >= 12 <=> n >= 12 \/ n = 11
  OBVIOUS
<1>3. /\ screen' <=> n + 1 >= 2
      /\ serial' <=> n + 1 >= 4
      /\ segments' <=> n + 1 >= 6
      /\ remapped' <=> n + 1 >= 9
  BY <1>2, Zenon DEF SetUp
<1>4. gates' = IF n + 1 >= 12 THEN Gates ELSE <<>>
  BY <1>2, Zenon DEF SetUp
<1>. QED
  BY <1>1, <1>3, <1>4, SMT DEF SetUp

(* Steps of the boot at which no name changes.                             *)
LEMMA BootNamesStay ==
  ASSUME NEW n \in 0 .. (19 + 4 * Tables), BootNames(n),
         \/ n \in {0, 1, 2, 3, 5, 6, 8, 9, 11, 12, 14, 15, 16, 17, 19 + 4 * Tables}
         \/ n \in 19 .. (18 + 4 * Tables) /\ (n - 19) % 4 = 2
  PROVE  BootNames(n + 1)
<1>1. Tables \in Nat
  BY KernelAssumption
<1>2. CASE n \in {0, 1, 2, 3}
  BY <1>1, <1>2 DEF BootNames
<1>3. CASE n \in {5, 6, 8, 9, 11, 12, 14, 15, 16, 17}
  BY <1>1, <1>3 DEF BootNames
<1>4. CASE n = 19 + 4 * Tables
  <2>1. n \in 19 .. (19 + 4 * Tables) /\ (n - 19) % 4 = 0
    BY <1>1, <1>4
  <2>2. Keeps(VMM)
    BY <2>1, Zenon DEF BootNames, Within
  <2>. QED
    BY <1>1, <1>4, <2>2 DEF BootNames
<1>5. CASE n \in 19 .. (18 + 4 * Tables) /\ (n - 19) % 4 = 2
  <2>1. n \in 19 .. (19 + 4 * Tables) /\ (n + 1 - 19) % 4 = 3 /\ n + 1 \in 19 .. (19 + 4 * Tables)
    BY <1>1, <1>5, AllocPlaces
  <2>2. Within(2, VMM)
    BY <1>5, <2>1, Zenon DEF BootNames
  <2>3. Within(3, VMM)
    BY <2>2 DEF Within
  <2>. QED
    BY <1>1, <2>1, <2>3 DEF BootNames
<1>. QED
  BY <1>2, <1>3, <1>4, <1>5

(* A step of the boot goes on to the next place.                           *)
LEMMA BootingAdvances ==
  ASSUME NEW n \in 0 .. (19 + 4 * Tables), Booting(n),
         todo' = SubSeq(bootstrap, (n + 1) + 1, Len(bootstrap)),
         SetUp(n + 1)', BootNames(n + 1)',
         UNCHANGED lock_queue, Interruptible' => Interruptible
  PROVE  Progress'
<1>1. n + 1 \in 0 .. Len(bootstrap)
  BY BootProgram, KernelAssumption
<1>2. Booting(n + 1)'
  BY Zenon DEF Booting
<1>. QED
  BY <1>1, <1>2, Zenon DEF Progress

(* A step of a heap call goes on to the next place.                        *)
LEMMA LockingAdvances ==
  ASSUME NEW program \in HeapPrograms, NEW n \in 0 .. (Len(program) - 1), Locking(program, n),
         todo' = SubSeq(program, (n + 1) + 1, Len(program)),
         UNCHANGED <<tables, Named, screen, serial>>,
         lock_queue' = IF (n + 1) % 4 = 2 THEN 1 ELSE 0,
         (n + 1) % 4 # 0 => ~Interruptible'
  PROVE  Progress'
<1>1. n + 1 \in 0 .. Len(program)
  BY HeapProgram
<1>2. SetUp(Len(bootstrap))' /\ Quiet'
  BY SetUpKept, NamesKept, Zenon DEF Locking
<1>3. Locking(program, n + 1)'
  BY <1>2, Zenon DEF Locking
<1>. QED
  BY <1>1, <1>3, Zenon DEF Progress

(* A step of a driver goes on to the next place.                           *)
LEMMA DrivingAdvances ==
  ASSUME NEW name \in Drivers, NEW n \in 0 .. 6, Driving(name, n),
         todo' = SubSeq(Driver(name), (n + 1) + 1, Len(Driver(name))),
         UNCHANGED <<tables, screen, serial, lock_queue>>,
         n + 1 \in 1 .. 4 => Within(n, name)', n + 1 >= 5 => Keeps(name)'
  PROVE  Progress'
<1>1. n + 1 \in 0 .. 7 /\ n + 1 # 0 /\ (n + 1) - 1 = n
  OBVIOUS
<1>2. SetUp(Len(bootstrap))' /\ lock_queue' = 0
  BY SetUpKept, Zenon DEF Driving
<1>3. Driving(name, n + 1)'
  BY <1>1, <1>2, Zenon DEF Driving
<1>. QED
  BY <1>1, <1>3, Zenon DEF Progress


(* The step at each place of a heap call.                                  *)
LEMMA HeapPlaces ==
  ASSUME NEW program \in HeapPrograms, NEW n \in 0 .. (Len(program) - 1)
  PROVE  LET here == program[n + 1] IN
         \/ n % 4 = 0 /\ (n + 1) % 4 = 1 /\ here.step = "cli"
         \/ n % 4 = 1 /\ (n + 1) % 4 = 2 /\ here.step = "count"
         \/ n % 4 = 2 /\ (n + 1) % 4 = 3 /\ here.step = "uncount"
         \/ n % 4 = 3 /\ (n + 1) % 4 = 0 /\ here.step = "sti"
<1>. DEFINE here == program[n + 1]
<1>1. Len(program) \in {4, 12}
  BY HeapProgram
<1>2. n \in Nat /\ n + 1 \in 1 .. Len(program)
  BY <1>1
<1>3. /\ (n + 1) % 4 = 1 => here.step = "cli"
      /\ (n + 1) % 4 = 2 => here.step = "count"
      /\ (n + 1) % 4 = 3 => here.step = "uncount"
      /\ (n + 1) % 4 = 0 => here.step = "sti"
  BY <1>2, HeapProgram, Zenon
<1>4. \/ n % 4 = 0 /\ (n + 1) % 4 = 1
      \/ n % 4 = 1 /\ (n + 1) % 4 = 2
      \/ n % 4 = 2 /\ (n + 1) % 4 = 3
      \/ n % 4 = 3 /\ (n + 1) % 4 = 0
  BY <1>2
<1>. QED
  BY <1>3, <1>4, Zenon

(* The step at each place of a driver's turn.                              *)
LEMMA DriverPlaces ==
  ASSUME NEW name \in Names, NEW n \in 0 .. 6
  PROVE  LET here == Driver(name)[n + 1] IN
         \/ n = 0 /\ here.step = "module" /\ here.name = name
         \/ n = 1 /\ here.step = "push"
         \/ n = 2 /\ here.step = "module" /\ here.name = PMM
         \/ n = 3 /\ here.step = "assert"
         \/ n = 4 /\ here.step = "pop"
         \/ n = 5 /\ here.step = "note" /\ here.name = name
         \/ n = 6 /\ here.step = "log" /\ here.name = name
<1>. DEFINE here == Driver(name)[n + 1]
<1>1. n = 0 \/ n = 1 \/ n = 2 \/ n = 3 \/ n = 4 \/ n = 5 \/ n = 6
  OBVIOUS
<1>2. /\ n = 0 => here.step = "module" /\ here.name = name
      /\ n = 1 => here.step = "push"
      /\ n = 2 => here.step = "module" /\ here.name = PMM
      /\ n = 3 => here.step = "assert"
      /\ n = 4 => here.step = "pop"
      /\ n = 5 => here.step = "note" /\ here.name = name
      /\ n = 6 => here.step = "log" /\ here.name = name
  <2>1. /\ Driver(name)[1] = [step |-> "module", name |-> name]
        /\ Driver(name)[2].step = "push"
        /\ Driver(name)[3] = [step |-> "module", name |-> PMM]
        /\ Driver(name)[4].step = "assert"
        /\ Driver(name)[5].step = "pop"
        /\ Driver(name)[6] = [step |-> "note", name |-> name]
        /\ Driver(name)[7] = [step |-> "log", name |-> name]
    BY DriverProgram, Zenon
  <2>. QED
    BY <2>1
<1>. QED
  BY <1>1, <1>2, Zenon

-----------------------------------------------------------------------------
(* The steps of the main program.                                          *)
LEMMA Idle ==
  ASSUME stack = <<>>
  PROVE  Interruptible <=> flag
BY DEF Interruptible

(* The initialisers work in the bootstrap only, each in its place.         *)
LEMMA InitialiserStep ==
  ASSUME Progress, init_fb \/ init_serial \/ set_up
  PROVE  Progress'
<1>1. UNCHANGED <<flag, stack, Named, lock_queue>>
  BY DEF init_fb, init_serial, set_up, interrupt_vars
<1>2. Interruptible' => Interruptible
  BY <1>1, Zenon DEF Interruptible
<1>3. PICK step \in {"init_fb", "init_serial", "init_gdt", "init_pic", "init_idt"} :
        /\ Takes(step)
        /\ screen' <=> (screen \/ step = "init_fb")
        /\ serial' <=> (serial \/ step = "init_serial")
        /\ segments' <=> (segments \/ step = "init_gdt")
        /\ remapped' <=> (remapped \/ step = "init_pic")
        /\ gates' = IF step = "init_idt" THEN Gates ELSE gates
  <2>1. CASE init_fb
    <3>1. /\ Takes("init_fb") /\ screen' /\ serial' = serial /\ segments' = segments
          /\ remapped' = remapped /\ gates' = gates
      BY <2>1 DEF init_fb, interrupt_vars, tables
    <3>. QED
      BY <3>1
  <2>2. CASE init_serial
    <3>1. /\ Takes("init_serial") /\ screen' = screen /\ serial' /\ segments' = segments
          /\ remapped' = remapped /\ gates' = gates
      BY <2>2 DEF init_serial, interrupt_vars, tables
    <3>. QED
      BY <3>1
  <2>3. CASE set_up
    <3>1. screen' = screen /\ serial' = serial
      BY <2>3 DEF set_up
    <3>2. \/ Takes("init_gdt") /\ segments' /\ remapped' = remapped /\ gates' = gates
          \/ Takes("init_pic") /\ segments' = segments /\ remapped' /\ gates' = gates
          \/ Takes("init_idt") /\ segments' = segments /\ remapped' = remapped /\ gates' = Gates
      BY <2>3 DEF set_up, init_gdt, init_pic, init_idt
    <3>. QED
      BY <3>1, <3>2
  <2>. QED
    BY <2>1, <2>2, <2>3
<1>4. PICK n \in 0 .. (19 + 4 * Tables) :
        /\ Booting(n)
        /\ bootstrap[n + 1].step = step
        /\ todo' = SubSeq(bootstrap, (n + 1) + 1, Len(bootstrap))
  <2>1. \A program \in HeapPrograms : \A n \in 0 .. (Len(program) - 1) : program[n + 1].step # step
    <3>1. \A program \in HeapPrograms : \A n \in 0 .. (Len(program) - 1) :
            program[n + 1].step \in {"cli", "count", "uncount", "sti"}
      BY HeapPlaces, Zenon
    <3>. QED
      BY <3>1
  <2>2. \A name \in Drivers : \A n \in 0 .. 6 : Driver(name)[n + 1].step # step
    BY DriverPlaces, DriverNames, SMT
  <2>. QED
    BY <1>3, <2>1, <2>2, Positions, ZenonT(40)
<1>5. /\ step = "init_fb" <=> n = 1
      /\ step = "init_serial" <=> n = 3
      /\ step = "init_gdt" <=> n = 5
      /\ step = "init_pic" <=> n = 8
      /\ step = "init_idt" <=> n = 11
      /\ n \in {1, 3, 5, 8, 11}
  BY <1>4, BootPlaces, KernelAssumption
<1>6. n \in Nat
  BY KernelAssumption
<1>7. SetUp(n + 1)'
  BY <1>3, <1>4, <1>5, <1>6, SetUpAdvances, Zenon DEF Booting
<1>8. BootNames(n + 1)'
  BY <1>1, <1>4, <1>5, BootNamesStay, NamesKept, Zenon DEF Booting
<1>. QED
  BY <1>1, <1>2, <1>4, <1>7, <1>8, BootingAdvances, Zenon


(* The names within a call of alloc_pmm, from step to step.                *)
LEMMA WithinAdvances ==
  ASSUME TypeOK, NEW owner \in Names, Len(owner) < LENGTH
  PROVE  /\ Within(0, owner) /\ module_push => Within(1, owner)'
         /\ Within(1, owner) /\ module(PMM) => Within(2, owner)'
         /\ Within(2, owner) /\ UNCHANGED Named => Within(3, owner)'
         /\ Within(3, owner) /\ module_pop => Keeps(owner)'
<1>1. /\ Within(0, owner) => Keeps(owner)
      /\ Within(1, owner) => Saves(owner)
      /\ Within(2, owner) => Within(3, owner)
      /\ Within(3, owner) => Saves(owner) /\ Tailless
  BY DEF Within
<1>2. /\ Saves(owner)' => Within(1, owner)'
      /\ Saves(owner)' /\ Tailless' => Within(2, owner)'
  BY SMT DEF Within
<1>. QED
  BY <1>1, <1>2, PushSaves, AllocatorWrites, PopKeeps, NamesKept, Zenon

(* The names within init_vmm's calls of alloc_pmm.                         *)
LEMMA BootNamesWithin ==
  ASSUME NEW n \in 19 .. (18 + 4 * Tables), NEW j, j = (n - 19) % 4,
         j = 0 => Within(1, VMM)', j = 1 => Within(2, VMM)',
         j = 2 => Within(3, VMM)', j = 3 => Keeps(VMM)'
  PROVE  BootNames(n + 1)'
<1>1. /\ Tables \in Nat /\ j \in {0, 1, 2, 3}
      /\ n + 1 \in 19 .. (19 + 4 * Tables) /\ n + 1 > 18 /\ n + 1 # 20 + 4 * Tables
  BY KernelAssumption
<1>2. (n + 1 - 19) % 4 = IF j = 3 THEN 0 ELSE j + 1
  BY AllocPlaces, <1>1
<1>3. Within((n + 1 - 19) % 4, VMM)'
  <2>1. j = 3 => Within(0, VMM)'
    BY SMT DEF Within
  <2>. QED
    BY <1>1, <1>2, <2>1
<1>. QED
  BY <1>1, <1>3 DEF BootNames

(* The names after each initialiser has named itself.                      *)
LEMMA BootNamesModule ==
  ASSUME TypeOK, NEW n \in {4, 7, 10, 13, 18}, BootNames(n), NEW owner, module(owner),
         \/ n = 4 /\ owner = GDT
         \/ n = 7 /\ owner = PIC
         \/ n = 10 /\ owner = IDT
         \/ n = 13 /\ owner = PMM
         \/ n = 18 /\ owner = VMM
  PROVE  BootNames(n + 1)'
<1>1. Tables \in Nat /\ LENGTH > 3
  BY KernelAssumption
<1>2. Quiet
  <2>1. Quiet \/ Keeps(GDT) \/ Keeps(PIC) \/ Keeps(IDT) \/ Keeps(PMM)
    BY DEF BootNames
  <2>. QED
    BY <2>1, Zenon DEF Keeps
<1>3. owner \in Names /\ Len(owner) = 3
  BY ModuleNames
<1>4. Len(owner) < LENGTH
  BY <1>1, <1>3, LengthAssumption
<1>5. Keeps(owner)'
  BY <1>2, <1>3, <1>4, ModuleKeeps, Zenon
<1>6. CASE n = 18
  <2>1. Within(0, VMM)'
    BY <1>5, <1>6, SMT DEF Within
  <2>. QED
    BY <1>1, <1>6, <2>1 DEF BootNames
<1>7. CASE n # 18
  BY <1>1, <1>5, <1>7 DEF BootNames
<1>. QED
  BY <1>6, <1>7

(* Steps on the names keep the place of the main program.                  *)
LEMMA NamesStep ==
  ASSUME TypeOK, Progress, names
  PROVE  Progress' /\ modulename' \in Buffers /\ previous' \in Buffers
<1>1. UNCHANGED <<interrupt_vars, screen, serial, lock_queue>>
  BY DEF names
<1>2. UNCHANGED <<flag, stack, tables>>
  BY <1>1 DEF interrupt_vars, tables
<1>3. Interruptible' => Interruptible
  BY <1>2, Zenon DEF Interruptible
<1>4. PICK step \in {"module", "push", "pop"} :
        /\ Takes(step)
        /\ step = "module" => module(Next_step.name)
        /\ step = "push" => module_push
        /\ step = "pop" => module_pop
  BY Zenon DEF names
<1>5. ASSUME NEW n \in 0 .. (19 + 4 * Tables), Booting(n),
             Next_step = bootstrap[n + 1], bootstrap[n + 1].step = step,
             todo' = SubSeq(bootstrap, (n + 1) + 1, Len(bootstrap))
      PROVE  Progress' /\ (step = "module" => Next_step.name \in Names)
  <2>1. SetUp(n + 1)'
    <3>1. n \in Nat /\ n \notin {1, 3, 5, 8, 11}
      <4>1. bootstrap[n + 1].step \in {"module", "push", "pop"}
        BY <1>4, <1>5, Zenon
      <4>2. \A i \in {2, 4, 6, 9, 12} : bootstrap[i].step \notin {"module", "push", "pop"}
        <5>1. /\ bootstrap[2].step = "init_fb" /\ bootstrap[4].step = "init_serial"
              /\ bootstrap[6].step = "init_gdt" /\ bootstrap[9].step = "init_pic"
              /\ bootstrap[12].step = "init_idt"
          BY BootProgram, Zenon
        <5>. QED
          BY <5>1
      <4>3. n + 1 \notin {2, 4, 6, 9, 12}
        BY <4>1, <4>2, Zenon
      <4>. QED
        BY <4>3, KernelAssumption
    <3>. QED
      BY <1>1, <1>2, <1>5, <3>1, SetUpAdvances, Zenon DEF Booting, tables
  <2>2. VMM \in Names /\ Len(VMM) < LENGTH
    BY ModuleNames, KernelAssumption
  <2>3. CASE n \in {4, 7, 10, 13, 18}
    <3>1. /\ step = "module"
          /\ \/ n = 4 /\ Next_step.name = GDT
             \/ n = 7 /\ Next_step.name = PIC
             \/ n = 10 /\ Next_step.name = IDT
             \/ n = 13 /\ Next_step.name = PMM
             \/ n = 18 /\ Next_step.name = VMM
      <4>1. /\ bootstrap[n + 1].step = "module"
            /\ \/ n = 4 /\ bootstrap[n + 1].name = GDT
               \/ n = 7 /\ bootstrap[n + 1].name = PIC
               \/ n = 10 /\ bootstrap[n + 1].name = IDT
               \/ n = 13 /\ bootstrap[n + 1].name = PMM
               \/ n = 18 /\ bootstrap[n + 1].name = VMM
        BY <2>3, BootPlaces, KernelAssumption
      <4>. QED
        BY <1>5, <4>1, Zenon
    <3>2. BootNames(n + 1)'
      BY <1>4, <1>5, <2>3, <3>1, BootNamesModule, Zenon DEF Booting
    <3>3. Next_step.name \in Names
      BY <3>1, ModuleNames, Zenon
    <3>. QED
      BY <1>1, <1>3, <1>5, <2>1, <3>2, <3>3, BootingAdvances, Zenon
  <2>4. CASE n \in 19 .. (18 + 4 * Tables)
    <3>. DEFINE j == (n - 19) % 4
    <3>1. /\ Within(j, VMM) /\ j \in {0, 1, 2, 3}
          /\ j = 0 <=> step = "push"
          /\ j = 1 <=> step = "module"
          /\ j = 3 <=> step = "pop"
          /\ j # 2
          /\ step = "module" => Next_step.name = PMM
      <4>1. Within(j, VMM)
        BY <1>5, <2>4, KernelAssumption DEF Booting, BootNames
      <4>2. \/ j = 0 /\ step = "push"
            \/ j = 1 /\ step = "module" /\ Next_step.name = PMM
            \/ j = 2 /\ step = "assert"
            \/ j = 3 /\ step = "pop"
        BY <1>5, <2>4, BootPlaces, KernelAssumption
      <4>. HIDE DEF j
      <4>. QED
        BY <1>4, <4>1, <4>2
    <3>. HIDE DEF j
    <3>2. /\ j = 0 => Within(1, VMM)'
          /\ j = 1 => Within(2, VMM)'
          /\ j = 3 => Keeps(VMM)'
      BY <1>4, <2>2, <3>1, WithinAdvances, Zenon
    <3>3. BootNames(n + 1)'
      BY <2>4, <3>1, <3>2, BootNamesWithin, Zenon DEF j
    <3>. QED
      BY <1>1, <1>3, <1>5, <2>1, <3>1, <3>3, ModuleNames, BootingAdvances, Zenon
  <2>. QED
    BY <1>4, <1>5, <2>3, <2>4, BootPlaces, KernelAssumption
<1>6. ASSUME NEW name \in Drivers, NEW n \in 0 .. 6, Driving(name, n),
             Next_step = Driver(name)[n + 1], Driver(name)[n + 1].step = step,
             todo' = SubSeq(Driver(name), (n + 1) + 1, Len(Driver(name)))
      PROVE  Progress' /\ (step = "module" => Next_step.name \in Names)
  <2>1. name \in Names /\ Len(name) < LENGTH
    BY DriverNames
  <2>2. \/ n = 0 /\ step = "module" /\ Next_step.name = name
        \/ n = 1 /\ step = "push"
        \/ n = 2 /\ step = "module" /\ Next_step.name = PMM
        \/ n = 4 /\ step = "pop"
    BY <1>4, <1>6, <2>1, DriverPlaces
  <2>3. CASE n = 0
    <3>1. Quiet /\ module(name)
      BY <1>4, <1>6, <2>2, <2>3 DEF Driving
    <3>2. Keeps(name)'
      BY <2>1, <3>1, ModuleKeeps, Zenon
    <3>3. Within(0, name)'
      BY <3>2, SMT DEF Within
    <3>. QED
      BY <1>1, <1>2, <1>6, <2>1, <2>2, <2>3, <3>3, DrivingAdvances
  <2>4. CASE n = 1
    <3>1. Within(0, name) /\ module_push
      BY <1>4, <1>6, <2>2, <2>4 DEF Driving
    <3>2. Within(1, name)'
      BY <2>1, <3>1, WithinAdvances, Zenon
    <3>. QED
      BY <1>1, <1>2, <1>6, <2>2, <2>4, <3>2, DrivingAdvances
  <2>5. CASE n = 2
    <3>1. Within(1, name) /\ module(PMM)
      BY <1>4, <1>6, <2>2, <2>5 DEF Driving
    <3>2. Within(2, name)'
      BY <2>1, <3>1, WithinAdvances, Zenon
    <3>. QED
      BY <1>1, <1>2, <1>6, <2>2, <2>5, <3>2, ModuleNames, DrivingAdvances
  <2>6. CASE n = 4
    <3>1. Within(3, name) /\ module_pop
      BY <1>4, <1>6, <2>2, <2>6 DEF Driving
    <3>2. Keeps(name)'
      BY <2>1, <3>1, WithinAdvances, Zenon
    <3>. QED
      BY <1>1, <1>2, <1>6, <2>2, <2>6, <3>2, DrivingAdvances
  <2>. QED
    BY <2>2, <2>3, <2>4, <2>5, <2>6
<1>7. \A program \in HeapPrograms : \A n \in 0 .. (Len(program) - 1) : program[n + 1].step # step
  BY HeapPlaces, SMT
<1>8. Progress' /\ (step = "module" => Next_step.name \in Names)
  BY <1>4, <1>5, <1>6, <1>7, Positions, Zenon
<1>9. modulename' \in Buffers /\ previous' \in Buffers
  BY <1>4, <1>8, NamesType, Zenon
<1>. QED
  BY <1>8, <1>9


(* Lines of the log and asserts leave the names as they are, a line        *)
(* because previous is empty whenever one is logged.                       *)
LEMMA QuietStep ==
  ASSUME Progress, NEW step \in {"print", "note", "log", "assert"}, Takes(step),
         UNCHANGED <<tables, screen, serial, lock_queue>>,
         UNCHANGED Named \/ (step = "log" /\ log_debug),
         Interruptible' => Interruptible
  PROVE  /\ Progress' /\ UNCHANGED Named
         /\ step = "assert" => segments /\ gates = Gates
<1>. DEFINE Goal == /\ Progress' /\ UNCHANGED Named
                    /\ step = "assert" => segments /\ gates = Gates
<1>1. /\ UNCHANGED lock_queue /\ screen' = screen /\ serial' = serial /\ UNCHANGED tables
      /\ segments' = segments /\ remapped' = remapped /\ gates' = gates
  BY DEF tables
<1>2. Tables \in Nat
  BY KernelAssumption
<1>3. ASSUME NEW n \in 0 .. (19 + 4 * Tables), Booting(n),
             bootstrap[n + 1].step = step,
             todo' = SubSeq(bootstrap, (n + 1) + 1, Len(bootstrap))
      PROVE  Goal
  <2>1. \/ n \in {0, 2, 6, 9, 12, 14, 15, 16, 17, 19 + 4 * Tables}
        \/ n \in 19 .. (18 + 4 * Tables) /\ (n - 19) % 4 = 2
    BY <1>3, BootPlaces
  <2>2. n \in Nat /\ n # 1 /\ n # 3 /\ n # 5 /\ n # 8 /\ n # 11
    BY <1>2, <2>1
  <2>3. BootNames(n) /\ SetUp(n)
    BY <1>3 DEF Booting
  <2>4. SetUp(n + 1)'
    <3>1. /\ screen' <=> (screen \/ n = 1)
          /\ serial' <=> (serial \/ n = 3)
          /\ segments' <=> (segments \/ n = 5)
          /\ remapped' <=> (remapped \/ n = 8)
          /\ gates' = IF n = 11 THEN Gates ELSE gates
      BY <1>1, <2>2
    <3>. QED
      BY <2>2, <2>3, <3>1, SetUpAdvances, Zenon
  <2>5. step = "log" => Quiet
    <3>1. step = "log" => n \in {6, 9, 12, 17, 19 + 4 * Tables}
      BY <1>2, <1>3, BootPlaces
    <3>2. n \in {6, 9, 12, 17} => Quiet
      BY <2>3 DEF BootNames, Keeps
    <3>3. n = 19 + 4 * Tables => n \in 19 .. (19 + 4 * Tables) /\ (n - 19) % 4 = 0
      BY <1>2
    <3>4. n = 19 + 4 * Tables => Quiet
      BY <2>3, <3>3, Zenon DEF BootNames, Within, Keeps
    <3>. QED
      BY <3>1, <3>2, <3>4
  <2>6. UNCHANGED Named
    BY <2>5, LogKeeps, Zenon
  <2>7. BootNames(n + 1)'
    BY <2>1, <2>3, <2>6, BootNamesStay, NamesKept, Zenon
  <2>8. step = "assert" => segments /\ gates = Gates
    <3>1. step = "assert" => n >= 12 /\ n >= 6
      BY <1>2, <1>3, BootPlaces
    <3>. QED
      BY <2>3, <3>1, Zenon DEF SetUp
  <2>. QED
    BY <1>1, <1>3, <2>4, <2>6, <2>7, <2>8, BootingAdvances, Zenon
<1>4. ASSUME NEW name \in Drivers, NEW n \in 0 .. 6, Driving(name, n),
             Driver(name)[n + 1].step = step,
             todo' = SubSeq(Driver(name), (n + 1) + 1, Len(Driver(name)))
      PROVE  Goal
  <2>1. name \in Names /\ Len(name) < LENGTH
    BY DriverNames
  <2>2. (n = 3 /\ step = "assert") \/ n = 5 \/ n = 6
    BY <1>4, <2>1, DriverPlaces
  <2>3. Len(bootstrap) >= 12 /\ Len(bootstrap) >= 6
    BY <1>2, BootProgram
  <2>4. segments /\ gates = Gates
    BY <1>4, <2>3, Zenon DEF Driving, SetUp
  <2>5. n = 3 => Within(2, name)
    BY <1>4 DEF Driving
  <2>6. n \in {5, 6} => Keeps(name)
    BY <1>4 DEF Driving
  <2>7. UNCHANGED Named
    BY <2>2, <2>6, LogKeeps, Zenon DEF Keeps
  <2>8. (n = 3 => Within(3, name)') /\ (n \in {5, 6} => Keeps(name)')
    <3>1. Within(2, name) => Within(3, name)
      BY DEF Within
    <3>. QED
      BY <2>5, <2>6, <2>7, <3>1, NamesKept, Zenon
  <2>9. (n + 1 \in 1 .. 4 => Within(n, name)') /\ (n + 1 >= 5 => Keeps(name)')
    BY <2>2, <2>8
  <2>. QED
    BY <1>1, <1>4, <2>4, <2>7, <2>9, DrivingAdvances, Zenon
<1>5. \A program \in HeapPrograms : \A n \in 0 .. (Len(program) - 1) : program[n + 1].step # step
  <2>1. \A program \in HeapPrograms : \A n \in 0 .. (Len(program) - 1) :
          program[n + 1].step \in {"cli", "count", "uncount", "sti"}
    BY HeapPlaces, Zenon
  <2>. QED
    BY <2>1
<1>. QED
  BY <1>3, <1>4, <1>5, Positions, Zenon

(* The heap's lock counts to one and back.                                 *)
LEMMA LockStep ==
  ASSUME TypeOK, Progress, lock
  PROVE  Progress' /\ lock_queue' \in {0, 1} /\ flag' \in BOOLEAN
<1>1. /\ UNCHANGED <<tables, Named, screen, serial>> /\ UNCHANGED stack
      /\ stack = <<>>
  BY DEF lock, Takes
<1>2. Interruptible <=> flag
  BY <1>1, Idle, Zenon
<1>3. Interruptible' <=> flag'
  BY <1>1 DEF Interruptible
<1>4. PICK step \in {"cli", "count", "uncount", "sti"} :
        /\ Takes(step)
        /\ step = "cli" => flag' = FALSE /\ lock_queue' = lock_queue
        /\ step = "count" => lock_queue' = (lock_queue + 1) % LOCKS /\ flag' = flag
        /\ step = "uncount" => lock_queue' = (lock_queue - 1) % LOCKS /\ flag' = flag
        /\ step = "sti" => flag' = (flag \/ lock_queue = 0) /\ lock_queue' = lock_queue
  BY Zenon DEF lock
<1>5. PICK program \in HeapPrograms :
        \E n \in 0 .. (Len(program) - 1) :
          /\ Locking(program, n)
          /\ program[n + 1].step = step
          /\ todo' = SubSeq(program, (n + 1) + 1, Len(program))
  <2>1. \A n \in 0 .. (19 + 4 * Tables) : bootstrap[n + 1].step # step
    BY BootPlaces, SMT
  <2>2. \A name \in Drivers : \A n \in 0 .. 6 : Driver(name)[n + 1].step # step
    BY DriverPlaces, DriverNames, SMT
  <2>. QED
    BY <1>4, <2>1, <2>2, Positions, Zenon
<1>6. PICK n \in 0 .. (Len(program) - 1) :
        /\ Locking(program, n)
        /\ program[n + 1].step = step
        /\ todo' = SubSeq(program, (n + 1) + 1, Len(program))
  BY <1>5
<1>7. \/ n % 4 = 0 /\ (n + 1) % 4 = 1 /\ step = "cli"
      \/ n % 4 = 1 /\ (n + 1) % 4 = 2 /\ step = "count"
      \/ n % 4 = 2 /\ (n + 1) % 4 = 3 /\ step = "uncount"
      \/ n % 4 = 3 /\ (n + 1) % 4 = 0 /\ step = "sti"
  BY <1>6, HeapPlaces, Zenon
<1>8. /\ lock_queue = IF n % 4 = 2 THEN 1 ELSE 0
      /\ n % 4 # 0 => ~flag
  BY <1>2, <1>6, Zenon DEF Locking
<1>9. (0 + 1) % LOCKS = 1 /\ (1 - 1) % LOCKS = 0
  BY KernelAssumption
<1>10. lock_queue' = IF (n + 1) % 4 = 2 THEN 1 ELSE 0
  BY <1>4, <1>7, <1>8, <1>9
<1>11. (n + 1) % 4 # 0 => ~flag'
  BY <1>4, <1>7, <1>8
<1>12. Progress'
  BY <1>1, <1>3, <1>6, <1>10, <1>11, LockingAdvances, Zenon
<1>13. flag' \in BOOLEAN
  BY <1>4, Zenon DEF TypeOK
<1>. QED
  BY <1>10, <1>12, <1>13

(* A program of which nothing is left has been done.                       *)
LEMMA ProgramDone ==
  ASSUME NEW S, NEW p \in Seq(S), NEW n \in 0 .. Len(p), SubSeq(p, n + 1, Len(p)) = <<>>
  PROVE  n = Len(p)
<1>1. Len(SubSeq(p, n + 1, Len(p))) = Len(p) - n
  OBVIOUS
<1>2. Len(p) - n = 0
  BY <1>1
<1>. QED
  BY <1>2

(* What the loop calls finds the kernel set up, and no name saved.         *)
LEMMA CallStep ==
  ASSUME Progress, NEW program \in HeapPrograms \cup {Driver(name) : name \in Drivers},
         calls(program)
  PROVE  Progress'
<1>1. /\ UNCHANGED <<tables, screen, serial>> /\ UNCHANGED <<flag, stack, Named, lock_queue>>
      /\ todo = <<>> /\ todo' = program
  BY DEF calls, interrupt_vars, tables
<1>2. Interruptible' => Interruptible
  BY <1>1, Zenon DEF Interruptible
<1>3. ASSUME NEW p \in Programs, NEW n \in 0 .. Len(p), todo = SubSeq(p, n + 1, Len(p))
      PROVE  n = Len(p)
  BY <1>1, <1>3, ProgramDone, Zenon DEF Programs
<1>4. SetUp(Len(bootstrap)) /\ Quiet /\ lock_queue = 0
  <2>1. ASSUME NEW n \in 0 .. Len(bootstrap), Booting(n)
        PROVE  SetUp(Len(bootstrap)) /\ Quiet /\ lock_queue = 0
    <3>1. n = Len(bootstrap)
      BY <1>3, <2>1, BootType, Zenon DEF Booting
    <3>2. n = 20 + 4 * Tables
      BY <3>1, BootProgram
    <3>. QED
      BY <2>1, <3>1, <3>2, Zenon DEF Booting, BootNames, Keeps
  <2>2. ASSUME NEW p \in HeapPrograms, NEW n \in 0 .. Len(p), Locking(p, n)
        PROVE  SetUp(Len(bootstrap)) /\ Quiet /\ lock_queue = 0
    <3>1. n = Len(p)
      BY <1>3, <2>2, HeapProgram, Zenon DEF Locking
    <3>2. n \in {4, 12}
      BY <2>2, <3>1, HeapProgram, Zenon
    <3>3. n % 4 # 2
      BY <3>2
    <3>. QED
      BY <2>2, <3>3, Zenon DEF Locking
  <2>3. ASSUME NEW name \in Drivers, NEW n \in 0 .. 7, Driving(name, n)
        PROVE  SetUp(Len(bootstrap)) /\ Quiet /\ lock_queue = 0
    <3>1. Driver(name) \in Programs /\ Len(Driver(name)) = 7
      BY DriverNames, DriverProgram, Zenon
    <3>2. n = 7
      BY <1>3, <2>3, <3>1, Zenon DEF Driving
    <3>3. 7 >= 5
      OBVIOUS
    <3>. QED
      BY <2>3, <3>2, <3>3, Zenon DEF Driving, Keeps
  <2>. QED
    BY <2>1, <2>2, <2>3, Zenon DEF Progress
<1>5. SetUp(Len(bootstrap))' /\ Quiet' /\ lock_queue' = 0
  BY <1>1, <1>4, SetUpKept, NamesKept, Zenon
<1>6. ASSUME NEW p \in Programs, todo' = p PROVE todo' = SubSeq(p, 0 + 1, Len(p))
  BY <1>6 DEF Programs
<1>7. CASE program \in HeapPrograms
  <2>1. program \in Programs /\ 0 \in 0 .. Len(program) /\ 0 % 4 = 0
    BY <1>7, HeapProgram
  <2>2. 0 # 2
    OBVIOUS
  <2>3. Locking(program, 0)'
    BY <1>1, <1>5, <1>6, <2>1, <2>2, Zenon DEF Locking
  <2>. QED
    BY <1>7, <2>1, <2>3, Zenon DEF Progress
<1>8. CASE program \in {Driver(name) : name \in Drivers}
  <2>1. PICK name \in Drivers : program = Driver(name)
    BY <1>8
  <2>2. Driver(name) \in Programs
    BY DriverNames, DriverProgram, Zenon
  <2>3. 0 \in 0 .. 7 /\ ~(0 \in 1 .. 4) /\ ~(0 >= 5)
    OBVIOUS
  <2>4. Driving(name, 0)'
    BY <1>1, <1>5, <1>6, <2>1, <2>2, <2>3, Zenon DEF Driving
  <2>. QED
    BY <2>3, <2>4, Zenon DEF Progress
<1>. QED
  BY <1>7, <1>8


-----------------------------------------------------------------------------
(* Every step keeps the invariant.                                         *)
LEMMA InitInv ==
  ASSUME Init
  PROVE  IInv
<1>. USE DEF Init, InitInterrupts, InitNames
<1>1. stack = <<>> /\ DOMAIN stack = {}
  OBVIOUS
<1>2. LENGTH \in Nat \ {0} /\ TICKS \in Nat \ {0} /\ MaxPanics \in Nat
  BY LengthAssumption, InterruptsAssumption
<1>3. TypeOK
  <2>1. Panics = {}
    BY <1>1, Zenon DEF Panics
  <2>2. Cardinality(Panics) <= MaxPanics + 1
    BY <1>2, <2>1, FS_EmptySet
  <2>3. modulename \in Buffers /\ previous \in Buffers
    BY DEF Buffers, NUL
  <2>4. stack \in Seq(Frames) /\ tick \in 0 .. (TICKS - 1)
    BY <1>2
  <2>. QED
    BY <2>2, <2>3, <2>4, Zenon DEF TypeOK
<1>4. StackInv
  BY <1>1, Zenon DEF StackInv, FramesInv, ClosedInv, ResetInv, ServicedInv
<1>5. Progress
  <2>1. bootstrap \in Programs /\ Len(bootstrap) \in Nat
    BY BootType DEF Programs
  <2>2. todo = SubSeq(bootstrap, 0 + 1, Len(bootstrap))
    BY <2>1 DEF Programs
  <2>3. SetUp(0)
    BY DEF SetUp
  <2>4. Quiet
    BY DEF Quiet
  <2>5. BootNames(0)
    BY <2>4, KernelAssumption DEF BootNames
  <2>6. ~Interruptible
    BY DEF Interruptible
  <2>7. Booting(0)
    BY <2>2, <2>3, <2>5, <2>6, Zenon DEF Booting
  <2>8. 0 \in 0 .. Len(bootstrap)
    BY <2>1
  <2>. QED
    BY <2>7, <2>8, Zenon DEF Progress
<1>. QED
  BY <1>3, <1>4, <1>5 DEF IInv

(* Steps outside handlers keep the invariant on the stack.                 *)
LEMMA StackKept ==
  ASSUME StackInv, UNCHANGED <<flag, stack, segments, gates>>, serviced' \subseteq serviced
  PROVE  StackInv' /\ Panics' = Panics
<1>1. Gates' = Gates
  BY DEF Gates
<1>2. /\ flag' = flag /\ stack' = stack /\ segments' = segments /\ gates' = gates
  OBVIOUS
<1>3. FramesInv' /\ ClosedInv' /\ ResetInv'
  <2>1. FramesInv'
    BY <1>2 DEF StackInv, FramesInv
  <2>2. ClosedInv'
    BY <1>2 DEF StackInv, ClosedInv
  <2>3. ResetInv'
    BY <1>1, <1>2 DEF StackInv, ResetInv
  <2>. QED
    BY <2>1, <2>2, <2>3
<1>4. ServicedInv'
  BY <1>2, ServicedKept DEF StackInv
<1>5. Panics' = Panics
  BY <1>2, Zenon DEF Panics
<1>. QED
  BY <1>3, <1>4, <1>5 DEF StackInv

(* Every step of the main program but a failing assert keeps the           *)
(* invariant.                                                              *)
LEMMA MainStep ==
  ASSUME IInv,
         \/ init_fb \/ init_serial \/ set_up \/ names \/ prints \/ assert_holds \/ lock
         \/ \E program \in {HeapCall, liballoc_realloc} \cup {Driver(name) : name \in Drivers} :
              calls(program)
  PROVE  IInv'
<1>1. TypeOK /\ StackInv /\ Progress
  BY DEF IInv
<1>2. stack = <<>> /\ stack' = <<>> /\ serviced' \subseteq serviced /\ requested' \subseteq requested
      /\ tick' = tick
  BY DEF init_fb, init_serial, set_up, init_gdt, init_pic, init_idt, names, prints,
         assert_holds, lock, calls, Takes, interrupt_vars, pics
<1>3. StackInv'
  <2>1. DOMAIN stack = {} /\ DOMAIN stack' = {}
    BY <1>2
  <2>2. serviced = {}
    BY <1>1, <2>1, Zenon DEF StackInv, ServicedInv
  <2>. QED
    BY <1>2, <2>1, <2>2, Zenon DEF StackInv, FramesInv, ClosedInv, ResetInv, ServicedInv
<1>4. Progress'
  <2>1. CASE init_fb \/ init_serial \/ set_up
    BY <1>1, <2>1, InitialiserStep
  <2>2. CASE names
    BY <1>1, <2>2, NamesStep
  <2>3. CASE prints \/ assert_holds
    <3>1. PICK step \in {"print", "note", "log", "assert"} :
            Takes(step) /\ (UNCHANGED Named \/ (step = "log" /\ log_debug))
      BY <2>3 DEF prints, assert_holds
    <3>2. UNCHANGED <<tables, screen, serial, lock_queue>> /\ UNCHANGED <<flag, stack>>
      BY <2>3 DEF prints, assert_holds, interrupt_vars
    <3>3. Interruptible' => Interruptible
      BY <3>2, Zenon DEF Interruptible
    <3>. QED
      BY <1>1, <3>1, <3>2, <3>3, QuietStep, Zenon
  <2>4. CASE lock
    BY <1>1, <2>4, LockStep
  <2>5. CASE \E program \in {HeapCall, liballoc_realloc} \cup {Driver(name) : name \in Drivers} :
               calls(program)
    BY <1>1, <2>5, CallStep, Zenon DEF HeapPrograms
  <2>. QED
    BY <2>1, <2>2, <2>3, <2>4, <2>5
<1>5. TypeOK'
  <2>1. modulename' \in Buffers /\ previous' \in Buffers
    <3>1. CASE names
      BY <1>1, <3>1, NamesStep, Zenon
    <3>2. CASE UNCHANGED Named
      BY <3>2, BuffersType, <1>1, Zenon DEF Named
    <3>3. CASE log_debug
      BY <1>1, <3>3, NamesType, Zenon
    <3>. QED
      BY <3>1, <3>2, <3>3
         DEF init_fb, init_serial, set_up, prints, assert_holds, lock, calls
  <2>2. lock_queue' \in {0, 1} /\ flag' \in BOOLEAN
    <3>1. CASE lock
      BY <1>1, <3>1, LockStep, Zenon
    <3>2. CASE UNCHANGED <<flag, lock_queue>>
      BY <1>1, <3>2 DEF TypeOK
    <3>. QED
      BY <3>1, <3>2
         DEF init_fb, init_serial, set_up, names, prints, assert_holds, calls, interrupt_vars
  <2>3. transmitter' \in BOOLEAN
    <3>1. CASE prints
      BY <3>1 DEF prints, putc_serial
    <3>2. CASE UNCHANGED transmitter
      BY <1>1, <3>2 DEF TypeOK
    <3>. QED
      BY <3>1, <3>2
         DEF init_fb, init_serial, set_up, names, assert_holds, lock, calls
  <2>4. screen' \in BOOLEAN /\ serial' \in BOOLEAN
    <3>1. (screen' = screen \/ screen' = TRUE) /\ (serial' = serial \/ serial' = TRUE)
      BY DEF init_fb, init_serial, set_up, names, prints, assert_holds, lock, calls
    <3>. QED
      BY <1>1, <3>1 DEF TypeOK
  <2>5. /\ segments' \in BOOLEAN /\ remapped' \in BOOLEAN
        /\ gates' = gates \/ gates' = Gates
    <3>1. CASE set_up
      <4>1. /\ segments' = segments \/ segments' = TRUE
            /\ remapped' = remapped \/ remapped' = TRUE
            /\ gates' = gates \/ gates' = Gates
        BY <3>1 DEF set_up, init_gdt, init_pic, init_idt
      <4>. QED
        BY <1>1, <4>1 DEF TypeOK
    <3>2. CASE UNCHANGED tables
      BY <1>1, <3>2 DEF TypeOK, tables
    <3>. QED
      BY <3>1, <3>2
         DEF init_fb, init_serial, names, prints, assert_holds, lock, calls, interrupt_vars
  <2>6. Gates' = Gates /\ Frames' = Frames /\ Buffers' = Buffers
    BY DEF Gates, Frames, Buffers
  <2>7. gates' \in {<<>>, Gates}
    BY <1>1, <2>5, Zenon DEF TypeOK
  <2>8. requested' \subseteq Lines /\ serviced' \subseteq 0 .. 15 /\ tick' \in 0 .. (TICKS - 1)
    BY <1>1, <1>2, Zenon DEF TypeOK
  <2>9. stack' \in Seq(Frames) /\ Cardinality(Panics') <= MaxPanics + 1
    <3>1. Panics' = Panics
      BY <1>2, Zenon DEF Panics
    <3>. QED
      BY <1>1, <1>2, <3>1, Zenon DEF TypeOK
  <2>. QED
    BY <2>1, <2>2, <2>3, <2>4, <2>5, <2>6, <2>7, <2>8, <2>9, Zenon DEF TypeOK
<1>. QED
  BY <1>3, <1>4, <1>5 DEF IInv


(* What is in service when a handler is entered has its own handler still, *)
(* and what comes into service has the one that is entered.                *)
LEMMA EnteredServiced ==
  ASSUME TypeOK, StackInv, NEW vector \in 0 .. 255, Enter(vector),
         \/ serviced' = serviced
         \/ /\ vector >= 32 /\ segments /\ gates = Gates /\ vector \in 32 .. 47
            /\ serviced' \ serviced \subseteq Inputs(vector - 32)
  PROVE  ServicedInv'
<1>. DEFINE new == Len(stack) + 1
<1>1. stack \in Seq(Frames) /\ Len(stack) \in Nat /\ DOMAIN stack = 1 .. Len(stack)
  BY DEF TypeOK
<1>2. /\ stack' \in Seq(Frames) /\ Len(stack') = Len(stack) + 1
      /\ \A k \in 1 .. Len(stack) : stack'[k] = stack[k]
      /\ stack'[new].intno = vector
      /\ stack'[new].at = IF segments /\ vector \in DOMAIN gates THEN "entry" ELSE "reset"
  BY EnterStack
<1>3. /\ DOMAIN stack' = 1 .. new /\ new \in 1 .. new
      /\ \A k \in 1 .. Len(stack) : k \in 1 .. new
  BY <1>1, <1>2
<1>. HIDE DEF new
<1>4. ASSUME NEW s \in serviced
      PROVE  \E k \in 1 .. new :
               /\ stack'[k].intno >= 32
               /\ stack'[k].at \in {"entry", "eoi"}
               /\ s \in Inputs(stack'[k].intno - 32)
  <2>1. PICK k \in 1 .. Len(stack) :
          /\ stack[k].intno >= 32
          /\ stack[k].at \in {"entry", "eoi"}
          /\ s \in Inputs(stack[k].intno - 32)
    BY <1>1, Zenon DEF StackInv, ServicedInv
  <2>. QED
    BY <1>2, <1>3, <2>1, Zenon
<1>5. ASSUME NEW s \in serviced' \ serviced
      PROVE  \E k \in 1 .. new :
               /\ stack'[k].intno >= 32
               /\ stack'[k].at \in {"entry", "eoi"}
               /\ s \in Inputs(stack'[k].intno - 32)
  <2>1. /\ vector >= 32 /\ segments /\ gates = Gates /\ vector \in 32 .. 47
        /\ s \in Inputs(vector - 32)
    BY <1>5, Zenon
  <2>2. vector \in DOMAIN gates
    BY <2>1 DEF Gates
  <2>. QED
    BY <1>2, <1>3, <2>1, <2>2, Zenon
<1>6. \A s \in serviced' :
        \E k \in 1 .. new :
          /\ stack'[k].intno >= 32
          /\ stack'[k].at \in {"entry", "eoi"}
          /\ s \in Inputs(stack'[k].intno - 32)
  BY <1>4, <1>5, Zenon
<1>. QED
  BY <1>3, <1>6, Zenon DEF ServicedInv, Inputs, Input, CASCADE

(* An exception, and an assert that fails, find their handler, or reset a  *)
(* machine that has none.                                                  *)
LEMMA ExceptionStep ==
  ASSUME IInv, NEW vector \in Faults, exception(vector),
         UNCHANGED <<Named, todo, screen, serial, transmitter, lock_queue>>
  PROVE  IInv'
<1>1. TypeOK /\ StackInv /\ Progress
  BY DEF IInv
<1>2. /\ UNCHANGED tables /\ UNCHANGED <<requested, serviced, tick>>
      /\ ~At("reset") /\ Enter(vector) /\ Cardinality(Panics) < MaxPanics
  BY DEF exception, pics
<1>3. vector \in 0 .. 255 /\ vector < 32
  BY InterruptsAssumption
<1>4. FramesInv' /\ ClosedInv' /\ ResetInv' /\ (Interruptible' => Interruptible)
  BY <1>1, <1>2, <1>3, EnteredStack, Zenon
<1>5. StackInv'
  BY <1>1, <1>2, <1>3, <1>4, EnteredServiced, Zenon DEF StackInv
<1>6. Progress'
  BY <1>1, <1>2, <1>4, ProgressKept
<1>7. TypeOK'
  <2>1. stack' \in Seq(Frames) /\ flag' \in BOOLEAN
    BY <1>1, <1>2, <1>3, EnterStack, Zenon
  <2>2. Cardinality(Panics) <= MaxPanics
    BY <1>1, <1>2, PanicsCount, InterruptsAssumption
  <2>3. Cardinality(Panics') <= MaxPanics + 1
    BY <1>1, <1>2, <1>3, <2>2, EnteredPanics, Zenon
  <2>4. /\ transmitter' \in BOOLEAN /\ requested' \subseteq Lines
        /\ serviced' \subseteq 0 .. 15 /\ tick' \in 0 .. (TICKS - 1)
    BY <1>1, <1>2 DEF TypeOK
  <2>. QED
    BY <1>1, <1>2, <2>1, <2>3, <2>4, TypeKept
<1>. QED
  BY <1>5, <1>6, <1>7 DEF IInv

(* A failing assert keeps the invariant.                                   *)
LEMMA AssertStep ==
  ASSUME IInv, assert_fails
  PROVE  IInv'
<1>1. TypeOK /\ StackInv /\ Progress
  BY DEF IInv
<1>2. /\ UNCHANGED tables /\ UNCHANGED <<requested, serviced, tick>>
      /\ UNCHANGED <<Named, screen, serial, lock_queue>>
      /\ UNCHANGED <<tables, Named, screen, serial, lock_queue>>
      /\ UNCHANGED <<tables, screen, serial, lock_queue>> /\ UNCHANGED Named
      /\ Enter(1) /\ Takes("assert") /\ stack = <<>> /\ transmitter' = FALSE
  BY DEF assert_fails, pics, Takes, putc_serial
<1>3. 1 \in 0 .. 255 /\ 1 < 32 /\ ~At("reset")
  BY <1>2 DEF At
<1>4. flag' => flag
  BY <1>1, <1>2, <1>3, EnterStack, Zenon
<1>5. Interruptible' => Interruptible
  <2>1. /\ Len(stack') = 1 /\ stack' \in Seq(Frames)
        /\ stack'[1].flag = flag
    <3>1. /\ stack' \in Seq(Frames) /\ Len(stack') = Len(stack) + 1
          /\ stack'[Len(stack) + 1].flag = flag
      BY <1>1, <1>2, <1>3, EnterStack, Zenon
    <3>2. Len(stack) + 1 = 1
      BY <1>2
    <3>. QED
      BY <3>1, <3>2, Zenon
  <2>2. DOMAIN stack' = {1}
    BY <2>1
  <2>. QED
    BY <1>2, <1>4, <2>1, <2>2, Idle, Zenon DEF Interruptible
<1>6. Progress' /\ segments /\ gates = Gates
  BY <1>1, <1>2, <1>5, QuietStep, Zenon
<1>7. FramesInv' /\ ClosedInv' /\ ResetInv'
  BY <1>1, <1>2, <1>3, <1>6, EnteredStack, Zenon
<1>8. StackInv'
  BY <1>1, <1>2, <1>3, <1>7, EnteredServiced, Zenon DEF StackInv
<1>9. TypeOK'
  <2>1. stack' \in Seq(Frames) /\ flag' \in BOOLEAN
    BY <1>1, <1>2, <1>3, EnterStack, Zenon
  <2>2. Cardinality(Panics) <= MaxPanics
    <3>1. Panics = {}
      BY <1>2 DEF Panics
    <3>. QED
      BY <3>1, FS_EmptySet, InterruptsAssumption
  <2>3. Cardinality(Panics') <= MaxPanics + 1
    BY <1>1, <1>2, <1>3, <2>2, EnteredPanics, Zenon
  <2>4. /\ transmitter' \in BOOLEAN /\ requested' \subseteq Lines
        /\ serviced' \subseteq 0 .. 15 /\ tick' \in 0 .. (TICKS - 1)
    BY <1>1, <1>2 DEF TypeOK
  <2>. QED
    BY <1>1, <1>2, <2>1, <2>3, <2>4, TypeKept
<1>. QED
  BY <1>6, <1>8, <1>9 DEF IInv

(* An interrupt finds no other in service, and takes the flag.             *)
LEMMA InterruptStep ==
  ASSUME IInv, NEW line \in Lines, interrupt(line),
         UNCHANGED <<Named, todo, screen, serial, transmitter, lock_queue>>
  PROVE  IInv'
<1>1. TypeOK /\ StackInv /\ Progress
  BY DEF IInv
<1>2. /\ UNCHANGED tables /\ UNCHANGED tick /\ requested' \subseteq requested
      /\ ~At("reset") /\ flag /\ line \in requested
  BY DEF interrupt, Accepts, Deliverable
<1>3. Interruptible
  BY <1>2 DEF Interruptible
<1>4. segments /\ remapped /\ gates = Gates
  BY <1>1, <1>3, SetUpWhenInterruptible
<1>5. line \in 0 .. 15
  BY InterruptsAssumption
<1>6. PICK input \in 0 .. 15 :
        /\ Enter(32 + input)
        /\ serviced' = serviced \cup (serviced' \ serviced)
        /\ serviced' \ serviced \subseteq Inputs(input)
  <2>1. CASE serviced' = serviced \cup Inputs(line) /\ Enter(Vector(line))
    <3>1. Vector(line) = 32 + line
      BY <1>4 DEF Vector
    <3>. QED
      BY <1>5, <2>1, <3>1, Zenon
  <2>2. CASE /\ serviced' = serviced \cup (Inputs(line) \ {line})
             /\ Enter(Vector(IF line \in Slave THEN 15 ELSE 7))
    <3>1. CASE line \in Slave
      <4>1. Vector(15) = 32 + 15 /\ Inputs(line) \ {line} \subseteq Inputs(15)
        BY <1>4, <1>5, <3>1 DEF Vector, Inputs, Input, CASCADE, Slave
      <4>2. 15 \in 0 .. 15
        OBVIOUS
      <4>. QED
        BY <2>2, <3>1, <4>1, <4>2, Zenon
    <3>2. CASE line \notin Slave
      <4>1. Vector(7) = 32 + 7 /\ Inputs(line) \ {line} = {}
        BY <1>4, <1>5, <3>2 DEF Vector, Inputs, Input, CASCADE, Slave
      <4>2. 7 \in 0 .. 15
        OBVIOUS
      <4>. QED
        BY <2>2, <3>2, <4>1, <4>2, Zenon
    <3>. QED
      BY <3>1, <3>2
  <2>. QED
    BY <2>1, <2>2, Zenon DEF interrupt
<1>7. 32 + input \in 32 .. 47 /\ 32 + input \in 0 .. 255 /\ 32 + input >= 32 /\ (32 + input) - 32 = input
  OBVIOUS
<1>8. FramesInv' /\ ClosedInv' /\ ResetInv' /\ (Interruptible' => Interruptible)
  BY <1>1, <1>2, <1>4, <1>6, <1>7, EnteredStack, Zenon
<1>9. StackInv'
  BY <1>1, <1>6, <1>7, <1>4, <1>8, EnteredServiced, Zenon DEF StackInv
<1>10. Progress'
  BY <1>1, <1>2, <1>8, ProgressKept
<1>11. TypeOK'
  <2>1. stack' \in Seq(Frames) /\ flag' \in BOOLEAN
    BY <1>1, <1>6, <1>7, EnterStack, Zenon
  <2>2. Cardinality(Panics') <= MaxPanics + 1
    BY <1>1, <1>6, <1>7, EnteredPanics, Zenon
  <2>3. Inputs(input) \subseteq 0 .. 15
    BY DEF Inputs, Input, CASCADE
  <2>4. /\ transmitter' \in BOOLEAN /\ requested' \subseteq Lines
        /\ serviced' \subseteq 0 .. 15 /\ tick' \in 0 .. (TICKS - 1)
    BY <1>1, <1>2, <1>6, <2>3 DEF TypeOK
  <2>. QED
    BY <1>1, <1>2, <2>1, <2>2, <2>4, TypeKept
<1>. QED
  BY <1>9, <1>10, <1>11 DEF IInv


(* A step of the hardware keeps the invariant.                             *)
LEMMA StillStep ==
  ASSUME TypeOK, StackInv, Progress,
         UNCHANGED tables, UNCHANGED <<flag, stack, segments, gates>>,
         UNCHANGED <<Named, todo, screen, serial, lock_queue>>,
         serviced' = serviced, tick' = tick, requested' \subseteq Lines,
         transmitter' \in BOOLEAN
  PROVE  IInv'
<1>1. StackInv' /\ Panics' = Panics
  BY StackKept, Zenon
<1>2. Interruptible' => Interruptible
  BY DEF Interruptible
<1>3. Progress'
  BY <1>2, ProgressKept
<1>4. TypeOK'
  <2>1. /\ flag' \in BOOLEAN /\ serviced' \subseteq 0 .. 15
        /\ stack' \in Seq(Frames) /\ tick' \in 0 .. (TICKS - 1)
    BY DEF TypeOK
  <2>2. Cardinality(Panics') <= MaxPanics + 1
    BY <1>1, Zenon DEF TypeOK
  <2>. QED
    BY <2>1, <2>2, TypeKept
<1>. QED
  BY <1>1, <1>3, <1>4 DEF IInv

(* Every step keeps the invariant.                                         *)
LEMMA NextInv ==
  ASSUME IInv, [Next]_vars
  PROVE  IInv'
<1>1. TypeOK /\ StackInv /\ Progress
  BY DEF IInv
<1>2. CASE \/ init_fb \/ init_serial \/ set_up \/ names \/ prints \/ assert_holds \/ lock
           \/ \E program \in {HeapCall, liballoc_realloc} \cup {Driver(name) : name \in Drivers} :
                calls(program)
  BY <1>2, MainStep
<1>3. CASE assert_fails
  BY <1>3, AssertStep
<1>4. CASE Handler
  <2>1. /\ TypeOK' /\ StackInv' /\ (Interruptible' => Interruptible)
        /\ UNCHANGED <<tables, Named, todo, screen, serial, lock_queue>>
    BY <1>1, <1>4, HandlerStep, Zenon
  <2>2. Progress'
    BY <1>1, <2>1, ProgressKept, Zenon
  <2>. QED
    BY <2>1, <2>2 DEF IInv
<1>5. CASE Interrupted
  BY <1>5, InterruptStep, Zenon DEF Interrupted
<1>6. CASE Hardware
  <2>1. ASSUME NEW vector \in Faults, exception(vector),
               UNCHANGED <<Named, todo, screen, serial, transmitter, lock_queue>>
        PROVE  IInv'
    BY <2>1, ExceptionStep
  <2>2. ASSUME NEW line \in Lines, raise(line),
               UNCHANGED <<Named, todo, screen, serial, transmitter, lock_queue>>
        PROVE  IInv'
    <3>1. /\ UNCHANGED tables /\ UNCHANGED <<flag, stack, segments, gates>>
          /\ serviced' = serviced /\ tick' = tick /\ requested' \subseteq Lines
          /\ UNCHANGED <<Named, todo, screen, serial, lock_queue>>
          /\ transmitter' \in BOOLEAN
      BY <1>1, <2>2 DEF raise, tables, TypeOK
    <3>. QED
      BY <1>1, <2>2, <3>1, StillStep
  <2>. QED
    BY <1>6, <2>1, <2>2, Zenon DEF Hardware
<1>7. CASE transmit \/ UNCHANGED vars
  <2>1. /\ UNCHANGED tables /\ UNCHANGED <<flag, stack, segments, gates>>
        /\ serviced' = serviced /\ tick' = tick /\ requested' = requested
        /\ UNCHANGED <<Named, todo, screen, serial, lock_queue>>
        /\ transmitter' \in {transmitter, TRUE}
    BY <1>7 DEF transmit, vars, interrupt_vars, tables, pics
  <2>2. requested' \subseteq Lines /\ transmitter' \in BOOLEAN
    BY <1>1, <2>1 DEF TypeOK
  <2>. QED
    BY <1>1, <2>1, <2>2, StillStep
<1>8. loops \/ Stopped => UNCHANGED vars
  BY DEF loops, Stopped
<1>. QED
  BY <1>2, <1>3, <1>4, <1>5, <1>6, <1>7, <1>8, Zenon DEF Next, Processor

-----------------------------------------------------------------------------
(* The invariant holds in every behaviour.                                 *)
LEMMA Invariance == Spec => []IInv
<1>1. Init => IInv
  BY InitInv
<1>2. IInv /\ [Next]_vars => IInv'
  BY NextInv
<1>. QED
  BY <1>1, <1>2, PTL DEF Spec

(* Every variable of the kernel keeps to its values: the names to their    *)
(* buffers, the requests to the lines that have a device, and the count of *)
(* the heap's lock (liballoc_lock, liballoc_unlock), for every width of    *)
(* it, to 0 and 1.                                                         *)
THEOREM KernelTypeCorrect == Spec => []TypeOK
<1>1. IInv => TypeOK
  BY DEF IInv
<1>. QED
  BY <1>1, Invariance, PTL

(* While the heap's lock is held no handler of an interrupt is at work, so *)
(* that what the heap is in the middle of is seen by nobody but a panic.   *)
THEOREM LockedHeapIsAlone == Spec => []HeapExclusive
<1>1. IInv => HeapExclusive
  <2>. SUFFICES ASSUME IInv, lock_queue > 0, NEW k \in DOMAIN stack
                PROVE  stack[k].intno < 32
    BY Zenon DEF HeapExclusive
  <2>1. TypeOK /\ StackInv /\ Progress
    BY DEF IInv
  <2>2. lock_queue # 0
    OBVIOUS
  <2>3. ~stack[k].flag
    BY <2>1, <2>2, SetUpWhenInterruptible, Zenon DEF Interruptible
  <2>4. ~(stack[k].intno >= 32)
    BY <2>1, <2>3, Zenon DEF StackInv, FramesInv, Sound
  <2>5. stack[k] \in Frames
    BY <2>1 DEF TypeOK
  <2>. QED
    BY <2>4, <2>5, FrameVector, Zenon
<1>. QED
  BY <1>1, Invariance, PTL

(* Every line of the log names the module that logs it: neither the        *)
(* allocator, which names itself in the middle of another module, nor      *)
(* strcpy, which stores no NUL, leaves another name for it - unless the    *)
(* name is shorter than the allocator's own.                               *)
THEOREM LinesAreNamed == Spec => []LogsOwnName
<1>1. IInv => LogsOwnName
  <2>. SUFFICES ASSUME IInv, todo # <<>>, Next_step.step \in {"note", "log"},
                       Len(Next_step.name) >= Len(PMM)
                PROVE  Chars(modulename) = Next_step.name
    BY Zenon DEF LogsOwnName
  <2>. DEFINE owner == Next_step.name
  <2>1. Progress /\ Len(owner) >= 3
    BY ModuleNames DEF IInv
  <2>2. Tables \in Nat
    BY KernelAssumption
  <2>3. ASSUME NEW n \in 0 .. (19 + 4 * Tables), Booting(n), Next_step = bootstrap[n + 1]
        PROVE  Keeps(owner)
    <3>1. BootNames(n)
      BY <2>3 DEF Booting
    <3>2. \/ n = 6 /\ owner = GDT
          \/ n = 9 /\ owner = PIC
          \/ n = 12 /\ owner = IDT
          \/ n \in {14, 15, 17} /\ owner = PMM
          \/ n = 19 + 4 * Tables /\ owner = VMM
      BY <2>3, BootPlaces
    <3>3. CASE n \in {6, 9, 12, 14, 15, 17}
      BY <2>2, <3>1, <3>2, <3>3 DEF BootNames
    <3>4. CASE n = 19 + 4 * Tables /\ owner = VMM
      <4>1. n \in 19 .. (19 + 4 * Tables) /\ (n - 19) % 4 = 0
        BY <2>2, <3>4
      <4>. QED
        BY <3>1, <3>4, <4>1, Zenon DEF BootNames, Within
    <3>. QED
      BY <3>2, <3>3, <3>4
  <2>4. ASSUME NEW name \in Drivers, NEW n \in 0 .. 6, Driving(name, n),
               Next_step = Driver(name)[n + 1]
        PROVE  Keeps(owner)
    <3>1. n \in {5, 6} /\ owner = name
      BY <2>4, DriverNames, DriverPlaces
    <3>. QED
      BY <2>4, <3>1 DEF Driving
  <2>5. \A program \in HeapPrograms : \A n \in 0 .. (Len(program) - 1) : program[n + 1] # Next_step
    <3>1. \A program \in HeapPrograms : \A n \in 0 .. (Len(program) - 1) :
            program[n + 1].step \in {"cli", "count", "uncount", "sti"}
      BY HeapPlaces, Zenon
    <3>. QED
      BY <3>1
  <2>6. Keeps(owner)
    BY <2>1, <2>3, <2>4, <2>5, NextPlaces, Zenon
  <2>. QED
    BY <2>1, <2>6, Zenon DEF Keeps
<1>. QED
  BY <1>1, Invariance, PTL

(* Nothing is logged, and no panic printed, before the console and the     *)
(* serial port are there to show it: not even the fault of a boot that has *)
(* only just begun.                                                        *)
THEOREM LinesAreSeen == Spec => []LogsAreSeen
<1>1. IInv => LogsAreSeen
  <2>. SUFFICES ASSUME IInv,
                       \/ At("panic")
                       \/ todo # <<>> /\ Next_step.step \in {"note", "log"}
                PROVE  screen /\ serial
    BY Zenon DEF LogsAreSeen
  <2>1. StackInv /\ Progress
    BY DEF IInv
  <2>2. Tables \in Nat
    BY KernelAssumption
  <2>3. ASSUME NEW n \in Nat, SetUp(n), n >= 6 PROVE screen /\ serial
    <3>1. n >= 2 /\ n >= 4
      BY <2>3
    <3>. QED
      BY <2>3, <3>1, Zenon DEF SetUp
  <2>4. /\ Len(bootstrap) \in Nat /\ Len(bootstrap) >= 6
        /\ \A n \in 0 .. Len(bootstrap) : n \in Nat
        /\ \A n \in 0 .. (19 + 4 * Tables) : n \in Nat
    BY <2>2, BootProgram
  <2>5. ASSUME SetUp(Len(bootstrap)) PROVE screen /\ serial
    BY <2>3, <2>4, <2>5, Zenon
  <2>6. CASE At("panic")
    <3>1. segments
      <4>1. stack # <<>> /\ Top.at = "panic"
        BY <2>6 DEF At
      <4>2. Len(stack) \in DOMAIN stack /\ Top = stack[Len(stack)]
        BY <4>1 DEF IInv, TypeOK, Top, Last
      <4>3. "panic" # "reset"
        OBVIOUS
      <4>. QED
        BY <2>1, <4>1, <4>2, <4>3, Zenon DEF StackInv, FramesInv
    <3>2. ASSUME NEW n \in 0 .. Len(bootstrap), Booting(n) PROVE screen /\ serial
      <4>1. SetUp(n) /\ n >= 6
        BY <3>1, <3>2, Zenon DEF Booting, SetUp
      <4>. QED
        BY <2>3, <2>4, <4>1, Zenon
    <3>. QED
      BY <2>1, <2>5, <3>2, Zenon DEF Progress, Locking, Driving
  <2>7. CASE todo # <<>> /\ Next_step.step \in {"note", "log"}
    <3>1. ASSUME NEW n \in 0 .. (19 + 4 * Tables), Booting(n), Next_step = bootstrap[n + 1]
          PROVE  screen /\ serial
      <4>1. n >= 6
        BY <2>2, <2>7, <3>1, BootPlaces
      <4>. QED
        BY <2>3, <2>4, <3>1, <4>1, Zenon DEF Booting
    <3>. QED
      BY <2>1, <2>5, <2>7, <3>1, NextPlaces, Zenon DEF Locking, Driving
  <2>. QED
    BY <2>6, <2>7
<1>. QED
  BY <1>1, Invariance, PTL

(* An assert that fails, and a line that wants service, never reset the    *)
(* machine; an exception of the machine's own does only as long as there   *)
(* is no interrupt table.                                                  *)
THEOREM AssertsFindAHandler == Spec => []AssertsAreCaught
<1>1. IInv => AssertsAreCaught
  BY Zenon DEF IInv, StackInv, ResetInv, AssertsAreCaught
<1>. QED
  BY <1>1, Invariance, PTL

(* PIC_sendEOI ends the service of the input its handler was called for,   *)
(* though all it tells the PICs is that one of theirs is done, and though  *)
(* a request may have been taken back before it was acknowledged.          *)
THEOREM AcknowledgementsAreTheirOwn == Spec => EoiEndsItsOwn
<1>1. IInv /\ [Next]_vars =>
        [\A s \in serviced \ serviced' :
           At("eoi") => s \in Inputs(Top.intno - 32)]_interrupt_vars
  <2>. SUFFICES ASSUME IInv, At("eoi")
                PROVE  serviced \subseteq Inputs(Top.intno - 32)
    BY Zenon
  <2>1. TypeOK /\ StackInv
    BY DEF IInv
  <2>2. stack # <<>> /\ Top.at = "eoi"
    BY DEF At
  <2>3. Len(stack) \in DOMAIN stack /\ Top = stack[Len(stack)] /\ Top \in Frames
    BY <2>1, <2>2 DEF TypeOK, Top, Last
  <2>4. Top.intno >= 32
    BY <2>1, <2>2, <2>3, FrameVector, Zenon DEF StackInv, FramesInv, Sound
  <2>. QED
    BY <2>1, <2>2, <2>4, OneInput, Zenon
<1>. QED
  BY <1>1, Invariance, PTL DEF Spec, EoiEndsItsOwn

(* What a panic has halted stays halted: neither an interrupt nor an       *)
(* exception that comes to the halted CPU, nor the handler it runs, takes  *)
(* the kernel on behind hlt.                                               *)
THEOREM PanicsAreFinal == Spec => PanicIsFinal
<1>1. IInv /\ [Next]_vars =>
        [\A k \in DOMAIN stack :
           stack[k].at = "hlt" => k \in DOMAIN stack' /\ stack'[k] = stack[k]]_interrupt_vars
  <2>. SUFFICES ASSUME IInv, [Next]_vars, NEW k \in DOMAIN stack, stack[k].at = "hlt"
                PROVE  k \in DOMAIN stack' /\ stack'[k] = stack[k]
    BY Zenon
  <2>1. TypeOK /\ StackInv
    BY DEF IInv
  <2>2. /\ stack \in Seq(Frames) /\ Len(stack) \in Nat /\ DOMAIN stack = 1 .. Len(stack)
        /\ k \in 1 .. Len(stack) /\ stack # <<>>
    BY <2>1 DEF TypeOK
  <2>3. ASSUME stack[Len(stack)].at # "hlt", NEW n, n \in {Len(stack), Len(stack) - 1},
               stack' \in Seq(Frames), Len(stack') = n,
               \A i \in 1 .. (Len(stack) - 1) : stack'[i] = stack[i]
        PROVE  k \in DOMAIN stack' /\ stack'[k] = stack[k]
    <3>1. k # Len(stack)
      BY <2>3
    <3>2. k \in 1 .. (Len(stack) - 1)
      BY <2>2, <3>1, LastIndex, Zenon
    <3>3. k \in DOMAIN stack'
      BY <2>2, <2>3, <3>2
    <3>. QED
      BY <2>3, <3>2, <3>3, Zenon
  <2>4. Top = stack[Len(stack)]
    BY DEF Top, Last
  <2>5. CASE Handler
    <3>1. Top.at # "hlt"
      BY <2>5 DEF Handler, panic, halt, serve, PIC_sendEOI, iretq, Handles, At
    <3>2. CASE iretq
      <4>1. /\ stack' \in Seq(Frames) /\ Len(stack') = Len(stack) - 1
            /\ \A i \in 1 .. (Len(stack) - 1) : stack'[i] = stack[i]
        BY <2>1, <3>2, IretStack, Zenon
      <4>. QED
        BY <2>3, <2>4, <3>1, <4>1, Zenon
    <3>3. CASE \E where \in {"panic", "hlt", "eoi", "iretq"} : Goes(where)
      <4>1. PICK where \in {"entry", "panic", "hlt", "eoi", "iretq", "reset"} : Goes(where)
        BY <3>3
      <4>2. /\ stack' \in Seq(Frames) /\ Len(stack') = Len(stack)
            /\ \A i \in 1 .. (Len(stack) - 1) : stack'[i] = stack[i]
        BY <2>1, <2>2, <4>1, GoesStack, Zenon
      <4>. QED
        BY <2>3, <2>4, <3>1, <4>2, Zenon
    <3>. QED
      BY <2>5, <3>2, <3>3, Zenon DEF Handler, panic, halt, serve, PIC_sendEOI
  <2>6. CASE \E vector \in 0 .. 255 : Enter(vector)
    <3>1. PICK vector \in 0 .. 255 : Enter(vector)
      BY <2>6
    <3>2. /\ stack' \in Seq(Frames) /\ Len(stack') = Len(stack) + 1
          /\ \A i \in 1 .. Len(stack) : stack'[i] = stack[i]
      BY <2>1, <3>1, EnterStack
    <3>. QED
      BY <2>2, <3>2
  <2>7. CASE stack' = stack
    BY <2>7
  <2>8. Handler \/ stack' = stack \/ \E vector \in 0 .. 255 : Enter(vector)
    <3>1. CASE Interrupted
      <4>1. PICK line \in Lines : interrupt(line)
        BY <3>1 DEF Interrupted
      <4>2. line \in 0 .. 15
        BY InterruptsAssumption
      <4>3. \A input \in 0 .. 15 : Vector(input) \in 0 .. 255
        BY DEF Vector, Master
      <4>4. 15 \in 0 .. 15 /\ 7 \in 0 .. 15
        OBVIOUS
      <4>5. \E input \in 0 .. 15 : Enter(Vector(input))
        <5>1. CASE Enter(Vector(line))
          BY <4>2, <5>1, Zenon
        <5>2. CASE Enter(Vector(IF line \in Slave THEN 15 ELSE 7))
          BY <4>4, <5>2, Zenon
        <5>. QED
          BY <4>1, <5>1, <5>2, Zenon DEF interrupt
      <4>. QED
        BY <4>3, <4>5, Zenon
    <3>2. CASE Hardware
      <4>1. \A vector \in Faults : vector \in 0 .. 255
        BY InterruptsAssumption
      <4>. QED
        BY <3>2, <4>1, Zenon DEF Hardware, raise, exception
    <3>3. CASE assert_fails
      <4>1. 1 \in 0 .. 255
        OBVIOUS
      <4>. QED
        BY <3>3, <4>1, Zenon DEF assert_fails
    <3>4. CASE \/ init_fb \/ init_serial \/ set_up \/ names \/ prints \/ assert_holds \/ lock
               \/ transmit \/ loops \/ Stopped \/ UNCHANGED vars
               \/ \E program \in {HeapCall, liballoc_realloc}
                                    \cup {Driver(name) : name \in Drivers} : calls(program)
      BY <3>4 DEF init_fb, init_serial, set_up, names, prints, assert_holds, lock, transmit,
                 loops, Stopped, vars, calls, interrupt_vars
    <3>. QED
      BY <3>1, <3>2, <3>3, <3>4, Zenon DEF Next, Processor
  <2>. QED
    BY <2>5, <2>6, <2>7, <2>8
<1>. QED
  BY <1>1, Invariance, PTL DEF Spec, PanicIsFinal


=============================================================================
