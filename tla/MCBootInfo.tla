----------------------------- MODULE MCBootInfo -----------------------------
(***************************************************************************)
(* Tag lists of up to three tags for BootInfo, maps with entries that are  *)
(* not whole pages, adjacent, empty, or given in two tags.                 *)
(***************************************************************************)
EXTENDS BootInfo

CONSTANT KERNEL      \* STIVALE2_MMAP_KERNEL_AND_MODULES

MCMmapTypes == {USABLE, KERNEL}

Entry(type, base, length) ==
  [range |-> [base |-> base, length |-> length], type |-> type]

Maps == {<<>>,
         <<Entry(USABLE, 3, 5), Entry(KERNEL, 9, 3)>>,
         <<Entry(KERNEL, 0, 6), Entry(USABLE, 6, 6), Entry(USABLE, 12, 1)>>,
         <<Entry(USABLE, 15, 0), Entry(USABLE, 17, 2)>>}

MCTags ==
  {[identifier |-> "memmap", value |-> map] : map \in Maps}
  \cup {[identifier |-> id, value |-> v] : id \in {"framebuffer", "epoch"}, v \in {1, 2}}
  \cup {[identifier |-> "rsdp", value |-> 1], [identifier |-> "smp", value |-> 1]}

MCStructs == UNION {[1 .. n -> MCTags] : n \in 0 .. 3}

=============================================================================
