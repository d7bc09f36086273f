--------------------------- MODULE AddressSpaces ---------------------------
(***************************************************************************)
(* What the virtual memory manager promises: each address space is a       *)
(* function from virtual pages to entries.  A call maps one page of one    *)
(* space and disturbs nothing else, and the page it maps is a frame that   *)
(* no earlier call was given.                                              *)
(***************************************************************************)
CONSTANTS
  VPages,     \* virtual pages
  Nothing     \* the entry of a page that is not mapped

VARIABLES
  maps,       \* the address spaces: what each virtual page is mapped to
  owned       \* the frames the calls were given

vars == <<maps, owned>>

Init == maps = <<>> /\ owned = {}

(* The kernel's own space, with whatever it maps to run on.                *)
Boot ==
  /\ DOMAIN maps = {}
  /\ \E space \in DOMAIN maps' : DOMAIN maps' = {space} /\ DOMAIN maps'[space] = VPages
  /\ UNCHANGED owned

Create ==
  /\ DOMAIN maps # {}
  /\ \E space \in DOMAIN maps' \ DOMAIN maps :
       maps' = [s \in DOMAIN maps \cup {space} |->
                  IF s = space THEN [v \in VPages |-> Nothing] ELSE maps[s]]
  /\ UNCHANGED owned

Map ==
  \E space \in DOMAIN maps' \cap DOMAIN maps, v \in VPages :
    LET entry == maps'[space][v] IN
    /\ entry # Nothing
    /\ entry.frame \notin owned
    /\ owned' = owned \cup {entry.frame}
    /\ maps' = [maps EXCEPT ![space][v] = entry]

Next == Boot \/ Create \/ Map

Spec == Init /\ [][Next]_vars

=============================================================================
