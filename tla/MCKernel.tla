------------------------------ MODULE MCKernel ------------------------------
(***************************************************************************)
(* The kernel with the timer, a line of the master and the first line of   *)
(* the slave; drivers with a name shorter and one longer than those of the *)
(* kernel's own modules.                                                   *)
(***************************************************************************)
EXTENDS Kernel

MCDrivers == {<<65, 67>>, <<80, 73, 73, 88>>}

=============================================================================
