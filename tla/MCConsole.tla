----------------------------- MODULE MCConsole -----------------------------
(***************************************************************************)
(* The strings the kernel prints, cut down: log lines with their level in  *)
(* colour (libk/debug.h), an assertion's message, the empty string, and    *)
(* the handler's "!!! PANIC !!!" and register lines.                       *)
(***************************************************************************)
EXTENDS Console, TLC

A == 65

SetColour(tens, units) == <<ESC, BRACKET, DIGIT0 + tens, DIGIT0 + units, EM>>

Reset == <<ESC, BRACKET, DIGIT0, EM>>

MCTexts ==
  {<<A>> \o SetColour(3, 2) \o <<A>> \o Reset,
   <<A>> \o SetColour(3, 1) \o <<A>> \o Reset \o <<A>>,
   <<NEWLINE, A, A>>,
   <<>>}

MCPanicTexts == <<<<NEWLINE, A>>, SetColour(3, 1) \o <<A>> \o Reset>>

=============================================================================
