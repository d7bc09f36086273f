------------------------------ MODULE Console ------------------------------
(***************************************************************************)
(* The framebuffer console (devices/framebuffer.c): printf_fb prints one   *)
(* string at a time, puts_fb and putc_fb one character per step, with an   *)
(* escape machine whose state outlives the string.                         *)
(*                                                                         *)
(* An exception may come between any two characters.  Its handler          *)
(* (kernel/int/interrupt.c) prints the panic messages through the same     *)
(* console and never returns.  Characters are their ASCII codes; pixels    *)
(* are left out, and so is what the kernel does once a digit has been      *)
(* stored outside nbr.                                                     *)
(***************************************************************************)
EXTENDS Libc

CONSTANTS
  Texts,          \* the strings the kernel prints
  PanicTexts,     \* the strings the handler prints, in order
  FONT_WIDTH, FONT_HEIGHT, FONT_SPACE_Y,
  DEFAULT_FG,     \* the colour of init_fb and of a reset
  defaultX,       \* the column init_fb is given
  Height,         \* framebuffer_height
  MaxStrings,     \* bound on the strings printed
  MaxExceptions   \* bound on the exceptions, one in another's handler

NEWLINE   == 10
ESC       == 27
SEMICOLON == 59
BRACKET   == 91
EM        == 109

NBR == 3        \* bytes of nbr

(* colorscheme[digit - 30], where there is one.                            *)
Colours == {DEFAULT_FG} \cup (0 .. 7)

(* An escape sequence of a text, from its ESC at i to its 'm' at j, with   *)
(* the number between.                                                     *)
IsEscape(s, i, j) ==
  /\ i + 1 < j
  /\ s[i] = ESC /\ s[i+1] = BRACKET /\ s[j] = EM
  /\ \A k \in (i + 2) .. (j - 1) : s[k] \in DIGIT0 .. (DIGIT0 + 9)

(* The strings of the kernel: an ESC comes only in a whole sequence, whose *)
(* number leaves room for a NUL, as those of libk/debug.h and of the       *)
(* handler do.                                                             *)
Strings ==
  {s \in Seq(1 .. 127) :
     \A i \in DOMAIN s :
       s[i] = ESC => \E j \in DOMAIN s : IsEscape(s, i, j) /\ j - i - 2 < NBR}

ASSUME TextsAssumption ==
  /\ Texts \subseteq Strings
  /\ PanicTexts \in Seq(Strings)

(* A newline leaves the cursor a character's width to the left of the      *)
(* column that init_fb is given.                                           *)
ASSUME ScreenAssumption ==
  /\ FONT_WIDTH \in Nat /\ FONT_HEIGHT \in Nat /\ FONT_SPACE_Y \in Nat
  /\ Height \in Nat /\ defaultX \in Nat
  /\ FONT_WIDTH <= defaultX

VARIABLES
  waiting,      \* the strings still to be printed by this caller
  text,         \* what puts_fb has yet to print of the current one
  printing,     \* printf_fb is running
  state,        \* the escape machine
  nbr, ptr,     \* the digits of an escape sequence, and how many
  fg,           \* config->fg
  x, y,         \* config->x, config->y
  overrun,      \* a digit was stored outside nbr
  strings,      \* how many strings were started
  exceptions,   \* how many exceptions came
  said,         \* ghost: what was printed of the current string
  before        \* ghost: colour and cursor when it began

machine == <<state, nbr, ptr, fg>>
counts  == <<strings, exceptions>>
vars    == <<waiting, text, printing, machine, x, y, overrun, counts, said, before>>

Init ==
  /\ waiting = <<>> /\ text = <<>> /\ printing = FALSE
  /\ state = "OFF" /\ nbr = [i \in 0 .. (NBR - 1) |-> 0] /\ ptr = 0
  /\ fg = DEFAULT_FG /\ x = defaultX /\ y = FONT_SPACE_Y
  /\ overrun = FALSE /\ strings = 0 /\ exceptions = 0
  /\ said = <<>> /\ before = [fg |-> DEFAULT_FG, x |-> defaultX, y |-> FONT_SPACE_Y]

-----------------------------------------------------------------------------
Unterminated == \A i \in DOMAIN nbr : nbr[i] # 0

Painted_any_low(digit, colour) == IF digit < 38 THEN digit - 30 ELSE colour

Painted(digit, colour) ==
  CASE digit = 0         -> DEFAULT_FG
    [] digit \in 30 .. 37 -> digit - 30
    [] OTHER             -> colour

(* The machine's part of putc_fb: characters that draw nothing.            *)
Escape(c) ==
  /\ c = ESC
  /\ state' = "PRE_PARSING"
  /\ UNCHANGED <<nbr, ptr, fg, overrun>>

(* nbr[ptr++] = c: nothing tells whether nbr has a byte there.             *)
Digit(c) ==
  /\ state = "PARSING"
  /\ c \notin {NEWLINE, ESC, SEMICOLON, EM}
  /\ nbr' = [i \in DOMAIN nbr |-> IF i = ptr THEN c ELSE nbr[i]]
  /\ ptr' = ptr + 1
  /\ overrun' = (ptr \notin DOMAIN nbr)
  /\ UNCHANGED <<state, fg>>

Bracket(c) ==
  /\ state = "PRE_PARSING" /\ c = BRACKET
  /\ state' = "PARSING"
  /\ UNCHANGED <<nbr, ptr, fg, overrun>>

(* 'm' ends the number.  atoi of a full buffer reads what lies behind it:  *)
(* any colour may come of it.                                              *)
Colour_kept_count(c) ==
  /\ state = "PARSING" /\ c = EM
  /\ state' = "OFF"
  /\ fg' = Painted(atoi(Chars(nbr)), fg)
  /\ nbr' = [i \in DOMAIN nbr |-> 0]
  /\ UNCHANGED <<ptr, overrun>>

Colour_kept_digits(c) ==
  /\ state = "PARSING" /\ c = EM
  /\ state' = "OFF"
  /\ fg' = Painted(atoi(Chars(nbr)), fg)
  /\ ptr' = 0
  /\ UNCHANGED <<nbr, overrun>>

Colour(c) ==
  /\ state = "PARSING" /\ c = EM
  /\ state' = "OFF"
  /\ \/ fg' = Painted(atoi(Chars(nbr)), fg)
     \/ Unterminated /\ fg' \in Colours
  /\ nbr' = [i \in DOMAIN nbr |-> 0]
  /\ ptr' = 0
  /\ UNCHANGED overrun

Draws(c) ==
  /\ c \notin {NEWLINE, ESC}
  /\ \/ state = "OFF"
     \/ state = "PRE_PARSING" /\ c # BRACKET
     \/ state = "PARSING" /\ c = SEMICOLON

Moved_no_return(c, at) ==
  CASE c = NEWLINE -> [at EXCEPT !.y = @ + FONT_SPACE_Y]
    [] Draws(c)    -> [at EXCEPT !.x = @ + FONT_WIDTH]
    [] OTHER       -> at

(* putc_fb moves the cursor from where puts_fb left it.                    *)
Moved(c, at) ==
  CASE c = NEWLINE -> [x |-> defaultX - FONT_WIDTH, y |-> at.y + FONT_SPACE_Y]
    [] Draws(c)    -> [at EXCEPT !.x = @ + FONT_WIDTH]
    [] OTHER       -> at

(* puts_fb: at the bottom each character goes down another line.           *)
Feed(at) ==
  IF at.y + FONT_HEIGHT >= Height
  THEN [x |-> defaultX, y |-> at.y + FONT_SPACE_Y] ELSE at

putc_fb(c) ==
  /\ \/ Escape(c)
     \/ Digit(c)
     \/ Bracket(c)
     \/ Colour(c)
     \/ (c = NEWLINE \/ Draws(c)) /\ UNCHANGED <<machine, overrun>>
  /\ LET to == Moved(c, Feed([x |-> x, y |-> y])) IN x' = to.x /\ y' = to.y

-----------------------------------------------------------------------------
Starts(string) ==
  /\ ~printing /\ ~overrun
  /\ printing' = TRUE
  /\ text' = string
  /\ state' = "OFF"
  /\ said' = <<>>
  /\ before' = [fg |-> fg, x |-> x, y |-> y]
  /\ UNCHANGED <<nbr, ptr, fg, x, y, overrun, exceptions>>

(* The kernel prints a string; the handler prints its own, one by one.     *)
printf_fb(string) ==
  /\ exceptions = 0 /\ strings < MaxStrings
  /\ Starts(string)
  /\ strings' = strings + 1
  /\ UNCHANGED waiting

printf_fb_panic ==
  /\ waiting # <<>>
  /\ Starts(Head(waiting))
  /\ waiting' = Tail(waiting)
  /\ UNCHANGED strings

puts_fb ==
  /\ printing /\ ~overrun /\ text # <<>>
  /\ putc_fb(Head(text))
  /\ text' = Tail(text)
  /\ said' = Append(said, Head(text))
  /\ UNCHANGED <<waiting, printing, counts, before>>

printf_fb_return ==
  /\ printing /\ ~overrun /\ text = <<>>
  /\ printing' = FALSE
  /\ x' = defaultX
  /\ y' = y + FONT_SPACE_Y
  /\ UNCHANGED <<waiting, text, machine, overrun, counts, said, before>>

(* Whoever was printing is left where it was.                              *)
exception ==
  /\ ~overrun /\ exceptions < MaxExceptions
  /\ exceptions' = exceptions + 1
  /\ waiting' = PanicTexts
  /\ printing' = FALSE
  /\ text' = <<>>
  /\ UNCHANGED <<machine, x, y, overrun, strings, said, before>>

(* Nothing more to print: the kernel's loop, or cli; hlt in the handler.   *)
Idle ==
  /\ ~printing /\ waiting = <<>> /\ (strings = MaxStrings \/ exceptions > 0)
  /\ UNCHANGED vars

Lost == overrun /\ UNCHANGED vars

Next ==
  \/ \E string \in Texts : printf_fb(string)
  \/ printf_fb_panic
  \/ puts_fb
  \/ printf_fb_return
  \/ exception
  \/ Idle
  \/ Lost

Spec == Init /\ [][Next]_vars

-----------------------------------------------------------------------------
(* The escape sequences of a text, and the number in one.                  *)
Escapes(s) == {span \in (DOMAIN s) \X (DOMAIN s) : IsEscape(s, span[1], span[2])}

Number(s, span) == Digits(SubSeq(s, span[1] + 2, span[2] - 1))

(* The colour a text ends in: that of the last sequence that has one.      *)
ColourOf(s, colour) ==
  LET effective == {span \in Escapes(s) : Number(s, span) \in {0} \cup (30 .. 37)}
      last      == {span \in effective : \A other \in effective : other[1] <= span[1]}
  IN  IF last = {} THEN colour
      ELSE Painted(Number(s, CHOOSE span \in last : TRUE), colour)

(* The characters of a text that are in an escape sequence, complete or    *)
(* at its end.                                                             *)
InEscape(s) ==
  {k \in DOMAIN s :
     \E i \in 1 .. k :
       /\ s[i] = ESC
       /\ \A j \in i .. (k - 1) : s[j] # EM}

(* The type of every variable.  ptr counts on past the buffer: it is       *)
(* beyond the last byte's successor exactly when a digit was stored        *)
(* outside nbr, which is as far as a run goes.                             *)
TypeOK ==
  /\ waiting \in Seq(Seq(1 .. 127)) /\ text \in Seq(1 .. 127)
  /\ state \in {"OFF", "PRE_PARSING", "PARSING"}
  /\ nbr \in [0 .. (NBR - 1) -> 0 .. 127]
  /\ ptr \in 0 .. (NBR + 1)
  /\ overrun <=> ptr = NBR + 1
  /\ fg \in Colours
  /\ x \in Nat /\ y \in Nat

(* Unless an exception broke into a string, what is drawn has the colour   *)
(* its own text and the colour it began with say, whatever was printed     *)
(* before it.                                                              *)
ColourFollowsText ==
  exceptions = 0 => fg = ColourOf(said, before.fg)

(* Above the bottom line a character stands where the text puts it: no     *)
(* escape sequence takes up room, and a line after the first begins one    *)
(* column to the left.                                                     *)
CursorFollowsText ==
  LET breaks  == {k \in DOMAIN said : said[k] = NEWLINE}
      drawn   == (DOMAIN said \ InEscape(said)) \ breaks
      onLine  == {k \in drawn : \A b \in breaks : b < k}
      column  == IF breaks = {} THEN before.x ELSE defaultX - FONT_WIDTH
  IN  printing /\ y + FONT_HEIGHT < Height =>
        /\ y = before.y + FONT_SPACE_Y * Cardinality(breaks)
        /\ x = column + FONT_WIDTH * Cardinality(onLine)

(* The three bytes of nbr always hold a number and its NUL, and between    *)
(* two strings nothing is left in them, unless an exception came.          *)
NumberFits ==
  exceptions = 0 =>
    /\ ~overrun /\ ~Unterminated
    /\ ~printing => ptr = 0 /\ \A i \in DOMAIN nbr : nbr[i] = 0

=============================================================================
