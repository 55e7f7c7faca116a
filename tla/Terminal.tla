------------------------------ MODULE Terminal ------------------------------
(***************************************************************************)
(* The way of a character from the key to the reader: the keyboard interrupt  *)
(* feeds the decoder (module Keyboard), buffer_add_char puts what comes out   *)
(* into the input ring (module Stdin) and, if _add_char returns 1, writes it  *)
(* to the console with write_k; do_read copies lines out of the ring.  Of the *)
(* console only what matters here is kept: what is shown of the line that is  *)
(* being typed.                                                              *)
(***************************************************************************)
EXTENDS Keyboard, Stdin

(* Stdin's own typist is replaced by Keyboard's, so typed stays 0.  The keys  *)
(* stand for all keys that are no modifiers, by what becomes of them.        *)
ASSUME TerminalKeysAssumption == Keys \subseteq {"d", "nl", "bs"}

VARIABLES
    shown,     \* what was echoed since the last line end
    swallowed  \* the ring was full when a character was typed

reader == <<copyVars, typed>>
terminalVars == <<keyVars, vars, shown, swallowed>>

TerminalInit ==
    /\ KeyInit
    /\ Init
    /\ shown = <<>>
    /\ swallowed = FALSE
-----------------------------------------------------------------------------
(* fill_single_elem_buffer: the keys "nl" and "bs" are 0x1c and 0x0e, ctrl    *)
(* takes 64 off, also off them; a release code is an index beyond the table   *)
(* of characters, where anything may be.                                     *)
Plain == [k \in {"d", "nl", "bs"} |-> IF k = "d" THEN "a" ELSE k]
CharsOf(c) ==
    IF c.key[2] = "up" THEN Chars \cup {"bs"}
    ELSE IF c.ctrl THEN {IF c.key[1] = "d" THEN "eof" ELSE "a"}
    ELSE {Plain[c.key[1]]}

(* Variant: a backspace is carried out, but not shown. *)
M_Echoed_no_backspace(c) == ~(c = "bs")

(* What _add_char returns: 0 only for a backspace with nothing to take back;  *)
(* a character that a full ring swallows is shown.                           *)
Echoed(c) == ~(c = "bs" /\ Empty)

Echo(c) ==
    IF c \in Terminators THEN <<>>
    ELSE IF c # "bs" THEN Append(shown, c)
    ELSE IF shown = <<>> THEN <<>> ELSE SubSeq(shown, 1, Len(shown) - 1)

AddChar(c) ==
    /\ AddIgnored(c) \/ AddBackspace(c) \/ AddStored(c)
    /\ shown' = IF Echoed(c) THEN Echo(c) ELSE shown
    /\ swallowed' = (swallowed \/ Full)
    /\ UNCHANGED reader

(* The keyboard interrupt: a code that completes no character changes only    *)
(* the decoder.                                                              *)
KeyboardInterrupt ==
    /\ \E k \in Keys \cup Modifiers : Press(k) \/ Release(k)
    /\ IF state = "S_NEED_1"
       THEN \E c \in CharsOf(Char(key, shift, ctrl)) : AddChar(c)
       ELSE UNCHANGED <<vars, shown, swallowed>>

Read ==
    /\ \/ \E n \in ReadSizes : copy_input(n)
       \/ CopyChar \/ CopyNewline
    /\ UNCHANGED <<keyVars, typed, shown, swallowed>>

Idle ==
    /\ pressed = MaxStrokes /\ held = {} /\ ~copying /\ ~buffer_is_ready
    /\ UNCHANGED terminalVars

TerminalNext == KeyboardInterrupt \/ Read \/ Idle

TerminalSpec == TerminalInit /\ [][TerminalNext]_terminalVars
-----------------------------------------------------------------------------
(* EchoMatches: the line on the screen is the line a reader will get: what    *)
(* was echoed since the last line end is what the ring holds behind the last  *)
(* line end, whatever was typed, taken back and read meanwhile, as long as    *)
(* the ring is intact and was never full.                                    *)
LastLine(line) ==
    LET ends == {k \in DOMAIN line : line[k] \in Terminators}
        last == IF ends = {} THEN 0 ELSE CHOOSE k \in ends : \A j \in ends : j <= k
    IN  SubSeq(line, last + 1, Len(line))
EchoMatches == intact /\ ~swallowed => LastLine(Window) = shown
=============================================================================
