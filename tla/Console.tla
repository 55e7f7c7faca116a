------------------------------ MODULE Console ------------------------------
(***************************************************************************)
(* The text console of sys/unix_helpers.c: write_k, do_newline and rollup on *)
(* a screen of ROWS rows and COLS columns.  write_k is the step: do_write    *)
(* and the echo of the keyboard call it character by character.  A tab is a  *)
(* loop of write_k(' ') whose bound is computed anew in every iteration, so  *)
(* it is one step per iteration here; tab is its counter.                    *)
(***************************************************************************)
EXTENDS Integers

CONSTANTS
    ROWS,     \* text rows: 23 in the code, which numbers them 0 to 22
    COLS,     \* columns: 80 in the code
    Glyphs    \* the characters that are shown as they are

ASSUME ScreenAssumption == ROWS \in Nat /\ ROWS > 0 /\ COLS \in Nat /\ COLS > 1
ASSUME TabAssumption == COLS % 4 = 0
ASSUME GlyphAssumption == "blank" \in Glyphs

NoTab == -1

VARIABLES
    row, col,
    screen,   \* what is at each position of the display memory
    tab       \* the loop counter of a tab being written, or NoTab

vars == <<row, col, screen, tab>>

RowSet == 0..(ROWS - 1)
ColSet == 0..(COLS - 1)

(* A console as a record, so that calls of write_k can be put together. *)
Con == [row |-> row, col |-> col, screen |-> screen]
Become(con) ==
    /\ row' = con.row
    /\ col' = con.col
    /\ screen' = con.screen

(* The kernel does not clear what the boot loader left on the display. *)
Init ==
    /\ row = 0
    /\ col = 0
    /\ screen \in [RowSet -> [ColSet -> Glyphs]]
    /\ tab = NoTab
-----------------------------------------------------------------------------
(* rollup: every row moves up by one, the last one becomes blank. *)
rollup(scr) ==
    [r \in RowSet |-> IF r < ROWS - 1 THEN scr[r + 1] ELSE [c \in ColSet |-> "blank"]]

(* do_newline: the rest of the row is blanked. *)
do_newline(con) ==
    LET cleared == [con.screen EXCEPT ![con.row] =
                       [c \in ColSet |-> IF c >= con.col THEN "blank" ELSE @[c]]]
    IN  IF con.row + 1 > ROWS - 1
        THEN [row |-> ROWS - 1, col |-> 0, screen |-> rollup(cleared)]
        ELSE [row |-> con.row + 1, col |-> 0, screen |-> cleared]

(* write_k of an ordinary character. *)
Put(con, g) ==
    LET shown == [con.screen EXCEPT ![con.row][con.col] = g]
        next == [row |-> con.row, col |-> con.col + 1, screen |-> shown]
    IN  IF con.col + 1 >= COLS THEN do_newline(next) ELSE next

(* The cursor movement a backspace makes, before and after its blank. *)
Back(con) ==
    IF con.col = 0 /\ con.row > 0
    THEN [con EXCEPT !.col = COLS - 1, !.row = con.row - 1]
    ELSE IF con.col > 0 THEN [con EXCEPT !.col = con.col - 1] ELSE con
-----------------------------------------------------------------------------
WriteGlyph(g) ==
    /\ tab = NoTab
    /\ Become(Put(Con, g))
    /\ UNCHANGED tab

WriteNewline ==
    /\ tab = NoTab
    /\ Become(do_newline(Con))
    /\ UNCHANGED tab

WriteBackspace ==
    /\ tab = NoTab
    /\ Become(Back(Put(Back(Con), "blank")))
    /\ UNCHANGED tab

(* for (i = 0; i < col%4; ++i) write_k(' ') *)
WriteTab ==
    /\ tab = NoTab
    /\ tab' = 0
    /\ UNCHANGED <<row, col, screen>>

TabGoesOn == tab < col % 4

TabStep ==
    /\ tab # NoTab
    /\ TabGoesOn
    /\ Become(Put(Con, "blank"))
    /\ tab' = tab + 1

TabEnd ==
    /\ tab # NoTab
    /\ ~TabGoesOn
    /\ tab' = NoTab
    /\ UNCHANGED <<row, col, screen>>

write_k ==
    \/ \E g \in Glyphs : WriteGlyph(g)
    \/ WriteNewline \/ WriteBackspace \/ WriteTab \/ TabStep \/ TabEnd

Spec == Init /\ [][write_k]_vars
-----------------------------------------------------------------------------
(* CursorOnScreen: between two characters the cursor is on the text area:    *)
(* the next store of write_k is inside the display memory and above the      *)
(* status line, whatever mixture of characters, line breaks, backspaces and  *)
(* tabs came before.                                                         *)
CursorOnScreen == row \in RowSet /\ col \in ColSet

(* TabLandsOnStop: although the bound of its loop moves with the cursor, a    *)
(* tab ends on a column divisible by four, after less than four blanks.      *)
TabLandsOnStop ==
    [][TabEnd => col % 4 = 0 /\ tab < 4]_vars

(* BackspaceUndoes: a backspace right after a character brings the cursor    *)
(* back to it and blanks it, also across the end of a row and after the      *)
(* screen was rolled up.                                                     *)
BackspaceUndoes(con) ==
    \A g \in Glyphs :
        LET there == Put(con, g)
            back == Back(Put(Back(there), "blank"))
            lift == IF there.row = con.row /\ there.col = 0 THEN 1 ELSE 0
        IN  ROWS > 1 =>
              /\ back.col = con.col /\ back.row = con.row - lift
              /\ back.screen[back.row][back.col] = "blank"
              /\ \A r \in RowSet : r < back.row => back.screen[r] = con.screen[r + lift]
=============================================================================
