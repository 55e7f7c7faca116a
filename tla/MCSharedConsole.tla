-------------------------- MODULE MCSharedConsole --------------------------
(* An instance of SharedConsole for TLC: at first every position of the       *)
(* display shows a character of its own, so that a row in the wrong place, or *)
(* a blank too many, shows.                                                  *)
EXTENDS SharedConsole, TLC

Marks == <<"m1", "m2", "m3", "m4", "m5", "m6", "m7", "m8">>
MCGlyphs == {"blank", "x"} \cup {Marks[k] : k \in DOMAIN Marks}
MCScreens == {[r \in RowSet |-> [c \in ColSet |-> Marks[r * COLS + c + 1]]]}

(* The home position and the ends of the text; the rest is a write away. *)
MCCursors == {<<0, 0>>, <<0, COLS - 1>>, <<ROWS - 1, 0>>, <<ROWS - 1, COLS - 1>>}

(* write_k as module Console has it, wherever the cursor is.                  *)
ASSUME EveryBackspaceUndoes ==
    \A r \in RowSet, c \in ColSet, scr \in MCScreens :
        BackspaceUndoes([row |-> r, col |-> c, screen |-> scr])

MCSymmetry == Permutations(Writers)
=============================================================================
