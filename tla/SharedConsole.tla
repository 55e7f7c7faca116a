--------------------------- MODULE SharedConsole ---------------------------
(***************************************************************************)
(* The console when several use it at once: processes preempted inside        *)
(* do_write and the echo of the keyboard interrupt (an interrupt is a writer  *)
(* nobody happens to interrupt).  write_k and do_newline are cut at every     *)
(* load and store of row, col and the display, in the order of the code       *)
(* generated at -O1: a and b are the registers that hold a row and a column.  *)
(* The display is addressed by row * COLS + col, so a column too far is the   *)
(* next row, and the row below the text rows is the status line.              *)
(***************************************************************************)
EXTENDS Console, FiniteSets

CONSTANTS
    Writers,
    FirstScreens,   \* what the display may show at the start,
    FirstCursors,   \* and where the cursor may be: row and column
    MaxWrites       \* bound: calls of write_k in a behaviour

ASSUME WritesAssumption == MaxWrites \in Nat
ASSUME ScreensAssumption ==
    /\ FirstScreens \subseteq [RowSet -> [ColSet -> Glyphs]]
    /\ FirstCursors \subseteq RowSet \X ColSet
    /\ "x" \in Glyphs

VARIABLES
    w,         \* per writer: where it is in write_k, and its registers
    writes,    \* number of calls, for the bound
    astray     \* a backspace moved to a position off the text

sharedVars == <<vars, w, writes, astray>>

NoCon == [row |-> 0, col |-> 0, screen |-> <<>>]
Outside == [pc |-> "out", op |-> "glyph", inner |-> FALSE, a |-> 0, b |-> 0, n |-> 0,
            before |-> NoCon, alone |-> FALSE]
Inside(v) == w[v].pc # "out"
Quiet == \A v \in Writers : ~Inside(v)

(* The cursor is where earlier output left it. *)
SharedInit ==
    /\ \E cursor \in FirstCursors : row = cursor[1] /\ col = cursor[2]
    /\ screen \in FirstScreens
    /\ tab = NoTab
    /\ w = [v \in Writers |-> Outside]
    /\ writes = 0
    /\ astray = FALSE
-----------------------------------------------------------------------------
(* w[v] further on: with its registers, or when they are loaded again before  *)
(* they are used, without.                                                   *)
Go(v, pc) == [w[v] EXCEPT !.pc = pc]
Forget(v, pc) == [w[v] EXCEPT !.pc = pc, !.a = 0, !.b = 0]
Call(v) == [Forget(v, "load_row") EXCEPT !.inner = TRUE, !.n = @ + 1]
Return(v) ==
    IF ~w[v].inner THEN Outside
    ELSE [Forget(v, IF w[v].op = "tab" THEN "tab" ELSE "again_col") EXCEPT !.inner = FALSE]
Becomes(v, rec) == w' = [w EXCEPT ![v] = rec]
At(v, pc) == w[v].pc = pc
Keeps == UNCHANGED <<vars, writes, astray>>
StoreCol(n) == col' = n /\ UNCHANGED <<row, screen, tab, writes, astray>>
StoreRow(n) == row' = n /\ UNCHANGED <<col, screen, tab, writes, astray>>
BackToCol(n) ==
    col' = n /\ astray' = (astray \/ n \notin ColSet) /\ UNCHANGED <<row, screen, tab, writes>>
BackToRow(n) ==
    row' = n /\ astray' = (astray \/ n \notin RowSet) /\ UNCHANGED <<col, screen, tab, writes>>

StoreChar(r, c, g) ==
    LET pos == r * COLS + c IN
    /\ screen' = IF pos < ROWS * COLS
                 THEN [screen EXCEPT ![pos \div COLS][pos % COLS] = g]
                 ELSE screen
    /\ UNCHANGED <<row, col, tab, writes, astray>>

Start(v, op) ==
    /\ ~Inside(v) /\ writes < MaxWrites
    /\ writes' = writes + 1
    /\ w' = [u \in Writers |->
                IF u = v
                THEN [Outside EXCEPT !.op = op, !.alone = Quiet,
                         !.before = IF Quiet THEN Con ELSE NoCon,
                         !.pc = CASE op = "newline" -> "nl_test"
                                  [] op = "tab" -> "tab"
                                  [] OTHER -> "load_row"]
                ELSE [w[u] EXCEPT !.alone = FALSE, !.before = NoCon]]
    /\ UNCHANGED <<vars, astray>>
-----------------------------------------------------------------------------
(* position is computed from one load of each. *)
LoadRow(v) == At(v, "load_row") /\ Becomes(v, [Go(v, "load_col") EXCEPT !.a = row]) /\ Keeps

(* A backspace looks at the registers, not at row and col again. *)
Left(v) == IF col = 0 /\ w[v].a > 0 THEN "back_end"
           ELSE IF col > 0 THEN "back_left" ELSE "call"
LoadCol(v) ==
    /\ At(v, "load_col")
    /\ Becomes(v, [Go(v, IF w[v].op # "backspace" \/ w[v].inner THEN "put" ELSE Left(v))
                      EXCEPT !.b = col])
    /\ Keeps

PutChar(v) ==
    /\ At(v, "put")
    /\ StoreChar(w[v].a, w[v].b, IF w[v].inner THEN "blank" ELSE "x")
    /\ Becomes(v, Forget(v, "inc_load"))

IncLoad(v) == At(v, "inc_load") /\ Becomes(v, [Go(v, "inc_store") EXCEPT !.b = col]) /\ Keeps

(* Variant: col is compared, not what was just stored. *)
M_IncStore_one_late(v) ==
    /\ At(v, "inc_store")
    /\ StoreCol(w[v].b + 1)
    /\ Becomes(v, IF w[v].b >= COLS THEN Forget(v, "nl_test") ELSE Return(v))

IncStore(v) ==
    /\ At(v, "inc_store")
    /\ StoreCol(w[v].b + 1)
    /\ Becomes(v, IF w[v].b + 1 >= COLS THEN Forget(v, "nl_test") ELSE Return(v))

(* A backspace moves by what it loaded, writes a blank, and moves again, this *)
(* time loading col first and row only at the left edge.                      *)
Back1(v) ==
    \/ At(v, "back_end") /\ StoreCol(COLS - 1) /\ Becomes(v, Go(v, "back_up"))
    \/ At(v, "back_up") /\ BackToRow(w[v].a - 1) /\ Becomes(v, Forget(v, "call"))
    \/ At(v, "back_left") /\ BackToCol(w[v].b - 1) /\ Becomes(v, Forget(v, "call"))
    \/ At(v, "call") /\ Becomes(v, Call(v)) /\ Keeps

Back2(v) ==
    \/ /\ At(v, "again_col")
       /\ Becomes(v, [Go(v, IF col = 0 THEN "again_row" ELSE "again_left") EXCEPT !.b = col])
       /\ Keeps
    \/ /\ At(v, "again_row")
       /\ Becomes(v, IF row > 0 THEN [Forget(v, "again_end") EXCEPT !.a = row] ELSE Outside)
       /\ Keeps
    \/ At(v, "again_left") /\ BackToCol(w[v].b - 1) /\ Becomes(v, Outside)
    \/ At(v, "again_end") /\ StoreCol(COLS - 1) /\ Becomes(v, Go(v, "again_up"))
    \/ At(v, "again_up") /\ BackToRow(w[v].a - 1) /\ Becomes(v, Outside)

Tab(v) ==
    /\ At(v, "tab")
    /\ Becomes(v, IF w[v].n < col % 4 THEN Call(v) ELSE Outside)
    /\ Keeps
-----------------------------------------------------------------------------
(* do_newline: row is loaded anew for every blank, the column of the next one *)
(* is what was just stored.                                                  *)
NlTest(v) ==
    /\ At(v, "nl_test")
    /\ Becomes(v, IF col < COLS THEN [Go(v, "nl_row") EXCEPT !.b = col] ELSE Forget(v, "nl_home"))
    /\ Keeps

NlBlank(v) ==
    \/ At(v, "nl_row") /\ Becomes(v, [Go(v, "nl_put") EXCEPT !.a = row]) /\ Keeps
    \/ /\ At(v, "nl_put")
       /\ StoreChar(w[v].a, w[v].b, "blank")
       /\ Becomes(v, Forget(v, "nl_load"))
    \/ At(v, "nl_load") /\ Becomes(v, [Go(v, "nl_store") EXCEPT !.b = col]) /\ Keeps

NlNext(v) ==
    /\ At(v, "nl_store")
    /\ StoreCol(w[v].b + 1)
    /\ Becomes(v, IF w[v].b + 1 < COLS THEN [Go(v, "nl_row") EXCEPT !.b = @ + 1]
                  ELSE Forget(v, "nl_home"))

NlHome(v) == At(v, "nl_home") /\ StoreCol(0) /\ Becomes(v, Go(v, "nl_rowload"))

NlLoadRow(v) ==
    At(v, "nl_rowload") /\ Becomes(v, [Go(v, "nl_rowstore") EXCEPT !.a = row]) /\ Keeps

NlStoreRow(v) ==
    /\ At(v, "nl_rowstore")
    /\ StoreRow(w[v].a + 1)
    /\ Becomes(v, IF w[v].a + 1 > ROWS - 1 THEN Forget(v, "rollup") ELSE Return(v))

(* Its copying, character by character, is one step here. *)
Rollup(v) ==
    /\ At(v, "rollup")
    /\ screen' = rollup(screen)
    /\ Becomes(v, Go(v, "nl_last"))
    /\ UNCHANGED <<row, col, tab, writes, astray>>

(* Variant: after the screen was rolled up the row is counted down instead. *)
M_LastRow_minus(v) == At(v, "nl_last") /\ StoreRow(row - 1) /\ Becomes(v, Return(v))

LastRow(v) == At(v, "nl_last") /\ StoreRow(ROWS - 1) /\ Becomes(v, Return(v))

AllWritten == writes = MaxWrites /\ Quiet /\ UNCHANGED sharedVars

Write(v) ==
    \/ \E op \in {"glyph", "newline", "backspace", "tab"} : Start(v, op)
    \/ LoadRow(v) \/ LoadCol(v) \/ PutChar(v) \/ IncLoad(v) \/ IncStore(v)
    \/ Back1(v) \/ Back2(v) \/ Tab(v)
    \/ NlTest(v) \/ NlBlank(v) \/ NlNext(v) \/ NlHome(v)
    \/ NlLoadRow(v) \/ NlStoreRow(v) \/ Rollup(v) \/ LastRow(v)

SharedNext == (\E v \in Writers : Write(v)) \/ AllWritten

SharedSpec == SharedInit /\ [][SharedNext]_sharedVars
-----------------------------------------------------------------------------
(* CursorRepaired: the cursor is off the text only while the writer that put  *)
(* it there is about to bring it back, so it is on the text whenever nobody   *)
(* writes, although each writer may store what the other made obsolete.  The  *)
(* one exception is a backspace that loaded a position off the text, and      *)
(* stores its neighbour after the other writer has brought the cursor back.   *)
CursorRepaired ==
    /\ row >= 0 /\ col >= 0
    /\ ~astray =>
         /\ col >= COLS => \E v \in Writers : w[v].pc \in
                {"nl_test", "nl_row", "nl_put", "nl_load", "nl_store", "nl_home"}
         /\ row >= ROWS => \E v \in Writers : w[v].pc \in {"rollup", "nl_last"}

(* AloneIsConsole: a write that nobody else's overlaps, started after others  *)
(* interleaved in any way, does exactly what module Console says write_k does *)
(* in one step, to the cursor and to every character of the screen; a tab     *)
(* ends on a column divisible by four, although the bound of its loop moves.  *)
Blanks(con) ==
    LET after[n \in 0..3] == IF n = 0 THEN con ELSE Put(after[n - 1], "blank")
    IN  after[CHOOSE n \in 0..3 : n >= after[n].col % 4 /\ \A m \in 0..(n - 1) : m < after[m].col % 4]
Expected(op, con) ==
    CASE op = "glyph" -> Put(con, "x")
      [] op = "newline" -> do_newline(con)
      [] op = "backspace" -> Back(Put(Back(con), "blank"))
      [] op = "tab" -> Blanks(con)
AloneIsConsole ==
    [][\A v \in Writers :
          (/\ Inside(v) /\ w'[v].pc = "out" /\ w[v].alone
           /\ w[v].before.row \in RowSet /\ w[v].before.col \in ColSet)
          => /\ Con' = Expected(w[v].op, w[v].before)
             /\ w[v].op = "tab" => col' % 4 = 0]_sharedVars
=============================================================================
