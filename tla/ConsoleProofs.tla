--------------------------- MODULE ConsoleProofs ---------------------------
(***************************************************************************)
(* Proofs about modules Console and SharedConsole, for every size of the      *)
(* screen and any number of writers.                                         *)
(***************************************************************************)
EXTENDS SharedConsole, TLAPS

(* What every call of write_k leaves behind: a cursor on the screen, a screen *)
(* of the right shape, and in a tab's loop a counter below the column's       *)
(* distance from the last tab stop.                                          *)
ConsoleInv ==
    /\ CursorOnScreen
    /\ screen \in [RowSet -> [ColSet -> Glyphs]]
    /\ tab \in {NoTab} \cup 0..3
    /\ tab # NoTab => col % 4 = 0 \/ tab < col % 4

(* The consoles the operators of the module work on. *)
Consoles == [row : RowSet, col : ColSet, screen : [RowSet -> [ColSet -> Glyphs]]]

(* A console whose last row may have just been filled. *)
Filled == [row : RowSet, col : 0..COLS, screen : [RowSet -> [ColSet -> Glyphs]]]

(* do_newline ends at the beginning of a row of the screen. *)
LEMMA NewlineOnScreen ==
    ASSUME NEW con \in Filled
    PROVE  do_newline(con) \in Consoles /\ do_newline(con).col = 0
  <1> DEFINE cleared == [con.screen EXCEPT ![con.row] =
                            [c \in ColSet |-> IF c >= con.col THEN "blank" ELSE @[c]]]
  <1>1. cleared \in [RowSet -> [ColSet -> Glyphs]]
    BY GlyphAssumption DEF Filled
  <1>2. rollup(cleared) \in [RowSet -> [ColSet -> Glyphs]]
    <2> HIDE DEF cleared
    <2>1. \A r \in RowSet : r < ROWS - 1 => r + 1 \in RowSet
      BY ScreenAssumption DEF RowSet
    <2> QED BY <1>1, <2>1, GlyphAssumption DEF rollup
  <1>3. ROWS - 1 \in RowSet /\ 0 \in ColSet
    BY ScreenAssumption DEF RowSet, ColSet
  <1>4. con.row + 1 <= ROWS - 1 => con.row + 1 \in RowSet
    BY ScreenAssumption DEF Filled, RowSet
  <1>5. do_newline(con) = IF con.row + 1 > ROWS - 1
        THEN [row |-> ROWS - 1, col |-> 0, screen |-> rollup(cleared)]
        ELSE [row |-> con.row + 1, col |-> 0, screen |-> cleared]
    BY DEF do_newline
  <1>6. con.row \in Int
    BY DEF Filled, RowSet
  <1> HIDE DEF cleared
  <1> QED BY <1>1, <1>2, <1>3, <1>4, <1>5, <1>6, ScreenAssumption DEF Consoles

(* write_k of a character advances by one column, or to the next row. *)
LEMMA PutOnScreen ==
    ASSUME NEW con \in Consoles, NEW g \in Glyphs
    PROVE  /\ Put(con, g) \in Consoles
           /\ Put(con, g).col = IF con.col + 1 >= COLS THEN 0 ELSE con.col + 1
  <1> DEFINE shown == [con.screen EXCEPT ![con.row][con.col] = g]
             next == [row |-> con.row, col |-> con.col + 1, screen |-> shown]
  <1>1. shown \in [RowSet -> [ColSet -> Glyphs]]
    BY DEF Consoles
  <1>2. con.col + 1 \in 0..COLS
    BY ScreenAssumption DEF Consoles, ColSet
  <1>3. next \in Filled
    <2> HIDE DEF shown
    <2> QED BY <1>1, <1>2 DEF Consoles, Filled
  <1>4. Put(con, g) = IF con.col + 1 >= COLS THEN do_newline(next) ELSE next
    BY DEF Put
  <1>5. CASE con.col + 1 >= COLS
    <2> HIDE DEF next
    <2> QED BY <1>3, <1>4, <1>5, NewlineOnScreen
  <1>6. CASE ~(con.col + 1 >= COLS)
    <2>1. con.col + 1 \in ColSet
      BY <1>2, <1>6, ScreenAssumption DEF ColSet
    <2> HIDE DEF shown
    <2> QED BY <1>1, <1>4, <1>6, <2>1 DEF Consoles
  <1> QED BY <1>5, <1>6

(* The movement of a backspace stays on the screen. *)
LEMMA BackOnScreen ==
    ASSUME NEW con \in Consoles
    PROVE  Back(con) \in Consoles
  <1>1. COLS - 1 \in ColSet
    BY ScreenAssumption DEF ColSet
  <1>2. con.row > 0 => con.row - 1 \in RowSet
    BY ScreenAssumption DEF Consoles, RowSet
  <1>3. con.col > 0 => con.col - 1 \in ColSet
    BY ScreenAssumption DEF Consoles, ColSet
  <1> QED BY <1>1, <1>2, <1>3 DEF Back, Consoles

(* The console that is displayed is one of these. *)
LEMMA ConOnScreen ==
    ASSUME ConsoleInv
    PROVE  Con \in Consoles
  BY DEF ConsoleInv, CursorOnScreen, Con, Consoles

(* Becoming such a console keeps the invariant outside a tab. *)
LEMMA BecomeInv ==
    ASSUME NEW con \in Consoles, Become(con), tab' = NoTab
    PROVE  ConsoleInv'
  BY DEF ConsoleInv, CursorOnScreen, Become, Consoles, NoTab

(* The loop of a tab: the counter stays behind the column it races with,      *)
(* until the column reaches the next tab stop.                               *)
LEMMA TabStepInv ==
    ASSUME ConsoleInv, TabStep
    PROVE  ConsoleInv'
  <1>1. Con \in Consoles /\ Con.col = col
    BY ConOnScreen DEF Con
  <1>2. /\ Put(Con, "blank") \in Consoles
        /\ Put(Con, "blank").col = IF col + 1 >= COLS THEN 0 ELSE col + 1
    BY <1>1, PutOnScreen, GlyphAssumption
  <1>3. /\ row' \in RowSet /\ col' \in ColSet
        /\ screen' \in [RowSet -> [ColSet -> Glyphs]]
        /\ col' = IF col + 1 >= COLS THEN 0 ELSE col + 1
    BY <1>2 DEF TabStep, Become, Consoles
  <1>4. col \in 0..(COLS - 1) /\ tab \in 0..3 /\ tab < col % 4
    BY DEF ConsoleInv, CursorOnScreen, ColSet, TabStep, TabGoesOn, NoTab
  <1>5. tab' = tab + 1 /\ tab' \in 0..3
    BY <1>4 DEF TabStep
  <1>6. col' % 4 = 0 \/ tab' < col' % 4
    BY <1>3, <1>4, <1>5, ScreenAssumption, TabAssumption
  <1> QED BY <1>3, <1>5, <1>6 DEF ConsoleInv, CursorOnScreen

(* Every step keeps the invariant. *)
LEMMA StepInv ==
    ASSUME ConsoleInv, [write_k]_vars
    PROVE  ConsoleInv'
  <1>1. ASSUME NEW g \in Glyphs, WriteGlyph(g) PROVE ConsoleInv'
    BY <1>1, ConOnScreen, PutOnScreen, BecomeInv DEF WriteGlyph
  <1>2. CASE WriteNewline
    <2>1. Con \in Filled
      BY ConOnScreen, ScreenAssumption DEF Consoles, Filled, ColSet
    <2> QED BY <1>2, <2>1, NewlineOnScreen, BecomeInv DEF WriteNewline
  <1>3. CASE WriteBackspace
    <2>1. Back(Put(Back(Con), "blank")) \in Consoles
      BY ConOnScreen, BackOnScreen, PutOnScreen, GlyphAssumption
    <2> QED BY <1>3, <2>1, BecomeInv DEF WriteBackspace
  <1>4. CASE WriteTab
    <2>1. col \in Int /\ (col % 4 = 0 \/ 0 < col % 4)
      BY DEF ConsoleInv, CursorOnScreen, ColSet
    <2> QED BY <1>4, <2>1 DEF WriteTab, ConsoleInv, CursorOnScreen
  <1>5. CASE TabStep
    BY <1>5, TabStepInv
  <1>6. CASE TabEnd
    BY <1>6 DEF TabEnd, ConsoleInv, CursorOnScreen, NoTab
  <1>7. CASE UNCHANGED vars
    BY <1>7 DEF vars, ConsoleInv, CursorOnScreen
  <1> QED BY <1>1, <1>2, <1>3, <1>4, <1>5, <1>6, <1>7 DEF write_k

(* The invariant holds in every behaviour. *)
THEOREM ConsoleInvariant == Spec => []ConsoleInv
  <1>1. Init => ConsoleInv
    BY ScreenAssumption DEF Init, ConsoleInv, CursorOnScreen, RowSet, ColSet, NoTab
  <1> QED BY <1>1, StepInv, PTL DEF Spec

(* write_k never stores outside the text rows of the display memory. *)
THEOREM CursorStaysOnScreen == Spec => []CursorOnScreen
  BY ConsoleInvariant, PTL DEF ConsoleInv

(* A tab ends on a tab stop. *)
THEOREM TabsLandOnStops == Spec => TabLandsOnStop
  <1>1. ASSUME ConsoleInv, TabEnd PROVE col % 4 = 0 /\ tab < 4
    BY <1>1 DEF ConsoleInv, TabEnd, TabGoesOn, NoTab, CursorOnScreen, ColSet
  <1>2. ConsoleInv /\ [write_k]_vars => [TabEnd => col % 4 = 0 /\ tab < 4]_vars
    BY <1>1
  <1> QED BY <1>2, ConsoleInvariant, PTL DEF Spec, TabLandsOnStop
-----------------------------------------------------------------------------
(* Several writers.  Where write_k can be, and its registers.                *)
NlCols == {"nl_test", "nl_row", "nl_put", "nl_load", "nl_store", "nl_home"}
NlRows == {"rollup", "nl_last"}
PCs == {"out", "load_row", "load_col", "put", "inc_load", "inc_store",
        "back_end", "back_up", "back_left", "call", "tab",
        "again_col", "again_row", "again_left", "again_end", "again_up",
        "nl_rowload", "nl_rowstore"} \cup NlCols \cup NlRows
Ops == {"glyph", "newline", "backspace", "tab"}
Screens == [RowSet -> [ColSet -> Glyphs]]
Cons == [row : Nat, col : Nat, screen : Screens \cup {<<>>}]
Regs == [pc : PCs, op : Ops, inner : BOOLEAN, a : Nat, b : Nat, n : Nat,
         before : Cons, alone : BOOLEAN]

(* A writer about to move back loaded a position it can move back from. *)
CanMove(r) ==
    /\ r.pc \in {"back_left", "again_left"} => r.b > 0
    /\ r.pc \in {"back_end", "back_up", "again_end", "again_up"} => r.a > 0

Beside == /\ col >= COLS => \E v \in Writers : w[v].pc \in NlCols
          /\ row >= ROWS => \E v \in Writers : w[v].pc \in NlRows

SharedTypeOK ==
    /\ row \in Nat /\ col \in Nat /\ screen \in Screens
    /\ w \in [Writers -> Regs]

SharedInv ==
    /\ SharedTypeOK
    /\ \A v \in Writers : CanMove(w[v])
    /\ astray \/ Beside

(* What a step of one writer must do to keep the invariant: a cursor off the  *)
(* text is its own to repair, or was another's before.                       *)
LEMMA WriterSteps ==
    ASSUME SharedInv, NEW v \in Writers, NEW r, w' = [w EXCEPT ![v] = r],
           r \in Regs, CanMove(r), row' \in Nat, col' \in Nat, screen' \in Screens,
           astray => astray',
           astray' \/ (col' >= COLS => r.pc \in NlCols \/ (col >= COLS /\ w[v].pc \notin NlCols)),
           astray' \/ (row' >= ROWS => r.pc \in NlRows \/ (row >= ROWS /\ w[v].pc \notin NlRows))
    PROVE  SharedInv'
  <1>1. w' \in [Writers -> Regs] /\ w'[v] = r /\ \A u \in Writers \ {v} : w'[u] = w[u]
    BY DEF SharedInv, SharedTypeOK
  <1>2. SharedTypeOK'
    <2>1. Screens' = Screens /\ Regs' = Regs
      BY DEF Screens, Regs, Cons
    <2> QED BY <1>1 DEF SharedTypeOK, Regs, PCs, Ops, Cons, Screens, RowSet, ColSet, NlCols, NlRows
  <1>3. ASSUME NEW u \in Writers PROVE CanMove(w'[u])
    BY <1>1 DEF SharedInv
  <1>4. (\A u \in Writers : CanMove(w[u]))'
    BY <1>3 DEF CanMove
  <1>5. ASSUME ~astray' PROVE Beside'
    <2>1. Beside /\ ~astray
      BY <1>5 DEF SharedInv
    <2>2. ASSUME col' >= COLS PROVE \E u \in Writers : w'[u].pc \in NlCols
      <3>1. CASE r.pc \in NlCols
        BY <1>1, <3>1
      <3>2. CASE col >= COLS /\ w[v].pc \notin NlCols
        BY <1>1, <2>1, <3>2 DEF Beside
      <3> QED BY <1>5, <2>2, <3>1, <3>2
    <2>3. ASSUME row' >= ROWS PROVE \E u \in Writers : w'[u].pc \in NlRows
      <3>1. CASE r.pc \in NlRows
        BY <1>1, <3>1
      <3>2. CASE row >= ROWS /\ w[v].pc \notin NlRows
        BY <1>1, <2>1, <3>2 DEF Beside
      <3> QED BY <1>5, <2>3, <3>1, <3>2
    <2> QED BY <2>2, <2>3 DEF Beside, NlCols, NlRows
  <1> QED BY <1>2, <1>4, <1>5 DEF SharedInv

(* The registers after the moves the steps are made of. *)
LEMMA Moves ==
    ASSUME NEW v, w[v] \in Regs
    PROVE  /\ \A pc \in PCs : Forget(v, pc) \in Regs /\ Forget(v, pc).pc = pc
           /\ Call(v) \in Regs /\ Call(v).pc = "load_row"
           /\ Return(v) \in Regs /\ Return(v).pc \in {"out", "tab", "again_col"}
           /\ Outside \in Regs /\ Outside.pc = "out"
  <1>1. Outside \in Regs /\ Outside.pc = "out"
    BY DEF Outside, NoCon, Regs, PCs, Ops, Cons
  <1>2. \A q \in PCs : Forget(v, q) \in Regs /\ Forget(v, q).pc = q
    BY DEF Forget, Regs
  <1>3. Call(v) \in Regs /\ Call(v).pc = "load_row"
    <2>1. PICK f \in Regs : f = Forget(v, "load_row") /\ f.pc = "load_row"
      BY <1>2 DEF PCs
    <2>2. f.n + 1 \in Nat
      BY <2>1 DEF Regs
    <2>3. Call(v) = [f EXCEPT !.inner = TRUE, !.n = f.n + 1]
      BY <2>1 DEF Call
    <2> QED BY <2>1, <2>2, <2>3 DEF Regs
  <1>4. Return(v) \in Regs /\ Return(v).pc \in {"out", "tab", "again_col"}
    BY <1>1, <1>2 DEF Return, Regs, PCs
  <1> QED BY <1>1, <1>2, <1>3, <1>4

(* A store of a character leaves a screen of the right shape. *)
LEMMA StoreTyped ==
    ASSUME screen \in Screens, NEW r, NEW c, NEW g \in Glyphs, StoreChar(r, c, g)
    PROVE  screen' \in Screens /\ UNCHANGED <<row, col, astray>>
  <1>1. PICK d, m : d = (r * COLS + c) \div COLS /\ m = (r * COLS + c) % COLS
    OBVIOUS
  <1>2. screen' = [screen EXCEPT ![d][m] = g] \/ screen' = screen
    BY <1>1 DEF StoreChar
  <1> QED BY <1>2 DEF Screens, StoreChar

(* A call of write_k begins. *)
LEMMA StartInv ==
    ASSUME SharedInv, NEW v \in Writers, NEW op \in Ops, Start(v, op)
    PROVE  SharedInv'
  <1>1. /\ UNCHANGED <<row, col, screen, astray>> /\ w[v].pc = "out"
        /\ row \in Nat /\ col \in Nat /\ screen \in Screens /\ w \in [Writers -> Regs]
    BY DEF Start, vars, Inside, SharedInv, SharedTypeOK
  <1>2. Outside \in Regs /\ NoCon \in Cons /\ Con \in Cons /\ Quiet \in BOOLEAN
    BY <1>1 DEF Outside, NoCon, Con, Cons, Regs, PCs, Ops, Quiet
  <1>3. PICK pc \in {"nl_test", "tab", "load_row"}, bf \in Cons :
            w' = [u \in Writers |->
                    IF u = v THEN [Outside EXCEPT !.op = op, !.alone = Quiet, !.before = bf, !.pc = pc]
                    ELSE [w[u] EXCEPT !.alone = FALSE, !.before = NoCon]]
    BY <1>2, Zenon DEF Start, Ops
  <1>4. ASSUME NEW u \in Writers
        PROVE  w'[u] \in Regs /\ CanMove(w'[u]) /\ (w[u].pc # "out" => w'[u].pc = w[u].pc)
    <2>1. CASE u = v
      <3>1. w'[u] = [Outside EXCEPT !.op = op, !.alone = Quiet, !.before = bf, !.pc = pc]
        BY <1>3, <2>1
      <3>2. pc \in PCs
        BY <1>3 DEF PCs, NlCols
      <3>3. w'[u] \in Regs /\ w'[u].pc = pc
        BY <1>2, <3>1, <3>2 DEF Regs
      <3> QED BY <1>1, <2>1, <3>3 DEF CanMove
    <2>2. CASE u # v
      <3>1. w'[u] = [w[u] EXCEPT !.alone = FALSE, !.before = NoCon]
        BY <1>3, <2>2
      <3>2. w[u] \in Regs /\ CanMove(w[u])
        BY DEF SharedInv, SharedTypeOK
      <3>3. w'[u] \in Regs /\ w'[u].pc = w[u].pc /\ w'[u].a = w[u].a /\ w'[u].b = w[u].b
        BY <1>2, <3>1, <3>2 DEF Regs
      <3> QED BY <3>2, <3>3 DEF CanMove
    <2> QED BY <2>1, <2>2
  <1>5. w' \in [Writers -> Regs]
    BY <1>3, <1>4
  <1>6. SharedTypeOK'
    BY <1>1, <1>5 DEF SharedTypeOK, Regs, PCs, Ops, Cons, Screens, RowSet, ColSet, NlCols, NlRows
  <1>7. (\A u \in Writers : CanMove(w[u]))'
    BY <1>4 DEF CanMove
  <1>8. astray' \/ Beside'
    <2>1. \A u \in Writers : /\ w[u].pc \in NlCols => w'[u].pc \in NlCols
                             /\ w[u].pc \in NlRows => w'[u].pc \in NlRows
      BY <1>4 DEF NlCols, NlRows
    <2>2. astray' = astray /\ col' = col /\ row' = row
      BY <1>1
    <2>3. CASE astray
      BY <2>2, <2>3
    <2>4. CASE ~astray
      <3>1. Beside
        BY <2>4 DEF SharedInv
      <3> QED BY <2>1, <2>2, <3>1 DEF Beside, NlCols, NlRows
    <2> QED BY <2>3, <2>4
  <1> QED BY <1>6, <1>7, <1>8 DEF SharedInv

(* Every other step of a writer keeps the invariant. *)
LEMMA WriterInv ==
    ASSUME SharedInv, NEW v \in Writers, Write(v), \A op \in Ops : ~Start(v, op)
    PROVE  SharedInv'
  <1>1. /\ row \in Nat /\ col \in Nat /\ screen \in Screens
        /\ w[v] \in Regs /\ CanMove(w[v]) /\ w[v].a \in Nat /\ w[v].b \in Nat
    BY DEF SharedInv, SharedTypeOK, Regs
  <1>2. /\ COLS \in Nat /\ COLS > 1 /\ ROWS \in Nat /\ ROWS > 0
        /\ "x" \in Glyphs /\ "blank" \in Glyphs
    BY ScreenAssumption, GlyphAssumption, ScreensAssumption
  <1> DEFINE Kept == UNCHANGED <<row, col, screen, astray>>
  <1>3. CASE LoadRow(v)
    <2>1. PICK r : r = [Go(v, "load_col") EXCEPT !.a = row]
      OBVIOUS
    <2>2. w' = [w EXCEPT ![v] = r] /\ w[v].pc = "load_row"
      BY <1>3, <2>1 DEF LoadRow, Becomes, At
    <2>3. Kept
      BY <1>3 DEF LoadRow, Keeps, vars
    <2>4. r \in Regs /\ r.pc = "load_col"
      BY <1>1, <2>1, <2>2 DEF Go, Regs, PCs
    <2>5. CanMove(r)
      BY <1>1, <2>2, <2>4 DEF CanMove
    <2> QED BY <1>1, <1>2, <2>2, <2>3, <2>4, <2>5, WriterSteps DEF NlCols, NlRows
  <1>4. CASE LoadCol(v)
    <2>1. PICK r : r = [Go(v, IF w[v].op # "backspace" \/ w[v].inner THEN "put" ELSE Left(v)) EXCEPT !.b = col]
      OBVIOUS
    <2>2. w' = [w EXCEPT ![v] = r] /\ w[v].pc = "load_col"
      BY <1>4, <2>1 DEF LoadCol, Becomes, At
    <2>3. Kept
      BY <1>4 DEF LoadCol, Keeps, vars
    <2>4. r \in Regs /\ r.pc \in {"put", "back_end", "back_left", "call"} /\ r.b = col /\ r.a = w[v].a
          /\ (r.pc = "back_end" => r.a > 0) /\ (r.pc = "back_left" => r.b > 0)
      BY <1>1, <2>1, <2>2 DEF Go, Regs, PCs, Left
    <2>5. CanMove(r)
      BY <1>1, <2>2, <2>4 DEF CanMove
    <2> QED BY <1>1, <1>2, <2>2, <2>3, <2>4, <2>5, WriterSteps DEF NlCols, NlRows
  <1>5. CASE PutChar(v)
    <2>1. PICK r : r = Forget(v, "inc_load")
      OBVIOUS
    <2>2. w' = [w EXCEPT ![v] = r] /\ w[v].pc = "put"
      BY <1>5, <2>1 DEF PutChar, Becomes, At
    <2>3. screen' \in Screens /\ UNCHANGED <<row, col, astray>>
      BY <1>5, <1>1, <1>2, StoreTyped DEF PutChar
    <2>4. r \in Regs /\ r.pc = "inc_load"
      BY <1>1, <2>1, <2>2 DEF Forget, Regs, PCs
    <2>5. CanMove(r)
      BY <1>1, <2>2, <2>4 DEF CanMove
    <2> QED BY <1>1, <1>2, <2>2, <2>3, <2>4, <2>5, WriterSteps DEF NlCols, NlRows
  <1>6. CASE IncLoad(v)
    <2>1. PICK r : r = [Go(v, "inc_store") EXCEPT !.b = col]
      OBVIOUS
    <2>2. w' = [w EXCEPT ![v] = r] /\ w[v].pc = "inc_load"
      BY <1>6, <2>1 DEF IncLoad, Becomes, At
    <2>3. Kept
      BY <1>6 DEF IncLoad, Keeps, vars
    <2>4. r \in Regs /\ r.pc = "inc_store"
      BY <1>1, <2>1, <2>2 DEF Go, Regs, PCs
    <2>5. CanMove(r)
      BY <1>1, <2>2, <2>4 DEF CanMove
    <2> QED BY <1>1, <1>2, <2>2, <2>3, <2>4, <2>5, WriterSteps DEF NlCols, NlRows
  <1>7. CASE IncStore(v)
    <2>1. PICK r : r = IF w[v].b + 1 >= COLS THEN Forget(v, "nl_test") ELSE Return(v)
      OBVIOUS
    <2>2. w' = [w EXCEPT ![v] = r] /\ w[v].pc = "inc_store"
      BY <1>7, <2>1 DEF IncStore, Becomes, At
    <2>3. col' = w[v].b + 1 /\ UNCHANGED <<row, screen, astray>>
      BY <1>7 DEF IncStore, StoreCol
    <2>4. r \in Regs /\ (r.pc \in {"out", "tab", "again_col"} \/ r.pc = "nl_test")
          /\ (w[v].b + 1 >= COLS => r.pc = "nl_test")
      BY <1>1, <2>1, <2>2, Moves DEF PCs, NlCols
    <2>5. col' \in Nat /\ (col' >= COLS => r.pc \in NlCols)
      BY <1>1, <1>2, <2>3, <2>4 DEF NlCols
    <2>6. CanMove(r)
      BY <1>1, <2>2, <2>4 DEF CanMove
    <2>7. w[v].pc \notin NlRows /\ UNCHANGED <<row, screen, astray>>
      BY <2>2, <2>3 DEF NlRows, NlCols
    <2> QED BY <1>1, <2>2, <2>4, <2>5, <2>6, <2>7, WriterSteps
  <1>8. CASE At(v, "back_end") /\ StoreCol(COLS - 1) /\ Becomes(v, Go(v, "back_up"))
    <2>1. PICK r : r = Go(v, "back_up")
      OBVIOUS
    <2>2. w' = [w EXCEPT ![v] = r] /\ w[v].pc = "back_end"
      BY <1>8, <2>1 DEF StoreCol, Becomes, At
    <2>3. col' = COLS - 1 /\ UNCHANGED <<row, screen, astray>>
      BY <1>8 DEF StoreCol, StoreCol
    <2>4. r \in Regs /\ r.pc = "back_up" /\ r.a = w[v].a
      BY <1>1, <2>1, <2>2 DEF Go, Regs, PCs
    <2>5. col' \in Nat /\ (col' >= COLS => r.pc \in NlCols)
      BY <1>1, <1>2, <2>3, <2>4 DEF NlCols
    <2>6. CanMove(r)
      BY <1>1, <2>2, <2>4 DEF CanMove
    <2>7. w[v].pc \notin NlRows /\ UNCHANGED <<row, screen, astray>>
      BY <2>2, <2>3 DEF NlRows, NlCols
    <2> QED BY <1>1, <2>2, <2>4, <2>5, <2>6, <2>7, WriterSteps
  <1>9. CASE At(v, "back_up") /\ BackToRow(w[v].a - 1) /\ Becomes(v, Forget(v, "call"))
    <2>1. PICK r : r = Forget(v, "call")
      OBVIOUS
    <2>2. w' = [w EXCEPT ![v] = r] /\ w[v].pc = "back_up"
      BY <1>9, <2>1 DEF BackToRow, Becomes, At
    <2>3. row' = w[v].a - 1 /\ UNCHANGED <<col, screen>> /\ astray' = (astray \/ w[v].a - 1 \notin RowSet)
      BY <1>9 DEF BackToRow, BackToRow
    <2>4. r \in Regs /\ r.pc = "call"
      BY <1>1, <2>1, <2>2 DEF Forget, Regs, PCs
    <2>5. row' \in Nat /\ (row' \in RowSet => ~(row' >= ROWS))
      BY <1>1, <1>2, <2>2, <2>3 DEF CanMove, RowSet
    <2>6. CanMove(r) /\ (astray => astray') /\ (astray' \/ ~(row' >= ROWS))
      BY <2>3, <2>4, <2>5 DEF CanMove
    <2> QED BY <1>1, <2>2, <2>3, <2>4, <2>5, <2>6, WriterSteps DEF NlCols, NlRows
  <1>10. CASE At(v, "back_left") /\ BackToCol(w[v].b - 1) /\ Becomes(v, Forget(v, "call"))
    <2>1. PICK r : r = Forget(v, "call")
      OBVIOUS
    <2>2. w' = [w EXCEPT ![v] = r] /\ w[v].pc = "back_left"
      BY <1>10, <2>1 DEF BackToCol, Becomes, At
    <2>3. col' = w[v].b - 1 /\ UNCHANGED <<row, screen>> /\ astray' = (astray \/ w[v].b - 1 \notin ColSet)
      BY <1>10 DEF BackToCol, BackToCol
    <2>4. r \in Regs /\ r.pc = "call"
      BY <1>1, <2>1, <2>2 DEF Forget, Regs, PCs
    <2>5. col' \in Nat /\ (col' \in ColSet => ~(col' >= COLS))
      BY <1>1, <1>2, <2>2, <2>3 DEF CanMove, ColSet
    <2>6. CanMove(r) /\ (astray => astray') /\ (astray' \/ ~(col' >= COLS))
      BY <2>3, <2>4, <2>5 DEF CanMove
    <2> QED BY <1>1, <2>2, <2>3, <2>4, <2>5, <2>6, WriterSteps DEF NlCols, NlRows
  <1>11. CASE At(v, "call") /\ Becomes(v, Call(v)) /\ Keeps
    <2>1. PICK r : r = Call(v)
      OBVIOUS
    <2>2. w' = [w EXCEPT ![v] = r] /\ w[v].pc = "call"
      BY <1>11, <2>1 DEF Keeps, Becomes, At
    <2>3. Kept
      BY <1>11 DEF Keeps, Keeps, vars
    <2>4. r \in Regs /\ r.pc = "load_row"
      BY <1>1, <2>1, <2>2, Moves DEF PCs
    <2>5. CanMove(r)
      BY <1>1, <2>2, <2>4 DEF CanMove
    <2> QED BY <1>1, <1>2, <2>2, <2>3, <2>4, <2>5, WriterSteps DEF NlCols, NlRows
  <1>12. CASE At(v, "again_col") /\ Keeps
            /\ Becomes(v, [Go(v, IF col = 0 THEN "again_row" ELSE "again_left") EXCEPT !.b = col])
    <2>1. PICK r : r = [Go(v, IF col = 0 THEN "again_row" ELSE "again_left") EXCEPT !.b = col]
      OBVIOUS
    <2>2. w' = [w EXCEPT ![v] = r] /\ w[v].pc = "again_col"
      BY <1>12, <2>1 DEF Keeps, Becomes, At
    <2>3. Kept
      BY <1>12 DEF Keeps, Keeps, vars
    <2>4. r \in Regs /\ r.pc \in {"again_row", "again_left"} /\ r.b = col
          /\ (r.pc = "again_left" => col # 0)
      BY <1>1, <2>1, <2>2 DEF Go, Regs, PCs
    <2>5. CanMove(r)
      BY <1>1, <2>2, <2>4 DEF CanMove
    <2> QED BY <1>1, <1>2, <2>2, <2>3, <2>4, <2>5, WriterSteps DEF NlCols, NlRows
  <1>13. CASE At(v, "again_row") /\ Keeps
            /\ Becomes(v, IF row > 0 THEN [Forget(v, "again_end") EXCEPT !.a = row] ELSE Outside)
    <2>1. PICK r : r = IF row > 0 THEN [Forget(v, "again_end") EXCEPT !.a = row] ELSE Outside
      OBVIOUS
    <2>2. w' = [w EXCEPT ![v] = r] /\ w[v].pc = "again_row"
      BY <1>13, <2>1 DEF Keeps, Becomes, At
    <2>3. Kept
      BY <1>13 DEF Keeps, Keeps, vars
    <2>4. r \in Regs /\ (r.pc = "out" \/ (r.pc = "again_end" /\ r.a > 0))
      BY <1>1, <2>1, <2>2, Moves DEF Forget, Regs, PCs
    <2>5. CanMove(r)
      BY <1>1, <2>2, <2>4 DEF CanMove
    <2> QED BY <1>1, <1>2, <2>2, <2>3, <2>4, <2>5, WriterSteps DEF NlCols, NlRows
  <1>14. CASE At(v, "again_left") /\ BackToCol(w[v].b - 1) /\ Becomes(v, Outside)
    <2>1. PICK r : r = Outside
      OBVIOUS
    <2>2. w' = [w EXCEPT ![v] = r] /\ w[v].pc = "again_left"
      BY <1>14, <2>1 DEF BackToCol, Becomes, At
    <2>3. col' = w[v].b - 1 /\ UNCHANGED <<row, screen>> /\ astray' = (astray \/ w[v].b - 1 \notin ColSet)
      BY <1>14 DEF BackToCol, BackToCol
    <2>4. r \in Regs /\ r.pc = "out"
      BY <1>1, <2>1, <2>2, Moves DEF PCs
    <2>5. col' \in Nat /\ (col' \in ColSet => ~(col' >= COLS))
      BY <1>1, <1>2, <2>2, <2>3 DEF CanMove, ColSet
    <2>6. CanMove(r) /\ (astray => astray') /\ (astray' \/ ~(col' >= COLS))
      BY <2>3, <2>4, <2>5 DEF CanMove
    <2> QED BY <1>1, <2>2, <2>3, <2>4, <2>5, <2>6, WriterSteps DEF NlCols, NlRows
  <1>15. CASE At(v, "again_end") /\ StoreCol(COLS - 1) /\ Becomes(v, Go(v, "again_up"))
    <2>1. PICK r : r = Go(v, "again_up")
      OBVIOUS
    <2>2. w' = [w EXCEPT ![v] = r] /\ w[v].pc = "again_end"
      BY <1>15, <2>1 DEF StoreCol, Becomes, At
    <2>3. col' = COLS - 1 /\ UNCHANGED <<row, screen, astray>>
      BY <1>15 DEF StoreCol, StoreCol
    <2>4. r \in Regs /\ r.pc = "again_up" /\ r.a = w[v].a
      BY <1>1, <2>1, <2>2 DEF Go, Regs, PCs
    <2>5. col' \in Nat /\ (col' >= COLS => r.pc \in NlCols)
      BY <1>1, <1>2, <2>3, <2>4 DEF NlCols
    <2>6. CanMove(r)
      BY <1>1, <2>2, <2>4 DEF CanMove
    <2>7. w[v].pc \notin NlRows /\ UNCHANGED <<row, screen, astray>>
      BY <2>2, <2>3 DEF NlRows, NlCols
    <2> QED BY <1>1, <2>2, <2>4, <2>5, <2>6, <2>7, WriterSteps
  <1>16. CASE At(v, "again_up") /\ BackToRow(w[v].a - 1) /\ Becomes(v, Outside)
    <2>1. PICK r : r = Outside
      OBVIOUS
    <2>2. w' = [w EXCEPT ![v] = r] /\ w[v].pc = "again_up"
      BY <1>16, <2>1 DEF BackToRow, Becomes, At
    <2>3. row' = w[v].a - 1 /\ UNCHANGED <<col, screen>> /\ astray' = (astray \/ w[v].a - 1 \notin RowSet)
      BY <1>16 DEF BackToRow, BackToRow
    <2>4. r \in Regs /\ r.pc = "out"
      BY <1>1, <2>1, <2>2, Moves DEF PCs
    <2>5. row' \in Nat /\ (row' \in RowSet => ~(row' >= ROWS))
      BY <1>1, <1>2, <2>2, <2>3 DEF CanMove, RowSet
    <2>6. CanMove(r) /\ (astray => astray') /\ (astray' \/ ~(row' >= ROWS))
      BY <2>3, <2>4, <2>5 DEF CanMove
    <2> QED BY <1>1, <2>2, <2>3, <2>4, <2>5, <2>6, WriterSteps DEF NlCols, NlRows
  <1>17. CASE Tab(v)
    <2>1. PICK r : r = IF w[v].n < col % 4 THEN Call(v) ELSE Outside
      OBVIOUS
    <2>2. w' = [w EXCEPT ![v] = r] /\ w[v].pc = "tab"
      BY <1>17, <2>1 DEF Tab, Becomes, At
    <2>3. Kept
      BY <1>17 DEF Tab, Keeps, vars
    <2>4. r \in Regs /\ r.pc \in {"load_row", "out"}
      BY <1>1, <2>1, <2>2, Moves DEF PCs
    <2>5. CanMove(r)
      BY <1>1, <2>2, <2>4 DEF CanMove
    <2> QED BY <1>1, <1>2, <2>2, <2>3, <2>4, <2>5, WriterSteps DEF NlCols, NlRows
  <1>18. CASE NlTest(v)
    <2>1. PICK r : r = IF col < COLS THEN [Go(v, "nl_row") EXCEPT !.b = col] ELSE Forget(v, "nl_home")
      OBVIOUS
    <2>2. w' = [w EXCEPT ![v] = r] /\ w[v].pc = "nl_test"
      BY <1>18, <2>1 DEF NlTest, Becomes, At
    <2>3. Kept
      BY <1>18 DEF NlTest, Keeps, vars
    <2>4. r \in Regs /\ r.pc \in {"nl_row", "nl_home"}
      BY <1>1, <2>1, <2>2 DEF Go, Forget, Regs, PCs, NlCols, NlRows
    <2>5. CanMove(r)
      BY <1>1, <2>2, <2>4 DEF CanMove
    <2> QED BY <1>1, <1>2, <2>2, <2>3, <2>4, <2>5, WriterSteps DEF NlCols, NlRows
  <1>19. CASE At(v, "nl_row") /\ Keeps /\ Becomes(v, [Go(v, "nl_put") EXCEPT !.a = row])
    <2>1. PICK r : r = [Go(v, "nl_put") EXCEPT !.a = row]
      OBVIOUS
    <2>2. w' = [w EXCEPT ![v] = r] /\ w[v].pc = "nl_row"
      BY <1>19, <2>1 DEF Keeps, Becomes, At
    <2>3. Kept
      BY <1>19 DEF Keeps, Keeps, vars
    <2>4. r \in Regs /\ r.pc = "nl_put"
      BY <1>1, <2>1, <2>2 DEF Go, Regs, PCs, NlCols, NlRows
    <2>5. CanMove(r)
      BY <1>1, <2>2, <2>4 DEF CanMove
    <2> QED BY <1>1, <1>2, <2>2, <2>3, <2>4, <2>5, WriterSteps DEF NlCols, NlRows
  <1>20. CASE At(v, "nl_put") /\ StoreChar(w[v].a, w[v].b, "blank") /\ Becomes(v, Forget(v, "nl_load"))
    <2>1. PICK r : r = Forget(v, "nl_load")
      OBVIOUS
    <2>2. w' = [w EXCEPT ![v] = r] /\ w[v].pc = "nl_put"
      BY <1>20, <2>1 DEF StoreCol, Becomes, At
    <2>3. screen' \in Screens /\ UNCHANGED <<row, col, astray>>
      BY <1>20, <1>1, <1>2, StoreTyped DEF StoreCol
    <2>4. r \in Regs /\ r.pc = "nl_load"
      BY <1>1, <2>1, <2>2 DEF Forget, Regs, PCs, NlCols, NlRows
    <2>5. CanMove(r)
      BY <1>1, <2>2, <2>4 DEF CanMove
    <2> QED BY <1>1, <1>2, <2>2, <2>3, <2>4, <2>5, WriterSteps DEF NlCols, NlRows
  <1>21. CASE At(v, "nl_load") /\ Keeps /\ Becomes(v, [Go(v, "nl_store") EXCEPT !.b = col])
    <2>1. PICK r : r = [Go(v, "nl_store") EXCEPT !.b = col]
      OBVIOUS
    <2>2. w' = [w EXCEPT ![v] = r] /\ w[v].pc = "nl_load"
      BY <1>21, <2>1 DEF Keeps, Becomes, At
    <2>3. Kept
      BY <1>21 DEF Keeps, Keeps, vars
    <2>4. r \in Regs /\ r.pc = "nl_store"
      BY <1>1, <2>1, <2>2 DEF Go, Regs, PCs, NlCols, NlRows
    <2>5. CanMove(r)
      BY <1>1, <2>2, <2>4 DEF CanMove
    <2> QED BY <1>1, <1>2, <2>2, <2>3, <2>4, <2>5, WriterSteps DEF NlCols, NlRows
  <1>22. CASE NlNext(v)
    <2>1. PICK r : r = IF w[v].b + 1 < COLS THEN [Go(v, "nl_row") EXCEPT !.b = @ + 1] ELSE Forget(v, "nl_home")
      OBVIOUS
    <2>2. w' = [w EXCEPT ![v] = r] /\ w[v].pc = "nl_store"
      BY <1>22, <2>1 DEF NlNext, Becomes, At
    <2>3. col' = w[v].b + 1 /\ UNCHANGED <<row, screen, astray>>
      BY <1>22 DEF NlNext, StoreCol
    <2>4. r \in Regs /\ r.pc \in {"nl_row", "nl_home"}
      <3>1. w[v].b + 1 \in Nat
        BY <1>1
      <3>2. PICK g \in Regs : g = Go(v, "nl_row") /\ g.b = w[v].b /\ g.pc = "nl_row"
        <4>1. Go(v, "nl_row") \in Regs
          BY <1>1 DEF Go, Regs, PCs, NlCols
        <4>2. Go(v, "nl_row").b = w[v].b /\ Go(v, "nl_row").pc = "nl_row"
          BY <1>1 DEF Go, Regs
        <4> QED BY <4>1, <4>2
      <3>3. CASE w[v].b + 1 < COLS
        <4>1. r = [g EXCEPT !.b = w[v].b + 1]
          BY <2>1, <3>2, <3>3
        <4> QED BY <3>1, <3>2, <4>1 DEF Regs
      <3>4. CASE ~(w[v].b + 1 < COLS)
        BY <1>1, <2>1, <3>4, Moves DEF PCs, NlCols
      <3> QED BY <3>3, <3>4
    <2>5. col' \in Nat /\ (col' >= COLS => r.pc \in NlCols)
      BY <1>1, <1>2, <2>3, <2>4 DEF NlCols
    <2>6. CanMove(r)
      BY <1>1, <2>2, <2>4 DEF CanMove
    <2>7. w[v].pc \notin NlRows /\ UNCHANGED <<row, screen, astray>>
      BY <2>2, <2>3 DEF NlRows, NlCols
    <2> QED BY <1>1, <2>2, <2>4, <2>5, <2>6, <2>7, WriterSteps
  <1>23. CASE NlHome(v)
    <2>1. PICK r : r = Go(v, "nl_rowload")
      OBVIOUS
    <2>2. w' = [w EXCEPT ![v] = r] /\ w[v].pc = "nl_home"
      BY <1>23, <2>1 DEF NlHome, Becomes, At
    <2>3. col' = 0 /\ UNCHANGED <<row, screen, astray>>
      BY <1>23 DEF NlHome, StoreCol
    <2>4. r \in Regs /\ r.pc = "nl_rowload"
      BY <1>1, <2>1, <2>2 DEF Go, Regs, PCs
    <2>5. col' \in Nat /\ (col' >= COLS => r.pc \in NlCols)
      BY <1>1, <1>2, <2>3, <2>4 DEF NlCols
    <2>6. CanMove(r)
      BY <1>1, <2>2, <2>4 DEF CanMove
    <2>7. w[v].pc \notin NlRows /\ UNCHANGED <<row, screen, astray>>
      BY <2>2, <2>3 DEF NlRows, NlCols
    <2> QED BY <1>1, <2>2, <2>4, <2>5, <2>6, <2>7, WriterSteps
  <1>24. CASE NlLoadRow(v)
    <2>1. PICK r : r = [Go(v, "nl_rowstore") EXCEPT !.a = row]
      OBVIOUS
    <2>2. w' = [w EXCEPT ![v] = r] /\ w[v].pc = "nl_rowload"
      BY <1>24, <2>1 DEF NlLoadRow, Becomes, At
    <2>3. Kept
      BY <1>24 DEF NlLoadRow, Keeps, vars
    <2>4. r \in Regs /\ r.pc = "nl_rowstore"
      BY <1>1, <2>1, <2>2 DEF Go, Regs, PCs
    <2>5. CanMove(r)
      BY <1>1, <2>2, <2>4 DEF CanMove
    <2> QED BY <1>1, <1>2, <2>2, <2>3, <2>4, <2>5, WriterSteps DEF NlCols, NlRows
  <1>25. CASE NlStoreRow(v)
    <2>1. PICK r : r = IF w[v].a + 1 > ROWS - 1 THEN Forget(v, "rollup") ELSE Return(v)
      OBVIOUS
    <2>2. w' = [w EXCEPT ![v] = r] /\ w[v].pc = "nl_rowstore"
      BY <1>25, <2>1 DEF NlStoreRow, Becomes, At
    <2>3. row' = w[v].a + 1 /\ UNCHANGED <<col, screen, astray>>
      BY <1>25 DEF NlStoreRow, StoreRow
    <2>4. r \in Regs /\ (r.pc \in {"out", "tab", "again_col"} \/ r.pc = "rollup")
          /\ (w[v].a + 1 > ROWS - 1 => r.pc = "rollup")
      BY <1>1, <2>1, <2>2, Moves DEF PCs, NlRows
    <2>5. row' \in Nat /\ (row' >= ROWS => r.pc \in NlRows)
      BY <1>1, <1>2, <2>3, <2>4 DEF NlRows
    <2>6. CanMove(r)
      BY <1>1, <2>2, <2>4 DEF CanMove
    <2>7. w[v].pc \notin NlCols /\ UNCHANGED <<col, screen, astray>>
      BY <2>2, <2>3 DEF NlRows, NlCols
    <2> QED BY <1>1, <2>2, <2>4, <2>5, <2>6, <2>7, WriterSteps
  <1>26. CASE Rollup(v)
    <2>1. PICK r : r = Go(v, "nl_last")
      OBVIOUS
    <2>2. w' = [w EXCEPT ![v] = r] /\ w[v].pc = "rollup"
      BY <1>26, <2>1 DEF Rollup, Becomes, At
    <2>3. screen' \in Screens /\ UNCHANGED <<row, col, astray>>
      <3>1. screen' = rollup(screen)
        BY <1>26 DEF Rollup
      <3>2. \A i \in RowSet : i < ROWS - 1 => i + 1 \in RowSet
        BY <1>2 DEF RowSet
      <3>3. rollup(screen) \in Screens
        BY <1>1, <1>2, <3>2 DEF rollup, Screens
      <3> QED BY <1>26, <3>1, <3>3 DEF Rollup
    <2>4. r \in Regs /\ r.pc = "nl_last"
      BY <1>1, <2>1 DEF Go, Regs, PCs, NlRows
    <2> QED BY <1>1, <1>2, <2>2, <2>3, <2>4, WriterSteps DEF CanMove, NlCols, NlRows
  <1>27. CASE LastRow(v)
    <2>1. PICK r : r = Return(v)
      OBVIOUS
    <2>2. w' = [w EXCEPT ![v] = r] /\ w[v].pc = "nl_last"
      BY <1>27, <2>1 DEF LastRow, Becomes, At
    <2>3. row' = ROWS - 1 /\ UNCHANGED <<col, screen, astray>>
      BY <1>27 DEF LastRow, StoreRow
    <2>4. r \in Regs /\ r.pc \in {"out", "tab", "again_col"}
      BY <1>1, <2>1, <2>2, Moves DEF PCs
    <2>5. row' \in Nat /\ (row' >= ROWS => r.pc \in NlRows)
      BY <1>1, <1>2, <2>3, <2>4 DEF NlRows
    <2>6. CanMove(r)
      BY <1>1, <2>2, <2>4 DEF CanMove
    <2>7. w[v].pc \notin NlCols /\ UNCHANGED <<col, screen, astray>>
      BY <2>2, <2>3 DEF NlRows, NlCols
    <2> QED BY <1>1, <2>2, <2>4, <2>5, <2>6, <2>7, WriterSteps
  <1> QED BY <1>3, <1>4, <1>5, <1>6, <1>7, <1>8, <1>9, <1>10, <1>11, <1>12, <1>13, <1>14, <1>15, <1>16, <1>17, <1>18, <1>19, <1>20, <1>21, <1>22, <1>23, <1>24, <1>25, <1>26, <1>27
          DEF Write, Ops, Back1, Back2, NlBlank

(* SharedInv holds in every reachable state. *)
LEMMA SharedInvariant == SharedSpec => []SharedInv
  <1>1. SharedInit => SharedInv
    <2> SUFFICES ASSUME SharedInit PROVE SharedInv
      OBVIOUS
    <2>1. /\ row \in 0..(ROWS - 1) /\ col \in 0..(COLS - 1) /\ screen \in Screens
          /\ w = [v \in Writers |-> Outside] /\ astray = FALSE
      BY ScreensAssumption DEF SharedInit, RowSet, ColSet, Screens
    <2>2. Outside \in Regs /\ Outside.pc = "out"
      BY DEF Outside, NoCon, Regs, PCs, Ops, Cons
    <2> QED BY <2>1, <2>2, ScreenAssumption DEF SharedInv, SharedTypeOK, CanMove, Beside
  <1>2. SharedInv /\ [SharedNext]_sharedVars => SharedInv'
    <2> SUFFICES ASSUME SharedInv, [SharedNext]_sharedVars PROVE SharedInv'
      OBVIOUS
    <2>1. CASE UNCHANGED sharedVars
      BY <2>1 DEF sharedVars, vars, SharedInv, SharedTypeOK, CanMove, Beside,
                  Regs, PCs, Ops, Cons, Screens, RowSet, ColSet, NlCols, NlRows
    <2>2. ASSUME NEW v \in Writers, Write(v) PROVE SharedInv'
      BY <2>2, StartInv, WriterInv
    <2> QED BY <2>1, <2>2 DEF SharedNext, AllWritten
  <1> QED BY <1>1, <1>2, PTL DEF SharedSpec

(* For any number of writers and every screen: the cursor is off the text     *)
(* only while somebody is about to bring it back, unless a backspace stored   *)
(* the neighbour of a position off the text.                                 *)
THEOREM CursorRepairedAlways == SharedSpec => []CursorRepaired
  <1>1. SharedInv => CursorRepaired
    BY DEF SharedInv, SharedTypeOK, Beside, NlCols, NlRows, CursorRepaired
  <1> QED BY <1>1, SharedInvariant, PTL
-----------------------------------------------------------------------------
(* A write nobody else's overlaps.  The registers r of its writer and the     *)
(* console are, at each place of write_k, determined by the console it found. *)
(* The console c of which the row has been blanked up to column k.           *)
Cleared(c, k) ==
    [c.screen EXCEPT ![c.row] = [j \in ColSet |-> IF c.col <= j /\ j < k THEN "blank" ELSE @[j]]]

(* The line break at console c. *)
NlAt(r, c) ==
    \/ r.pc = "nl_test" /\ Con = c
    \/ /\ r.pc \in {"nl_row", "nl_put"}
       /\ row = c.row /\ col \in c.col..(COLS - 1) /\ screen = Cleared(c, col)
       /\ r.b = col /\ (r.pc = "nl_put" => r.a = row)
    \/ /\ r.pc \in {"nl_load", "nl_store"}
       /\ row = c.row /\ col \in c.col..(COLS - 1) /\ screen = Cleared(c, col + 1)
       /\ r.pc = "nl_store" => r.b = col
    \/ r.pc = "nl_home" /\ row = c.row /\ screen = Cleared(c, COLS)
    \/ /\ r.pc \in {"nl_rowload", "nl_rowstore"}
       /\ row = c.row /\ col = 0 /\ screen = Cleared(c, COLS)
       /\ r.pc = "nl_rowstore" => r.a = row
    \/ /\ r.pc \in NlRows
       /\ c.row = ROWS - 1 /\ col = 0
       /\ screen = IF r.pc = "rollup" THEN Cleared(c, COLS) ELSE rollup(Cleared(c, COLS))

(* The write of character g at console c. *)
Shown(c, g, n) ==
    [row |-> c.row, col |-> c.col + n, screen |-> [c.screen EXCEPT ![c.row][c.col] = g]]
PutAt(r, c, g) ==
    \/ r.pc = "load_row" /\ Con = c
    \/ r.pc = "load_col" /\ Con = c /\ r.a = c.row
    \/ r.pc = "put" /\ Con = c /\ r.a = c.row /\ r.b = c.col
    \/ r.pc = "inc_load" /\ Con = Shown(c, g, 0)
    \/ r.pc = "inc_store" /\ Con = Shown(c, g, 0) /\ r.b = c.col
    \/ c.col + 1 >= COLS /\ NlAt(r, Shown(c, g, 1))

(* The first move of a backspace at console c, and its second one at d. *)
Back1At(r, c) ==
    \/ r.pc = "load_row" /\ Con = c
    \/ r.pc = "load_col" /\ Con = c /\ r.a = c.row
    \/ r.pc = "back_end" /\ Con = c /\ c.col = 0 /\ c.row > 0 /\ r.a = c.row
    \/ /\ r.pc = "back_up" /\ c.col = 0 /\ c.row > 0 /\ r.a = c.row
       /\ row = c.row /\ col = COLS - 1 /\ screen = c.screen
    \/ r.pc = "back_left" /\ Con = c /\ c.col > 0 /\ r.b = c.col
    \/ r.pc = "call" /\ Con = Back(c)
Back2At(r, d) ==
    \/ r.pc = "again_col" /\ Con = d
    \/ r.pc = "again_row" /\ Con = d /\ d.col = 0
    \/ r.pc = "again_end" /\ Con = d /\ d.col = 0 /\ d.row > 0 /\ r.a = d.row
    \/ /\ r.pc = "again_up" /\ d.col = 0 /\ d.row > 0 /\ r.a = d.row
       /\ row = d.row /\ col = COLS - 1 /\ screen = d.screen
    \/ r.pc = "again_left" /\ Con = d /\ d.col > 0 /\ r.b = d.col

(* The console after n blanks of a tab, and that the loop came so far. *)
After1(c) == Put(c, "blank")
After(c, n) ==
    IF n = 0 THEN c ELSE IF n = 1 THEN After1(c)
    ELSE IF n = 2 THEN After1(After1(c)) ELSE After1(After1(After1(c)))
Going(c, n) == n \in 0..3 /\ \A m \in 0..(n - 1) : m < After(c, m).col % 4

(* Where the writer is in the call that found console c. *)
OpAt(r, c) ==
    \/ r.op = "glyph" /\ ~r.inner /\ PutAt(r, c, "x")
    \/ r.op = "newline" /\ ~r.inner /\ NlAt(r, c)
    \/ r.op = "backspace" /\ ~r.inner /\ (Back1At(r, c) \/ Back2At(r, Put(Back(c), "blank")))
    \/ r.op = "backspace" /\ r.inner /\ PutAt(r, Back(c), "blank")
    \/ \E n \in 1..3 : /\ r.op = "tab" /\ r.inner /\ r.n = n /\ Going(c, n)
                       /\ PutAt(r, After(c, n - 1), "blank")
    \/ \E n \in 0..3 : /\ r.op = "tab" /\ ~r.inner /\ r.pc = "tab" /\ r.n = n /\ Going(c, n)
                       /\ Con = After(c, n)

AloneInv ==
    \A v \in Writers : Inside(v) /\ w[v].alone =>
        /\ \A u \in Writers : u # v => ~Inside(u)
        /\ w[v].before.screen \in Screens
        /\ \A c \in Consoles : w[v].before = c => OpAt(w[v], c)

(* row * COLS + col addresses the character at row and col. *)
LEMMA PositionIs ==
    ASSUME NEW r \in RowSet, NEW c \in ColSet
    PROVE  /\ (r * COLS + c) \div COLS = r /\ (r * COLS + c) % COLS = c
           /\ r * COLS + c < ROWS * COLS
  <1>1. /\ COLS \in Nat /\ COLS > 1 /\ ROWS \in Nat
        /\ r \in Int /\ 0 <= r /\ r <= ROWS - 1 /\ c \in Int /\ 0 <= c /\ c < COLS
    BY ScreenAssumption DEF RowSet, ColSet
  <1>2. PICK p \in Int : p = r * COLS
    BY <1>1
  <1>3. (p + c) \div COLS = r /\ (p + c) % COLS = c
    BY <1>1, <1>2
  <1>4. p + c < ROWS * COLS
    BY <1>1, <1>2
  <1> QED BY <1>2, <1>3, <1>4

(* What a store to the display does there. *)
LEMMA StoreIs ==
    ASSUME NEW r \in RowSet, NEW c \in ColSet, NEW g, StoreChar(r, c, g)
    PROVE  screen' = [screen EXCEPT ![r][c] = g] /\ UNCHANGED <<row, col>>
  BY PositionIs DEF StoreChar

(* Blanking a row from the column of the cursor on. *)
LEMMA ClearedIs ==
    ASSUME NEW c \in Filled
    PROVE  /\ Cleared(c, c.col) = c.screen
           /\ \A k \in c.col..(COLS - 1) :
                 /\ Cleared(c, k) \in Screens
                 /\ [Cleared(c, k) EXCEPT ![c.row][k] = "blank"] = Cleared(c, k + 1)
           /\ do_newline(c) =
                 IF c.row = ROWS - 1
                 THEN [row |-> ROWS - 1, col |-> 0, screen |-> rollup(Cleared(c, COLS))]
                 ELSE [row |-> c.row + 1, col |-> 0, screen |-> Cleared(c, COLS)]
  <1>1. /\ c.row \in RowSet /\ c.col \in 0..COLS /\ c.screen \in Screens /\ COLS \in Nat
        /\ c.screen[c.row] \in [ColSet -> Glyphs] /\ "blank" \in Glyphs
        /\ \A j \in ColSet : j \in Int /\ 0 <= j /\ j < COLS
    BY ScreenAssumption, GlyphAssumption DEF Filled, Screens, ColSet
  <1>2. \A k : Cleared(c, k) = [c.screen EXCEPT ![c.row] =
                   [j \in ColSet |-> IF c.col <= j /\ j < k THEN "blank" ELSE c.screen[c.row][j]]]
    BY <1>1 DEF Cleared, Screens
  <1>3. Cleared(c, c.col) = c.screen
    <2>1. [j \in ColSet |-> IF c.col <= j /\ j < c.col THEN "blank" ELSE c.screen[c.row][j]]
            = c.screen[c.row]
      BY <1>1
    <2> QED BY <1>1, <1>2, <2>1 DEF Screens
  <1>4. ASSUME NEW k \in c.col..(COLS - 1)
        PROVE  /\ Cleared(c, k) \in Screens
               /\ [Cleared(c, k) EXCEPT ![c.row][k] = "blank"] = Cleared(c, k + 1)
    <2>1. k \in ColSet /\ k \in Int
      BY <1>1 DEF ColSet
    <2>2. PICK f : f = [j \in ColSet |-> IF c.col <= j /\ j < k THEN "blank" ELSE c.screen[c.row][j]]
      OBVIOUS
    <2>3. f \in [ColSet -> Glyphs]
      BY <1>1, <2>2
    <2>4. Cleared(c, k) = [c.screen EXCEPT ![c.row] = f]
      BY <1>2, <2>2
    <2>5. [f EXCEPT ![k] = "blank"] =
             [j \in ColSet |-> IF c.col <= j /\ j < k + 1 THEN "blank" ELSE c.screen[c.row][j]]
      <3>1. PICK h : h = [j \in ColSet |-> IF c.col <= j /\ j < k + 1 THEN "blank"
                                          ELSE c.screen[c.row][j]]
        OBVIOUS
      <3>2. ASSUME NEW j \in ColSet PROVE [f EXCEPT ![k] = "blank"][j] = h[j]
        <4>1. (c.col <= j /\ j < k + 1) <=> (c.col <= j /\ j < k) \/ j = k
          BY <1>1, <2>1
        <4> QED BY <2>1, <2>2, <3>1, <4>1
      <3>3. /\ [f EXCEPT ![k] = "blank"] = [j \in ColSet |-> [f EXCEPT ![k] = "blank"][j]]
            /\ h = [j \in ColSet |-> h[j]]
        BY <2>3, <3>1
      <3> QED BY <3>1, <3>2, <3>3
    <2>6. Cleared(c, k + 1) = [c.screen EXCEPT ![c.row] = [f EXCEPT ![k] = "blank"]]
      BY <1>2, <2>5
    <2> QED BY <1>1, <2>1, <2>3, <2>4, <2>6 DEF Screens
  <1>5. PICK cl : cl = [c.screen EXCEPT ![c.row] =
                          [j \in ColSet |-> IF j >= c.col THEN "blank" ELSE @[j]]]
    OBVIOUS
  <1>6. cl = Cleared(c, COLS)
    <2>1. [j \in ColSet |-> IF j >= c.col THEN "blank" ELSE c.screen[c.row][j]] =
          [j \in ColSet |-> IF c.col <= j /\ j < COLS THEN "blank" ELSE c.screen[c.row][j]]
      BY <1>1
    <2>2. cl = [c.screen EXCEPT ![c.row] =
                  [j \in ColSet |-> IF j >= c.col THEN "blank" ELSE c.screen[c.row][j]]]
      BY <1>1, <1>5 DEF Screens
    <2> QED BY <1>2, <2>1, <2>2
  <1>7. c.row + 1 > ROWS - 1 <=> c.row = ROWS - 1
    BY <1>1, ScreenAssumption DEF RowSet
  <1>8. do_newline(c) = IF c.row + 1 > ROWS - 1
            THEN [row |-> ROWS - 1, col |-> 0, screen |-> rollup(cl)]
            ELSE [row |-> c.row + 1, col |-> 0, screen |-> cl]
    BY <1>5 DEF do_newline
  <1> QED BY <1>3, <1>4, <1>6, <1>7, <1>8

(* write_k of a character, from the console to that with the character in it. *)
LEMMA PutIs ==
    ASSUME NEW c \in Consoles, NEW g \in Glyphs
    PROVE  /\ Put(c, g) = IF c.col + 1 >= COLS THEN do_newline(Shown(c, g, 1)) ELSE Shown(c, g, 1)
           /\ Shown(c, g, 1) \in Filled
  <1>1. [c.screen EXCEPT ![c.row][c.col] = g] \in Screens
    BY DEF Consoles, Screens
  <1>2. c.row \in RowSet /\ c.col + 1 \in 0..COLS
    BY ScreenAssumption DEF Consoles, ColSet
  <1> QED BY <1>1, <1>2 DEF Put, Shown, Filled, Screens

(* What the steps of one call leave alone, and the end of a call.             *)
SameCall(v) ==
    /\ w'[v].op = w[v].op /\ w'[v].inner = w[v].inner /\ w'[v].n = w[v].n
    /\ w'[v].before = w[v].before /\ w'[v].alone = w[v].alone
NlStep(v) ==
    \/ NlTest(v) \/ NlBlank(v) \/ NlNext(v) \/ NlHome(v)
    \/ NlLoadRow(v) \/ NlStoreRow(v) \/ Rollup(v) \/ LastRow(v)
PutStep(v) ==
    LoadRow(v) \/ LoadCol(v) \/ PutChar(v) \/ IncLoad(v) \/ IncStore(v) \/ NlStep(v)

(* The registers that Go, Forget and their variants leave.                   *)
LEMMA AfterStep ==
    ASSUME SharedTypeOK, NEW v \in Writers, NEW r, Becomes(v, r)
    PROVE  w'[v] = r /\ w[v] \in Regs
  BY DEF SharedTypeOK, Becomes

(* Go. *)
LEMMA AfterGo ==
    ASSUME SharedTypeOK, NEW v \in Writers, NEW pc, Becomes(v, Go(v, pc))
    PROVE  SameCall(v) /\ w'[v].pc = pc /\ w'[v].a = w[v].a /\ w'[v].b = w[v].b
  <1>1. PICK r : r = Go(v, pc)
    OBVIOUS
  <1>2. w'[v] = r /\ w[v] \in Regs
    BY <1>1, AfterStep
  <1> QED BY <1>1, <1>2 DEF Go, SameCall, Regs

(* Go, with a row loaded. *)
LEMMA AfterGoA ==
    ASSUME SharedTypeOK, NEW v \in Writers, NEW pc, NEW n, Becomes(v, [Go(v, pc) EXCEPT !.a = n])
    PROVE  SameCall(v) /\ w'[v].pc = pc /\ w'[v].a = n /\ w'[v].b = w[v].b
  <1>1. PICK r : r = [Go(v, pc) EXCEPT !.a = n]
    OBVIOUS
  <1>2. w'[v] = r /\ w[v] \in Regs
    BY <1>1, AfterStep
  <1> QED BY <1>1, <1>2 DEF Go, SameCall, Regs

(* Go, with a column loaded. *)
LEMMA AfterGoB ==
    ASSUME SharedTypeOK, NEW v \in Writers, NEW pc, NEW n, Becomes(v, [Go(v, pc) EXCEPT !.b = n])
    PROVE  SameCall(v) /\ w'[v].pc = pc /\ w'[v].a = w[v].a /\ w'[v].b = n
  <1>1. PICK r : r = [Go(v, pc) EXCEPT !.b = n]
    OBVIOUS
  <1>2. w'[v] = r /\ w[v] \in Regs
    BY <1>1, AfterStep
  <1> QED BY <1>1, <1>2 DEF Go, SameCall, Regs

(* Forget. *)
LEMMA AfterForget ==
    ASSUME SharedTypeOK, NEW v \in Writers, NEW pc, Becomes(v, Forget(v, pc))
    PROVE  SameCall(v) /\ w'[v].pc = pc
  <1>1. PICK r : r = Forget(v, pc)
    OBVIOUS
  <1>2. w'[v] = r /\ w[v] \in Regs
    BY <1>1, AfterStep
  <1> QED BY <1>1, <1>2 DEF Forget, SameCall, Regs

(* Forget, and a row loaded. *)
LEMMA AfterForgetA ==
    ASSUME SharedTypeOK, NEW v \in Writers, NEW pc, NEW n, Becomes(v, [Forget(v, pc) EXCEPT !.a = n])
    PROVE  SameCall(v) /\ w'[v].pc = pc /\ w'[v].a = n
  <1>1. PICK r : r = [Forget(v, pc) EXCEPT !.a = n]
    OBVIOUS
  <1>2. w'[v] = r /\ w[v] \in Regs
    BY <1>1, AfterStep
  <1> QED BY <1>1, <1>2 DEF Forget, SameCall, Regs

(* do_newline, step by step. *)
LEMMA NlSteps ==
    ASSUME SharedTypeOK, NEW v \in Writers, NEW c \in Filled, NlAt(w[v], c), NlStep(v)
    PROVE  \/ SameCall(v) /\ NlAt(w[v], c)'
           \/ Becomes(v, Return(v)) /\ Con' = do_newline(c)
  <1> DEFINE Goal == \/ SameCall(v) /\ NlAt(w[v], c)'
                     \/ Becomes(v, Return(v)) /\ Con' = do_newline(c)
  <1>1. /\ c.row \in RowSet /\ c.col \in 0..COLS /\ COLS \in Nat /\ COLS > 1 /\ ROWS \in Nat
        /\ Cleared(c, c.col) = c.screen
        /\ \A k \in c.col..(COLS - 1) :
              [Cleared(c, k) EXCEPT ![c.row][k] = "blank"] = Cleared(c, k + 1)
        /\ do_newline(c) =
              IF c.row = ROWS - 1
              THEN [row |-> ROWS - 1, col |-> 0, screen |-> rollup(Cleared(c, COLS))]
              ELSE [row |-> c.row + 1, col |-> 0, screen |-> Cleared(c, COLS)]
    BY ClearedIs, ScreenAssumption DEF Filled
  <1>2. CASE NlTest(v)
    <2>1. /\ row' = row /\ col' = col /\ screen' = screen /\ Con = c
      BY <1>2 DEF NlTest, At, NlAt, NlRows, Keeps, vars
    <2>2. row = c.row /\ col = c.col /\ screen = c.screen
      BY <2>1 DEF Con
    <2>3. CASE col < COLS
      <3>1. w'[v].pc = "nl_row" /\ w'[v].b = col /\ SameCall(v)
        BY <1>2, <2>3, AfterGoB DEF NlTest
      <3>2. col' \in c.col..(COLS - 1)
        BY <1>1, <2>1, <2>2, <2>3
      <3> QED BY <1>1, <2>1, <2>2, <3>1, <3>2 DEF NlAt
    <2>4. CASE ~(col < COLS)
      <3>1. w'[v].pc = "nl_home" /\ SameCall(v)
        BY <1>2, <2>4, AfterForget DEF NlTest
      <3>2. c.col = COLS
        BY <1>1, <2>2, <2>4
      <3> QED BY <1>1, <2>1, <2>2, <3>1, <3>2 DEF NlAt
    <2> QED BY <2>3, <2>4
  <1>3. CASE At(v, "nl_row") /\ Becomes(v, [Go(v, "nl_put") EXCEPT !.a = row]) /\ Keeps
    <2>1. w'[v].pc = "nl_put" /\ w'[v].a = row /\ w'[v].b = w[v].b /\ SameCall(v)
      BY <1>3, AfterGoA
    <2>2. /\ row' = row /\ col' = col /\ screen' = screen
          /\ row = c.row /\ col \in c.col..(COLS - 1) /\ screen = Cleared(c, col) /\ w[v].b = col
      BY <1>3 DEF At, NlAt, NlRows, Keeps, vars
    <2> QED BY <2>1, <2>2 DEF NlAt
  <1>4. CASE At(v, "nl_put") /\ StoreChar(w[v].a, w[v].b, "blank") /\ Becomes(v, Forget(v, "nl_load"))
    <2>1. w'[v].pc = "nl_load" /\ SameCall(v)
      BY <1>4, AfterForget
    <2>2. /\ row = c.row /\ col \in c.col..(COLS - 1) /\ screen = Cleared(c, col)
          /\ w[v].b = col /\ w[v].a = row
      BY <1>4 DEF At, NlAt, NlRows
    <2>3. row \in RowSet /\ col \in ColSet
      BY <1>1, <2>2 DEF ColSet
    <2>4. screen' = [screen EXCEPT ![row][col] = "blank"] /\ row' = row /\ col' = col
      BY <1>4, <2>2, <2>3, StoreIs
    <2>5. screen' = Cleared(c, col + 1)
      BY <1>1, <2>2, <2>4
    <2> QED BY <2>1, <2>2, <2>4, <2>5 DEF NlAt
  <1>5. CASE At(v, "nl_load") /\ Becomes(v, [Go(v, "nl_store") EXCEPT !.b = col]) /\ Keeps
    <2>1. w'[v].pc = "nl_store" /\ w'[v].b = col /\ SameCall(v)
      BY <1>5, AfterGoB
    <2>2. /\ row' = row /\ col' = col /\ screen' = screen
          /\ row = c.row /\ col \in c.col..(COLS - 1) /\ screen = Cleared(c, col + 1)
      BY <1>5 DEF At, NlAt, NlRows, Keeps, vars
    <2> QED BY <2>1, <2>2 DEF NlAt
  <1>6. CASE NlNext(v)
    <2>1. /\ row = c.row /\ col \in c.col..(COLS - 1) /\ screen = Cleared(c, col + 1) /\ w[v].b = col
      BY <1>6 DEF NlNext, At, NlAt, NlRows
    <2>2. row' = row /\ col' = col + 1 /\ screen' = screen
      BY <1>6, <2>1 DEF NlNext, StoreCol
    <2>3. CASE col + 1 < COLS
      <3>1. w'[v].pc = "nl_row" /\ w'[v].b = col + 1 /\ SameCall(v)
        <4>1. Go(v, "nl_row").b = w[v].b
          BY DEF SharedTypeOK, Regs, Go
        <4>2. Becomes(v, [Go(v, "nl_row") EXCEPT !.b = col + 1])
          BY <1>6, <2>1, <2>3, <4>1 DEF NlNext
        <4> QED BY <4>2, AfterGoB
      <3>2. col + 1 \in c.col..(COLS - 1)
        BY <1>1, <2>1, <2>3
      <3> QED BY <2>1, <2>2, <3>1, <3>2 DEF NlAt
    <2>4. CASE ~(col + 1 < COLS)
      <3>1. w'[v].pc = "nl_home" /\ SameCall(v)
        BY <1>6, <2>1, <2>4, AfterForget DEF NlNext
      <3>2. col + 1 = COLS
        BY <1>1, <2>1, <2>4
      <3> QED BY <2>1, <2>2, <3>1, <3>2 DEF NlAt
    <2> QED BY <2>3, <2>4
  <1>7. CASE NlHome(v)
    <2>1. w'[v].pc = "nl_rowload" /\ SameCall(v)
      BY <1>7, AfterGo DEF NlHome
    <2>2. row = c.row /\ screen = Cleared(c, COLS) /\ row' = row /\ col' = 0 /\ screen' = screen
      BY <1>7 DEF NlHome, At, NlAt, NlRows, StoreCol
    <2> QED BY <2>1, <2>2 DEF NlAt
  <1>8. CASE NlLoadRow(v)
    <2>1. w'[v].pc = "nl_rowstore" /\ w'[v].a = row /\ SameCall(v)
      BY <1>8, AfterGoA DEF NlLoadRow
    <2>2. /\ row = c.row /\ col = 0 /\ screen = Cleared(c, COLS)
          /\ row' = row /\ col' = col /\ screen' = screen
      BY <1>8 DEF NlLoadRow, At, NlAt, NlRows, Keeps, vars
    <2> QED BY <2>1, <2>2 DEF NlAt
  <1>9. CASE NlStoreRow(v)
    <2>1. /\ row = c.row /\ col = 0 /\ screen = Cleared(c, COLS) /\ w[v].a = row
          /\ row' = c.row + 1 /\ col' = col /\ screen' = screen
      BY <1>9 DEF NlStoreRow, At, NlAt, NlRows, StoreRow
    <2>2. c.row + 1 > ROWS - 1 <=> c.row = ROWS - 1
      BY <1>1 DEF RowSet
    <2>3. CASE c.row = ROWS - 1
      <3>1. w'[v].pc = "rollup" /\ SameCall(v)
        BY <1>9, <2>1, <2>2, <2>3, AfterForget DEF NlStoreRow
      <3> QED BY <2>1, <2>3, <3>1 DEF NlAt, NlRows
    <2>4. CASE c.row # ROWS - 1
      <3>1. Becomes(v, Return(v))
        BY <1>9, <2>1, <2>2, <2>4 DEF NlStoreRow
      <3>2. Con' = do_newline(c)
        BY <1>1, <2>1, <2>4 DEF Con
      <3> QED BY <3>1, <3>2
    <2> QED BY <2>3, <2>4
  <1>10. CASE Rollup(v)
    <2>1. w'[v].pc = "nl_last" /\ SameCall(v)
      BY <1>10, AfterGo DEF Rollup
    <2>2. /\ c.row = ROWS - 1 /\ col = 0 /\ screen = Cleared(c, COLS)
          /\ col' = col /\ screen' = rollup(screen)
      BY <1>10 DEF Rollup, At, NlAt, NlRows
    <2> QED BY <2>1, <2>2 DEF NlAt, NlRows
  <1>11. CASE LastRow(v)
    <2>1. /\ c.row = ROWS - 1 /\ col = 0 /\ screen = rollup(Cleared(c, COLS))
          /\ col' = col /\ screen' = screen /\ row' = ROWS - 1
      BY <1>11 DEF LastRow, At, NlAt, NlRows, StoreRow
    <2>2. Con' = do_newline(c)
      BY <1>1, <2>1 DEF Con
    <2> QED BY <1>11, <2>2 DEF LastRow
  <1> QED BY <1>2, <1>3, <1>4, <1>5, <1>6, <1>7, <1>8, <1>9, <1>10, <1>11 DEF NlStep, NlBlank

(* The character of an ordinary write, or of the blanks of the others.        *)
LEMMA PutSteps ==
    ASSUME SharedTypeOK, NEW v \in Writers, NEW c \in Consoles, NEW g \in Glyphs,
           PutAt(w[v], c, g), PutStep(v), g = IF w[v].inner THEN "blank" ELSE "x",
           w[v].op # "backspace" \/ w[v].inner
    PROVE  \/ SameCall(v) /\ PutAt(w[v], c, g)'
           \/ Becomes(v, Return(v)) /\ Con' = Put(c, g)
  <1>1. /\ Put(c, g) = IF c.col + 1 >= COLS THEN do_newline(Shown(c, g, 1)) ELSE Shown(c, g, 1)
        /\ Shown(c, g, 1) \in Filled
        /\ c.row \in RowSet /\ c.col \in ColSet /\ c.col \in Int
    BY PutIs DEF Consoles, ColSet
  <1>2. CASE LoadRow(v)
    <2>1. w'[v].pc = "load_col" /\ w'[v].a = row /\ SameCall(v)
      BY <1>2, AfterGoA DEF LoadRow
    <2>2. Con = c /\ Con' = Con
      BY <1>2 DEF LoadRow, At, PutAt, NlAt, NlRows, Keeps, vars, Con
    <2>3. row = c.row
      BY <2>2 DEF Con
    <2> QED BY <2>1, <2>2, <2>3 DEF PutAt
  <1>3. CASE LoadCol(v)
    <2>1. Becomes(v, [Go(v, "put") EXCEPT !.b = col])
      BY <1>3 DEF LoadCol
    <2>2. w'[v].pc = "put" /\ w'[v].a = w[v].a /\ w'[v].b = col /\ SameCall(v)
      BY <2>1, AfterGoB
    <2>3. Con = c /\ Con' = Con /\ w[v].a = c.row
      BY <1>3 DEF LoadCol, At, PutAt, NlAt, NlRows, Keeps, vars, Con
    <2>4. col = c.col
      BY <2>3 DEF Con
    <2> QED BY <2>2, <2>3, <2>4 DEF PutAt
  <1>4. CASE PutChar(v)
    <2>1. w'[v].pc = "inc_load" /\ SameCall(v)
      BY <1>4, AfterForget DEF PutChar
    <2>2. Con = c /\ w[v].a = c.row /\ w[v].b = c.col
      BY <1>4 DEF PutChar, At, PutAt, NlAt, NlRows
    <2>3. screen = c.screen /\ row = c.row /\ col = c.col
      BY <2>2 DEF Con
    <2>4. StoreChar(c.row, c.col, g)
      BY <1>4, <2>2 DEF PutChar
    <2>5. screen' = [c.screen EXCEPT ![c.row][c.col] = g] /\ row' = row /\ col' = col
      BY <1>1, <2>3, <2>4, StoreIs
    <2>6. Con' = Shown(c, g, 0)
      BY <1>1, <2>3, <2>5 DEF Con, Shown
    <2> QED BY <2>1, <2>6 DEF PutAt
  <1>5. CASE IncLoad(v)
    <2>1. w'[v].pc = "inc_store" /\ w'[v].b = col /\ SameCall(v)
      BY <1>5, AfterGoB DEF IncLoad
    <2>2. Con = Shown(c, g, 0) /\ Con' = Con
      BY <1>5 DEF IncLoad, At, PutAt, NlAt, NlRows, Keeps, vars, Con
    <2>3. col = c.col
      BY <1>1, <2>2 DEF Con, Shown
    <2> QED BY <2>1, <2>2, <2>3 DEF PutAt
  <1>6. CASE IncStore(v)
    <2>1. Con = Shown(c, g, 0) /\ w[v].b = c.col
      BY <1>6 DEF IncStore, At, PutAt, NlAt, NlRows
    <2>2. row' = row /\ screen' = screen /\ col' = c.col + 1
      BY <1>6, <2>1 DEF IncStore, StoreCol
    <2>3. Con' = Shown(c, g, 1)
      BY <2>1, <2>2 DEF Con, Shown
    <2>4. CASE c.col + 1 >= COLS
      <3>1. w'[v].pc = "nl_test" /\ SameCall(v)
        BY <1>6, <2>1, <2>4, AfterForget DEF IncStore
      <3> QED BY <2>3, <2>4, <3>1 DEF PutAt, NlAt
    <2>5. CASE ~(c.col + 1 >= COLS)
      <3>1. Becomes(v, Return(v))
        BY <1>6, <2>1, <2>5 DEF IncStore
      <3> QED BY <1>1, <2>3, <2>5, <3>1
    <2> QED BY <2>4, <2>5
  <1>7. CASE NlStep(v)
    <2>1. w[v].pc \in NlCols \cup NlRows \cup {"nl_rowload", "nl_rowstore"}
      BY <1>7 DEF NlStep, NlTest, NlBlank, NlNext, NlHome, NlLoadRow, NlStoreRow, Rollup, LastRow,
                  At, NlCols, NlRows
    <2>2. c.col + 1 >= COLS /\ NlAt(w[v], Shown(c, g, 1))
      BY <2>1 DEF PutAt, NlCols, NlRows
    <2>3. PICK f \in Filled : f = Shown(c, g, 1)
      BY <1>1
    <2>4. NlAt(w[v], f)
      BY <2>2, <2>3
    <2>5. \/ SameCall(v) /\ NlAt(w[v], f)'
          \/ Becomes(v, Return(v)) /\ Con' = do_newline(f)
      BY <1>7, <2>4, NlSteps
    <2>6. CASE SameCall(v) /\ NlAt(w[v], f)'
      <3>1. PutAt(w[v], c, g)'
        BY <2>2, <2>3, <2>6 DEF PutAt, Shown, NlAt, Con
      <3> QED BY <2>6, <3>1
    <2>7. CASE Becomes(v, Return(v)) /\ Con' = do_newline(f)
      BY <1>1, <2>2, <2>3, <2>7
    <2> QED BY <2>5, <2>6, <2>7
  <1> QED BY <1>2, <1>3, <1>4, <1>5, <1>6, <1>7 DEF PutStep

(* The end of a call of write_k within another, or of the outer one.          *)
LEMMA AfterReturn ==
    ASSUME SharedTypeOK, NEW v \in Writers, Becomes(v, Return(v))
    PROVE  IF ~w[v].inner THEN w'[v] = Outside
           ELSE /\ w'[v].op = w[v].op /\ w'[v].before = w[v].before /\ w'[v].alone = w[v].alone
                /\ w'[v].n = w[v].n /\ w'[v].inner = FALSE
                /\ w'[v].pc = IF w[v].op = "tab" THEN "tab" ELSE "again_col"
  <1>1. PICK r : r = Return(v)
    OBVIOUS
  <1>2. w'[v] = r /\ w[v] \in Regs
    BY <1>1, AfterStep
  <1> QED BY <1>1, <1>2 DEF Return, Forget, Regs

(* And its beginning. *)
LEMMA AfterCall ==
    ASSUME SharedTypeOK, NEW v \in Writers, Becomes(v, Call(v))
    PROVE  /\ w'[v].op = w[v].op /\ w'[v].before = w[v].before /\ w'[v].alone = w[v].alone
           /\ w'[v].n = w[v].n + 1 /\ w'[v].inner = TRUE /\ w'[v].pc = "load_row"
  <1>1. PICK r : r = Call(v)
    OBVIOUS
  <1>2. w'[v] = r /\ w[v] \in Regs
    BY <1>1, AfterStep
  <1> QED BY <1>1, <1>2 DEF Call, Forget, Regs

(* Where a backspace moves to. *)
LEMMA BackIs ==
    ASSUME NEW c \in Consoles
    PROVE  /\ c = [row |-> c.row, col |-> c.col, screen |-> c.screen]
           /\ c.row \in Nat /\ c.col \in Nat
           /\ c.col = 0 /\ c.row > 0 =>
                 Back(c) = [row |-> c.row - 1, col |-> COLS - 1, screen |-> c.screen]
           /\ c.col > 0 => Back(c) = [row |-> c.row, col |-> c.col - 1, screen |-> c.screen]
           /\ c.col = 0 /\ c.row = 0 => Back(c) = c
  <1>1. c = [row |-> c.row, col |-> c.col, screen |-> c.screen]
    BY DEF Consoles
  <1>2. c.row \in Nat /\ c.col \in Nat
    BY ScreenAssumption DEF Consoles, RowSet, ColSet
  <1>3. ASSUME c.col = 0, c.row > 0
        PROVE  Back(c) = [row |-> c.row - 1, col |-> COLS - 1, screen |-> c.screen]
    <2>1. Back(c) = [c EXCEPT !.col = COLS - 1, !.row = c.row - 1]
      BY <1>3 DEF Back
    <2> QED BY <1>1, <2>1
  <1>4. ASSUME c.col > 0
        PROVE  Back(c) = [row |-> c.row, col |-> c.col - 1, screen |-> c.screen]
    <2>1. Back(c) = [c EXCEPT !.col = c.col - 1]
      BY <1>2, <1>4 DEF Back
    <2> QED BY <1>1, <2>1
  <1>5. c.col = 0 /\ c.row = 0 => Back(c) = c
    BY DEF Back
  <1> QED BY <1>1, <1>2, <1>3, <1>4, <1>5

(* Its first move. *)
LEMMA Back1Steps ==
    ASSUME SharedTypeOK, NEW v \in Writers, NEW c \in Consoles, Back1At(w[v], c),
           w[v].op = "backspace", ~w[v].inner, LoadRow(v) \/ LoadCol(v) \/ Back1(v)
    PROVE  \/ SameCall(v) /\ Back1At(w[v], c)'
           \/ Becomes(v, Call(v)) /\ Con' = Back(c)
  <1>1. /\ c = [row |-> c.row, col |-> c.col, screen |-> c.screen]
        /\ c.row \in Nat /\ c.col \in Nat
        /\ c.col = 0 /\ c.row > 0 =>
              Back(c) = [row |-> c.row - 1, col |-> COLS - 1, screen |-> c.screen]
        /\ c.col > 0 => Back(c) = [row |-> c.row, col |-> c.col - 1, screen |-> c.screen]
        /\ c.col = 0 /\ c.row = 0 => Back(c) = c
    BY BackIs
  <1>2. CASE LoadRow(v)
    <2>1. w'[v].pc = "load_col" /\ w'[v].a = row /\ SameCall(v)
      BY <1>2, AfterGoA DEF LoadRow
    <2>2. Con = c /\ Con' = Con
      BY <1>2 DEF LoadRow, At, Back1At, Keeps, vars, Con
    <2>3. row = c.row
      BY <2>2 DEF Con
    <2> QED BY <2>1, <2>2, <2>3 DEF Back1At
  <1>3. CASE LoadCol(v)
    <2>1. Con = c /\ Con' = Con /\ w[v].a = c.row
      BY <1>3 DEF LoadCol, At, Back1At, Keeps, vars, Con
    <2>2. col = c.col
      BY <2>1 DEF Con
    <2>3. PICK pc : pc = Left(v)
      OBVIOUS
    <2>4. Becomes(v, [Go(v, pc) EXCEPT !.b = col])
      BY <1>3, <2>3 DEF LoadCol
    <2>5. w'[v].pc = pc /\ w'[v].a = w[v].a /\ w'[v].b = col /\ SameCall(v)
      BY <2>4, AfterGoB
    <2>6. pc = IF c.col = 0 /\ c.row > 0 THEN "back_end" ELSE IF c.col > 0 THEN "back_left" ELSE "call"
      BY <2>1, <2>2, <2>3 DEF Left
    <2>7. CASE c.col = 0 /\ c.row > 0
      BY <2>1, <2>5, <2>6, <2>7 DEF Back1At
    <2>8. CASE c.col > 0
      BY <2>1, <2>2, <2>5, <2>6, <2>8 DEF Back1At
    <2>9. CASE c.col = 0 /\ c.row = 0
      BY <1>1, <2>1, <2>5, <2>6, <2>9 DEF Back1At
    <2> QED BY <1>1, <2>7, <2>8, <2>9
  <1>4. CASE At(v, "back_end") /\ StoreCol(COLS - 1) /\ Becomes(v, Go(v, "back_up"))
    <2>1. w'[v].pc = "back_up" /\ w'[v].a = w[v].a /\ SameCall(v)
      BY <1>4, AfterGo
    <2>2. Con = c /\ c.col = 0 /\ c.row > 0 /\ w[v].a = c.row
      BY <1>4 DEF At, Back1At
    <2>3. row' = c.row /\ screen' = c.screen /\ col' = COLS - 1
      BY <1>4, <2>2 DEF StoreCol, Con
    <2> QED BY <2>1, <2>2, <2>3 DEF Back1At
  <1>5. CASE At(v, "back_up") /\ BackToRow(w[v].a - 1) /\ Becomes(v, Forget(v, "call"))
    <2>1. w'[v].pc = "call" /\ SameCall(v)
      BY <1>5, AfterForget
    <2>2. c.col = 0 /\ c.row > 0 /\ row' = c.row - 1 /\ col' = COLS - 1 /\ screen' = c.screen
      BY <1>5 DEF At, Back1At, BackToRow
    <2>3. Con' = Back(c)
      BY <1>1, <2>2 DEF Con
    <2> QED BY <2>1, <2>3 DEF Back1At
  <1>6. CASE At(v, "back_left") /\ BackToCol(w[v].b - 1) /\ Becomes(v, Forget(v, "call"))
    <2>1. w'[v].pc = "call" /\ SameCall(v)
      BY <1>6, AfterForget
    <2>2. Con = c /\ c.col > 0 /\ w[v].b = c.col
      BY <1>6 DEF At, Back1At
    <2>3. row' = c.row /\ col' = c.col - 1 /\ screen' = c.screen
      BY <1>6, <2>2 DEF BackToCol, Con
    <2>4. Con' = Back(c)
      BY <1>1, <2>2, <2>3 DEF Con
    <2> QED BY <2>1, <2>4 DEF Back1At
  <1>7. CASE At(v, "call") /\ Becomes(v, Call(v)) /\ Keeps
    BY <1>7 DEF At, Back1At, Keeps, vars, Con
  <1> QED BY <1>2, <1>3, <1>4, <1>5, <1>6, <1>7 DEF Back1

(* And its second. *)
LEMMA Back2Steps ==
    ASSUME SharedTypeOK, NEW v \in Writers, NEW d \in Consoles, Back2At(w[v], d), Back2(v)
    PROVE  \/ SameCall(v) /\ Back2At(w[v], d)'
           \/ Becomes(v, Outside) /\ Con' = Back(d)
  <1>1. /\ d = [row |-> d.row, col |-> d.col, screen |-> d.screen]
        /\ d.row \in Nat /\ d.col \in Nat
        /\ d.col = 0 /\ d.row > 0 =>
              Back(d) = [row |-> d.row - 1, col |-> COLS - 1, screen |-> d.screen]
        /\ d.col > 0 => Back(d) = [row |-> d.row, col |-> d.col - 1, screen |-> d.screen]
        /\ d.col = 0 /\ d.row = 0 => Back(d) = d
    BY BackIs
  <1>2. CASE /\ At(v, "again_col") /\ Keeps
             /\ Becomes(v, [Go(v, IF col = 0 THEN "again_row" ELSE "again_left") EXCEPT !.b = col])
    <2>1. PICK pc : pc = IF col = 0 THEN "again_row" ELSE "again_left"
      OBVIOUS
    <2>2. w'[v].pc = pc /\ w'[v].b = col /\ SameCall(v)
      <3>1. Becomes(v, [Go(v, pc) EXCEPT !.b = col])
        BY <1>2, <2>1
      <3> QED BY <3>1, AfterGoB
    <2>3. Con = d /\ Con' = Con
      BY <1>2 DEF At, Back2At, Keeps, vars, Con
    <2>4. col = d.col
      BY <2>3 DEF Con
    <2>5. CASE d.col = 0
      BY <2>1, <2>2, <2>3, <2>4, <2>5 DEF Back2At
    <2>6. CASE d.col > 0
      BY <2>1, <2>2, <2>3, <2>4, <2>6 DEF Back2At
    <2> QED BY <1>1, <2>5, <2>6
  <1>3. CASE /\ At(v, "again_row") /\ Keeps
             /\ Becomes(v, IF row > 0 THEN [Forget(v, "again_end") EXCEPT !.a = row] ELSE Outside)
    <2>1. Con = d /\ Con' = Con /\ d.col = 0
      BY <1>3 DEF At, Back2At, Keeps, vars, Con
    <2>2. row = d.row
      BY <2>1 DEF Con
    <2>3. CASE d.row > 0
      <3>1. Becomes(v, [Forget(v, "again_end") EXCEPT !.a = d.row])
        BY <1>3, <2>2, <2>3
      <3>2. w'[v].pc = "again_end" /\ w'[v].a = d.row /\ SameCall(v)
        BY <3>1, AfterForgetA
      <3> QED BY <2>1, <2>3, <3>2 DEF Back2At
    <2>4. CASE d.row = 0
      BY <1>1, <1>3, <2>1, <2>2, <2>4
    <2> QED BY <1>1, <2>3, <2>4
  <1>4. CASE At(v, "again_left") /\ BackToCol(w[v].b - 1) /\ Becomes(v, Outside)
    <2>1. Con = d /\ d.col > 0 /\ w[v].b = d.col
      BY <1>4 DEF At, Back2At
    <2>2. row' = d.row /\ col' = d.col - 1 /\ screen' = d.screen
      BY <1>4, <2>1 DEF BackToCol, Con
    <2>3. Con' = Back(d)
      BY <1>1, <2>1, <2>2 DEF Con
    <2> QED BY <1>4, <2>3
  <1>5. CASE At(v, "again_end") /\ StoreCol(COLS - 1) /\ Becomes(v, Go(v, "again_up"))
    <2>1. w'[v].pc = "again_up" /\ w'[v].a = w[v].a /\ SameCall(v)
      BY <1>5, AfterGo
    <2>2. Con = d /\ d.col = 0 /\ d.row > 0 /\ w[v].a = d.row
      BY <1>5 DEF At, Back2At
    <2>3. row' = d.row /\ screen' = d.screen /\ col' = COLS - 1
      BY <1>5, <2>2 DEF StoreCol, Con
    <2> QED BY <2>1, <2>2, <2>3 DEF Back2At
  <1>6. CASE At(v, "again_up") /\ BackToRow(w[v].a - 1) /\ Becomes(v, Outside)
    <2>1. d.col = 0 /\ d.row > 0 /\ row' = d.row - 1 /\ col' = COLS - 1 /\ screen' = d.screen
      BY <1>6 DEF At, Back2At, BackToRow
    <2>2. Con' = Back(d)
      BY <1>1, <2>1 DEF Con
    <2> QED BY <1>6, <2>2
  <1> QED BY <1>2, <1>3, <1>4, <1>5, <1>6 DEF Back2

(* The consoles of a tab, and where its loop stands.                         *)
LEMMA AfterIs ==
    ASSUME NEW c \in Consoles
    PROVE  /\ \A n \in 0..3 : After(c, n) \in Consoles
           /\ After(c, 0) = c
           /\ \A n \in 0..2 : After(c, n + 1) = Put(After(c, n), "blank")
           /\ \A n \in 0..2 : After(c, n + 1).col =
                 IF After(c, n).col + 1 >= COLS THEN 0 ELSE After(c, n).col + 1
  <1>1. \A d \in Consoles : /\ After1(d) \in Consoles
                            /\ After1(d).col = IF d.col + 1 >= COLS THEN 0 ELSE d.col + 1
    BY PutOnScreen, GlyphAssumption DEF After1
  <1>2. PICK d1 \in Consoles : d1 = After1(c)
    BY <1>1
  <1>3. PICK d2 \in Consoles : d2 = After1(d1)
    BY <1>1
  <1>4. PICK d3 \in Consoles : d3 = After1(d2)
    BY <1>1
  <1>5. After(c, 0) = c /\ After(c, 1) = d1 /\ After(c, 2) = d2 /\ After(c, 3) = d3
    BY <1>2, <1>3, <1>4 DEF After
  <1>6. \A n \in 0..3 : After(c, n) \in Consoles
    BY <1>5
  <1>7. \A n \in 0..2 : After(c, n + 1) = After1(After(c, n))
    <2>1. \A n \in 0..2 : n = 0 \/ n = 1 \/ n = 2
      OBVIOUS
    <2> QED BY <1>2, <1>3, <1>4, <1>5, <2>1
  <1>8. \A n \in 0..2 : After(c, n) \in Consoles
    BY <1>6
  <1> QED BY <1>1, <1>5, <1>6, <1>7, <1>8 DEF After1

(* The loop of a tab goes on to a tab stop, and no further.                   *)
LEMMA GoingIs ==
    ASSUME NEW c \in Consoles, NEW n \in 0..3, Going(c, n)
    PROVE  /\ After(c, n).col % 4 = 0 \/ n < After(c, n).col % 4
           /\ n < After(c, n).col % 4 => n + 1 \in 1..3 /\ Going(c, n + 1)
  <1>1. PICK k \in [0..3 -> Nat] : \A m \in 0..3 : k[m] = After(c, m).col
    <2>1. \A m \in 0..3 : After(c, m).col \in Nat
      BY AfterIs, ScreenAssumption DEF Consoles, ColSet
    <2>2. [m \in 0..3 |-> After(c, m).col] \in [0..3 -> Nat]
      BY <2>1
    <2> QED BY <2>2
  <1>2. \A m \in 0..2 : k[m + 1] = IF k[m] + 1 >= COLS THEN 0 ELSE k[m] + 1
    BY <1>1, AfterIs
  <1>3. \A m \in 0..3 : k[m] < COLS
    <2>1. \A d \in Consoles : d.col \in 0..(COLS - 1)
      BY DEF Consoles, ColSet
    <2>2. \A d \in Consoles : d.col < COLS
      BY <2>1, ScreenAssumption
    <2> QED BY <1>1, <2>2, AfterIs
  <1>4. \A m \in 0..(n - 1) : m < k[m] % 4
    BY <1>1 DEF Going
  <1>5. COLS \in Nat /\ COLS > 1 /\ COLS % 4 = 0
    BY ScreenAssumption, TabAssumption
  <1>6. ASSUME NEW m \in 0..2, m < k[m] % 4
        PROVE  k[m + 1] % 4 = 0 \/ m + 1 < k[m + 1] % 4
    <2>1. k[m] \in Nat /\ k[m] < COLS /\ k[m + 1] = IF k[m] + 1 >= COLS THEN 0 ELSE k[m] + 1
      BY <1>1, <1>2, <1>3
    <2> QED BY <1>5, <1>6, <2>1
  <1>7. k[n] % 4 = 0 \/ n < k[n] % 4
    <2>1. CASE n = 0
      <3>1. k[0] \in Nat
        BY <1>1
      <3> QED BY <2>1, <3>1
    <2>2. CASE n # 0
      <3>1. PICK m \in 0..2 : n = m + 1 /\ m \in 0..(n - 1)
        <4>1. n - 1 \in 0..2 /\ n = (n - 1) + 1 /\ n - 1 \in 0..(n - 1)
          BY <2>2
        <4> QED BY <4>1
      <3> QED BY <1>4, <1>6, <3>1
    <2> QED BY <2>1, <2>2
  <1>8. ASSUME n < k[n] % 4 PROVE n + 1 \in 1..3 /\ Going(c, n + 1)
    <2>1. n + 1 \in 1..3
      <3>1. k[n] \in Nat
        BY <1>1
      <3> QED BY <1>8, <3>1
    <2>2. \A m \in 0..((n + 1) - 1) : m \in 0..(n - 1) \/ m = n
      OBVIOUS
    <2>3. \A m \in 0..((n + 1) - 1) : m \in 0..3
      BY <2>1
    <2> QED BY <1>1, <1>4, <1>8, <2>1, <2>2, <2>3 DEF Going
  <1> QED BY <1>1, <1>7, <1>8

(* So the loop ends with the console that Blanks picks.                      *)
LEMMA BlanksIs ==
    ASSUME NEW c \in Consoles, NEW n \in 0..3, Going(c, n), ~(n < After(c, n).col % 4)
    PROVE  Blanks(c) = After(c, n) /\ After(c, n).col % 4 = 0
  <1> DEFINE after == CHOOSE f : f = [m \in 0..3 |-> IF m = 0 THEN c ELSE Put(f[m - 1], "blank")]
  <1>1. Blanks(c) = after[CHOOSE m \in 0..3 : /\ m >= after[m].col % 4
                                              /\ \A i \in 0..(m - 1) : i < after[i].col % 4]
    BY DEF Blanks
  <1>2. after = [m \in 0..3 |-> IF m = 0 THEN c ELSE Put(after[m - 1], "blank")]
    <2>1. PICK g : g = [m \in 0..3 |-> After(c, m)]
      OBVIOUS
    <2>2. \A m \in 0..3 : g[m] = IF m = 0 THEN c ELSE Put(g[m - 1], "blank")
      <3>1. g[0] = c
        BY <2>1, AfterIs
      <3>2. ASSUME NEW m \in 0..3, m # 0 PROVE g[m] = Put(g[m - 1], "blank")
        <4>1. PICK i \in 0..2 : m = i + 1 /\ i = m - 1
          <5>1. m - 1 \in 0..2 /\ m = (m - 1) + 1
            BY <3>2
          <5> QED BY <5>1
        <4>2. g[i] = After(c, i) /\ g[i + 1] = After(c, i + 1)
          BY <2>1
        <4> QED BY <4>1, <4>2, AfterIs
      <3> QED BY <3>1, <3>2
    <2>3. g = [m \in 0..3 |-> IF m = 0 THEN c ELSE Put(g[m - 1], "blank")]
      BY <2>1, <2>2
    <2> QED BY <2>3
  <1> HIDE DEF after
  <1>3. after[0] = c /\ \A i \in 0..2 : after[i + 1] = Put(after[i], "blank")
    <2>1. after[0] = c
      BY <1>2
    <2>2. ASSUME NEW i \in 0..2 PROVE after[i + 1] = Put(after[i], "blank")
      <3>1. i + 1 \in 0..3 /\ i + 1 # 0 /\ (i + 1) - 1 = i
        OBVIOUS
      <3>2. \A m \in 0..3 : after[m] = IF m = 0 THEN c ELSE Put(after[m - 1], "blank")
        BY <1>2
      <3> QED BY <3>1, <3>2
    <2> QED BY <2>1, <2>2
  <1>4. \A m \in 0..3 : after[m] = After(c, m)
    <2>1. \A i \in 0..2 : After(c, i + 1) = Put(After(c, i), "blank")
      BY AfterIs
    <2>2. after[0] = After(c, 0)
      BY <1>3, AfterIs
    <2>3. \A i \in 0..2 : after[i] = After(c, i) => after[i + 1] = After(c, i + 1)
      BY <1>3, <2>1
    <2>4. after[1] = After(c, 1)
      <3>1. 0 \in 0..2 /\ 0 + 1 = 1
        OBVIOUS
      <3> QED BY <2>2, <2>3, <3>1
    <2>5. after[2] = After(c, 2)
      <3>1. 1 \in 0..2 /\ 1 + 1 = 2
        OBVIOUS
      <3> QED BY <2>4, <2>3, <3>1
    <2>6. after[3] = After(c, 3)
      <3>1. 2 \in 0..2 /\ 2 + 1 = 3
        OBVIOUS
      <3> QED BY <2>5, <2>3, <3>1
    <2>7. \A m \in 0..3 : m = 0 \/ m = 1 \/ m = 2 \/ m = 3
      OBVIOUS
    <2> QED BY <2>2, <2>4, <2>5, <2>6, <2>7
  <1>5. \A m \in 0..3 : After(c, m).col % 4 \in Int
    <2>1. \A m \in 0..3 : After(c, m).col \in ColSet
      <3>1. \A m \in 0..3 : After(c, m) \in Consoles
        BY ONLY AfterIs, c \in Consoles, Zenon
      <3>2. \A d \in Consoles : d.col \in ColSet
        BY DEF Consoles
      <3> QED BY ONLY <3>1, <3>2, Zenon
    <2>2. \A i \in ColSet : i % 4 \in Int
      BY ScreenAssumption DEF ColSet
    <2> QED BY ONLY <2>1, <2>2, Zenon
  <1> DEFINE Last(m) == m >= after[m].col % 4 /\ \A i \in 0..(m - 1) : i < after[i].col % 4
  <1>6. Last(n)
    <2>1. n >= after[n].col % 4
      BY <1>4, <1>5
    <2>2. \A i \in 0..(n - 1) : i \in 0..3
      OBVIOUS
    <2> QED BY <1>4, <2>1, <2>2 DEF Going
  <1>7. ASSUME NEW m \in 0..3, Last(m) PROVE m = n
    <2>1. /\ ~(m < after[m].col % 4) /\ ~(n < after[n].col % 4)
      BY <1>4, <1>5, <1>6, <1>7
    <2>2. ~(m < n)
      <3>1. m < n => m \in 0..(n - 1)
        OBVIOUS
      <3> QED BY <1>6, <2>1, <3>1
    <2>3. ~(n < m)
      <3>1. n < m => n \in 0..(m - 1)
        OBVIOUS
      <3> QED BY <1>7, <2>1, <3>1
    <2> QED BY <2>2, <2>3
  <1>8. (CHOOSE m \in 0..3 : Last(m)) = n
    <2> HIDE DEF Last
    <2> QED BY <1>6, <1>7
  <1>9. Blanks(c) = after[n]
    BY <1>1, <1>8
  <1> QED BY <1>4, <1>9, GoingIs

PutPCs == {"load_row", "load_col", "put", "inc_load", "inc_store"}
NlPCs == NlCols \cup NlRows \cup {"nl_rowload", "nl_rowstore"}

(* Where a writer is decides what it does next. *)
LEMMA StepsOf ==
    ASSUME NEW v \in Writers, Inside(v), Write(v)
    PROVE  /\ w[v].pc \in NlPCs => NlStep(v)
           /\ w[v].pc \in PutPCs => LoadRow(v) \/ LoadCol(v) \/ PutChar(v) \/ IncLoad(v) \/ IncStore(v)
           /\ w[v].pc \in {"back_end", "back_up", "back_left", "call"} => Back1(v)
           /\ w[v].pc \in {"again_col", "again_row", "again_end", "again_up", "again_left"} => Back2(v)
           /\ w[v].pc = "tab" => Tab(v)
  <1>1. \A op : ~Start(v, op)
    BY DEF Start
  <1>2. LoadRow(v) \/ LoadCol(v) \/ PutChar(v) \/ IncLoad(v) \/ IncStore(v) => w[v].pc \in PutPCs
    BY DEF LoadRow, LoadCol, PutChar, IncLoad, IncStore, At, PutPCs
  <1>3. NlStep(v) => w[v].pc \in NlPCs
    BY DEF NlStep, NlTest, NlBlank, NlNext, NlHome, NlLoadRow, NlStoreRow, Rollup, LastRow, At,
           NlPCs, NlCols, NlRows
  <1>4. Back1(v) => w[v].pc \in {"back_end", "back_up", "back_left", "call"}
    BY DEF Back1, At
  <1>5. Back2(v) => w[v].pc \in {"again_col", "again_row", "again_end", "again_up", "again_left"}
    BY DEF Back2, At
  <1>6. Tab(v) => w[v].pc = "tab"
    BY DEF Tab, At
  <1>7. \/ LoadRow(v) \/ LoadCol(v) \/ PutChar(v) \/ IncLoad(v) \/ IncStore(v)
        \/ Back1(v) \/ Back2(v) \/ Tab(v) \/ NlStep(v)
    BY <1>1 DEF Write, NlStep
  <1> QED BY <1>2, <1>3, <1>4, <1>5, <1>6, <1>7 DEF NlPCs, NlCols, NlRows, PutPCs

(* The places of a line break, of a character and of a backspace's moves.     *)
LEMMA PlacesOf ==
    ASSUME NEW r, NEW c
    PROVE  /\ NlAt(r, c) => r.pc \in NlPCs
           /\ \A g : PutAt(r, c, g) => r.pc \in PutPCs \cup NlPCs
           /\ Back1At(r, c) => r.pc \in {"load_row", "load_col", "back_end", "back_up", "back_left", "call"}
           /\ Back2At(r, c) => r.pc \in {"again_col", "again_row", "again_end", "again_up", "again_left"}
  <1>1. \A d : NlAt(r, d) => r.pc \in NlPCs
    BY DEF NlAt, NlPCs, NlCols, NlRows
  <1>2. \A g : PutAt(r, c, g) => r.pc \in PutPCs \cup NlPCs
    BY <1>1 DEF PutAt, PutPCs
  <1> QED BY <1>1, <1>2 DEF Back1At, Back2At

(* A call goes on, or ends as module Console says.                           *)
GoesOn(v, c) ==
    w'[v].before = w[v].before /\ w'[v].alone = w[v].alone /\ w'[v].pc # "out" /\ OpAt(w[v], c)'
Ends(v, c) ==
    w'[v] = Outside /\ Con' = Expected(w[v].op, c) /\ (w[v].op = "tab" => col' % 4 = 0)

(* A writer at a place of a call is inside. *)
LEMMA InsideAfter ==
    ASSUME NEW v \in Writers, NEW c, OpAt(w[v], c)'
    PROVE  w'[v].pc # "out"
  BY DEF OpAt, PutAt, NlAt, Back1At, Back2At, NlRows

(* The steps of an ordinary character. *)
LEMMA GlyphSteps ==
    ASSUME SharedTypeOK, NEW v \in Writers, NEW c \in Consoles, Inside(v), Write(v),
           w[v].op = "glyph", ~w[v].inner, PutAt(w[v], c, "x")
    PROVE  GoesOn(v, c) \/ Ends(v, c)
  <1>1. PutStep(v)
    BY StepsOf, PlacesOf DEF PutStep
  <1>2. \/ SameCall(v) /\ PutAt(w[v], c, "x")'
        \/ Becomes(v, Return(v)) /\ Con' = Put(c, "x")
    BY <1>1, PutSteps, ScreensAssumption
  <1>3. CASE SameCall(v) /\ PutAt(w[v], c, "x")'
    <2>1. OpAt(w[v], c)'
      BY <1>3 DEF OpAt, SameCall
    <2> QED BY <1>3, <2>1, InsideAfter DEF GoesOn, SameCall
  <1>4. CASE Becomes(v, Return(v)) /\ Con' = Put(c, "x")
    BY <1>4, AfterReturn DEF Ends, Expected
  <1> QED BY <1>2, <1>3, <1>4

(* Those of a line break. *)
LEMMA NewlineSteps ==
    ASSUME SharedTypeOK, NEW v \in Writers, NEW c \in Consoles, Inside(v), Write(v),
           w[v].op = "newline", ~w[v].inner, NlAt(w[v], c)
    PROVE  GoesOn(v, c) \/ Ends(v, c)
  <1>1. NlStep(v)
    BY StepsOf, PlacesOf
  <1>2. c \in Filled
    BY ScreenAssumption DEF Consoles, Filled, ColSet
  <1>3. \/ SameCall(v) /\ NlAt(w[v], c)'
        \/ Becomes(v, Return(v)) /\ Con' = do_newline(c)
    BY <1>1, <1>2, NlSteps
  <1>4. CASE SameCall(v) /\ NlAt(w[v], c)'
    <2>1. OpAt(w[v], c)'
      BY <1>4 DEF OpAt, SameCall
    <2> QED BY <1>4, <2>1, InsideAfter DEF GoesOn, SameCall
  <1>5. CASE Becomes(v, Return(v)) /\ Con' = do_newline(c)
    BY <1>5, AfterReturn DEF Ends, Expected
  <1> QED BY <1>3, <1>4, <1>5

(* Those of a backspace: it moves, writes its blank, and moves again.         *)
LEMMA BackspaceSteps ==
    ASSUME SharedTypeOK, NEW v \in Writers, NEW c \in Consoles, Inside(v), Write(v),
           w[v].op = "backspace",
           IF w[v].inner THEN PutAt(w[v], Back(c), "blank")
           ELSE Back1At(w[v], c) \/ Back2At(w[v], Put(Back(c), "blank"))
    PROVE  GoesOn(v, c) \/ Ends(v, c)
  <1>1. PICK b \in Consoles : b = Back(c)
    BY BackOnScreen
  <1>2. PICK d \in Consoles : d = Put(b, "blank")
    BY PutOnScreen, GlyphAssumption
  <1>3. CASE ~w[v].inner /\ Back1At(w[v], c)
    <2>1. LoadRow(v) \/ LoadCol(v) \/ Back1(v)
      <3>1. w[v].pc \in PutPCs => LoadRow(v) \/ LoadCol(v) \/ PutChar(v) \/ IncLoad(v) \/ IncStore(v)
        BY StepsOf
      <3>2. w[v].pc \in {"load_row", "load_col"} => LoadRow(v) \/ LoadCol(v)
        BY <3>1 DEF PutPCs, PutChar, IncLoad, IncStore, At
      <3> QED BY <1>3, <3>2, StepsOf, PlacesOf
    <2>2. \/ SameCall(v) /\ Back1At(w[v], c)'
          \/ Becomes(v, Call(v)) /\ Con' = Back(c)
      BY <1>3, <2>1, Back1Steps
    <2>3. CASE SameCall(v) /\ Back1At(w[v], c)'
      <3>1. OpAt(w[v], c)'
        BY <1>3, <2>3 DEF OpAt, SameCall
      <3> QED BY <2>3, <3>1, InsideAfter DEF GoesOn, SameCall
    <2>4. CASE Becomes(v, Call(v)) /\ Con' = Back(c)
      <3>1. /\ w'[v].op = w[v].op /\ w'[v].before = w[v].before /\ w'[v].alone = w[v].alone
            /\ w'[v].inner = TRUE /\ w'[v].pc = "load_row"
        BY <2>4, AfterCall
      <3>2. PutAt(w[v], Back(c), "blank")'
        BY <2>4, <3>1 DEF PutAt
      <3>3. OpAt(w[v], c)'
        BY <3>1, <3>2 DEF OpAt
      <3> QED BY <3>1, <3>3, InsideAfter DEF GoesOn
    <2> QED BY <2>2, <2>3, <2>4
  <1>4. CASE ~w[v].inner /\ Back2At(w[v], Put(Back(c), "blank"))
    <2>1. Back2At(w[v], d)
      BY <1>1, <1>2, <1>4
    <2>2. Back2(v)
      BY <2>1, StepsOf, PlacesOf
    <2>3. \/ SameCall(v) /\ Back2At(w[v], d)'
          \/ Becomes(v, Outside) /\ Con' = Back(d)
      BY <2>1, <2>2, Back2Steps
    <2>4. CASE SameCall(v) /\ Back2At(w[v], d)'
      <3>1. Back2At(w[v], Put(Back(c), "blank"))'
        BY <1>1, <1>2, <2>4
      <3>2. OpAt(w[v], c)'
        BY <1>4, <2>4, <3>1 DEF OpAt, SameCall
      <3> QED BY <2>4, <3>2, InsideAfter DEF GoesOn, SameCall
    <2>5. CASE Becomes(v, Outside) /\ Con' = Back(d)
      <3>1. w'[v] = Outside
        BY <2>5, AfterStep
      <3> QED BY <1>1, <1>2, <2>5, <3>1 DEF Ends, Expected
    <2> QED BY <2>3, <2>4, <2>5
  <1>5. CASE w[v].inner
    <2>1. PutAt(w[v], b, "blank")
      BY <1>1, <1>5
    <2>2. PutStep(v)
      BY <2>1, StepsOf, PlacesOf DEF PutStep
    <2>3. \/ SameCall(v) /\ PutAt(w[v], b, "blank")'
          \/ Becomes(v, Return(v)) /\ Con' = Put(b, "blank")
      BY <1>5, <2>1, <2>2, PutSteps, GlyphAssumption
    <2>4. CASE SameCall(v) /\ PutAt(w[v], b, "blank")'
      <3>1. PutAt(w[v], Back(c), "blank")'
        BY <1>1, <2>4
      <3>2. OpAt(w[v], c)'
        BY <1>5, <2>4, <3>1 DEF OpAt, SameCall
      <3> QED BY <2>4, <3>2, InsideAfter DEF GoesOn, SameCall
    <2>5. CASE Becomes(v, Return(v)) /\ Con' = Put(b, "blank")
      <3>1. /\ w'[v].op = w[v].op /\ w'[v].before = w[v].before /\ w'[v].alone = w[v].alone
            /\ w'[v].inner = FALSE /\ w'[v].pc = "again_col"
        BY <1>5, <2>5, AfterReturn
      <3>2. Back2At(w[v], Put(Back(c), "blank"))'
        BY <1>1, <2>5, <3>1 DEF Back2At
      <3>3. OpAt(w[v], c)'
        BY <3>1, <3>2 DEF OpAt
      <3> QED BY <3>1, <3>3, InsideAfter DEF GoesOn
    <2> QED BY <2>3, <2>4, <2>5
  <1> QED BY <1>3, <1>4, <1>5

(* Those of a tab: its blanks, and between two of them its loop. *)
LEMMA TabSteps ==
    ASSUME SharedTypeOK, NEW v \in Writers, NEW c \in Consoles, Inside(v), Write(v),
           w[v].op = "tab", NEW n \in 0..3, w[v].n = n, Going(c, n),
           IF w[v].inner THEN n > 0 /\ PutAt(w[v], After(c, n - 1), "blank")
           ELSE w[v].pc = "tab" /\ Con = After(c, n)
    PROVE  GoesOn(v, c) \/ Ends(v, c)
  <1>1. CASE w[v].inner
    <2>1. n \in 1..3 /\ n - 1 \in 0..2 /\ (n - 1) + 1 = n /\ n - 1 \in 0..3
      BY <1>1
    <2>2. PICK b \in Consoles : b = After(c, n - 1)
      BY <2>1, AfterIs
    <2>3. After(c, n) = Put(b, "blank")
      BY <2>1, <2>2, AfterIs
    <2>4. PutAt(w[v], b, "blank")
      BY <1>1, <2>2
    <2>5. PutStep(v)
      BY <2>4, StepsOf, PlacesOf DEF PutStep
    <2>6. \/ SameCall(v) /\ PutAt(w[v], b, "blank")'
          \/ Becomes(v, Return(v)) /\ Con' = Put(b, "blank")
      BY <1>1, <2>4, <2>5, PutSteps, GlyphAssumption
    <2>7. CASE SameCall(v) /\ PutAt(w[v], b, "blank")'
      <3>1. PutAt(w[v], After(c, n - 1), "blank")'
        BY <2>2, <2>7
      <3>2. OpAt(w[v], c)'
        BY <1>1, <2>1, <2>7, <3>1 DEF OpAt, SameCall
      <3> QED BY <2>7, <3>2, InsideAfter DEF GoesOn, SameCall
    <2>8. CASE Becomes(v, Return(v)) /\ Con' = Put(b, "blank")
      <3>1. /\ w'[v].op = w[v].op /\ w'[v].before = w[v].before /\ w'[v].alone = w[v].alone
            /\ w'[v].n = n /\ w'[v].inner = FALSE /\ w'[v].pc = "tab"
        BY <1>1, <2>8, AfterReturn
      <3>2. OpAt(w[v], c)'
        BY <2>3, <2>8, <3>1 DEF OpAt
      <3> QED BY <3>1, <3>2, InsideAfter DEF GoesOn
    <2> QED BY <2>6, <2>7, <2>8
  <1>2. CASE ~w[v].inner
    <2>1. Tab(v) /\ Con = After(c, n)
      BY <1>2, StepsOf
    <2>2. Con' = Con /\ col = After(c, n).col
      BY <2>1 DEF Tab, Keeps, vars, Con
    <2>3. CASE n < col % 4
      <3>1. n + 1 \in 1..3 /\ Going(c, n + 1) /\ (n + 1) - 1 = n
        BY <2>2, <2>3, GoingIs
      <3>2. Becomes(v, Call(v))
        BY <2>1, <2>3 DEF Tab
      <3>3. /\ w'[v].op = w[v].op /\ w'[v].before = w[v].before /\ w'[v].alone = w[v].alone
            /\ w'[v].n = n + 1 /\ w'[v].inner = TRUE /\ w'[v].pc = "load_row"
        BY <3>2, AfterCall
      <3>4. PutAt(w[v], After(c, n), "blank")'
        BY <2>1, <2>2, <3>3 DEF PutAt
      <3>5. PutAt(w[v], After(c, (n + 1) - 1), "blank")'
        BY <3>1, <3>4
      <3>6. OpAt(w[v], c)'
        BY <3>1, <3>3, <3>5 DEF OpAt
      <3> QED BY <3>3, <3>6, InsideAfter DEF GoesOn
    <2>4. CASE ~(n < col % 4)
      <3>1. Becomes(v, Outside)
        BY <2>1, <2>4 DEF Tab
      <3>2. w'[v] = Outside
        BY <3>1, AfterStep
      <3>3. Blanks(c) = After(c, n) /\ After(c, n).col % 4 = 0
        BY <2>2, <2>4, BlanksIs
      <3>4. col' = col
        BY <2>1 DEF Tab, Keeps, vars
      <3> QED BY <2>1, <2>2, <3>2, <3>3, <3>4 DEF Ends, Expected
    <2> QED BY <2>3, <2>4
  <1> QED BY <1>1, <1>2

(* A step of a call that found console c. *)
LEMMA OpSteps ==
    ASSUME SharedTypeOK, NEW v \in Writers, NEW c \in Consoles, Inside(v), Write(v), OpAt(w[v], c)
    PROVE  GoesOn(v, c) \/ Ends(v, c)
  <1>1. CASE w[v].op = "glyph" /\ ~w[v].inner /\ PutAt(w[v], c, "x")
    BY <1>1, GlyphSteps
  <1>2. CASE w[v].op = "newline" /\ ~w[v].inner /\ NlAt(w[v], c)
    BY <1>2, NewlineSteps
  <1>3. CASE w[v].op = "backspace" /\ ~w[v].inner
             /\ (Back1At(w[v], c) \/ Back2At(w[v], Put(Back(c), "blank")))
    BY <1>3, BackspaceSteps
  <1>4. CASE w[v].op = "backspace" /\ w[v].inner /\ PutAt(w[v], Back(c), "blank")
    BY <1>4, BackspaceSteps
  <1>5. ASSUME NEW n \in 1..3, w[v].op = "tab", w[v].inner, w[v].n = n, Going(c, n),
               PutAt(w[v], After(c, n - 1), "blank")
        PROVE  GoesOn(v, c) \/ Ends(v, c)
    <2>1. n \in 0..3 /\ n > 0
      OBVIOUS
    <2> QED BY <1>5, <2>1, TabSteps
  <1>6. ASSUME NEW n \in 0..3, w[v].op = "tab", ~w[v].inner, w[v].pc = "tab", w[v].n = n,
               Going(c, n), Con = After(c, n)
        PROVE  GoesOn(v, c) \/ Ends(v, c)
    BY <1>6, TabSteps
  <1> QED BY <1>1, <1>2, <1>3, <1>4, <1>5, <1>6 DEF OpAt

(* No step of a writer inside touches another's registers, nor what it found. *)
LEMMA OwnRegisters ==
    ASSUME SharedTypeOK, NEW v \in Writers, Inside(v), Write(v)
    PROVE  /\ \A u \in Writers : u # v => w'[u] = w[u]
           /\ w'[v].alone => w[v].alone /\ w'[v].before = w[v].before
  <1>1. \A op : ~Start(v, op)
    BY DEF Start
  <1>2. \E r : Becomes(v, r)
    BY <1>1 DEF Write, LoadRow, LoadCol, PutChar, IncLoad, IncStore, Back1, Back2, Tab,
                NlTest, NlBlank, NlNext, NlHome, NlLoadRow, NlStoreRow, Rollup, LastRow
  <1>22. \A u \in Writers : u # v => w'[u] = w[u]
    BY <1>2 DEF SharedTypeOK, Becomes
  <1> SUFFICES w'[v].alone => w[v].alone /\ w'[v].before = w[v].before
    BY <1>22
  <1>3. ASSUME Becomes(v, Return(v)) PROVE w'[v].alone => w[v].alone /\ w'[v].before = w[v].before
    <2>1. CASE ~w[v].inner
      <3>1. w'[v] = Outside
        BY <1>3, <2>1, AfterReturn
      <3>2. ~Outside.alone
        BY DEF Outside
      <3>3. ~w'[v].alone
        BY <3>1, <3>2
      <3> QED BY <3>3
    <2>2. CASE w[v].inner
      BY <1>3, <2>2, AfterReturn
    <2> QED BY <2>1, <2>2
  <1>4. ASSUME Becomes(v, Call(v)) PROVE w'[v].alone => w[v].alone /\ w'[v].before = w[v].before
    BY <1>4, AfterCall
  <1>5. ASSUME Becomes(v, Outside) PROVE ~w'[v].alone
    BY <1>5, AfterStep DEF Outside
  <1>6. SameCall(v) => (w'[v].alone => w[v].alone /\ w'[v].before = w[v].before)
    BY DEF SameCall
  <1>7. CASE LoadRow(v)
    BY <1>6, <1>7, AfterGoA DEF LoadRow
  <1>8. CASE LoadCol(v)
    <2>1. PICK pc : Becomes(v, [Go(v, pc) EXCEPT !.b = col])
      BY <1>8 DEF LoadCol
    <2> QED BY <1>6, <2>1, AfterGoB
  <1>9. CASE PutChar(v)
    BY <1>6, <1>9, AfterForget DEF PutChar
  <1>10. CASE IncLoad(v)
    BY <1>6, <1>10, AfterGoB DEF IncLoad
  <1>11. CASE IncStore(v)
    <2>1. Becomes(v, Forget(v, "nl_test")) \/ Becomes(v, Return(v))
      BY <1>11 DEF IncStore
    <2> QED BY <1>3, <1>6, <2>1, AfterForget
  <1>12. CASE Back1(v)
    BY <1>4, <1>6, <1>12, AfterGo, AfterForget DEF Back1
  <1>13. CASE Back2(v)
    <2>1. CASE \E pc : Becomes(v, [Go(v, pc) EXCEPT !.b = col])
      BY <1>6, <2>1, AfterGoB
    <2>2. CASE Becomes(v, IF row > 0 THEN [Forget(v, "again_end") EXCEPT !.a = row] ELSE Outside)
      <3>1. \/ Becomes(v, [Forget(v, "again_end") EXCEPT !.a = row])
            \/ Becomes(v, Outside)
        BY <2>2
      <3> QED BY <1>5, <1>6, <3>1, AfterForgetA
    <2>3. CASE Becomes(v, Outside) \/ Becomes(v, Go(v, "again_up"))
      BY <1>5, <1>6, <2>3, AfterGo
    <2> QED BY <1>13, <2>1, <2>2, <2>3 DEF Back2
  <1>14. CASE Tab(v)
    <2>1. Becomes(v, Call(v)) \/ Becomes(v, Outside)
      BY <1>14 DEF Tab
    <2> QED BY <1>4, <1>5, <2>1
  <1>15. CASE NlTest(v)
    <2>1. Becomes(v, [Go(v, "nl_row") EXCEPT !.b = col]) \/ Becomes(v, Forget(v, "nl_home"))
      BY <1>15 DEF NlTest
    <2> QED BY <1>6, <2>1, AfterGoB, AfterForget
  <1>16. CASE NlBlank(v)
    BY <1>6, <1>16, AfterGoA, AfterGoB, AfterForget DEF NlBlank
  <1>17. CASE NlNext(v)
    <2>1. Go(v, "nl_row").b = w[v].b
      BY DEF SharedTypeOK, Regs, Go
    <2>2. Becomes(v, [Go(v, "nl_row") EXCEPT !.b = w[v].b + 1]) \/ Becomes(v, Forget(v, "nl_home"))
      BY <1>17, <2>1 DEF NlNext
    <2> QED BY <1>6, <2>2, AfterGoB, AfterForget
  <1>18. CASE NlHome(v) \/ Rollup(v)
    BY <1>6, <1>18, AfterGo DEF NlHome, Rollup
  <1>19. CASE NlLoadRow(v)
    BY <1>6, <1>19, AfterGoA DEF NlLoadRow
  <1>20. CASE NlStoreRow(v) \/ LastRow(v)
    <2>1. Becomes(v, Forget(v, "rollup")) \/ Becomes(v, Return(v))
      BY <1>20 DEF NlStoreRow, LastRow
    <2> QED BY <1>3, <1>6, <2>1, AfterForget
  <1> QED BY <1>1, <1>7, <1>8, <1>9, <1>10, <1>11, <1>12, <1>13, <1>14, <1>15, <1>16, <1>17, <1>18,
              <1>19, <1>20 DEF Write

(* A call begins at the console that is displayed. *)
LEMMA StartAlone ==
    ASSUME SharedInv, NEW v \in Writers, NEW op \in Ops, Start(v, op)
    PROVE  AloneInv'
  <1>1. PICK r : r = IF Quiet THEN Con ELSE NoCon
    OBVIOUS
  <1>2. PICK pc : pc = CASE op = "newline" -> "nl_test" [] op = "tab" -> "tab" [] OTHER -> "load_row"
    OBVIOUS
  <1>3. /\ w'[v] = [Outside EXCEPT !.op = op, !.alone = Quiet, !.before = r, !.pc = pc]
        /\ \A u \in Writers : u # v => w'[u] = [w[u] EXCEPT !.alone = FALSE, !.before = NoCon]
    BY <1>1, <1>2 DEF Start
  <1>4. /\ w'[v].op = op /\ w'[v].before = r /\ w'[v].pc = pc
        /\ w'[v].inner = FALSE /\ w'[v].n = 0
    BY <1>3 DEF Outside
  <1>5. w'[v].alone => Quiet
    BY <1>3 DEF Outside
  <1>6. \A u \in Writers : u # v => ~w'[u].alone /\ w'[u].pc = w[u].pc
    <2> SUFFICES ASSUME NEW u \in Writers, u # v PROVE ~w'[u].alone /\ w'[u].pc = w[u].pc
      OBVIOUS
    <2>1. w[u] \in Regs
      BY DEF SharedInv, SharedTypeOK
    <2>2. PICK x : x = [w[u] EXCEPT !.alone = FALSE, !.before = NoCon]
      OBVIOUS
    <2>3. w'[u] = x
      BY <1>3, <2>2
    <2>4. x.pc = w[u].pc
      BY <2>1, <2>2 DEF Regs
    <2>5. x.alone = FALSE
      BY <2>1, <2>2 DEF Regs
    <2> QED BY <2>3, <2>4, <2>5
  <1>7. UNCHANGED <<row, col, screen>> /\ screen \in Screens
    BY DEF Start, vars, SharedInv, SharedTypeOK
  <1> SUFFICES ASSUME Quiet
               PROVE  /\ \A u \in Writers : u # v => w'[u].pc = "out"
                      /\ w'[v].before.screen \in Screens
                      /\ \A c \in Consoles : w'[v].before = c => OpAt(w[v], c)'
    BY <1>5, <1>6 DEF AloneInv, Inside
  <1>8. \A u \in Writers : u # v => w'[u].pc = "out"
    BY <1>6 DEF Quiet, Inside
  <1>9. w'[v].before.screen \in Screens
    BY <1>1, <1>4, <1>7 DEF Con
  <1>10. ASSUME NEW c \in Consoles, w'[v].before = c PROVE OpAt(w[v], c)'
    <2>1. Con' = c
      BY <1>1, <1>4, <1>7, <1>10 DEF Con
    <2>2. CASE op = "glyph"
      <3>1. w'[v].pc = "load_row"
        BY <1>2, <1>4, <2>2
      <3>2. PutAt(w[v], c, "x")'
        BY <2>1, <3>1 DEF PutAt
      <3> QED BY <1>4, <2>2, <3>2 DEF OpAt
    <2>3. CASE op = "newline"
      <3>1. w'[v].pc = "nl_test"
        BY <1>2, <1>4, <2>3
      <3>2. NlAt(w[v], c)'
        BY <2>1, <3>1 DEF NlAt
      <3> QED BY <1>4, <2>3, <3>2 DEF OpAt
    <2>4. CASE op = "backspace"
      <3>1. w'[v].pc = "load_row"
        BY <1>2, <1>4, <2>4
      <3>2. Back1At(w[v], c)'
        BY <2>1, <3>1 DEF Back1At
      <3> QED BY <1>4, <2>4, <3>2 DEF OpAt
    <2>5. CASE op = "tab"
      <3>1. w'[v].pc = "tab"
        BY <1>2, <1>4, <2>5
      <3>2. Going(c, 0) /\ After(c, 0) = c /\ 0 \in 0..3
        BY AfterIs DEF Going
      <3> QED BY <1>4, <2>1, <2>5, <3>1, <3>2 DEF OpAt
    <2> QED BY <2>2, <2>3, <2>4, <2>5 DEF Ops
  <1> QED BY <1>8, <1>9, <1>10

(* Every other step of the writer that is alone. *)
LEMMA AloneStep ==
    ASSUME SharedInv, AloneInv, NEW v \in Writers, Inside(v), Write(v)
    PROVE  AloneInv'
  <1>1. /\ \A u \in Writers : u # v => w'[u] = w[u]
        /\ w'[v].alone => w[v].alone /\ w'[v].before = w[v].before
    BY OwnRegisters DEF SharedInv
  <1> SUFFICES ASSUME NEW u \in Writers, w'[u].pc # "out", w'[u].alone
               PROVE  /\ \A x \in Writers : x # u => w'[x].pc = "out"
                      /\ w'[u].before.screen \in Screens
                      /\ \A c \in Consoles : w'[u].before = c => OpAt(w[u], c)'
    BY DEF AloneInv, Inside
  <1>2. u = v
    <2>1. u # v => Inside(u) /\ w[u].alone
      BY <1>1 DEF Inside
    <2> QED BY <2>1 DEF AloneInv
  <1>3. w[v].alone /\ w'[v].before = w[v].before
    BY <1>1, <1>2
  <1>4. \A x \in Writers : x # v => w'[x].pc = "out"
    BY <1>1, <1>3 DEF AloneInv, Inside
  <1>5. w'[v].before.screen \in Screens
    BY <1>3 DEF AloneInv
  <1>6. ASSUME NEW c \in Consoles, w'[v].before = c PROVE OpAt(w[v], c)'
    <2>1. OpAt(w[v], c)
      BY <1>3, <1>6 DEF AloneInv
    <2>2. GoesOn(v, c) \/ Ends(v, c)
      BY <2>1, OpSteps DEF SharedInv
    <2>3. ~Ends(v, c)
      BY <1>2 DEF Ends, Outside
    <2> QED BY <2>2, <2>3 DEF GoesOn
  <1> QED BY <1>2, <1>4, <1>5, <1>6

(* AloneInv holds in every reachable state. *)
LEMMA AloneInvariant == SharedSpec => []AloneInv
  <1>1. SharedInit => AloneInv
    BY DEF SharedInit, AloneInv, Inside, Outside
  <1>2. SharedInv /\ AloneInv /\ [SharedNext]_sharedVars => AloneInv'
    <2> SUFFICES ASSUME SharedInv, AloneInv, [SharedNext]_sharedVars PROVE AloneInv'
      OBVIOUS
    <2>1. CASE UNCHANGED sharedVars
      <3>1. row' = row /\ col' = col /\ screen' = screen /\ w' = w
        BY <2>1 DEF sharedVars, vars
      <3>2. Con' = Con
        BY <3>1 DEF Con
      <3>3. ASSUME NEW v \in Writers PROVE Inside(v)' = Inside(v)
        BY <3>1 DEF Inside
      <3>4. ASSUME NEW v \in Writers, NEW c \in Consoles PROVE OpAt(w[v], c)' = OpAt(w[v], c)
        BY <3>1, <3>2 DEF OpAt, PutAt, NlAt, Back1At, Back2At
      <3> QED BY <3>1, <3>3, <3>4 DEF AloneInv
    <2>2. ASSUME NEW v \in Writers, Write(v), ~Inside(v) PROVE AloneInv'
      <3>1. \E op \in Ops : Start(v, op)
        BY <2>2 DEF Write, Ops, LoadRow, LoadCol, PutChar, IncLoad, IncStore, Back1, Back2, Tab,
                    NlTest, NlBlank, NlNext, NlHome, NlLoadRow, NlStoreRow, Rollup, LastRow,
                    At, Inside
      <3> QED BY <3>1, StartAlone
    <2>3. ASSUME NEW v \in Writers, Write(v), Inside(v) PROVE AloneInv'
      BY <2>3, AloneStep
    <2> QED BY <2>1, <2>2, <2>3 DEF SharedNext, AllWritten
  <1> QED BY <1>1, <1>2, SharedInvariant, PTL DEF SharedSpec

(* A write that nobody else's overlaps does what module Console says, whatever *)
(* interleaved before it, for any number of writers and every screen.        *)
THEOREM AloneIsConsoleAlways == SharedSpec => AloneIsConsole
  <1> DEFINE Alone == \A v \in Writers :
                (/\ Inside(v) /\ w'[v].pc = "out" /\ w[v].alone
                 /\ w[v].before.row \in RowSet /\ w[v].before.col \in ColSet)
                => /\ Con' = Expected(w[v].op, w[v].before)
                   /\ w[v].op = "tab" => col' % 4 = 0
  <1>1. SharedInv /\ AloneInv /\ SharedNext => Alone
    <2> SUFFICES ASSUME SharedInv, AloneInv, SharedNext, NEW v \in Writers,
                        Inside(v), w'[v].pc = "out", w[v].alone,
                        w[v].before.row \in RowSet, w[v].before.col \in ColSet
                 PROVE  Con' = Expected(w[v].op, w[v].before) /\ (w[v].op = "tab" => col' % 4 = 0)
      OBVIOUS
    <2>1. PICK u \in Writers : Write(u)
      BY DEF SharedNext, AllWritten, Quiet
    <2>2. u = v
      <3>1. CASE ~Inside(u)
        <4>1. PICK op : Start(u, op)
          BY <2>1, <3>1 DEF Write, LoadRow, LoadCol, PutChar, IncLoad, IncStore, Back1, Back2, Tab,
                    NlTest, NlBlank, NlNext, NlHome, NlLoadRow, NlStoreRow, Rollup, LastRow,
                    At, Inside
        <4>2. v # u /\ w'[v] = [w[v] EXCEPT !.alone = FALSE, !.before = NoCon]
          BY <3>1, <4>1 DEF Start
        <4>3. w'[v].pc = w[v].pc
          BY <4>2 DEF SharedInv, SharedTypeOK, Regs
        <4> QED BY <4>3 DEF Inside
      <3>2. CASE Inside(u)
        BY <3>2 DEF AloneInv
      <3> QED BY <3>1, <3>2
    <2>3. Write(v)
      BY <2>1, <2>2
    <2>4. PICK c \in Consoles : w[v].before = c
      <3>1. w[v].before \in Cons /\ w[v].before.screen \in Screens
        BY DEF SharedInv, SharedTypeOK, Regs, AloneInv
      <3>2. w[v].before \in Consoles
        BY <3>1 DEF Cons, Consoles, Screens
      <3> QED BY <3>2
    <2>5. OpAt(w[v], c)
      BY <2>4 DEF AloneInv
    <2>6. GoesOn(v, c) \/ Ends(v, c)
      BY <2>3, <2>5, OpSteps DEF SharedInv
    <2>7. Ends(v, c)
      BY <2>6 DEF GoesOn
    <2> QED BY <2>4, <2>7 DEF Ends
  <1>2. SharedInv /\ AloneInv /\ [SharedNext]_sharedVars => [Alone]_sharedVars
    BY <1>1
  <1> QED BY <1>2, SharedInvariant, AloneInvariant, PTL DEF SharedSpec, AloneIsConsole
=============================================================================
