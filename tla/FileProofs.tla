----------------------------- MODULE FileProofs -----------------------------
(***************************************************************************)
(* Proofs about module TarFs: for any archive, any number of processes and    *)
(* any paths they ask for.                                                   *)
(***************************************************************************)
EXTENDS TarFs, WellFoundedInduction, SequenceTheorems, TLAPS

(* What a size is rounded to: whole blocks, and one too many for a size that  *)
(* fills its last block.                                                     *)
LEMMA Rounding ==
    ASSUME NEW size \in Nat
    PROVE  /\ Blocks(size) \in Nat
           /\ tar_size_roundup(size) \in Nat
           /\ size = 0 \/ size % BLOCK # 0 =>
                 size + tar_size_roundup(size) = BLOCK * Blocks(size)
           /\ size + tar_size_roundup(size) >= BLOCK * Blocks(size)
  <1>1. PICK B \in Nat : B = BLOCK /\ B > 0
    BY BlockAssumption
  <1>2. PICK q \in Nat, r \in Nat : q = size \div B /\ r = size % B
    BY <1>1
  <1>3. r \in 0..(B - 1)
    BY <1>1, <1>2
  <1>4. size = B * (size \div B) + (size % B)
    BY <1>1
  <1>5. size = B * q + r
    BY <1>2, <1>4
  <1>6. tar_size_roundup(size) = IF size = 0 THEN 0 ELSE B - r
    BY <1>1, <1>2 DEF tar_size_roundup
  <1>7. Blocks(size) = (size + B - 1) \div B /\ Blocks(size) \in Nat
    BY <1>1 DEF Blocks
  <1>8. CASE size = 0
    <2>1. (B - 1) \div B = 0
      BY <1>1
    <2> QED BY <1>1, <1>6, <1>7, <1>8, <2>1
  <1>9. CASE r # 0
    <2>1. size + B - 1 = B * (q + 1) + (r - 1)
      BY <1>1, <1>2, <1>5
    <2>2. (B * (q + 1) + (r - 1)) \div B = q + 1
      BY <1>1, <1>2, <1>3, <1>9
    <2>3. size + (B - r) = B * (q + 1)
      BY <1>1, <1>2, <1>5
    <2> QED BY <1>1, <1>2, <1>3, <1>6, <1>7, <1>9, <2>1, <2>2, <2>3
  <1>10. CASE size # 0 /\ r = 0
    <2>1. size + B - 1 = B * q + (B - 1)
      BY <1>1, <1>2, <1>5, <1>10
    <2>2. (B * q + (B - 1)) \div B = q
      BY <1>1, <1>2
    <2>3. Blocks(size) = q /\ tar_size_roundup(size) = B
      BY <1>1, <1>6, <1>7, <1>10, <2>1, <2>2
    <2>4. size = B * q /\ B * q + B >= B * q
      BY <1>1, <1>2, <1>5, <1>10
    <2> QED BY <1>1, <1>2, <1>10, <2>3, <2>4
  <1> QED BY <1>1, <1>2, <1>3, <1>6, <1>7, <1>8, <1>9, <1>10

(* A set of numbers that is not empty has a least element. *)
LEMMA Least ==
    ASSUME NEW S \in SUBSET Nat, S # {}
    PROVE  \E x \in S : \A y \in S : x <= y
  <1>1. PICK x \in S : \A y \in S : ~(<<y, x>> \in OpToRel(<, Nat))
    BY NatLessThanWellFounded, WFMin
  <1>2. \A y \in S : ~(y < x)
    BY <1>1 DEF OpToRel
  <1> QED BY <1>2

(* The archive is a sequence of entries. *)
LEMMA ArchiveIs ==
    ASSUME Archive \in Archives
    PROVE  /\ Len(Archive) \in Nat /\ Entries = 1..Len(Archive) /\ Root \in Nat
           /\ \A k \in Entries :
                 /\ Archive[k].name \in Seq(Names) /\ Archive[k].name # <<>>
                 /\ Archive[k].dir \in BOOLEAN /\ Archive[k].elf \in BOOLEAN
                 /\ Archive[k].data \in Seq(Bytes) /\ SizeOf(k) \in Nat
                 /\ Archive[k].dir => SizeOf(k) = 0 /\ ~Archive[k].elf
                 /\ \A l \in Entries : Archive[k].name = Archive[l].name => k = l
  <1>1. Archive \in Seq([name : Seq(Names), dir : BOOLEAN, data : Seq(Bytes), elf : BOOLEAN])
    BY ArchiveAssumption
  <1>2. Len(Archive) \in Nat /\ Entries = 1..Len(Archive) /\ Root \in Nat
    BY <1>1 DEF Entries, Root
  <1>3. \A k \in Entries :
           Archive[k] \in [name : Seq(Names), dir : BOOLEAN, data : Seq(Bytes), elf : BOOLEAN]
    <2>1. PICK E : E = [name : Seq(Names), dir : BOOLEAN, data : Seq(Bytes), elf : BOOLEAN]
      OBVIOUS
    <2>2. Archive \in Seq(E)
      BY <1>1, <2>1
    <2>3. \A k \in Entries : Archive[k] \in E
      BY <1>2, <2>2, ElementOfSeq
    <2> QED BY <2>1, <2>3
  <1>4. \A k \in Entries :
           /\ Archive[k].name # <<>>
           /\ Archive[k].dir => Archive[k].data = <<>> /\ ~Archive[k].elf
           /\ \A l \in Entries : Archive[k].name = Archive[l].name => k = l
    BY ArchiveAssumption DEF Entries
  <1> QED BY <1>2, <1>3, <1>4 DEF SizeOf

(* A layout of the first n headers. *)
Place(g, k) == IF k = 1 THEN 0 ELSE g[k - 1] + BLOCK + BLOCK * Blocks(SizeOf(k - 1))
Layout(n, g) == g = [k \in 1..n |-> Place(g, k)]

(* There is one for every number of headers. *)
LEMMA LayoutExists ==
    ASSUME NEW n \in Nat, n > 0
    PROVE  \E g : Layout(n, g)
  <1>1. PICK Bad : Bad = {k \in Nat : k > 0 /\ ~\E g : Layout(k, g)}
    OBVIOUS
  <1>2. SUFFICES ASSUME Bad # {} PROVE FALSE
    BY <1>1
  <1>3. Bad \in SUBSET Nat
    BY <1>1
  <1>4. PICK m \in Bad : \A k \in Bad : m <= k
    BY <1>2, <1>3, Least
  <1>5. m \in Nat /\ m > 0 /\ ~\E g : Layout(m, g)
    BY <1>1, <1>4
  <1>6. CASE m = 1
    <2>1. PICK g : g = [k \in 1..1 |-> 0]
      OBVIOUS
    <2>2. \A k \in 1..1 : g[k] = Place(g, k)
      BY <2>1 DEF Place
    <2>3. Layout(1, g)
      BY <2>1, <2>2 DEF Layout
    <2> QED BY <1>5, <1>6, <2>3
  <1>7. CASE m # 1
    <2>1. m - 1 \in Nat /\ m - 1 > 0 /\ m - 1 \notin Bad
      BY <1>4, <1>5, <1>7
    <2>2. PICK h : Layout(m - 1, h)
      BY <1>1, <2>1
    <2>3. \A k \in 1..(m - 1) : h[k] = Place(h, k)
      BY <2>2 DEF Layout
    <2>4. PICK g : g = [k \in 1..m |-> IF k < m THEN h[k] ELSE Place(h, m)]
      OBVIOUS
    <2>5. ASSUME NEW k \in 1..m PROVE g[k] = Place(g, k)
      <3>1. k # 1 => k - 1 \in 1..m /\ k - 1 < m
        BY <1>5, <2>5
      <3>2. k # 1 => g[k - 1] = h[k - 1]
        BY <2>4, <3>1
      <3>3. Place(g, k) = Place(h, k)
        BY <3>2 DEF Place
      <3>4. CASE k = m
        BY <2>4, <3>3, <3>4
      <3>5. CASE k # m
        <4>1. k \in 1..(m - 1) /\ k < m
          BY <1>5, <2>5, <3>5
        <4> QED BY <2>3, <2>4, <3>3, <4>1
      <3> QED BY <3>4, <3>5
    <2>6. Layout(m, g)
      BY <2>4, <2>5 DEF Layout
    <2> QED BY <1>5, <2>6
  <1> QED BY <1>6, <1>7

(* Where the headers are. *)
LEMMA HeaderAtIs ==
    ASSUME Archive \in Archives
    PROVE  /\ HeaderAt[1] = 0
           /\ \A k \in Entries : HeaderAt[k + 1] = HeaderAt[k] + BLOCK + BLOCK * Blocks(SizeOf(k))
           /\ \A k \in 1..Root : HeaderAt[k] \in Nat
           /\ \A j, k \in 1..Root : j < k => HeaderAt[j] < HeaderAt[k]
  <1>1. Len(Archive) \in Nat /\ Entries = 1..Len(Archive) /\ Root = Len(Archive) + 1
        /\ \A k \in Entries : SizeOf(k) \in Nat
    BY ArchiveIs DEF Root
  <1>2. PICK g : Layout(Root, g)
    BY <1>1, LayoutExists
  <1>3. HeaderAt = CHOOSE h : Layout(Root, h)
    BY DEF HeaderAt, Layout, Place, Root
  <1>4. Layout(Root, HeaderAt)
    BY <1>2, <1>3
  <1>5. \A k \in 1..Root : HeaderAt[k] = Place(HeaderAt, k)
    BY <1>4 DEF Layout
  <1>6. HeaderAt[1] = 0
    BY <1>1, <1>5 DEF Place
  <1>7. \A k \in Entries : HeaderAt[k + 1] = HeaderAt[k] + BLOCK + BLOCK * Blocks(SizeOf(k))
    <2> SUFFICES ASSUME NEW k \in Entries
                 PROVE  HeaderAt[k + 1] = HeaderAt[k] + BLOCK + BLOCK * Blocks(SizeOf(k))
      OBVIOUS
    <2>1. k + 1 \in 1..Root /\ k + 1 # 1 /\ (k + 1) - 1 = k
      BY <1>1
    <2> QED BY <1>5, <2>1 DEF Place
  <1>8. \A k \in Entries : /\ Blocks(SizeOf(k)) \in Nat
                           /\ BLOCK + BLOCK * Blocks(SizeOf(k)) \in Nat \ {0}
    <2>1. \A n, b \in Nat : b > 0 => b + b * n \in Nat \ {0}
      OBVIOUS
    <2>2. \A k \in Entries : Blocks(SizeOf(k)) \in Nat
      BY <1>1, Rounding
    <2> QED BY <2>1, <2>2, BlockAssumption
  <1>9. \A k \in 1..Root : HeaderAt[k] \in Nat
    <2>1. PICK Bad : Bad = {k \in 1..Root : HeaderAt[k] \notin Nat}
      OBVIOUS
    <2>2. SUFFICES ASSUME Bad # {} PROVE FALSE
      BY <2>1
    <2>0. Bad \in SUBSET Nat
      BY <2>1
    <2>3. PICK m \in Bad : \A k \in Bad : m <= k
      BY <2>0, <2>2, Least
    <2>4. m \in 2..Root
      BY <1>6, <2>1
    <2>5. m - 1 \in Entries /\ m - 1 \notin Bad /\ m - 1 \in 1..Root
      BY <1>1, <2>3, <2>4
    <2>6. HeaderAt[m - 1] \in Nat
      BY <2>1, <2>5
    <2>7. HeaderAt[m] = HeaderAt[m - 1] + (BLOCK + BLOCK * Blocks(SizeOf(m - 1)))
      <3>1. (m - 1) + 1 = m
        BY <1>1, <2>4
      <3>2. BLOCK \in Nat /\ Blocks(SizeOf(m - 1)) \in Nat
        BY <1>8, <2>5, BlockAssumption
      <3> QED BY <1>7, <2>5, <2>6, <3>1, <3>2
    <2>8. HeaderAt[m] \in Nat
      BY <1>8, <2>5, <2>6, <2>7
    <2> QED BY <2>1, <2>8
  <1>10. \A k \in Entries : HeaderAt[k] < HeaderAt[k + 1]
    <2> SUFFICES ASSUME NEW k \in Entries PROVE HeaderAt[k] < HeaderAt[k + 1]
      OBVIOUS
    <2>1. HeaderAt[k] \in Nat /\ Blocks(SizeOf(k)) \in Nat /\ BLOCK \in Nat
      <3>1. k \in 1..Root
        BY <1>1
      <3> QED BY <1>8, <1>9, <3>1, BlockAssumption
    <2>2. PICK e \in Nat : e = BLOCK + BLOCK * Blocks(SizeOf(k)) /\ e > 0
      BY <1>8
    <2>3. HeaderAt[k + 1] = HeaderAt[k] + e
      BY <1>7, <2>1, <2>2
    <2> QED BY <2>1, <2>2, <2>3
  <1>11. \A j, k \in 1..Root : j < k => HeaderAt[j] < HeaderAt[k]
    <2> SUFFICES ASSUME NEW j \in 1..Root PROVE \A k \in 1..Root : j < k => HeaderAt[j] < HeaderAt[k]
      OBVIOUS
    <2>1. PICK Bad : Bad = {k \in 1..Root : j < k /\ ~(HeaderAt[j] < HeaderAt[k])}
      OBVIOUS
    <2>2. SUFFICES ASSUME Bad # {} PROVE FALSE
      BY <2>1
    <2>0. Bad \in SUBSET Nat
      BY <2>1
    <2>3. PICK m \in Bad : \A k \in Bad : m <= k
      BY <2>0, <2>2, Least
    <2>4. m \in 1..Root /\ j < m /\ ~(HeaderAt[j] < HeaderAt[m])
      BY <2>1
    <2>5. m - 1 \in Entries /\ m - 1 \in 1..Root /\ m - 1 \notin Bad /\ (m - 1) + 1 = m
      BY <1>1, <2>3, <2>4
    <2>6. HeaderAt[m - 1] < HeaderAt[m]
      BY <1>10, <2>5
    <2>7. j = m - 1 \/ (j < m - 1 /\ HeaderAt[j] < HeaderAt[m - 1])
      BY <1>1, <2>1, <2>4, <2>5
    <2>8. HeaderAt[j] \in Nat /\ HeaderAt[m - 1] \in Nat /\ HeaderAt[m] \in Nat
      BY <1>9, <2>4, <2>5
    <2> QED BY <2>4, <2>6, <2>7, <2>8
  <1> QED BY <1>6, <1>7, <1>9, <1>11
-----------------------------------------------------------------------------
(* Types.  The table of open files has an invariant of its own.              *)
PathRecords == [name : Seq(Names \cup {"?", "sbush"}), slashes : Nat]
Whats == {"none", "open", "chdir", "execve", "opendir"}
Fors == Walks \cup {"merge", "slash", "copy_wd", "copy_pname", "done"}

(* Which call goes through which stages. *)
Stage(what, for) ==
    \/ for = "done"
    \/ for = "merge" /\ what # "none"
    \/ for \in {"search_open", "open_file"} /\ what = "open"
    \/ for \in {"search_exec", "copy_pname", "map_file"} /\ what = "execve"
    \/ for \in {"slash", "search_dir"} /\ what \in {"chdir", "opendir"}
    \/ for = "copy_wd" /\ what = "chdir"
    \/ for \in {"open_dir", "dents"} /\ what = "opendir"
CallFields == [what : Whats, for : Fors, path : PathRecords, offset : Nat,
               raced : BOOLEAN, answer : Nat]
CallRecords == {c \in CallFields : Stage(c.what, c.for)}
Streams == [fd : Nat, dents : Seq(Nat), offset : Nat, dirty : BOOLEAN,
            state : {"none", "open", "null", "junk"}]

CallTypes ==
    /\ Archive \in Archives /\ abspath \in PathRecords /\ stray \in BOOLEAN
    /\ wd \in [Procs -> PathRecords] /\ pname \in [Procs -> PathRecords]
    /\ call \in [Procs -> CallRecords] /\ stream \in [Procs -> Streams]
    /\ next_fd \in [Procs -> Nat]

(* Some names of paths. *)
LEMMA PathFacts ==
    /\ Slash \in PathRecords /\ Garbled \in PathRecords /\ Path(<<>>, 0) \in PathRecords
    /\ Path(<<"sbush">>, 0) \in PathRecords
    /\ \A path \in PathRecords : Path(path.name, 0) \in PathRecords
    /\ \A path \in Asked.open \cup Asked.chdir \cup Asked.execve : path \in PathRecords
    /\ \A path \in PathRecords, n \in Nat : [path EXCEPT !.slashes = @ + n] \in PathRecords
  <1> DEFINE S == Names \cup {"?", "sbush"}
  <1>1. <<>> \in Seq(S) /\ <<"?">> \in Seq(S) /\ <<"sbush">> \in Seq(S)
    OBVIOUS
  <1>2. \A n \in Seq(S), k \in Nat : Path(n, k) \in PathRecords
    BY DEF Path, PathRecords
  <1>3. \A n \in Seq(Names) : n \in Seq(S)
    BY SeqMonotonic
  <1>4. \A path \in Asked.open \cup Asked.chdir \cup Asked.execve :
            path = Slash \/ (path.name \in Seq(Names) /\ path = Path(path.name, 0))
    BY AskedAssumption
  <1>5. \A path \in PathRecords : path.name \in Seq(S)
    BY DEF PathRecords
  <1>6. \A path \in PathRecords, n \in Nat : [path EXCEPT !.slashes = @ + n] \in PathRecords
    BY DEF PathRecords
  <1> HIDE DEF S
  <1>7. Slash \in PathRecords /\ Garbled \in PathRecords
    BY <1>1, <1>2 DEF Slash, Garbled
  <1>8. \A path \in Asked.open \cup Asked.chdir \cup Asked.execve : path \in PathRecords
    BY <1>2, <1>3, <1>4, <1>7
  <1> QED BY <1>1, <1>2, <1>5, <1>6, <1>7, <1>8

(* Another process's store to abspath keeps the type of the calls. *)
LEMMA WritesTypes ==
    ASSUME CallTypes, NEW p \in Procs, NEW c \in CallRecords, Writes(p, c)
    PROVE  /\ call' \in [Procs -> CallRecords] /\ call'[p] = c
           /\ \A q \in Procs : q # p =>
                 /\ call'[q].raced = (call[q].raced \/ call[q].for # "done")
                 /\ call'[q].what = call[q].what /\ call'[q].for = call[q].for
                 /\ call'[q].path = call[q].path /\ call'[q].offset = call[q].offset
                 /\ call'[q].answer = call[q].answer
  <1>1. \A q \in Procs : call[q] \in CallRecords
    BY DEF CallTypes
  <1>2. call' = [q \in Procs |-> IF q = p THEN c
                    ELSE [call[q] EXCEPT !.raced = call[q].raced \/ call[q].for # "done"]]
    BY DEF Writes
  <1>3. \A q \in Procs : (call[q].raced \/ call[q].for # "done") \in BOOLEAN
    BY <1>1 DEF CallRecords, CallFields
  <1>4. \A r \in CallRecords, b \in BOOLEAN :
           /\ [r EXCEPT !.raced = b] \in CallRecords
           /\ [r EXCEPT !.raced = b].raced = b
           /\ [r EXCEPT !.raced = b].what = r.what /\ [r EXCEPT !.raced = b].for = r.for
           /\ [r EXCEPT !.raced = b].path = r.path /\ [r EXCEPT !.raced = b].offset = r.offset
           /\ [r EXCEPT !.raced = b].answer = r.answer
    BY DEF CallRecords, CallFields
  <1>5. \A q \in Procs : q # p =>
            call'[q] = [call[q] EXCEPT !.raced = call[q].raced \/ call[q].for # "done"]
    BY <1>2
  <1>6. call'[p] = c
    BY <1>2
  <1>7. DOMAIN call' = Procs /\ \A q \in Procs : call'[q] \in CallRecords
    BY <1>1, <1>2, <1>3, <1>4, <1>5, <1>6
  <1>8. call' \in [Procs -> CallRecords]
    BY <1>2, <1>7
  <1>9. ASSUME NEW q \in Procs, q # p
        PROVE  /\ call'[q].raced = (call[q].raced \/ call[q].for # "done")
               /\ call'[q].what = call[q].what /\ call'[q].for = call[q].for
               /\ call'[q].path = call[q].path /\ call'[q].offset = call[q].offset
               /\ call'[q].answer = call[q].answer
    <2>1. PICK r \in CallRecords : r = call[q]
      BY <1>1
    <2>2. PICK b \in BOOLEAN : b = (call[q].raced \/ call[q].for # "done")
      BY <1>3
    <2>3. call'[q] = [r EXCEPT !.raced = b]
      BY <1>5, <1>9, <2>1, <2>2
    <2> QED BY <1>4, <2>1, <2>2, <2>3
  <1> QED BY <1>6, <1>8, <1>9

(* What the call of a process is after each kind of step. *)
LEMMA CallForms ==
    ASSUME CallTypes, NEW p \in Procs
    PROVE  /\ \A f \in Fors : Stage(call[p].what, f) =>
                 /\ NextStep(p, f) \in CallRecords
                 /\ NextStep(p, f).for = f /\ NextStep(p, f).offset = 0
                 /\ NextStep(p, f).what = call[p].what /\ NextStep(p, f).path = call[p].path
                 /\ NextStep(p, f).raced = call[p].raced /\ NextStep(p, f).answer = call[p].answer
           /\ \A f \in Fors, k \in Nat : Stage(call[p].what, f) => LET c == [NextStep(p, f) EXCEPT !.answer = k] IN
                 /\ c \in CallRecords
                 /\ c.for = f /\ c.offset = 0 /\ c.answer = k
                 /\ c.what = call[p].what /\ c.path = call[p].path /\ c.raced = call[p].raced
           /\ \A k \in Nat :
                 /\ Done(p, k) \in CallRecords
                 /\ Done(p, k).for = "done" /\ Done(p, k).answer = k
                 /\ Done(p, k).what = call[p].what /\ Done(p, k).path = call[p].path
                 /\ Done(p, k).raced = call[p].raced
           /\ \A k \in Entries :
                 /\ Onward(p, k) \in CallRecords
                 /\ Onward(p, k).offset = call[p].offset + SizeOf(k) + BLOCK + tar_size_roundup(SizeOf(k))
                 /\ Onward(p, k).what = call[p].what /\ Onward(p, k).path = call[p].path
                 /\ Onward(p, k).raced = call[p].raced /\ Onward(p, k).answer = call[p].answer
                 /\ Onward(p, k).for = call[p].for
  <1>1. call[p] \in CallRecords
    BY DEF CallTypes
  <1>2. \A k \in Entries : SizeOf(k) \in Nat /\ tar_size_roundup(SizeOf(k)) \in Nat
    BY ArchiveIs, Rounding DEF CallTypes
  <1>3. "done" \in Fors
    BY DEF Fors
  <1>4. PICK r \in CallRecords : r = call[p]
    BY <1>1
  <1>5. \A f \in Fors : Stage(call[p].what, f) =>
                 /\ NextStep(p, f) \in CallRecords
                 /\ NextStep(p, f).for = f /\ NextStep(p, f).offset = 0
                 /\ NextStep(p, f).what = call[p].what /\ NextStep(p, f).path = call[p].path
                 /\ NextStep(p, f).raced = call[p].raced /\ NextStep(p, f).answer = call[p].answer
    BY <1>4 DEF CallRecords, CallFields, NextStep, Stage
  <1>6. \A f \in Fors, k \in Nat : Stage(call[p].what, f) => LET c == [NextStep(p, f) EXCEPT !.answer = k] IN
                 /\ c \in CallRecords
                 /\ c.for = f /\ c.offset = 0 /\ c.answer = k
                 /\ c.what = call[p].what /\ c.path = call[p].path /\ c.raced = call[p].raced
    <2> SUFFICES ASSUME NEW f \in Fors, NEW k \in Nat, Stage(call[p].what, f)
                 PROVE  LET c == [NextStep(p, f) EXCEPT !.answer = k] IN
                     /\ c \in CallRecords
                     /\ c.for = f /\ c.offset = 0 /\ c.answer = k
                     /\ c.what = call[p].what /\ c.path = call[p].path /\ c.raced = call[p].raced
      OBVIOUS
    <2>1. PICK n \in CallRecords : n = NextStep(p, f)
      BY <1>5
    <2>2. [n EXCEPT !.answer = k] \in CallRecords
      BY DEF CallRecords, CallFields
    <2>3. /\ [n EXCEPT !.answer = k].for = n.for /\ [n EXCEPT !.answer = k].offset = n.offset
          /\ [n EXCEPT !.answer = k].answer = k /\ [n EXCEPT !.answer = k].what = n.what
          /\ [n EXCEPT !.answer = k].path = n.path /\ [n EXCEPT !.answer = k].raced = n.raced
      BY DEF CallRecords, CallFields
    <2> QED BY <1>5, <2>1, <2>2, <2>3
  <1>7. \A k \in Nat :
                 /\ Done(p, k) \in CallRecords
                 /\ Done(p, k).for = "done" /\ Done(p, k).answer = k
                 /\ Done(p, k).what = call[p].what /\ Done(p, k).path = call[p].path
                 /\ Done(p, k).raced = call[p].raced
    BY <1>3, <1>4 DEF CallRecords, CallFields, Done, Stage
  <1>8. \A k \in Entries :
                 /\ Onward(p, k) \in CallRecords
                 /\ Onward(p, k).offset = call[p].offset + SizeOf(k) + BLOCK + tar_size_roundup(SizeOf(k))
                 /\ Onward(p, k).what = call[p].what /\ Onward(p, k).path = call[p].path
                 /\ Onward(p, k).raced = call[p].raced /\ Onward(p, k).answer = call[p].answer
                 /\ Onward(p, k).for = call[p].for
    <2> SUFFICES ASSUME NEW k \in Entries
                 PROVE  /\ Onward(p, k) \in CallRecords
                        /\ Onward(p, k).offset = call[p].offset + SizeOf(k) + BLOCK + tar_size_roundup(SizeOf(k))
                        /\ Onward(p, k).what = call[p].what /\ Onward(p, k).path = call[p].path
                        /\ Onward(p, k).raced = call[p].raced /\ Onward(p, k).answer = call[p].answer
                        /\ Onward(p, k).for = call[p].for
      OBVIOUS
    <2>1. PICK n \in Nat : n = r.offset + SizeOf(k) + BLOCK + tar_size_roundup(SizeOf(k))
      BY <1>2, BlockAssumption DEF CallRecords, CallFields
    <2>2. Onward(p, k) = [r EXCEPT !.offset = n]
      BY <1>4, <2>1 DEF Onward
    <2>3. /\ [r EXCEPT !.offset = n] \in CallRecords
          /\ [r EXCEPT !.offset = n].offset = n
          /\ [r EXCEPT !.offset = n].for = r.for /\ [r EXCEPT !.offset = n].what = r.what
          /\ [r EXCEPT !.offset = n].path = r.path /\ [r EXCEPT !.offset = n].raced = r.raced
          /\ [r EXCEPT !.offset = n].answer = r.answer
      BY DEF CallRecords, CallFields
    <2> QED BY <1>4, <2>1, <2>2, <2>3
  <1> QED BY <1>5, <1>6, <1>7, <1>8

(* The first part of every call that enters the kernel. *)
LEMMA TypesEnter ==
    ASSUME CallTypes, NEW p \in Procs, NEW what \in Whats \ {"none"}, NEW path \in PathRecords,
           Enter(p, what, path), stream' \in [Procs -> Streams]
    PROVE  CallTypes'
  <1>1. PICK c : c = [what |-> what, for |-> "merge", path |-> path, offset |-> 0,
                      raced |-> FALSE, answer |-> 0]
    OBVIOUS
  <1>2. c \in CallRecords
    BY <1>1, what # "none" DEF CallRecords, CallFields, Fors, Stage
  <1>3. Writes(p, c) /\ abspath' = Garbled /\ UNCHANGED <<Archive, wd, pname, files, stray, reads>>
    BY <1>1 DEF Enter
  <1>4. call' \in [Procs -> CallRecords]
    BY <1>2, <1>3, WritesTypes
  <1> QED BY <1>3, <1>4, PathFacts DEF CallTypes, files

(* The steps of a process keep the types. *)
LEMMA TypesKernel ==
    ASSUME CallTypes, NEW p \in Procs, Kernel(p)
    PROVE  CallTypes'
  <1>0. /\ call[p] \in CallRecords /\ stream[p] \in Streams
        /\ Stage(call[p].what, call[p].for)
        /\ Entries \subseteq Nat /\ Root \in Nat
    BY ArchiveIs DEF CallTypes, CallRecords
  <1>1. \A c \in CallRecords : [call EXCEPT ![p] = c] \in [Procs -> CallRecords]
    BY DEF CallTypes
  <1>2. \A s \in Streams : [stream EXCEPT ![p] = s] \in [Procs -> Streams]
    BY DEF CallTypes
  <1>3. {"search_open", "search_exec", "search_dir", "slash", "copy_wd", "copy_pname", "open_file",
         "open_dir", "map_file", "dents", "done"} \subseteq Fors
    BY DEF Fors, Walks, Searches
  <1>4. /\ \A f \in Fors : Stage(call[p].what, f) => NextStep(p, f) \in CallRecords
        /\ \A f \in Fors, k \in Nat :
              Stage(call[p].what, f) => [NextStep(p, f) EXCEPT !.answer = k] \in CallRecords
        /\ \A k \in Nat : Done(p, k) \in CallRecords
        /\ \A k \in Entries : Onward(p, k) \in CallRecords
    BY CallForms
  <1>5. CASE path_merge(p)
    <2>1. PICK f \in Fors : Writes(p, NextStep(p, f)) /\ Stage(call[p].what, f)
      <3>1. call[p].what \in {"open", "execve", "chdir", "opendir"}
        BY <1>0, <1>5 DEF path_merge, At, Stage, CallRecords, CallFields, Whats
      <3> QED BY <1>3, <1>5, <3>1 DEF path_merge, Stage
    <2>2. call' \in [Procs -> CallRecords]
      BY <1>4, <2>1, WritesTypes
    <2>3. abspath' \in PathRecords
      BY <1>0, <1>5, PathFacts DEF path_merge, CallRecords, CallFields
    <2> QED BY <1>5, <2>2, <2>3 DEF path_merge, CallTypes, files
  <1>6. CASE AppendSlash(p)
    <2>1. PICK f \in Fors : Writes(p, NextStep(p, f)) /\ Stage(call[p].what, f)
      <3>1. call[p].what \in {"chdir", "opendir"}
        BY <1>0, <1>6 DEF AppendSlash, At, Stage
      <3> QED BY <1>3, <1>6, <3>1 DEF AppendSlash, Stage
    <2>2. call' \in [Procs -> CallRecords]
      BY <1>4, <2>1, WritesTypes
    <2>3. abspath' \in PathRecords
      <3>1. Appended(p) \in Nat
        BY DEF Appended
      <3>2. [abspath EXCEPT !.slashes = @ + Appended(p)] \in PathRecords
        BY <3>1, PathFacts DEF CallTypes
      <3> QED BY <1>6, <3>2, PathFacts DEF AppendSlash
    <2> QED BY <1>6, <2>2, <2>3 DEF AppendSlash, CallTypes, files
  <1>7. CASE WalkOn(p)
    <2>1. call' \in [Procs -> CallRecords]
      BY <1>1, <1>4, <1>7 DEF WalkOn
    <2> QED BY <1>7, <2>1 DEF WalkOn, CallTypes, files
  <1>8. CASE WalkFound(p)
    <2>1. AfterSearch(p) \in Fors /\ Stage(call[p].what, AfterSearch(p))
      <3>1. call[p].what \in {"open", "execve", "chdir", "opendir"}
        BY <1>0, <1>8 DEF WalkFound, Stage, Searches
      <3> QED BY <1>3, <3>1 DEF AfterSearch, Stage
    <2>2. PICK k \in Entries :
             IF Accepted(p, k)
             THEN /\ call' = [call EXCEPT ![p] = [NextStep(p, AfterSearch(p)) EXCEPT !.answer = k]]
                  /\ UNCHANGED stray
             ELSE Fails(p)
      BY <1>8 DEF WalkFound
    <2>3. call' \in [Procs -> CallRecords] /\ stray' \in BOOLEAN
      <3>1. CASE Accepted(p, k)
        BY <1>0, <1>1, <1>4, <2>1, <2>2, <3>1 DEF CallTypes
      <3>2. CASE ~Accepted(p, k)
        BY <1>1, <1>4, <2>2, <3>2 DEF Fails
      <3> QED BY <3>1, <3>2
    <2> QED BY <1>8, <2>3 DEF WalkFound, CallTypes, files
  <1>9. CASE WalkEnd(p)
    <2>1. call' \in [Procs -> CallRecords] /\ stray' \in BOOLEAN
      BY <1>1, <1>4, <1>9 DEF WalkEnd, Fails
    <2> QED BY <1>9, <2>1 DEF WalkEnd, CallTypes, files
  <1>10. CASE WalkStray(p)
    BY <1>10 DEF WalkStray, CallTypes, files
  <1>11. CASE OpenEntry(p)
    <2>1. PICK k \in Entries \cup {Root} :
            /\ Open(p, k)
            /\ call' = [call EXCEPT ![p] = IF call[p].what = "open" THEN Done(p, k)
                                           ELSE [NextStep(p, "dents") EXCEPT !.answer = k]]
      BY <1>11 DEF OpenEntry
    <2>2. call' \in [Procs -> CallRecords]
      <3>1. call[p].what # "open" => Stage(call[p].what, "dents")
        BY <1>0, <1>11 DEF OpenEntry, Stage
      <3> QED BY <1>0, <1>1, <1>3, <1>4, <2>1, <3>1
    <2>3. stray' \in BOOLEAN /\ next_fd' \in [Procs -> Nat]
      <3>1. next_fd \in [Procs -> Nat] /\ next_fd[p] + 1 \in Nat /\ stray \in BOOLEAN
        BY DEF CallTypes
      <3>2. next_fd' = [next_fd EXCEPT ![p] = next_fd[p] + 1] /\ (stray' = TRUE \/ stray' = stray)
        BY <2>1 DEF Open
      <3> QED BY <3>1, <3>2
    <2>4. stream' \in [Procs -> Streams]
      <3>1. PICK n \in Nat : n = IF call[p].what = "opendir" THEN next_fd[p] ELSE stream[p].fd
        BY <1>0 DEF CallTypes, Streams
      <3>2. stream' = [stream EXCEPT ![p].fd = n]
        BY <1>11, <3>1 DEF OpenEntry
      <3>3. [stream[p] EXCEPT !.fd = n] \in Streams
        BY <1>0 DEF Streams
      <3> QED BY <1>2, <3>2, <3>3
    <2> QED BY <1>11, <2>2, <2>3, <2>4 DEF OpenEntry, CallTypes
  <1>12. CASE CopyWd(p)
    <2>1. (IF call[p].answer = 0 THEN Root ELSE call[p].answer) \in Nat
      BY <1>0 DEF CallRecords, CallFields
    <2>2. call' \in [Procs -> CallRecords] /\ wd' \in [Procs -> PathRecords]
      BY <1>1, <1>4, <1>12, <2>1 DEF CopyWd, CallTypes
    <2> QED BY <1>12, <2>2 DEF CopyWd, CallTypes, files
  <1>13. CASE CopyPname(p)
    <2>1. call' \in [Procs -> CallRecords] /\ pname' \in [Procs -> PathRecords]
      <3>1. Stage(call[p].what, "map_file")
        BY <1>0, <1>13 DEF CopyPname, At, Stage
      <3> QED BY <1>1, <1>3, <1>4, <1>13, <3>1 DEF CopyPname, CallTypes
    <2> QED BY <1>13, <2>1 DEF CopyPname, CallTypes, files
  <1>14. CASE map_file(p)
    <2>1. call' \in [Procs -> CallRecords]
      <3>1. PICK k \in Entries : call' = [call EXCEPT ![p] = Done(p, IF Archive[k].elf THEN k ELSE 0)]
        BY <1>14 DEF map_file
      <3>2. (IF Archive[k].elf THEN k ELSE 0) \in Nat
        BY <1>0
      <3> QED BY <1>1, <1>4, <3>1, <3>2
    <2> QED BY <1>14, <2>1 DEF map_file, CallTypes, files
  <1>15. CASE FillDents(p)
    <2>1. PICK k \in Entries :
            /\ stream' = [stream EXCEPT ![p].dents = IF Listed(k, fd_table[p][stream[p].fd].entry)
                                                     THEN Append(@, k) ELSE @]
            /\ call' = [call EXCEPT ![p] = Onward(p, k)]
      BY <1>15 DEF FillDents
    <2>2. call' \in [Procs -> CallRecords]
      BY <1>1, <1>4, <2>1
    <2>3. PICK t \in Seq(Nat) : t = IF Listed(k, fd_table[p][stream[p].fd].entry)
                                    THEN Append(stream[p].dents, k) ELSE stream[p].dents
      <3>1. stream[p].dents \in Seq(Nat) /\ k \in Nat
        BY <1>0 DEF Streams
      <3>2. Append(stream[p].dents, k) \in Seq(Nat)
        BY <3>1, AppendProperties
      <3> QED BY <3>1, <3>2
    <2>4. stream' = [stream EXCEPT ![p].dents = t]
      BY <2>1, <2>3
    <2>5. [stream[p] EXCEPT !.dents = t] \in Streams
      BY <1>0 DEF Streams
    <2>6. stream' \in [Procs -> Streams]
      BY <1>2, <2>4, <2>5
    <2> QED BY <1>15, <2>2, <2>6 DEF FillDents, CallTypes, files
  <1>16. CASE DentsEnd(p)
    <2>1. call' \in [Procs -> CallRecords]
      <3>1. call[p].answer \in Nat
        BY <1>0 DEF CallRecords, CallFields
      <3>2. call' = [call EXCEPT ![p] = Done(p, call[p].answer)]
        BY <1>16 DEF DentsEnd
      <3> QED BY <1>1, <1>4, <3>1, <3>2
    <2>2. stream' \in [Procs -> Streams]
      <3>1. [stream[p] EXCEPT !.state = "open"] \in Streams
        BY <1>0 DEF Streams
      <3> QED BY <1>2, <1>16, <3>1 DEF DentsEnd
    <2> QED BY <1>16, <2>1, <2>2 DEF DentsEnd, CallTypes, files
  <1> QED BY <1>5, <1>6, <1>7, <1>8, <1>9, <1>10, <1>11, <1>12, <1>13, <1>14, <1>15, <1>16 DEF Kernel

(* So do the steps a program takes. *)
LEMMA TypesUser ==
    ASSUME CallTypes, NEW p \in Procs, User(p)
    PROVE  CallTypes'
  <1>0. stream[p] \in Streams /\ wd[p] \in PathRecords /\ NoStream \in Streams
    BY DEF CallTypes, NoStream, Streams
  <1>1. \A s \in Streams : [stream EXCEPT ![p] = s] \in [Procs -> Streams]
    BY DEF CallTypes
  <1>2. stream \in [Procs -> Streams] /\ {"open", "chdir", "execve", "opendir"} \subseteq Whats \ {"none"}
    BY DEF CallTypes, Whats
  <1>3. ASSUME NEW path \in Asked.open, do_open(p, path) PROVE CallTypes'
    BY <1>2, <1>3, PathFacts, TypesEnter DEF do_open
  <1>4. ASSUME NEW path \in Asked.chdir, do_chdir(p, path) PROVE CallTypes'
    BY <1>2, <1>4, PathFacts, TypesEnter DEF do_chdir
  <1>5. ASSUME NEW path \in Asked.execve, do_execve(p, path) PROVE CallTypes'
    BY <1>2, <1>5, PathFacts, TypesEnter DEF do_execve
  <1>6. CASE opendir(p)
    <2>1. PICK path \in PathRecords : path = IF wd[p] = Slash THEN Slash ELSE Path(wd[p].name, 0)
      BY <1>0, PathFacts
    <2>2. PICK dirty \in BOOLEAN : stream' = [stream EXCEPT ![p] = [NoStream EXCEPT !.dirty = dirty]]
      BY <1>6 DEF opendir
    <2>3. [NoStream EXCEPT !.dirty = dirty] \in Streams
      <3>1. PICK s \in Streams : s = NoStream
        BY <1>0
      <3>2. [s EXCEPT !.dirty = dirty] \in Streams
        BY DEF Streams
      <3> QED BY <3>1, <3>2
    <2>4. stream' \in [Procs -> Streams]
      BY <1>1, <2>2, <2>3
    <2> QED BY <1>2, <1>6, <2>1, <2>4, TypesEnter DEF opendir
  <1>7. CASE readdir(p)
    <2>1. PICK s \in Streams : stream' = [stream EXCEPT ![p] = s]
      <3>1. PICK t \in Streams : t = stream[p]
        BY <1>0
      <3>2. /\ [t EXCEPT !.offset = t.offset + 1] \in Streams
            /\ [t EXCEPT !.state = "junk"] \in Streams
            /\ [t EXCEPT !.state = "null"] \in Streams
        BY DEF Streams
      <3>3. stream' = [stream EXCEPT ![p] =
                     IF t.offset < Len(t.dents) THEN [t EXCEPT !.offset = t.offset + 1]
                     ELSE IF t.dirty THEN [t EXCEPT !.state = "junk"]
                     ELSE [t EXCEPT !.state = "null"]]
        BY <1>7, <3>1 DEF readdir
      <3> QED BY <3>2, <3>3
    <2> QED BY <1>1, <1>7, <2>1 DEF readdir, CallTypes, files
  <1>8. CASE closedir(p)
    <2>1. stream' \in [Procs -> Streams]
      BY <1>0, <1>1, <1>8 DEF closedir
    <2> QED BY <1>8, <2>1 DEF closedir, do_close, CallTypes
  <1>9. ASSUME NEW fd \in Descriptors, NEW n \in ReadSizes, do_read(p, fd, n) PROVE CallTypes'
    BY <1>9 DEF do_read, CallTypes
  <1>10. ASSUME NEW fd \in Descriptors, close(p, fd) PROVE CallTypes'
    BY <1>10 DEF close, do_close, CallTypes
  <1> QED BY <1>3, <1>4, <1>5, <1>6, <1>7, <1>8, <1>9, <1>10 DEF User
-----------------------------------------------------------------------------
(* Descriptors.  Those from next_fd on were never opened; through the others  *)
(* the beginning of the file was read, up to the offset.                     *)
OpenFiles == [entry : Nat, size : Nat, offset : Nat]

FileOK(f, bytes) ==
    IF f = Closed THEN bytes = <<>>
    ELSE /\ f.entry \in 1..Root /\ f.size \in {0, Len(Data(f.entry))} /\ f.offset <= f.size
         /\ bytes = SubSeq(Data(f.entry), 1, f.offset)

FilesInv ==
    /\ fd_table \in [Procs -> [Descriptors -> OpenFiles]]
    /\ got \in [Procs -> [Descriptors -> Seq(Bytes)]]
    /\ \A p \in Procs : next_fd[p] > 2
    /\ \A p \in Procs : \A fd \in Descriptors :
          /\ FileOK(fd_table[p][fd], got[p][fd])
          /\ fd >= next_fd[p] => fd_table[p][fd] = Closed

(* What a header's data is. *)
LEMMA DataIs ==
    ASSUME Archive \in Archives, NEW k
    PROVE  Data(k) \in Seq(Bytes) /\ Len(Data(k)) \in Nat
  <1>1. k \in Entries => Data(k) = Archive[k].data
    BY DEF Data
  <1>2. k \notin Entries => Data(k) = <<>>
    BY DEF Data
  <1>3. <<>> \in Seq(Bytes) /\ Len(<<>>) = 0
    OBVIOUS
  <1>4. k \in Entries => Archive[k].data \in Seq(Bytes)
    BY ArchiveIs
  <1>5. Data(k) \in Seq(Bytes)
    BY <1>1, <1>2, <1>3, <1>4
  <1> QED BY <1>5

(* Where read_to_buffer stops: there is such a place for every size, 0 too.   *)
LEMMA TakenIs ==
    ASSUME NEW rest \in Seq(Bytes), NEW n \in Nat
    PROVE  Taken(rest, n) \in 0..Len(rest)
  <1> DEFINE S == {k \in 0..Len(rest) :
                       k = Len(rest) \/ k = n - 1 \/ (k > 0 /\ rest[k] = "nl")}
  <1>1. Len(rest) \in Nat
    OBVIOUS
  <1>2. S \in SUBSET Nat /\ Len(rest) \in S
    BY <1>1
  <1>3. PICK k \in S : \A j \in S : k <= j
    BY <1>2, Least
  <1>4. k \in 0..Len(rest) /\ (k = Len(rest) \/ k = n - 1 \/ (k > 0 /\ rest[k] = "nl"))
    OBVIOUS
  <1>5. \A j \in 1..(k - 1) : rest[j] # "nl"
    <2> SUFFICES ASSUME NEW j \in 1..(k - 1), rest[j] = "nl" PROVE FALSE
      OBVIOUS
    <2>1. j \in S /\ j < k
      BY <1>1, <1>4
    <2> QED BY <1>3, <1>4, <2>1
  <1>6. n > 0 => k <= n - 1
    <2>1. CASE n > 0 /\ n - 1 <= Len(rest)
      <3>1. n - 1 \in S
        BY <1>1, <2>1
      <3> QED BY <1>3, <3>1
    <2>2. CASE n > 0 /\ ~(n - 1 <= Len(rest))
      BY <1>1, <1>4, <2>2
    <2> QED BY <2>1, <2>2
  <1> HIDE DEF S
  <1> QED BY <1>4, <1>5, <1>6 DEF Taken

(* A read that takes k bytes of what is left reads the file on. *)
LEMMA ReadOn ==
    ASSUME NEW data \in Seq(Bytes), NEW o \in 0..Len(data), NEW size \in Nat, o <= size,
           size \in {0, Len(data)}, NEW k \in 0..Len(SubSeq(data, o + 1, size))
    PROVE  /\ o + k <= size
           /\ SubSeq(data, 1, o) \o SubSeq(SubSeq(data, o + 1, size), 1, k)
                = SubSeq(data, 1, o + k)
  <1>1. Len(data) \in Nat /\ size <= Len(data) /\ o \in Nat
    OBVIOUS
  <1>2. PICK a : a = SubSeq(data, 1, o)
    OBVIOUS
  <1>3. PICK b : b = SubSeq(data, o + 1, size)
    OBVIOUS
  <1>4. /\ a \in Seq(Bytes) /\ Len(a) = o
        /\ \A j \in 1..o : a[j] = data[j]
    BY <1>1, <1>2
  <1>5. /\ b \in Seq(Bytes) /\ Len(b) = size - o
        /\ \A j \in 1..(size - o) : b[j] = data[o + j]
    <2>1. /\ b \in Seq(Bytes) /\ Len(b) = size - o
      BY <1>1, <1>3
    <2>2. \A j \in 1..(size - o) : b[j] = data[(o + 1) + j - 1] /\ (o + 1) + j - 1 = o + j
      BY <1>1, <1>3, SMTT(30)
    <2> QED BY <2>1, <2>2
  <1>6. k \in 0..(size - o)
    BY <1>3, <1>5
  <1>7. PICK c : c = SubSeq(b, 1, k)
    OBVIOUS
  <1>8. /\ c \in Seq(Bytes) /\ Len(c) = k
        /\ \A j \in 1..k : c[j] = b[j]
    BY <1>1, <1>5, <1>6, <1>7
  <1>9. PICK d : d = SubSeq(data, 1, o + k)
    OBVIOUS
  <1>10. /\ d \in Seq(Bytes) /\ Len(d) = o + k
         /\ \A j \in 1..(o + k) : d[j] = data[j]
    BY <1>1, <1>6, <1>9
  <1>11. /\ a \o c \in Seq(Bytes) /\ Len(a \o c) = o + k
         /\ \A j \in 1..(o + k) : (a \o c)[j] = IF j <= o THEN a[j] ELSE c[j - o]
    <2>1. /\ a \o c \in Seq(Bytes) /\ Len(a \o c) = Len(a) + Len(c)
          /\ \A j \in 1..(Len(a) + Len(c)) : (a \o c)[j] = IF j <= Len(a) THEN a[j] ELSE c[j - Len(a)]
      BY <1>4, <1>8, ConcatProperties, ZenonT(30)
    <2> QED BY <1>4, <1>8, <2>1
  <1>12. ASSUME NEW j \in 1..(o + k) PROVE (a \o c)[j] = d[j]
    <2>1. CASE j <= o
      <3>1. j \in 1..o
        BY <1>1, <2>1
      <3> QED BY <1>4, <1>10, <1>11, <2>1, <3>1
    <2>2. CASE ~(j <= o)
      <3>1. j - o \in 1..k /\ j - o \in 1..(size - o) /\ o + (j - o) = j
        BY <1>1, <1>6, <2>2
      <3>2. c[j - o] = data[j]
        BY <1>5, <1>8, <3>1
      <3> QED BY <1>10, <1>11, <2>2, <3>2
    <2> QED BY <2>1, <2>2
  <1>13. a \o c = d
    BY <1>10, <1>11, <1>12, SeqEqual
  <1>14. o + k <= size
    BY <1>1, <1>6
  <1> QED BY <1>2, <1>3, <1>7, <1>9, <1>13, <1>14

(* A step that leaves the archive and the files alone. *)
LEMMA FilesSame ==
    ASSUME FilesInv, UNCHANGED <<Archive, fd_table, next_fd, got>>
    PROVE  FilesInv'
  BY DEF FilesInv, FileOK, Root, Data, Entries

(* One descriptor changes, with what was read through it. *)
LEMMA FilesChange ==
    ASSUME CallTypes, FilesInv, UNCHANGED Archive,
           NEW p \in Procs, NEW fd \in Descriptors, NEW f \in OpenFiles, NEW bytes \in Seq(Bytes),
           NEW n \in Nat, n >= next_fd[p], fd < n, FileOK(f, bytes),
           fd_table' = [fd_table EXCEPT ![p][fd] = f], got' = [got EXCEPT ![p][fd] = bytes],
           next_fd' = [next_fd EXCEPT ![p] = n]
    PROVE  FilesInv'
  <1>1. \A g, b : FileOK(g, b)' <=> FileOK(g, b)
    BY DEF FileOK, Root, Data, Entries
  <1>2. fd_table' \in [Procs -> [Descriptors -> OpenFiles]]
    BY DEF FilesInv
  <1>3. got' \in [Procs -> [Descriptors -> Seq(Bytes)]]
    BY DEF FilesInv
  <1>4. next_fd \in [Procs -> Nat] /\ next_fd'[p] = n /\ \A q \in Procs : q # p => next_fd'[q] = next_fd[q]
    BY DEF CallTypes
  <1>5. \A q \in Procs : next_fd'[q] > 2
    <2>1. \A q \in Procs : next_fd[q] > 2 /\ next_fd[q] \in Nat
      BY DEF FilesInv, CallTypes
    <2> QED BY <1>4, <2>1
  <1>6. ASSUME NEW q \in Procs, NEW d \in Descriptors
        PROVE  FileOK(fd_table'[q][d], got'[q][d]) /\ (d >= next_fd'[q] => fd_table'[q][d] = Closed)
    <2>1. /\ FileOK(fd_table[q][d], got[q][d])
          /\ d >= next_fd[q] => fd_table[q][d] = Closed
      BY DEF FilesInv
    <2>2. fd_table \in [Procs -> [Descriptors -> OpenFiles]] /\ got \in [Procs -> [Descriptors -> Seq(Bytes)]]
      BY DEF FilesInv
    <2>3. d \in Nat /\ next_fd[q] \in Nat
      BY <1>4, FdsAssumption DEF Descriptors
    <2>4. CASE q = p /\ d = fd
      BY <1>4, <2>2, <2>3, <2>4
    <2>5. CASE ~(q = p /\ d = fd)
      <3>1. fd_table'[q][d] = fd_table[q][d] /\ got'[q][d] = got[q][d]
        BY <2>2, <2>5
      <3> QED BY <1>4, <2>1, <2>3, <3>1
    <2> QED BY <2>4, <2>5
  <1>7. \A q \in Procs : \A d \in Descriptors :
           /\ FileOK(fd_table[q][d], got[q][d])'
           /\ (d >= next_fd[q] => fd_table[q][d] = Closed)'
    BY <1>1, <1>6 DEF Closed
  <1> QED BY <1>2, <1>3, <1>5, <1>7 DEF FilesInv

(* Opening an entry. *)
LEMMA FilesOpen ==
    ASSUME CallTypes, FilesInv, NEW p \in Procs, OpenEntry(p)
    PROVE  FilesInv'
  <1>1. PICK k \in Entries \cup {Root} : Open(p, k)
    BY DEF OpenEntry
  <1>2. /\ Len(Archive) \in Nat /\ Entries = 1..Len(Archive) /\ Root = Len(Archive) + 1
        /\ next_fd \in [Procs -> Nat] /\ next_fd[p] \in Nat /\ next_fd[p] > 2
        /\ Archive \in Archives
    BY ArchiveIs DEF CallTypes, FilesInv, Root
  <1>3. UNCHANGED <<Archive, got>>
    BY DEF OpenEntry
  <1>4. CASE next_fd[p] < FDS
    <2>1. next_fd[p] \in Descriptors
      BY <1>2, <1>4, FdsAssumption DEF Descriptors
    <2>2. PICK size \in {0, Len(Data(k))} : size = IF call[p].for = "open_file" THEN Len(Data(k)) ELSE 0
      OBVIOUS
    <2>3. Len(Data(k)) \in Nat /\ Data(k) \in Seq(Bytes)
      BY <1>2, DataIs
    <2>4. PICK f : f = [entry |-> k, size |-> size, offset |-> 0]
      OBVIOUS
    <2>5. f \in OpenFiles /\ f # Closed
      BY <1>2, <2>3, <2>4 DEF OpenFiles, Closed
    <2>6. SubSeq(Data(k), 1, 0) = <<>>
      BY SubSeqEmpty
    <2>7. FileOK(f, <<>>)
      <3>1. f.entry = k /\ f.size = size /\ f.offset = 0
        BY <2>4
      <3>2. k \in 1..Root /\ 0 <= size
        BY <1>2, <2>3
      <3> QED BY <2>5, <2>6, <3>1, <3>2 DEF FileOK
    <2>8. fd_table' = [fd_table EXCEPT ![p][next_fd[p]] = f]
      BY <1>1, <1>4, <2>2, <2>4 DEF Open
    <2>9. got' = [got EXCEPT ![p][next_fd[p]] = <<>>]
      <3>1. got[p][next_fd[p]] = <<>>
        <4>1. FileOK(fd_table[p][next_fd[p]], got[p][next_fd[p]])
              /\ fd_table[p][next_fd[p]] = Closed
          BY <1>2, <2>1 DEF FilesInv
        <4> QED BY <4>1 DEF FileOK
      <3>2. got \in [Procs -> [Descriptors -> Seq(Bytes)]]
        BY DEF FilesInv
      <3> QED BY <1>3, <2>1, <3>1, <3>2
    <2>10. PICK n \in Nat : n = next_fd[p] + 1
      BY <1>2
    <2>11. next_fd' = [next_fd EXCEPT ![p] = n]
      BY <1>1, <2>10 DEF Open
    <2>12. <<>> \in Seq(Bytes) /\ n >= next_fd[p] /\ next_fd[p] < n
      BY <1>2, <2>10
    <2> QED BY <1>3, <2>1, <2>5, <2>7, <2>8, <2>9, <2>11, <2>12, FilesChange
  <1>5. CASE ~(next_fd[p] < FDS)
    <2>1. fd_table' = fd_table /\ next_fd' = [next_fd EXCEPT ![p] = next_fd[p] + 1]
      BY <1>1, <1>5 DEF Open
    <2>2. \A g, b : FileOK(g, b)' <=> FileOK(g, b)
      BY <1>3 DEF FileOK, Root, Data, Entries
    <2>3. \A q \in Procs : next_fd'[q] \in Nat /\ next_fd'[q] >= next_fd[q] /\ next_fd[q] \in Nat
      BY <1>2, <2>1
    <2>4. \A q \in Procs : next_fd'[q] > 2
      <3> SUFFICES ASSUME NEW q \in Procs PROVE next_fd'[q] > 2
        OBVIOUS
      <3>1. next_fd[q] > 2
        BY DEF FilesInv
      <3> QED BY <2>3, <3>1
    <2>5. \A q \in Procs : \A d \in Descriptors :
             /\ FileOK(fd_table[q][d], got[q][d])'
             /\ (d >= next_fd[q] => fd_table[q][d] = Closed)'
      <3> SUFFICES ASSUME NEW q \in Procs, NEW d \in Descriptors
                   PROVE  /\ FileOK(fd_table[q][d], got[q][d])'
                          /\ (d >= next_fd[q] => fd_table[q][d] = Closed)'
        OBVIOUS
      <3>1. d \in Nat
        BY FdsAssumption DEF Descriptors
      <3>2. d >= next_fd'[q] => d >= next_fd[q]
        BY <2>3, <3>1
      <3>3. FileOK(fd_table[q][d], got[q][d]) /\ (d >= next_fd[q] => fd_table[q][d] = Closed)
        BY DEF FilesInv
      <3> QED BY <1>3, <2>1, <2>2, <3>2, <3>3 DEF Closed
    <2> QED BY <1>3, <2>1, <2>4, <2>5 DEF FilesInv
  <1> QED BY <1>4, <1>5

(* Closing and reading. *)
LEMMA FilesUser ==
    ASSUME CallTypes, FilesInv, NEW p \in Procs, User(p)
    PROVE  FilesInv'
  <1>1. /\ next_fd \in [Procs -> Nat] /\ next_fd[p] \in Nat /\ Archive \in Archives
        /\ fd_table \in [Procs -> [Descriptors -> OpenFiles]]
        /\ got \in [Procs -> [Descriptors -> Seq(Bytes)]]
    BY DEF CallTypes, FilesInv
  <1>2. /\ <<>> \in Seq(Bytes) /\ Closed \in OpenFiles
        /\ next_fd = [next_fd EXCEPT ![p] = next_fd[p]]
        /\ \A fd \in Descriptors : fd \in Nat
    BY <1>1, FdsAssumption DEF Closed, OpenFiles, Descriptors
  <1>3. ASSUME NEW fd, do_close(p, fd) PROVE FilesInv'
    <2>0. CASE ~(fd \in Descriptors /\ fd < next_fd[p])
      <3>1. fd \in Descriptors => fd_table[p][fd] = Closed /\ got[p][fd] = <<>>
        BY <1>1, <1>2, <2>0 DEF FilesInv, FileOK
      <3>2. /\ fd_table' = [fd_table EXCEPT ![p] = [fd_table[p] EXCEPT ![fd] = Closed]]
            /\ got' = [got EXCEPT ![p] = [got[p] EXCEPT ![fd] = <<>>]]
        BY <1>1, <1>3 DEF do_close
      <3>3. fd_table[p] \in [Descriptors -> OpenFiles] /\ got[p] \in [Descriptors -> Seq(Bytes)]
        BY <1>1
      <3>4. [fd_table[p] EXCEPT ![fd] = Closed] = fd_table[p] /\ [got[p] EXCEPT ![fd] = <<>>] = got[p]
        BY <3>1, <3>3
      <3>5. fd_table' = fd_table /\ got' = got
        BY <1>1, <3>2, <3>4
      <3> QED BY <1>3, <3>5, FilesSame DEF do_close
    <2> SUFFICES ASSUME fd \in Descriptors, fd < next_fd[p] PROVE FilesInv'
      BY <2>0
    <2>1. FileOK(Closed, <<>>)
      BY DEF FileOK
    <2>2. /\ UNCHANGED <<Archive, next_fd>>
          /\ fd_table' = [fd_table EXCEPT ![p][fd] = Closed] /\ got' = [got EXCEPT ![p][fd] = <<>>]
      BY <1>3 DEF do_close
    <2>3. next_fd' = [next_fd EXCEPT ![p] = next_fd[p]] /\ next_fd[p] >= next_fd[p]
      BY <1>1, <1>2, <2>2
    <2> QED BY <1>1, <1>2, <1>3, <2>1, <2>2, <2>3, FilesChange
  <1>4. ASSUME NEW fd \in Descriptors, NEW n \in ReadSizes, do_read(p, fd, n) PROVE FilesInv'
    <2>1. PICK f \in OpenFiles : f = fd_table[p][fd] /\ FileOK(f, got[p][fd])
      BY <1>1 DEF FilesInv
    <2>2. PICK rest : rest = Remaining(f)
      OBVIOUS
    <2>3. PICK k : k = Taken(rest, n)
      OBVIOUS
    <2>4. /\ UNCHANGED <<Archive, next_fd>>
          /\ fd_table' = [fd_table EXCEPT ![p][fd].offset = @ + k]
          /\ got' = [got EXCEPT ![p][fd] = @ \o SubSeq(rest, 1, k)]
      BY <1>4, <2>1, <2>2, <2>3 DEF do_read
    <2>5. Data(f.entry) \in Seq(Bytes) /\ Len(Data(f.entry)) \in Nat
      BY <1>1, DataIs
    <2>6. n \in Nat
      BY BoundsAssumption
    <2>7. CASE f = Closed
      <3>1. f.entry = 0 /\ f.size = 0 /\ f.offset = 0
        BY <2>7 DEF Closed
      <3>2. Data(f.entry) = <<>>
        <4>1. 0 \notin Entries
          BY <1>1, ArchiveIs
        <4> QED BY <3>1, <4>1 DEF Data
      <3>3. rest = <<>>
        BY <2>2, <3>1, <3>2, SubSeqEmpty DEF Remaining
      <3>4. Len(rest) = 0 /\ rest \in Seq(Bytes)
        BY <3>3
      <3>5. k = 0
        <4>1. k \in 0..Len(rest)
          BY <2>3, <2>6, <3>4, TakenIs
        <4> QED BY <3>4, <4>1
      <3>6. got[p][fd] = <<>>
        BY <2>1, <2>7 DEF FileOK
      <3>7. fd_table' = fd_table
        <4>1. [f EXCEPT !.offset = f.offset + k] = f
          BY <3>1, <3>5 DEF OpenFiles
        <4>2. fd_table' = [fd_table EXCEPT ![p][fd] = [f EXCEPT !.offset = f.offset + k]]
          BY <1>1, <2>1, <2>4
        <4> QED BY <1>1, <2>1, <4>1, <4>2
      <3>8. got' = got
        <4>1. SubSeq(rest, 1, k) = <<>>
          BY <3>5, SubSeqEmpty
        <4>2. got[p][fd] \o <<>> = got[p][fd]
          BY <1>1, ConcatEmptySeq
        <4>3. got' = [got EXCEPT ![p][fd] = got[p][fd] \o <<>>]
          BY <2>4, <4>1
        <4> QED BY <1>1, <4>2, <4>3
      <3> QED BY <2>4, <3>7, <3>8, FilesSame
    <2>8. CASE f # Closed
      <3>1. /\ f.entry \in 1..Root /\ f.size \in {0, Len(Data(f.entry))} /\ f.offset <= f.size
            /\ got[p][fd] = SubSeq(Data(f.entry), 1, f.offset)
            /\ f.offset \in Nat /\ f.size \in Nat
        BY <2>1, <2>8 DEF FileOK, OpenFiles
      <3>2. PICK data \in Seq(Bytes) : data = Data(f.entry)
        BY <2>5
      <3>3. rest = SubSeq(data, f.offset + 1, f.size) /\ f.offset \in 0..Len(data) /\ Len(data) \in Nat
        BY <2>2, <2>5, <3>1, <3>2 DEF Remaining
      <3>4. rest \in Seq(Bytes)
        BY <3>1, <3>2, <3>3
      <3>5. k \in 0..Len(rest) /\ k \in Nat
        BY <2>3, <2>6, <3>4, TakenIs
      <3>6. /\ f.offset + k <= f.size
            /\ SubSeq(data, 1, f.offset) \o SubSeq(rest, 1, k) = SubSeq(data, 1, f.offset + k)
        BY <3>1, <3>2, <3>3, <3>5, ReadOn
      <3>7. PICK g : g = [f EXCEPT !.offset = f.offset + k]
        OBVIOUS
      <3>8. g \in OpenFiles /\ g.entry = f.entry /\ g.size = f.size /\ g.offset = f.offset + k
        <4>1. f.offset + k \in Nat
          BY <3>1, <3>5
        <4> QED BY <3>7, <4>1 DEF OpenFiles
      <3>9. PICK bytes : bytes = SubSeq(data, 1, f.offset + k)
        OBVIOUS
      <3>10. bytes \in Seq(Bytes)
        <4>0. f.size = 0 \/ f.size = Len(data)
          BY <3>1, <3>2
        <4>a. f.offset + k \in Nat
          BY ONLY <3>1, <3>5
        <4>b. Len(data) \in Nat /\ f.size <= Len(data)
          BY ONLY <3>3, <4>0
        <4>1. f.offset + k \in 0..Len(data)
          BY ONLY <3>1, <3>6, <4>a, <4>b
        <4> QED BY <3>2, <3>9, <4>1
      <3>11. g # Closed
        BY <3>1, <3>8 DEF Closed
      <3>12. FileOK(g, bytes)
        BY <3>1, <3>2, <3>6, <3>8, <3>9, <3>11 DEF FileOK
      <3>13. fd_table' = [fd_table EXCEPT ![p][fd] = g]
        BY <1>1, <2>1, <2>4, <3>7
      <3>14. got' = [got EXCEPT ![p][fd] = bytes]
        <4>1. got' = [got EXCEPT ![p][fd] = got[p][fd] \o SubSeq(rest, 1, k)]
          BY <2>4
        <4> QED BY <3>1, <3>2, <3>6, <3>9, <4>1
      <3>15. fd < next_fd[p]
        BY <1>1, <1>2, <2>1, <2>8 DEF FilesInv
      <3>16. next_fd' = [next_fd EXCEPT ![p] = next_fd[p]] /\ next_fd[p] >= next_fd[p]
        BY <1>1, <1>2, <2>4
      <3> QED BY <1>1, <2>4, <3>8, <3>10, <3>12, <3>13, <3>14, <3>15, <3>16, FilesChange
    <2> QED BY <2>7, <2>8
  <1>5. ASSUME NEW what, NEW path, Enter(p, what, path) PROVE FilesInv'
    BY <1>5, FilesSame DEF Enter, files
  <1>6. CASE readdir(p)
    BY <1>6, FilesSame DEF readdir, files
  <1>7. CASE closedir(p)
    BY <1>3, <1>7 DEF closedir
  <1>8. ASSUME NEW fd \in Descriptors, close(p, fd) PROVE FilesInv'
    BY <1>3, <1>8 DEF close
  <1> QED BY <1>4, <1>5, <1>6, <1>7, <1>8 DEF User, do_open, do_chdir, do_execve, opendir

(* The steps in the kernel. *)
LEMMA FilesKernel ==
    ASSUME CallTypes, FilesInv, NEW p \in Procs, Kernel(p)
    PROVE  FilesInv'
  <1>1. CASE OpenEntry(p)
    BY <1>1, FilesOpen
  <1>2. CASE ~OpenEntry(p)
    <2>1. UNCHANGED <<Archive, files>>
      BY <1>2 DEF Kernel, path_merge, AppendSlash, WalkOn, WalkFound, WalkEnd, WalkStray,
                  CopyWd, CopyPname, map_file, FillDents, DentsEnd
    <2> QED BY <2>1, FilesSame DEF files
  <1> QED BY <1>1, <1>2
-----------------------------------------------------------------------------
(* Calls.  What a call that no other process has disturbed has come to: whose *)
(* path is in abspath, which entry it has found, and that its walk has not    *)
(* passed the entry it is looking for.                                       *)
Answered(c, n) == Means(c, n) \/ (MeansRoot(c) /\ n = Root)
Chosen(c) == Means(c, c.answer) \/ (MeansRoot(c) /\ c.answer = 0)
Lookups == Searches \cup {"open_file", "open_dir", "map_file"}

OnTheWay(c) ==
    \A k \in Entries : Means(c, k) /\ PaddedBefore(k) => \E j \in 1..k : c.offset = HeaderAt[j]

Own(c, path, w, pn) ==
    /\ c.for \in {"merge", "slash"} => c.answer = 0
    /\ c.for \in {"slash", "search_open", "search_exec", "open_file", "copy_pname"} => path = c.path
    /\ c.for = "search_dir" => /\ path.name = c.path.name
                               /\ path.slashes = 1 \/ path.name = <<>> \/ path = Garbled
    /\ c.for \in {"copy_wd", "open_dir"} => path = Path(c.path.name, 1) /\ Chosen(c)
    /\ c.for \in {"open_file", "copy_pname", "map_file"} => Means(c, c.answer)
    /\ c.for = "map_file" => pn = c.path
    /\ c.for = "dents" => Answered(c, c.answer)
    /\ c.for \in Lookups => OnTheWay(c)
    /\ c.for = "done" /\ c.what # "none" =>
          /\ c.answer # 0 => /\ Answered(c, c.answer)
                             /\ c.what = "chdir" => w = Path(c.path.name, 1)
                             /\ c.what = "execve" => pn = c.path
          /\ \A k \in Entries : Means(c, k) /\ PaddedBefore(k) => c.answer = k

AskedPath(c) == c.what # "none" => c.path = Slash \/ c.path.slashes = 0

CallInv ==
    /\ CallTypes
    /\ \A q \in Procs : /\ AskedPath(call[q])
                        /\ ~call[q].raced => Own(call[q], abspath, wd[q], pname[q])

(* The archive does not change. *)
LEMMA ArchiveSame ==
    ASSUME UNCHANGED Archive
    PROVE  /\ Entries' = Entries /\ Root' = Root /\ HeaderAt' = HeaderAt
           /\ \A c, n : Means(c, n)' <=> Means(c, n)
           /\ \A k : PaddedBefore(k)' <=> PaddedBefore(k)
           /\ \A c, path, w, pn : Own(c, path, w, pn)' <=> Own(c, path, w, pn)
  <1>1. Entries' = Entries /\ Root' = Root
    BY DEF Entries, Root
  <1>2. \A k : SizeOf(k)' = SizeOf(k)
    BY DEF SizeOf
  <1>3. HeaderAt' = HeaderAt
    BY <1>2 DEF HeaderAt
  <1>4. \A c, n : Means(c, n)' <=> Means(c, n)
    BY <1>1, <1>2 DEF Means
  <1>5. \A k : PaddedBefore(k)' <=> PaddedBefore(k)
    BY <1>2 DEF PaddedBefore
  <1>6. \A c : OnTheWay(c)' <=> OnTheWay(c)
    BY <1>1, <1>3, <1>4, <1>5 DEF OnTheWay
  <1>7. \A c, n : Answered(c, n)' <=> Answered(c, n)
    BY <1>1, <1>4 DEF Answered, MeansRoot
  <1>8. \A c : Chosen(c)' <=> Chosen(c)
    BY <1>4 DEF Chosen, MeansRoot
  <1>9. \A c, path, w, pn : Own(c, path, w, pn)' <=> Own(c, path, w, pn)
    BY <1>1, <1>4, <1>5, <1>6, <1>7, <1>8 DEF Own, Path, Garbled, Lookups, Searches
  <1> QED BY <1>1, <1>3, <1>4, <1>5, <1>9

(* An entry has one name, so a call means one entry at most. *)
LEMMA MeansOne ==
    ASSUME Archive \in Archives, NEW c, NEW k, NEW l, Means(c, k)
    PROVE  /\ k \in Entries /\ ~MeansRoot(c) /\ c.path.name \in Seq(Names)
           /\ Means(c, l) => k = l
           /\ l \in Entries /\ Archive[l].name = c.path.name => k = l
  <1>1. k \in Entries /\ c.path.name = Archive[k].name
    BY DEF Means
  <1>2. Means(c, l) => l \in Entries /\ c.path.name = Archive[l].name
    BY DEF Means
  <1>3. Archive[k].name # <<>> /\ Archive[k].name \in Seq(Names)
    BY <1>1, ArchiveIs
  <1> QED BY <1>1, <1>2, <1>3, ArchiveIs DEF MeansRoot

(* A step of one process, that may store to abspath, leaves the others' calls *)
(* right.                                                                    *)
LEMMA CallStep ==
    ASSUME CallInv, CallTypes', UNCHANGED Archive, NEW p \in Procs,
           \A q \in Procs : q # p =>
               /\ wd'[q] = wd[q] /\ pname'[q] = pname[q]
               /\ \/ call'[q] = call[q] /\ abspath' = abspath
                  \/ /\ call'[q].raced = (call[q].raced \/ call[q].for # "done")
                     /\ call'[q].what = call[q].what /\ call'[q].for = call[q].for
                     /\ call'[q].path = call[q].path /\ call'[q].answer = call[q].answer,
           AskedPath(call'[p]),
           ~call'[p].raced => Own(call'[p], abspath', wd'[p], pname'[p])
    PROVE  CallInv'
  <1>1. ASSUME NEW q \in Procs, q # p
        PROVE  AskedPath(call'[q]) /\ (~call'[q].raced => Own(call'[q], abspath', wd'[q], pname'[q]))
    <2>1. AskedPath(call[q]) /\ (~call[q].raced => Own(call[q], abspath, wd[q], pname[q]))
      BY DEF CallInv
    <2>2. wd'[q] = wd[q] /\ pname'[q] = pname[q]
      BY <1>1
    <2>3. CASE call'[q] = call[q] /\ abspath' = abspath
      BY <2>1, <2>2, <2>3
    <2>4. CASE /\ call'[q].raced = (call[q].raced \/ call[q].for # "done")
               /\ call'[q].what = call[q].what /\ call'[q].for = call[q].for
               /\ call'[q].path = call[q].path /\ call'[q].answer = call[q].answer
      <3>1. AskedPath(call'[q])
        BY <2>1, <2>4 DEF AskedPath
      <3>2. ASSUME ~call'[q].raced PROVE Own(call'[q], abspath', wd'[q], pname'[q])
        <4>1. ~call[q].raced /\ call[q].for = "done"
          BY <2>4, <3>2
        <4>2. Own(call[q], abspath, wd[q], pname[q])
          BY <2>1, <4>1
        <4>3. PICK c, d : c = call[q] /\ d = call'[q]
          OBVIOUS
        <4>4. d.what = c.what /\ d.for = "done" /\ d.path = c.path /\ d.answer = c.answer
          BY <2>4, <4>1, <4>3
        <4>5. \A n : (Means(d, n) <=> Means(c, n)) /\ (Answered(d, n) <=> Answered(c, n))
          BY <4>4 DEF Means, Answered, MeansRoot
        <4>6. c.what # "none" =>
                /\ c.answer # 0 => /\ Answered(c, c.answer)
                                   /\ c.what = "chdir" => wd[q] = Path(c.path.name, 1)
                                   /\ c.what = "execve" => pname[q] = c.path
                /\ \A k \in Entries : Means(c, k) /\ PaddedBefore(k) => c.answer = k
          BY <4>1, <4>2, <4>3 DEF Own
        <4>7. Own(d, abspath', wd[q], pname[q])
          BY <4>4, <4>5, <4>6 DEF Own, Lookups, Searches
        <4> QED BY <2>2, <4>3, <4>7
      <3> QED BY <3>1, <3>2
    <2> QED BY <1>1, <2>3, <2>4
  <1>2. \A q \in Procs : AskedPath(call'[q]) /\ (~call'[q].raced => Own(call'[q], abspath', wd'[q], pname'[q]))
    BY <1>1
  <1>3. \A q \in Procs : Own(call[q], abspath, wd[q], pname[q])' <=> Own(call'[q], abspath', wd'[q], pname'[q])
    BY ArchiveSame
  <1>4. \A q \in Procs : AskedPath(call[q])' <=> AskedPath(call'[q])
    BY DEF AskedPath, Slash, Path
  <1> QED BY <1>2, <1>3, <1>4 DEF CallInv

(* A garbled path is no name. *)
LEMMA NotAName == \A n \in Seq(Names) : n # <<"?">>
  <1>1. \A n \in Seq(Names) : Len(n) = 1 => n[1] \in Names
    OBVIOUS
  <1>2. Len(<<"?">>) = 1 /\ <<"?">>[1] = "?"
    OBVIOUS
  <1> QED BY <1>1, <1>2, NamesAssumption

(* The header an undisturbed call compares with is that of the entry it means. *)
LEMMA TargetHeader ==
    ASSUME CallInv, NEW p \in Procs, ~call[p].raced, call[p].for \in Lookups,
           NEW k, Means(call[p], k)
    PROVE  Header(k) = Wanted(p)
  <1>1. PICK c \in CallRecords : c = call[p]
    BY DEF CallInv, CallTypes
  <1>2. /\ Own(c, abspath, wd[p], pname[p]) /\ AskedPath(c) /\ Stage(c.what, c.for)
        /\ Archive \in Archives /\ abspath \in PathRecords /\ c.path \in PathRecords
    BY <1>1 DEF CallInv, CallTypes, CallRecords, CallFields
  <1>3. /\ k \in Entries /\ ~MeansRoot(c) /\ c.path.name \in Seq(Names)
        /\ c.path.name = Archive[k].name /\ c.path.name # <<>>
    BY <1>1, <1>2, MeansOne DEF MeansRoot, Means
  <1>4. c.path.name # <<"?">>
    BY <1>3, NotAName
  <1>5. c.what # "none" /\ c.path # Slash => c.path.slashes = 0
    BY <1>2 DEF AskedPath
  <1>6. c.path # Slash /\ (abspath # Garbled \/ abspath.name # c.path.name)
    BY <1>3, <1>4 DEF Slash, Path, Garbled
  <1>7. \A q \in PathRecords : q = Path(q.name, q.slashes)
    BY DEF PathRecords, Path
  <1>8. c.path # Slash
    BY <1>3 DEF Slash, Path
  <1>9. CASE c.for \in {"search_open", "open_file", "search_exec", "map_file"}
    <2>1. c.what \in {"open", "execve"}
      BY <1>2, <1>9 DEF Stage
    <2>2. ~Archive[k].dir
      BY <1>1, <1>2, <1>3, <2>1, ArchiveIs DEF Means
    <2>3. Wanted(p) = c.path
      BY <1>1, <1>2, <1>9 DEF Wanted, Own
    <2>4. c.path = Path(Archive[k].name, 0)
      BY <1>2, <1>3, <1>5, <1>7, <1>8, <2>1
    <2> QED BY <2>2, <2>3, <2>4 DEF Header
  <1>10. CASE c.for \in {"search_dir", "open_dir"}
    <2>1. c.what \in {"chdir", "opendir"}
      BY <1>2, <1>10 DEF Stage
    <2>2. Archive[k].dir
      BY <1>1, <2>1 DEF Means
    <2>3. Wanted(p) = abspath
      BY <1>1, <1>10 DEF Wanted
    <2>4. CASE c.for = "search_dir"
      <3>1. abspath.name = c.path.name /\ (abspath.slashes = 1 \/ abspath.name = <<>> \/ abspath = Garbled)
        BY <1>2, <2>4 DEF Own
      <3>2. abspath.slashes = 1
        BY <1>3, <1>6, <3>1
      <3>3. abspath = Path(Archive[k].name, 1)
        BY <1>2, <1>3, <1>7, <3>1, <3>2
      <3> QED BY <2>2, <2>3, <3>3 DEF Header
    <2>5. CASE c.for = "open_dir"
      <3>1. abspath = Path(Archive[k].name, 1)
        BY <1>2, <1>3, <2>5 DEF Own
      <3> QED BY <2>2, <2>3, <3>1 DEF Header
    <2> QED BY <1>10, <2>4, <2>5
  <1>11. c.for \in {"search_open", "open_file", "search_exec", "map_file", "search_dir", "open_dir"}
    BY <1>1 DEF Lookups, Searches
  <1> QED BY <1>9, <1>10, <1>11

(* What a search accepts is what the call means. *)
LEMMA FoundIsMeant ==
    ASSUME CallInv, NEW p \in Procs, ~call[p].raced, call[p].for \in Searches,
           NEW k \in Entries, Found(p, k), Accepted(p, k)
    PROVE  /\ Means(call[p], k)
           /\ call[p].for = "search_dir" => abspath = Path(call[p].path.name, 1)
  <1>1. PICK c \in CallRecords : c = call[p]
    BY DEF CallInv, CallTypes
  <1>2. /\ Own(c, abspath, wd[p], pname[p]) /\ Stage(c.what, c.for) /\ Archive \in Archives
    BY <1>1 DEF CallInv, CallTypes, CallRecords
  <1>3. c.for \in {"search_open", "search_exec", "search_dir"}
    BY <1>1 DEF Searches
  <1>4. Header(k) = abspath
    BY <1>1, <1>3 DEF Found, Wanted
  <1>5. /\ Header(k) = Path(Archive[k].name, IF Archive[k].dir THEN 1 ELSE 0)
        /\ Header(k).name = Archive[k].name
        /\ Header(k).slashes = IF Archive[k].dir THEN 1 ELSE 0
    BY DEF Header, Path
  <1>6. /\ Archive[k].name # <<>> /\ Archive[k].name \in Seq(Names) /\ Archive[k].dir \in BOOLEAN
        /\ Archive[k].dir => SizeOf(k) = 0
    BY <1>2, ArchiveIs
  <1>7. CASE c.for = "search_open"
    <2>1. SizeOf(k) # 0 /\ c.what = "open" /\ abspath = c.path
      BY <1>1, <1>2, <1>7 DEF Accepted, Stage, Own
    <2> QED BY <1>1, <1>3, <1>4, <1>5, <1>6, <1>7, <2>1 DEF Means
  <1>8. CASE c.for = "search_exec"
    <2>1. Archive[k].elf /\ c.what = "execve" /\ abspath = c.path
      BY <1>1, <1>2, <1>8 DEF Accepted, Stage, Own
    <2> QED BY <1>1, <1>3, <1>4, <1>5, <1>8, <2>1 DEF Means
  <1>9. CASE c.for = "search_dir"
    <2>1. c.what \in {"chdir", "opendir"} /\ abspath.name = c.path.name
          /\ (abspath.slashes = 1 \/ abspath.name = <<>> \/ abspath = Garbled)
      BY <1>2, <1>9 DEF Stage, Own
    <2>2. abspath # Garbled
      <3>1. Archive[k].name # <<"?">>
        BY <1>6, NotAName
      <3> QED BY <1>4, <1>5, <3>1 DEF Garbled, Path
    <2>3. abspath.slashes = 1
      BY <1>4, <1>5, <1>6, <2>1, <2>2
    <2>4. Archive[k].dir
      BY <1>4, <1>5, <1>6, <2>3
    <2>5. Means(c, k)
      BY <1>4, <1>5, <2>1, <2>4 DEF Means
    <2>6. abspath = Path(c.path.name, 1)
      BY <1>4, <1>5, <2>1, <2>4
    <2> QED BY <1>1, <2>5, <2>6
  <1> QED BY <1>1, <1>3, <1>7, <1>8, <1>9

(* The walk of an undisturbed call, from the header it is at. *)
LEMMA WalkFacts ==
    ASSUME CallInv, NEW p \in Procs, ~call[p].raced, call[p].for \in Lookups,
           NEW t, Means(call[p], t), PaddedBefore(t)
    PROVE  /\ ~AtEnd(p) /\ \E j \in 1..t : AtEntry(p, j)
           /\ \A k \in Entries : Found(p, k) => k = t
           /\ \A k \in Entries : AtEntry(p, k) /\ ~Found(p, k) =>
                 \E j \in 1..t : Onward(p, k).offset = HeaderAt[j]
  <1>1. PICK c \in CallRecords : c = call[p]
    BY DEF CallInv, CallTypes
  <1>2. /\ Own(c, abspath, wd[p], pname[p]) /\ Archive \in Archives /\ CallTypes
    BY <1>1 DEF CallInv, CallTypes
  <1>3. /\ Len(Archive) \in Nat /\ Entries = 1..Len(Archive) /\ Root = Len(Archive) + 1
        /\ \A k \in Entries : SizeOf(k) \in Nat
    BY <1>2, ArchiveIs DEF Root
  <1>4. t \in Entries /\ c.path.name = Archive[t].name
    BY <1>1 DEF Means
  <1>5. PICK j \in 1..t : c.offset = HeaderAt[j]
    BY <1>1, <1>2, <1>4 DEF Own, OnTheWay
  <1>6. j \in Entries /\ j \in 1..Root /\ j < Root /\ Root \in 1..Root /\ j \in Nat /\ t \in Nat /\ j <= t
    BY <1>3, <1>4
  <1>7. AtEntry(p, j)
    BY <1>1, <1>5, <1>6 DEF AtEntry
  <1>8. ~AtEnd(p)
    <2>1. HeaderAt[j] \in Nat /\ HeaderAt[Root] \in Nat /\ HeaderAt[j] < HeaderAt[Root]
      BY <1>2, <1>6, HeaderAtIs
    <2> QED BY <1>1, <1>3, <1>5, <2>1 DEF AtEnd
  <1>9. \A k \in Entries : AtEntry(p, k) => k = j
    <2> SUFFICES ASSUME NEW k \in Entries, AtEntry(p, k), k # j PROVE FALSE
      OBVIOUS
    <2>1. HeaderAt[k] = HeaderAt[j] /\ k \in 1..Root /\ k \in Nat
      BY <1>1, <1>3, <1>5 DEF AtEntry
    <2>2. k < j \/ j < k
      BY <1>6, <2>1
    <2>3. HeaderAt[k] \in Nat /\ HeaderAt[j] \in Nat /\ (HeaderAt[k] < HeaderAt[j] \/ HeaderAt[j] < HeaderAt[k])
      BY <1>2, <1>6, <2>1, <2>2, HeaderAtIs
    <2> QED BY <2>1, <2>3
  <1>10. Header(t) = Wanted(p)
    BY TargetHeader
  <1>11. \A k \in Entries : Found(p, k) => k = t
    <2> SUFFICES ASSUME NEW k \in Entries, Found(p, k) PROVE k = t
      OBVIOUS
    <2>1. Header(k) = Header(t)
      BY <1>10 DEF Found
    <2>2. Archive[k].name = c.path.name
      BY <1>4, <2>1 DEF Header, Path
    <2> QED BY <1>1, <1>2, <2>2, MeansOne
  <1>12. ASSUME NEW k \in Entries, AtEntry(p, k), ~Found(p, k)
         PROVE  \E i \in 1..t : Onward(p, k).offset = HeaderAt[i]
    <2>1. k = j /\ k # t
      BY <1>9, <1>10, <1>12 DEF Found
    <2>2. j + 1 \in 1..t /\ j \in 1..(t - 1)
      BY <1>6, <2>1
    <2>3. SizeOf(j) = 0 \/ SizeOf(j) % BLOCK # 0
      BY <2>2 DEF PaddedBefore
    <2>4. SizeOf(j) + tar_size_roundup(SizeOf(j)) = BLOCK * Blocks(SizeOf(j))
          /\ tar_size_roundup(SizeOf(j)) \in Nat /\ SizeOf(j) \in Nat
      BY <1>3, <1>6, <2>3, Rounding
    <2>5. HeaderAt[j + 1] = HeaderAt[j] + BLOCK + BLOCK * Blocks(SizeOf(j)) /\ HeaderAt[j] \in Nat
      BY <1>2, <1>6, HeaderAtIs
    <2>6. Onward(p, j).offset = HeaderAt[j] + SizeOf(j) + BLOCK + tar_size_roundup(SizeOf(j))
      BY <1>1, <1>2, <1>5, <1>6, CallForms
    <2>7. PICK b : b = BLOCK * Blocks(SizeOf(j))
      OBVIOUS
    <2>8. Onward(p, j).offset = HeaderAt[j + 1]
      BY <2>4, <2>5, <2>6, <2>7, BlockAssumption
    <2> QED BY <2>1, <2>2, <2>8
  <1> QED BY <1>7, <1>8, <1>11, <1>12

(* A call enters the kernel. *)
LEMMA CallEnter ==
    ASSUME CallInv, CallTypes', NEW p \in Procs, NEW what \in Whats \ {"none"},
           NEW path \in PathRecords, path = Slash \/ path.slashes = 0, Enter(p, what, path)
    PROVE  CallInv'
  <1>1. PICK c : c = [what |-> what, for |-> "merge", path |-> path, offset |-> 0,
                      raced |-> FALSE, answer |-> 0]
    OBVIOUS
  <1>2. c \in CallRecords
    BY <1>1, what # "none" DEF CallRecords, CallFields, Fors, Stage
  <1>3. /\ Writes(p, c) /\ UNCHANGED <<Archive, wd, pname>> /\ CallTypes
    BY <1>1 DEF Enter, CallInv
  <1>4. /\ c.what = what /\ c.for = "merge" /\ c.path = path /\ c.answer = 0
    BY <1>1
  <1>5. AskedPath(c)
    BY <1>4 DEF AskedPath
  <1>6. Own(c, abspath', wd'[p], pname'[p])
    BY <1>4 DEF Own, Lookups, Searches
  <1>7. /\ call'[p] = c
        /\ \A q \in Procs : q # p =>
               /\ wd'[q] = wd[q] /\ pname'[q] = pname[q]
               /\ call'[q].raced = (call[q].raced \/ call[q].for # "done")
               /\ call'[q].what = call[q].what /\ call'[q].for = call[q].for
               /\ call'[q].path = call[q].path /\ call'[q].answer = call[q].answer
    BY <1>2, <1>3, WritesTypes
  <1> QED BY <1>3, <1>5, <1>6, <1>7, CallStep

(* A call that changes in place: the others' calls and paths stay. *)
LEMMA CallInPlace ==
    ASSUME CallInv, CallTypes', NEW p \in Procs, NEW c \in CallRecords,
           call' = [call EXCEPT ![p] = c], UNCHANGED <<Archive, abspath>>,
           \A q \in Procs : q # p => wd'[q] = wd[q] /\ pname'[q] = pname[q],
           c.what = call[p].what, c.path = call[p].path, c.raced = call[p].raced,
           ~call[p].raced => Own(c, abspath, wd'[p], pname'[p])
    PROVE  CallInv'
  <1>1. call \in [Procs -> CallRecords]
    BY DEF CallInv, CallTypes
  <1>2. call'[p] = c /\ \A q \in Procs : q # p => call'[q] = call[q]
    BY <1>1
  <1>3. AskedPath(c)
    BY DEF CallInv, AskedPath
  <1> QED BY <1>2, <1>3, CallStep

(* path_merge ends. *)
LEMMA CallMerge ==
    ASSUME CallInv, CallTypes', NEW p \in Procs, path_merge(p)
    PROVE  CallInv'
  <1>1. PICK c \in CallRecords : c = call[p]
    BY DEF CallInv, CallTypes
  <1>2. /\ c.for = "merge" /\ Stage(c.what, c.for) /\ CallTypes /\ Archive \in Archives
        /\ AskedPath(c) /\ UNCHANGED <<Archive, wd, pname>>
        /\ ~c.raced => Own(c, abspath, wd[p], pname[p]) /\ abspath' = c.path
    BY <1>1 DEF path_merge, At, CallInv, CallTypes, CallRecords
  <1>3. c.what \in {"open", "execve", "chdir", "opendir"}
    BY <1>1, <1>2 DEF Stage, CallRecords, CallFields, Whats
  <1>4. PICK f \in Fors : /\ Writes(p, NextStep(p, f)) /\ Stage(c.what, f)
                          /\ f \in {"search_open", "search_exec", "slash"}
    BY <1>1, <1>3 DEF path_merge, Stage, Fors, Walks, Searches
  <1>5. PICK d \in CallRecords : d = NextStep(p, f)
    BY <1>1, <1>2, <1>4, CallForms
  <1>6. /\ d.for = f /\ d.offset = 0 /\ d.what = c.what /\ d.path = c.path
        /\ d.raced = c.raced /\ d.answer = c.answer
    BY <1>1, <1>2, <1>4, <1>5, CallForms
  <1>7. AskedPath(d)
    BY <1>2, <1>6 DEF AskedPath
  <1>8. OnTheWay(d)
    <2>1. \A k \in Entries : 1 \in 1..k
      BY <1>2, ArchiveIs
    <2>2. d.offset = HeaderAt[1]
      BY <1>2, <1>6, HeaderAtIs
    <2> QED BY <2>1, <2>2 DEF OnTheWay
  <1>9. ASSUME ~d.raced PROVE Own(d, abspath', wd'[p], pname'[p])
    <2>1. c.answer = 0 /\ abspath' = c.path
      BY <1>2, <1>6, <1>9 DEF Own
    <2> QED BY <1>4, <1>6, <1>8, <2>1 DEF Own
  <1>10. /\ call'[p] = d
         /\ \A q \in Procs : q # p =>
               /\ wd'[q] = wd[q] /\ pname'[q] = pname[q]
               /\ call'[q].raced = (call[q].raced \/ call[q].for # "done")
               /\ call'[q].what = call[q].what /\ call'[q].for = call[q].for
               /\ call'[q].path = call[q].path /\ call'[q].answer = call[q].answer
    BY <1>2, <1>4, <1>5, WritesTypes
  <1> QED BY <1>2, <1>7, <1>9, <1>10, CallStep

(* The slash is appended. *)
LEMMA CallSlash ==
    ASSUME CallInv, CallTypes', NEW p \in Procs, AppendSlash(p)
    PROVE  CallInv'
  <1>1. PICK c \in CallRecords : c = call[p]
    BY DEF CallInv, CallTypes
  <1>2. /\ c.for = "slash" /\ Stage(c.what, c.for) /\ CallTypes /\ Archive \in Archives
        /\ AskedPath(c) /\ UNCHANGED <<Archive, wd, pname>>
        /\ ~c.raced => Own(c, abspath, wd[p], pname[p])
        /\ c.path \in PathRecords
    BY <1>1 DEF AppendSlash, At, CallInv, CallTypes, CallRecords, CallFields
  <1>3. c.what \in {"chdir", "opendir"}
    BY <1>2 DEF Stage
  <1>4. PICK f \in Fors : /\ Writes(p, NextStep(p, f)) /\ Stage(c.what, f)
                          /\ f = IF abspath' = Slash
                                 THEN IF c.what = "chdir" THEN "copy_wd" ELSE "open_dir"
                                 ELSE "search_dir"
    BY <1>1, <1>3 DEF AppendSlash, Stage, Fors, Walks, Searches
  <1>5. PICK d \in CallRecords : d = NextStep(p, f)
    BY <1>1, <1>2, <1>4, CallForms
  <1>6. /\ d.for = f /\ d.offset = 0 /\ d.what = c.what /\ d.path = c.path
        /\ d.raced = c.raced /\ d.answer = c.answer
    BY <1>1, <1>2, <1>4, <1>5, CallForms
  <1>7. AskedPath(d)
    BY <1>2, <1>6 DEF AskedPath
  <1>8. OnTheWay(d)
    <2>1. \A k \in Entries : 1 \in 1..k
      BY <1>2, ArchiveIs
    <2>2. d.offset = HeaderAt[1]
      BY <1>2, <1>6, HeaderAtIs
    <2> QED BY <2>1, <2>2 DEF OnTheWay
  <1>9. ASSUME ~d.raced PROVE Own(d, abspath', wd'[p], pname'[p])
    <2>1. c.answer = 0 /\ abspath = c.path
      BY <1>2, <1>6, <1>9 DEF Own
    <2>2. PICK n \in {0, 1} : n = IF c.what = "chdir" \/ c.path.slashes = 0 THEN 1 ELSE 0
      OBVIOUS
    <2>3. abspath' = IF c.path = Garbled THEN Garbled ELSE [c.path EXCEPT !.slashes = @ + n]
      BY <1>1, <2>1, <2>2 DEF AppendSlash, Appended
    <2>4. c.path # Garbled => abspath'.name = c.path.name /\ abspath'.slashes = c.path.slashes + n
      BY <1>2, <2>3 DEF PathRecords
    <2>5. c.path = Garbled => abspath' = Garbled /\ abspath' # Slash
      BY <2>3 DEF Garbled, Slash, Path
    <2>6. CASE abspath' = Slash
      <3>1. c.path.name = <<>>
        BY <2>4, <2>5, <2>6 DEF Slash, Path
      <3>2. abspath' = Path(d.path.name, 1)
        BY <1>6, <2>6, <3>1 DEF Slash
      <3>3. Chosen(d)
        BY <1>6, <2>1, <3>1 DEF Chosen, MeansRoot
      <3>4. d.for \in {"copy_wd", "open_dir"}
        BY <1>4, <1>6, <2>6
      <3> QED BY <1>8, <3>2, <3>3, <3>4 DEF Own
    <2>7. CASE abspath' # Slash
      <3>1. d.for = "search_dir"
        BY <1>4, <1>6, <2>7
      <3>2. abspath'.name = d.path.name
        BY <1>6, <2>4, <2>5
      <3>3. abspath'.slashes = 1 \/ abspath'.name = <<>> \/ abspath' = Garbled
        <4>1. c.path = Slash \/ c.path.slashes = 0
          BY <1>2, <1>3 DEF AskedPath
        <4>2. c.path = Slash => c.path.name = <<>>
          BY DEF Slash, Path
        <4>3. c.path.slashes = 0 => n = 1
          BY <2>2
        <4> QED BY <2>4, <2>5, <4>1, <4>2, <4>3
      <3> QED BY <1>8, <3>1, <3>2, <3>3 DEF Own
    <2> QED BY <2>6, <2>7
  <1>10. /\ call'[p] = d
         /\ \A q \in Procs : q # p =>
               /\ wd'[q] = wd[q] /\ pname'[q] = pname[q]
               /\ call'[q].raced = (call[q].raced \/ call[q].for # "done")
               /\ call'[q].what = call[q].what /\ call'[q].for = call[q].for
               /\ call'[q].path = call[q].path /\ call'[q].answer = call[q].answer
    BY <1>2, <1>4, <1>5, WritesTypes
  <1> QED BY <1>2, <1>7, <1>9, <1>10, CallStep

(* A walk goes on. *)
LEMMA CallWalkOn ==
    ASSUME CallInv, CallTypes', NEW p \in Procs, WalkOn(p)
    PROVE  CallInv'
  <1>1. PICK k \in Entries : /\ AtEntry(p, k) /\ ~Found(p, k)
                             /\ call' = [call EXCEPT ![p] = Onward(p, k)]
    BY DEF WalkOn
  <1>2. PICK c \in CallRecords : c = call[p]
    BY DEF CallInv, CallTypes
  <1>3. /\ CallTypes /\ c.for \in Lookups /\ UNCHANGED <<Archive, abspath, wd, pname>>
        /\ ~c.raced => Own(c, abspath, wd[p], pname[p])
    BY <1>2 DEF WalkOn, Walking, Walks, Lookups, CallInv
  <1>4. PICK d \in CallRecords : d = Onward(p, k)
    BY <1>3, CallForms
  <1>5. /\ d.what = c.what /\ d.path = c.path /\ d.raced = c.raced /\ d.answer = c.answer
        /\ d.for = c.for
    BY <1>2, <1>3, <1>4, CallForms
  <1>6. \A n : Means(d, n) <=> Means(c, n)
    BY <1>5 DEF Means
  <1>7. ASSUME ~c.raced PROVE Own(d, abspath, wd[p], pname[p])
    <2>1. OnTheWay(d)
      <3> SUFFICES ASSUME NEW t \in Entries, Means(c, t), PaddedBefore(t)
                   PROVE  \E j \in 1..t : d.offset = HeaderAt[j]
        BY <1>6 DEF OnTheWay
      <3> QED BY <1>1, <1>2, <1>3, <1>4, <1>7, WalkFacts
    <2>2. Chosen(d) <=> Chosen(c)
      BY <1>5, <1>6 DEF Chosen, MeansRoot
    <2>3. d.for \notin {"merge", "slash", "dents", "copy_wd", "copy_pname", "done"}
      BY <1>3, <1>5 DEF Lookups, Searches
    <2> QED BY <1>3, <1>5, <1>6, <1>7, <2>1, <2>2, <2>3 DEF Own
  <1> QED BY <1>1, <1>2, <1>3, <1>4, <1>5, <1>7, CallInPlace

(* A search ends without an entry: there is none that it means. *)
LEMMA CallFails ==
    ASSUME CallInv, CallTypes', NEW p \in Procs, Fails(p), call[p].for \in Lookups,
           UNCHANGED <<Archive, abspath, wd, pname>>,
           ~call[p].raced => \A t \in Entries : ~(Means(call[p], t) /\ PaddedBefore(t))
    PROVE  CallInv'
  <1>1. PICK c \in CallRecords : c = call[p]
    BY DEF CallInv, CallTypes
  <1>2. PICK d \in CallRecords : d = Done(p, 0)
    BY CallForms DEF CallInv
  <1>3. /\ d.for = "done" /\ d.answer = 0 /\ d.what = c.what /\ d.path = c.path /\ d.raced = c.raced
    BY <1>1, <1>2, CallForms DEF CallInv
  <1>4. \A n : Means(d, n) <=> Means(c, n)
    BY <1>3 DEF Means
  <1>5. ~c.raced => Own(d, abspath, wd[p], pname[p])
    BY <1>1, <1>3, <1>4 DEF Own, Lookups, Searches
  <1>6. call' = [call EXCEPT ![p] = d]
    BY <1>2 DEF Fails
  <1> QED BY <1>1, <1>3, <1>5, <1>6, CallInPlace

(* A search finds a header. *)
LEMMA CallFound ==
    ASSUME CallInv, CallTypes', NEW p \in Procs, WalkFound(p)
    PROVE  CallInv'
  <1>1. PICK k \in Entries :
          /\ Found(p, k)
          /\ IF Accepted(p, k)
             THEN call' = [call EXCEPT ![p] = [NextStep(p, AfterSearch(p)) EXCEPT !.answer = k]]
             ELSE Fails(p)
    BY DEF WalkFound
  <1>2. PICK c \in CallRecords : c = call[p]
    BY DEF CallInv, CallTypes
  <1>3. /\ CallTypes /\ Archive \in Archives /\ Stage(c.what, c.for)
        /\ c.for \in Searches /\ c.for \in Lookups
        /\ UNCHANGED <<Archive, abspath, wd, pname>>
        /\ ~c.raced => Own(c, abspath, wd[p], pname[p])
    BY <1>2 DEF WalkFound, Lookups, CallInv, CallTypes, CallRecords
  <1>4. CASE Accepted(p, k)
    <2>1. PICK f \in Fors : f = AfterSearch(p) /\ Stage(c.what, f)
                            /\ f \in {"open_file", "copy_pname", "copy_wd", "open_dir"}
      <3>1. c.what \in {"open", "execve", "chdir", "opendir"}
        BY <1>3 DEF Stage, Searches
      <3> QED BY <1>2, <3>1 DEF AfterSearch, Stage, Fors, Walks
    <2>2. k \in Nat
      BY <1>3, ArchiveIs
    <2>3. PICK d \in CallRecords : d = [NextStep(p, f) EXCEPT !.answer = k]
      BY <1>2, <1>3, <2>1, <2>2, CallForms
    <2>4. /\ d.for = f /\ d.offset = 0 /\ d.what = c.what /\ d.path = c.path
          /\ d.raced = c.raced /\ d.answer = k
      BY <1>2, <1>3, <2>1, <2>2, <2>3, CallForms
    <2>5. \A n : Means(d, n) <=> Means(c, n)
      BY <2>4 DEF Means
    <2>6. OnTheWay(d)
      <3>1. \A n \in Entries : 1 \in 1..n
        BY <1>3, ArchiveIs
      <3>2. d.offset = HeaderAt[1]
        BY <1>3, <2>4, HeaderAtIs
      <3> QED BY <3>1, <3>2 DEF OnTheWay
    <2>7. ASSUME ~c.raced PROVE Own(d, abspath, wd[p], pname[p])
      <3>1. Means(c, k) /\ (c.for = "search_dir" => abspath = Path(c.path.name, 1))
        BY <1>1, <1>2, <1>3, <1>4, <2>7, FoundIsMeant
      <3>2. f \in {"copy_wd", "open_dir"} => c.for = "search_dir"
        <4>1. f \in {"copy_wd", "open_dir"} => c.what \in {"chdir", "opendir"}
          BY <2>1 DEF Stage
        <4> QED BY <1>3, <4>1 DEF Stage, Searches
      <3>3. f \in {"open_file", "copy_pname"} => abspath = c.path
        <4>1. f \in {"open_file", "copy_pname"} => c.what \in {"open", "execve"}
          BY <2>1 DEF Stage
        <4>2. f \in {"open_file", "copy_pname"} => c.for \in {"search_open", "search_exec"}
          BY <1>3, <4>1 DEF Stage, Searches
        <4> QED BY <1>3, <2>7, <4>2 DEF Own
      <3>4. Means(d, d.answer) /\ Chosen(d)
        BY <2>4, <2>5, <3>1 DEF Chosen
      <3> QED BY <2>1, <2>4, <2>6, <3>1, <3>2, <3>3, <3>4 DEF Own
    <2>8. call' = [call EXCEPT ![p] = d]
      BY <1>1, <1>4, <2>1, <2>3
    <2> QED BY <1>2, <1>3, <2>4, <2>7, <2>8, CallInPlace
  <1>5. CASE ~Accepted(p, k)
    <2>1. ASSUME ~c.raced, NEW t \in Entries, Means(c, t), PaddedBefore(t) PROVE FALSE
      <3>1. k = t
        BY <1>1, <1>2, <1>3, <2>1, WalkFacts
      <3>2. CASE c.for = "search_open"
        <4>1. c.what = "open"
          BY <1>3, <3>2 DEF Stage
        <4> QED BY <1>2, <1>5, <2>1, <3>1, <3>2, <4>1 DEF Means, Accepted
      <3>3. CASE c.for = "search_exec"
        <4>1. c.what = "execve"
          BY <1>3, <3>3 DEF Stage
        <4> QED BY <1>2, <1>5, <2>1, <3>1, <3>3, <4>1 DEF Means, Accepted
      <3>4. CASE c.for = "search_dir"
        <4>1. c.what \in {"chdir", "opendir"}
          BY <1>3, <3>4 DEF Stage
        <4>2. SizeOf(t) = 0
          BY <1>3, <2>1, <4>1, ArchiveIs DEF Means
        <4> QED BY <1>2, <1>5, <3>1, <3>4, <4>2 DEF Accepted
      <3> QED BY <1>3, <3>2, <3>3, <3>4 DEF Searches
    <2> QED BY <1>1, <1>2, <1>3, <1>5, <2>1, CallFails
  <1> QED BY <1>4, <1>5

(* A walk comes to the end of the archive. *)
LEMMA CallEnd ==
    ASSUME CallInv, CallTypes', NEW p \in Procs, WalkEnd(p)
    PROVE  CallInv'
  <1>1. /\ call[p].for \in Lookups /\ AtEnd(p) /\ Fails(p) /\ UNCHANGED <<Archive, abspath, wd, pname>>
    BY DEF WalkEnd, Walking, Walks, Lookups
  <1>2. ~call[p].raced => \A t \in Entries : ~(Means(call[p], t) /\ PaddedBefore(t))
    BY <1>1, WalkFacts
  <1> QED BY <1>1, <1>2, CallFails

(* A call that has its answer is done. *)
LEMMA CallDone ==
    ASSUME CallInv, CallTypes', NEW p \in Procs, NEW n \in Nat,
           call' = [call EXCEPT ![p] = Done(p, n)], UNCHANGED <<Archive, abspath>>,
           \A q \in Procs : q # p => wd'[q] = wd[q] /\ pname'[q] = pname[q],
           ~call[p].raced =>
               /\ Answered(call[p], n)
               /\ call[p].what = "chdir" => wd'[p] = Path(call[p].path.name, 1)
               /\ call[p].what = "execve" => pname'[p] = call[p].path
    PROVE  CallInv'
  <1>1. PICK c \in CallRecords : c = call[p]
    BY DEF CallInv, CallTypes
  <1>2. PICK d \in CallRecords : d = Done(p, n)
    BY CallForms DEF CallInv
  <1>3. /\ d.for = "done" /\ d.answer = n /\ d.what = c.what /\ d.path = c.path /\ d.raced = c.raced
    BY <1>1, <1>2, CallForms DEF CallInv
  <1>4. \A k : (Means(d, k) <=> Means(c, k)) /\ (Answered(d, k) <=> Answered(c, k))
    BY <1>3 DEF Means, Answered, MeansRoot
  <1>5. ASSUME ~c.raced PROVE Own(d, abspath, wd'[p], pname'[p])
    <2>1. \A k \in Entries : Means(c, k) => n = k
      <3>1. Archive \in Archives
        BY DEF CallInv, CallTypes
      <3>2. Means(c, n) \/ MeansRoot(c)
        BY <1>1, <1>5 DEF Answered
      <3> QED BY <3>1, <3>2, MeansOne
    <2> QED BY <1>1, <1>3, <1>4, <1>5, <2>1 DEF Own, Lookups, Searches
  <1> QED BY <1>1, <1>2, <1>3, <1>5, CallInPlace

(* do_open_file and do_open_dir. *)
LEMMA CallOpen ==
    ASSUME CallInv, CallTypes', NEW p \in Procs, OpenEntry(p)
    PROVE  CallInv'
  <1>1. PICK k \in Entries \cup {Root} :
          /\ IF AtRoot(p) THEN k = Root ELSE Found(p, k)
          /\ call' = [call EXCEPT ![p] = IF call[p].what = "open" THEN Done(p, k)
                                         ELSE [NextStep(p, "dents") EXCEPT !.answer = k]]
    BY DEF OpenEntry
  <1>2. PICK c \in CallRecords : c = call[p]
    BY DEF CallInv, CallTypes
  <1>3. /\ CallTypes /\ Archive \in Archives /\ Stage(c.what, c.for)
        /\ c.for \in {"open_file", "open_dir"} /\ c.for \in Lookups
        /\ UNCHANGED <<Archive, abspath, wd, pname>>
        /\ ~c.raced => Own(c, abspath, wd[p], pname[p])
        /\ k \in Nat
    BY <1>2, ArchiveIs DEF OpenEntry, Lookups, CallInv, CallTypes, CallRecords
  <1>4. ~AtRoot(p) => k \in Entries /\ Header(k) = abspath
    BY <1>1, <1>2, <1>3 DEF Found, AtEntry, Wanted
  <1>5. ASSUME ~c.raced PROVE Answered(c, k)
    <2>1. CASE AtRoot(p)
      <3>1. c.for = "open_dir" /\ abspath = Slash /\ k = Root
        BY <1>1, <1>2, <2>1 DEF AtRoot
      <3>2. abspath = Path(c.path.name, 1)
        BY <1>3, <1>5, <3>1 DEF Own
      <3>3. c.path.name = <<>>
        BY <3>1, <3>2 DEF Slash, Path
      <3> QED BY <3>1, <3>3 DEF Answered, MeansRoot
    <2>2. CASE ~AtRoot(p) /\ c.for = "open_file"
      <3>1. abspath = c.path /\ Means(c, c.answer)
        BY <1>3, <1>5, <2>2 DEF Own
      <3>2. Archive[k].name = c.path.name
        BY <1>4, <2>2, <3>1 DEF Header, Path
      <3>3. k = c.answer
        BY <1>3, <1>4, <2>2, <3>1, <3>2, MeansOne
      <3> QED BY <3>1, <3>3 DEF Answered
    <2>3. CASE ~AtRoot(p) /\ c.for = "open_dir"
      <3>1. abspath = Path(c.path.name, 1) /\ c.what = "opendir"
        BY <1>3, <1>5, <2>3 DEF Own, Stage
      <3>2. Archive[k].name = c.path.name /\ Archive[k].dir
        BY <1>4, <2>3, <3>1 DEF Header, Path
      <3> QED BY <1>4, <2>3, <3>1, <3>2 DEF Answered, Means
    <2> QED BY <1>3, <2>1, <2>2, <2>3
  <1>6. CASE c.what = "open"
    <2>1. call' = [call EXCEPT ![p] = Done(p, k)]
      BY <1>1, <1>2, <1>6
    <2> QED BY <1>2, <1>3, <1>5, <1>6, <2>1, CallDone
  <1>7. CASE c.what # "open"
    <2>1. "dents" \in Fors /\ Stage(c.what, "dents")
      BY <1>3, <1>7 DEF Stage, Fors, Walks
    <2>2. PICK d \in CallRecords : d = [NextStep(p, "dents") EXCEPT !.answer = k]
      BY <1>2, <1>3, <2>1, CallForms
    <2>3. /\ d.for = "dents" /\ d.what = c.what /\ d.path = c.path /\ d.raced = c.raced /\ d.answer = k
      BY <1>2, <1>3, <2>1, <2>2, CallForms
    <2>4. ASSUME ~c.raced PROVE Own(d, abspath, wd[p], pname[p])
      <3>1. Answered(d, d.answer)
        BY <1>5, <2>3, <2>4 DEF Answered, Means, MeansRoot
      <3> QED BY <2>3, <3>1 DEF Own, Lookups, Searches
    <2>5. call' = [call EXCEPT ![p] = d]
      BY <1>1, <1>2, <1>7, <2>2
    <2> QED BY <1>2, <1>3, <2>2, <2>3, <2>4, <2>5, CallInPlace
  <1> QED BY <1>6, <1>7

(* chdir copies its path. *)
LEMMA CallCopyWd ==
    ASSUME CallInv, CallTypes', NEW p \in Procs, CopyWd(p)
    PROVE  CallInv'
  <1>1. PICK c \in CallRecords : c = call[p]
    BY DEF CallInv, CallTypes
  <1>2. /\ CallTypes /\ Archive \in Archives /\ Stage(c.what, c.for) /\ c.for = "copy_wd"
        /\ UNCHANGED <<Archive, abspath, pname>> /\ wd' = [wd EXCEPT ![p] = abspath]
        /\ wd \in [Procs -> PathRecords]
        /\ ~c.raced => Own(c, abspath, wd[p], pname[p])
    BY <1>1 DEF CopyWd, At, CallInv, CallTypes, CallRecords
  <1>3. PICK n \in Nat : n = IF c.answer = 0 THEN Root ELSE c.answer
    BY <1>2, ArchiveIs DEF CallRecords, CallFields
  <1>4. call' = [call EXCEPT ![p] = Done(p, n)]
    BY <1>1, <1>3 DEF CopyWd
  <1>5. wd'[p] = abspath /\ \A q \in Procs : q # p => wd'[q] = wd[q]
    BY <1>2
  <1>6. c.what = "chdir"
    BY <1>2 DEF Stage
  <1>7. ASSUME ~c.raced PROVE Answered(c, n) /\ abspath = Path(c.path.name, 1)
    <2>1. abspath = Path(c.path.name, 1) /\ Chosen(c)
      BY <1>2, <1>7 DEF Own
    <2>2. Means(c, c.answer) => c.answer # 0
      <3>1. 0 \notin Entries
        BY <1>2, ArchiveIs
      <3> QED BY <3>1 DEF Means
    <2> QED BY <1>3, <2>1, <2>2 DEF Answered, Chosen
  <1> QED BY <1>1, <1>2, <1>4, <1>5, <1>6, <1>7, CallDone

(* execve copies its path and looks it up again. *)
LEMMA CallCopyPname ==
    ASSUME CallInv, CallTypes', NEW p \in Procs, CopyPname(p)
    PROVE  CallInv'
  <1>1. PICK c \in CallRecords : c = call[p]
    BY DEF CallInv, CallTypes
  <1>2. /\ CallTypes /\ Archive \in Archives /\ Stage(c.what, c.for) /\ c.for = "copy_pname"
        /\ UNCHANGED <<Archive, abspath, wd>> /\ pname' = [pname EXCEPT ![p] = abspath]
        /\ pname \in [Procs -> PathRecords] /\ call' = [call EXCEPT ![p] = NextStep(p, "map_file")]
        /\ ~c.raced => Own(c, abspath, wd[p], pname[p])
    BY <1>1 DEF CopyPname, At, CallInv, CallTypes, CallRecords
  <1>3. "map_file" \in Fors /\ Stage(c.what, "map_file")
    BY <1>2 DEF Stage, Fors, Walks
  <1>4. PICK d \in CallRecords : d = NextStep(p, "map_file")
    BY <1>1, <1>2, <1>3, CallForms
  <1>5. /\ d.for = "map_file" /\ d.offset = 0 /\ d.what = c.what /\ d.path = c.path
        /\ d.raced = c.raced /\ d.answer = c.answer
    BY <1>1, <1>2, <1>3, <1>4, CallForms
  <1>6. OnTheWay(d)
    <2>1. \A n \in Entries : 1 \in 1..n
      BY <1>2, ArchiveIs
    <2>2. d.offset = HeaderAt[1]
      BY <1>2, <1>5, HeaderAtIs
    <2> QED BY <2>1, <2>2 DEF OnTheWay
  <1>7. pname'[p] = abspath /\ \A q \in Procs : q # p => pname'[q] = pname[q]
    BY <1>2
  <1>8. ASSUME ~c.raced PROVE Own(d, abspath, wd'[p], pname'[p])
    <2>1. abspath = c.path /\ Means(c, c.answer)
      BY <1>2, <1>8 DEF Own
    <2>2. Means(d, d.answer)
      BY <1>5, <2>1 DEF Means
    <2> QED BY <1>5, <1>6, <1>7, <2>1, <2>2 DEF Own
  <1> QED BY <1>1, <1>2, <1>4, <1>5, <1>7, <1>8, CallInPlace

(* map_file finds the program. *)
LEMMA CallMapFile ==
    ASSUME CallInv, CallTypes', NEW p \in Procs, map_file(p)
    PROVE  CallInv'
  <1>1. PICK k \in Entries :
          /\ Found(p, k)
          /\ call' = [call EXCEPT ![p] = Done(p, IF Archive[k].elf THEN k ELSE 0)]
    BY DEF map_file
  <1>2. PICK c \in CallRecords : c = call[p]
    BY DEF CallInv, CallTypes
  <1>3. /\ CallTypes /\ Archive \in Archives /\ Stage(c.what, c.for) /\ c.for = "map_file"
        /\ UNCHANGED <<Archive, abspath, wd, pname>> /\ k \in Nat
        /\ ~c.raced => Own(c, abspath, wd[p], pname[p])
    BY <1>2, ArchiveIs DEF map_file, At, CallInv, CallTypes, CallRecords
  <1>4. c.what = "execve"
    BY <1>3 DEF Stage
  <1>5. PICK n \in Nat : n = IF Archive[k].elf THEN k ELSE 0
    BY <1>3
  <1>6. ASSUME ~c.raced PROVE Answered(c, n) /\ pname[p] = c.path
    <2>1. pname[p] = c.path /\ Means(c, c.answer)
      BY <1>3, <1>6 DEF Own
    <2>2. Header(k) = c.path
      BY <1>1, <1>2, <1>3, <2>1 DEF Found, Wanted
    <2>3. Archive[k].name = c.path.name
      BY <2>2 DEF Header, Path
    <2>4. k = c.answer
      BY <1>3, <2>1, <2>3, MeansOne
    <2>5. Archive[k].elf
      BY <1>4, <2>1, <2>4 DEF Means
    <2> QED BY <1>5, <2>1, <2>4, <2>5 DEF Answered
  <1>7. call' = [call EXCEPT ![p] = Done(p, n)]
    BY <1>1, <1>5
  <1> QED BY <1>2, <1>3, <1>4, <1>6, <1>7, CallDone

(* getdents. *)
LEMMA CallDents ==
    ASSUME CallInv, CallTypes', NEW p \in Procs, FillDents(p) \/ DentsEnd(p)
    PROVE  CallInv'
  <1>1. PICK c \in CallRecords : c = call[p]
    BY DEF CallInv, CallTypes
  <1>2. /\ CallTypes /\ Stage(c.what, c.for) /\ c.for = "dents"
        /\ UNCHANGED <<Archive, abspath, wd, pname>>
        /\ ~c.raced => Own(c, abspath, wd[p], pname[p])
    BY <1>1 DEF FillDents, DentsEnd, At, CallInv, CallTypes, CallRecords
  <1>3. c.what = "opendir" /\ (~c.raced => Answered(c, c.answer))
    BY <1>2 DEF Stage, Own
  <1>4. CASE FillDents(p)
    <2>1. PICK k \in Entries : call' = [call EXCEPT ![p] = Onward(p, k)]
      BY <1>4 DEF FillDents
    <2>2. PICK d \in CallRecords : d = Onward(p, k)
      BY <1>2, CallForms
    <2>3. /\ d.what = c.what /\ d.path = c.path /\ d.raced = c.raced /\ d.answer = c.answer
          /\ d.for = c.for
      BY <1>1, <1>2, <2>2, CallForms
    <2>4. ASSUME ~c.raced PROVE Own(d, abspath, wd[p], pname[p])
      <3>1. Answered(d, d.answer)
        BY <1>3, <2>3, <2>4 DEF Answered, Means, MeansRoot
      <3> QED BY <1>2, <2>3, <3>1 DEF Own, Lookups, Searches
    <2> QED BY <1>1, <1>2, <2>1, <2>2, <2>3, <2>4, CallInPlace
  <1>5. CASE DentsEnd(p)
    <2>1. c.answer \in Nat
      BY DEF CallRecords, CallFields
    <2>2. call' = [call EXCEPT ![p] = Done(p, c.answer)]
      BY <1>1, <1>5 DEF DentsEnd
    <2> QED BY <1>1, <1>2, <1>3, <2>1, <2>2, CallDone
  <1> QED BY <1>4, <1>5

(* Whatever else a process does is no matter of its call. *)
LEMMA CallSame ==
    ASSUME CallInv, CallTypes', UNCHANGED <<Archive, abspath, wd, pname, call>>
    PROVE  CallInv'
  <1>1. \A q \in Procs : Own(call[q], abspath, wd[q], pname[q])' <=> Own(call'[q], abspath', wd'[q], pname'[q])
    BY ArchiveSame
  <1>2. \A q \in Procs : AskedPath(call[q])' <=> AskedPath(call[q])
    BY DEF AskedPath, Slash, Path
  <1> QED BY <1>1, <1>2 DEF CallInv

(* The steps of a process. *)
LEMMA CallKernel ==
    ASSUME CallInv, NEW p \in Procs, Kernel(p)
    PROVE  CallInv'
  <1>1. CallTypes'
    BY TypesKernel DEF CallInv
  <1>2. CASE WalkStray(p)
    BY <1>1, <1>2, CallSame DEF WalkStray
  <1> QED BY <1>1, <1>2, CallMerge, CallSlash, CallWalkOn, CallFound, CallEnd, CallOpen, CallCopyWd,
             CallCopyPname, CallMapFile, CallDents DEF Kernel

(* And those of a program. *)
LEMMA CallUser ==
    ASSUME CallInv, NEW p \in Procs, User(p)
    PROVE  CallInv'
  <1>1. CallTypes'
    BY TypesUser DEF CallInv
  <1>2. \A path \in Asked.open \cup Asked.chdir \cup Asked.execve :
           path \in PathRecords /\ (path = Slash \/ path.slashes = 0)
    <2>1. \A n : Path(n, 0).slashes = 0
      BY DEF Path
    <2> QED BY <2>1, PathFacts, AskedAssumption
  <1>3. {"open", "chdir", "execve", "opendir"} \subseteq Whats \ {"none"}
    BY DEF Whats
  <1>4. ASSUME NEW path \in Asked.open, do_open(p, path) PROVE CallInv'
    BY <1>1, <1>2, <1>3, <1>4, CallEnter DEF do_open
  <1>5. ASSUME NEW path \in Asked.chdir, do_chdir(p, path) PROVE CallInv'
    BY <1>1, <1>2, <1>3, <1>5, CallEnter DEF do_chdir
  <1>6. ASSUME NEW path \in Asked.execve, do_execve(p, path) PROVE CallInv'
    BY <1>1, <1>2, <1>3, <1>6, CallEnter DEF do_execve
  <1>7. CASE opendir(p)
    <2>1. PICK path \in PathRecords : /\ path = IF wd[p] = Slash THEN Slash ELSE Path(wd[p].name, 0)
                                      /\ path = Slash \/ path.slashes = 0
      <3>1. \A n : Path(n, 0).slashes = 0
        BY DEF Path
      <3>2. wd[p] \in PathRecords
        BY DEF CallInv, CallTypes
      <3> QED BY <3>1, <3>2, PathFacts
    <2> QED BY <1>1, <1>3, <1>7, <2>1, CallEnter DEF opendir
  <1>8. CASE readdir(p)
    BY <1>1, <1>8, CallSame DEF readdir
  <1>9. CASE closedir(p)
    BY <1>1, <1>9, CallSame DEF closedir, do_close
  <1>10. ASSUME NEW fd \in Descriptors, NEW n \in ReadSizes, do_read(p, fd, n) PROVE CallInv'
    BY <1>1, <1>10, CallSame DEF do_read
  <1>11. ASSUME NEW fd \in Descriptors, close(p, fd) PROVE CallInv'
    BY <1>1, <1>11, CallSame DEF close, do_close
  <1> QED BY <1>4, <1>5, <1>6, <1>7, <1>8, <1>9, <1>10, <1>11 DEF User
-----------------------------------------------------------------------------
(* Listings.  While the headers are walked the stream holds, in order, the    *)
(* entries listed so far.                                                    *)
AllPadded == \A k \in Entries : PaddedBefore(k)

Filled(dents, d, j) ==
    /\ \A n \in 1..Len(dents) : dents[n] \in Entries /\ dents[n] < j /\ Listed(dents[n], d)
    /\ \A k \in Entries : k < j /\ Listed(k, d) => \E n \in 1..Len(dents) : dents[n] = k
    /\ \A n \in 1..(Len(dents) - 1) : dents[n] < dents[n + 1]

ListOK(c, s, entry, lost) ==
    /\ s.offset <= Len(s.dents)
    /\ s.state = "junk" => s.dirty
    /\ s.state = "null" => s.offset = Len(s.dents)
    /\ c.what = "opendir" /\ c.for # "done" => s.state = "none"
    /\ c.what = "opendir" /\ c.for \notin {"dents", "done"} => s.dents = <<>>
    /\ ~lost /\ c.for = "dents" /\ AllPadded =>
          /\ entry = c.answer /\ c.answer # 0
          /\ \/ \E j \in Entries : c.offset = HeaderAt[j] /\ Filled(s.dents, c.answer, j)
             \/ c.offset >= HeaderAt[Root] /\ Filled(s.dents, c.answer, Root)
    /\ c.what = "opendir" /\ c.for = "done" /\ s.state \in {"open", "null"} /\ AllPadded =>
          c.answer # 0 /\ Filled(s.dents, c.answer, Root)

ListInv == \A q \in Procs : ListOK(call[q], stream[q], fd_table[q][stream[q].fd].entry, stray)

(* The archive does not change. *)
LEMMA ListSame ==
    ASSUME UNCHANGED Archive
    PROVE  \A c, s, entry, lost : ListOK(c, s, entry, lost)' <=> ListOK(c, s, entry, lost)
  <1>1. Entries' = Entries /\ Root' = Root /\ HeaderAt' = HeaderAt
        /\ \A k : PaddedBefore(k)' <=> PaddedBefore(k)
    BY ArchiveSame
  <1>2. AllPadded' <=> AllPadded
    BY <1>1 DEF AllPadded
  <1>3. \A k, d : Listed(k, d)' <=> Listed(k, d)
    BY <1>1 DEF Listed, StartsWith, Depth
  <1>4. \A dents, d, j : Filled(dents, d, j)' <=> Filled(dents, d, j)
    BY <1>1, <1>3 DEF Filled
  <1> QED BY <1>1, <1>2, <1>4 DEF ListOK

(* A step of one process leaves the others' listings. *)
LEMMA ListStep ==
    ASSUME CallInv, ListInv, UNCHANGED Archive, NEW p \in Procs,
           \A q \in Procs : q # p =>
               /\ stream'[q] = stream[q] /\ fd_table'[q] = fd_table[q]
               /\ call'[q].what = call[q].what /\ call'[q].for = call[q].for
               /\ call'[q].offset = call[q].offset /\ call'[q].answer = call[q].answer,
           stray => stray',
           ListOK(call'[p], stream'[p], fd_table'[p][stream'[p].fd].entry, stray')
    PROVE  ListInv'
  <1>1. ASSUME NEW q \in Procs, q # p
        PROVE  ListOK(call'[q], stream'[q], fd_table'[q][stream'[q].fd].entry, stray')
    <2>1. ListOK(call[q], stream[q], fd_table[q][stream[q].fd].entry, stray)
      BY DEF ListInv
    <2>2. PICK c, d : c = call[q] /\ d = call'[q]
      OBVIOUS
    <2>3. d.what = c.what /\ d.for = c.for /\ d.offset = c.offset /\ d.answer = c.answer
      BY <1>1, <2>2
    <2>4. ListOK(d, stream[q], fd_table[q][stream[q].fd].entry, stray')
      BY <2>1, <2>2, <2>3 DEF ListOK
    <2> QED BY <1>1, <2>2, <2>4
  <1>2. \A q \in Procs : ListOK(call'[q], stream'[q], fd_table'[q][stream'[q].fd].entry, stray')
    BY <1>1
  <1> QED BY <1>2, ListSame DEF ListInv

(* A call that is not listing yet goes on or ends. *)
LEMMA ListQuiet ==
    ASSUME CallInv, ListInv, UNCHANGED <<Archive, stream, files>>, NEW p \in Procs,
           NEW c \in CallRecords, call[p].for # "done", call[p].for # "dents", c.for # "dents",
           c.what = call[p].what, stray => stray',
           call' = [call EXCEPT ![p] = c] \/ Writes(p, c)
    PROVE  ListInv'
  <1>1. /\ call \in [Procs -> CallRecords] /\ CallTypes
        /\ ListOK(call[p], stream[p], fd_table[p][stream[p].fd].entry, stray)
    BY DEF CallInv, CallTypes, ListInv
  <1>2. /\ call'[p] = c
        /\ \A q \in Procs : q # p =>
               /\ call'[q].what = call[q].what /\ call'[q].for = call[q].for
               /\ call'[q].offset = call[q].offset /\ call'[q].answer = call[q].answer
    <2>1. CASE call' = [call EXCEPT ![p] = c]
      BY <1>1, <2>1
    <2>2. CASE Writes(p, c)
      BY <1>1, <2>2, WritesTypes
    <2> QED BY <2>1, <2>2
  <1>3. c.what = "opendir" => stream[p].state = "none" /\ stream[p].dents = <<>>
    BY <1>1 DEF ListOK
  <1>4. ListOK(c, stream[p], fd_table[p][stream[p].fd].entry, stray')
    BY <1>1, <1>3 DEF ListOK
  <1> QED BY <1>2, <1>4, ListStep DEF files

(* What a program does to its stream when no call is in progress. *)
LEMMA ListRead ==
    ASSUME CallInv, ListInv, UNCHANGED <<Archive, call, stray>>, NEW p \in Procs, call[p].for = "done",
           NEW s \in Streams, stream' = [stream EXCEPT ![p] = s],
           \A q \in Procs : q # p => fd_table'[q] = fd_table[q],
           s.dents = stream[p].dents \/ s.state = "none",
           s.offset <= Len(s.dents), s.state = "null" => s.offset = Len(s.dents),
           s.state = "junk" => s.dirty,
           s.state \in {"open", "null"} => stream[p].state \in {"open", "null"}
    PROVE  ListInv'
  <1>1. /\ stream \in [Procs -> Streams]
        /\ ListOK(call[p], stream[p], fd_table[p][stream[p].fd].entry, stray)
    BY DEF CallInv, CallTypes, ListInv
  <1>2. stream'[p] = s /\ \A q \in Procs : q # p => stream'[q] = stream[q]
    BY <1>1
  <1>3. ListOK(call[p], s, fd_table'[p][s.fd].entry, stray)
    BY <1>1 DEF ListOK
  <1> QED BY <1>2, <1>3, ListStep

(* The steps of a program. *)
LEMMA ListUser ==
    ASSUME CallInv, ListInv, FilesInv, NEW p \in Procs, User(p)
    PROVE  ListInv'
  <1>1. /\ CallTypes /\ stream \in [Procs -> Streams] /\ stream[p] \in Streams
        /\ call \in [Procs -> CallRecords]
        /\ ListOK(call[p], stream[p], fd_table[p][stream[p].fd].entry, stray)
        /\ fd_table \in [Procs -> [Descriptors -> OpenFiles]]
    BY DEF CallInv, CallTypes, ListInv, FilesInv
  <1>2. ASSUME NEW what \in Whats \ {"none"}, NEW path \in PathRecords, Enter(p, what, path),
               NEW s \in Streams, s.offset <= Len(s.dents), s.state = "junk" => s.dirty,
               s.state = "null" => s.offset = Len(s.dents),
               what = "opendir" => s.state = "none" /\ s.dents = <<>>,
               stream' = [stream EXCEPT ![p] = s]
        PROVE  ListInv'
    <2>1. PICK c : c = [what |-> what, for |-> "merge", path |-> path, offset |-> 0,
                        raced |-> FALSE, answer |-> 0]
      OBVIOUS
    <2>2. c \in CallRecords
      BY <2>1, what # "none" DEF CallRecords, CallFields, Fors, Stage
    <2>3. Writes(p, c) /\ UNCHANGED <<Archive, files, stray>> /\ c.what = what /\ c.for = "merge"
      BY <1>2, <2>1 DEF Enter
    <2>4. stream'[p] = s /\ \A q \in Procs : q # p => stream'[q] = stream[q]
      BY <1>1, <1>2
    <2>5. ListOK(c, s, fd_table[p][s.fd].entry, stray)
      BY <1>2, <2>3 DEF ListOK
    <2>6. /\ call'[p] = c
          /\ \A q \in Procs : q # p =>
                 /\ call'[q].what = call[q].what /\ call'[q].for = call[q].for
                 /\ call'[q].offset = call[q].offset /\ call'[q].answer = call[q].answer
      BY <1>1, <2>2, <2>3, WritesTypes
    <2> QED BY <2>3, <2>4, <2>5, <2>6, ListStep DEF files
  <1>3. ASSUME NEW what \in Whats \ {"none", "opendir"}, NEW path \in PathRecords, Enter(p, what, path),
               UNCHANGED stream
        PROVE  ListInv'
    <2>1. stream' = [stream EXCEPT ![p] = stream[p]]
      BY <1>1, <1>3
    <2> QED BY <1>1, <1>2, <1>3, <2>1 DEF ListOK
  <1>4. {"open", "chdir", "execve"} \subseteq Whats \ {"none", "opendir"} /\ "opendir" \in Whats \ {"none"}
    BY DEF Whats
  <1>5. ASSUME NEW path \in Asked.open, do_open(p, path) PROVE ListInv'
    BY <1>3, <1>4, <1>5, PathFacts DEF do_open
  <1>6. ASSUME NEW path \in Asked.chdir, do_chdir(p, path) PROVE ListInv'
    BY <1>3, <1>4, <1>6, PathFacts DEF do_chdir
  <1>7. ASSUME NEW path \in Asked.execve, do_execve(p, path) PROVE ListInv'
    BY <1>3, <1>4, <1>7, PathFacts DEF do_execve
  <1>8. CASE opendir(p)
    <2>1. PICK path \in PathRecords : path = IF wd[p] = Slash THEN Slash ELSE Path(wd[p].name, 0)
      <3>1. wd[p] \in PathRecords
        BY <1>1 DEF CallTypes
      <3> QED BY <3>1, PathFacts
    <2>2. PICK dirty \in BOOLEAN : stream' = [stream EXCEPT ![p] = [NoStream EXCEPT !.dirty = dirty]]
      BY <1>8 DEF opendir
    <2>3. PICK s : s = [NoStream EXCEPT !.dirty = dirty]
      OBVIOUS
    <2>4. s.offset = 0 /\ s.dents = <<>> /\ s.state = "none" /\ s \in Streams
      <3>1. NoStream \in Streams /\ NoStream.offset = 0 /\ NoStream.dents = <<>> /\ NoStream.state = "none"
        BY DEF NoStream, Streams
      <3>2. PICK t \in Streams : t = NoStream
        BY <3>1
      <3>3. [t EXCEPT !.dirty = dirty] \in Streams /\ [t EXCEPT !.dirty = dirty].offset = t.offset
            /\ [t EXCEPT !.dirty = dirty].dents = t.dents /\ [t EXCEPT !.dirty = dirty].state = t.state
        BY DEF Streams
      <3> QED BY <2>3, <3>1, <3>2, <3>3
    <2>5. s.offset <= Len(s.dents)
      BY <2>4
    <2> QED BY <1>2, <1>4, <1>8, <2>1, <2>2, <2>3, <2>4, <2>5 DEF opendir
  <1>9. CASE readdir(p)
    <2>1. PICK t \in Streams : t = stream[p]
      BY <1>1
    <2>2. /\ t.offset <= Len(t.dents) /\ t.offset \in Nat /\ Len(t.dents) \in Nat /\ t.state = "open"
          /\ call[p].for = "done"
      BY <1>1, <1>9, <2>1 DEF readdir, ListOK, Streams, InUser
    <2>3. /\ UNCHANGED <<Archive, call, stray, fd_table>>
          /\ stream' = [stream EXCEPT ![p] =
                     IF t.offset < Len(t.dents) THEN [t EXCEPT !.offset = t.offset + 1]
                     ELSE IF t.dirty THEN [t EXCEPT !.state = "junk"]
                     ELSE [t EXCEPT !.state = "null"]]
      BY <1>9, <2>1 DEF readdir, files
    <2>4. CASE t.offset < Len(t.dents)
      <3>1. PICK s : s = [t EXCEPT !.offset = t.offset + 1]
        OBVIOUS
      <3>2. s \in Streams /\ s.dents = t.dents /\ s.offset = t.offset + 1 /\ s.state = "open"
        BY <2>2, <3>1 DEF Streams
      <3>3. s.offset <= Len(s.dents)
        BY <2>2, <2>4, <3>2
      <3> QED BY <2>1, <2>2, <2>3, <2>4, <3>1, <3>2, <3>3, ListRead
    <2>5. CASE ~(t.offset < Len(t.dents)) /\ t.dirty
      <3>1. PICK s : s = [t EXCEPT !.state = "junk"]
        OBVIOUS
      <3>2. s \in Streams /\ s.dents = t.dents /\ s.offset = t.offset /\ s.state = "junk" /\ s.dirty = t.dirty
        BY <3>1 DEF Streams
      <3> QED BY <2>1, <2>2, <2>3, <2>5, <3>1, <3>2, ListRead
    <2>6. CASE ~(t.offset < Len(t.dents)) /\ ~t.dirty
      <3>1. PICK s : s = [t EXCEPT !.state = "null"]
        OBVIOUS
      <3>2. s \in Streams /\ s.dents = t.dents /\ s.offset = t.offset /\ s.state = "null"
        BY <3>1 DEF Streams
      <3>3. s.offset = Len(s.dents)
        BY <2>2, <2>6, <3>2
      <3> QED BY <2>1, <2>2, <2>3, <2>6, <3>1, <3>2, <3>3, ListRead
    <2> QED BY <2>4, <2>5, <2>6
  <1>10. CASE closedir(p)
    <2>1. NoStream \in Streams /\ NoStream.state = "none" /\ NoStream.offset <= Len(NoStream.dents)
      BY DEF NoStream, Streams
    <2>2. \A q \in Procs : q # p => fd_table'[q] = fd_table[q]
      BY <1>1, <1>10 DEF closedir, do_close
    <2> QED BY <1>1, <1>10, <2>1, <2>2, ListRead DEF closedir, do_close, InUser
  <1>11. ASSUME \A q \in Procs : q # p => fd_table'[q] = fd_table[q], call[p].for = "done",
                UNCHANGED <<Archive, call, stray, stream>>
         PROVE  ListInv'
    <2>1. stream' = [stream EXCEPT ![p] = stream[p]]
      BY <1>1, <1>11
    <2> QED BY <1>1, <1>11, <2>1, ListRead DEF ListOK
  <1>12. ASSUME NEW fd \in Descriptors, NEW n \in ReadSizes, do_read(p, fd, n) PROVE ListInv'
    <2>1. \A q \in Procs : q # p => fd_table'[q] = fd_table[q]
      BY <1>1, <1>12 DEF do_read
    <2> QED BY <1>11, <1>12, <2>1 DEF do_read, InUser
  <1>13. ASSUME NEW fd \in Descriptors, close(p, fd) PROVE ListInv'
    <2>1. \A q \in Procs : q # p => fd_table'[q] = fd_table[q]
      BY <1>1, <1>13 DEF close, do_close
    <2> QED BY <1>11, <1>13, <2>1 DEF close, do_close, InUser
  <1> QED BY <1>5, <1>6, <1>7, <1>8, <1>9, <1>10, <1>12, <1>13 DEF User

(* opendir gets a descriptor for the directory, and the listing begins.       *)
LEMMA ListOpen ==
    ASSUME CallInv, ListInv, FilesInv, NEW p \in Procs, OpenEntry(p)
    PROVE  ListInv'
  <1>1. PICK k \in Entries \cup {Root} :
          /\ Open(p, k)
          /\ call' = [call EXCEPT ![p] = IF call[p].what = "open" THEN Done(p, k)
                                         ELSE [NextStep(p, "dents") EXCEPT !.answer = k]]
    BY DEF OpenEntry
  <1>2. PICK c \in CallRecords : c = call[p]
    BY DEF CallInv, CallTypes
  <1>3. /\ CallTypes /\ Archive \in Archives /\ Stage(c.what, c.for) /\ UNCHANGED Archive
        /\ c.for \in {"open_file", "open_dir"} /\ ~stray
        /\ call \in [Procs -> CallRecords] /\ stream \in [Procs -> Streams] /\ stream[p] \in Streams
        /\ ListOK(c, stream[p], fd_table[p][stream[p].fd].entry, stray)
        /\ fd_table \in [Procs -> [Descriptors -> OpenFiles]]
        /\ next_fd[p] \in Nat /\ next_fd[p] > 2
    BY <1>2 DEF OpenEntry, CallInv, CallTypes, CallRecords, ListInv, FilesInv
  <1>4. /\ Len(Archive) \in Nat /\ Entries = 1..Len(Archive) /\ Root = Len(Archive) + 1
        /\ k \in Nat /\ k # 0
    BY <1>3, ArchiveIs DEF Root
  <1>5. c.what = "open" \/ c.what = "opendir"
    BY <1>3 DEF Stage
  <1>6. \A q \in Procs : q # p => call'[q] = call[q] /\ fd_table'[q] = fd_table[q]
    BY <1>1, <1>3 DEF Open
  <1>7. stray => stray'
    BY <1>3
  <1>8. CASE c.what = "open"
    <2>1. PICK d \in CallRecords : d = Done(p, k)
      BY <1>3, <1>4, CallForms
    <2>2. d.for = "done" /\ d.what = "open"
      BY <1>2, <1>3, <1>4, <1>8, <2>1, CallForms
    <2>3. call'[p] = d
      BY <1>1, <1>2, <1>3, <1>8, <2>1
    <2>4. stream' = stream
      BY <1>2, <1>3, <1>8 DEF OpenEntry, Streams
    <2>5. ListOK(d, stream[p], fd_table'[p][stream[p].fd].entry, stray')
      BY <1>3, <2>2 DEF ListOK
    <2> QED BY <1>3, <1>6, <1>7, <2>3, <2>4, <2>5, ListStep
  <1>9. CASE c.what = "opendir"
    <2>1. "dents" \in Fors /\ Stage(c.what, "dents")
      BY <1>9 DEF Stage, Fors, Walks
    <2>2. PICK d \in CallRecords : d = [NextStep(p, "dents") EXCEPT !.answer = k]
      BY <1>2, <1>3, <1>4, <2>1, CallForms
    <2>3. d.for = "dents" /\ d.what = c.what /\ d.answer = k /\ d.offset = 0
      BY <1>2, <1>3, <1>4, <2>1, <2>2, CallForms
    <2>4. call'[p] = d
      BY <1>1, <1>2, <1>3, <1>9, <2>2
    <2>5. PICK s \in Streams : s = stream[p]
      BY <1>3
    <2>6. PICK t : t = [s EXCEPT !.fd = next_fd[p]]
      OBVIOUS
    <2>7. t.fd = next_fd[p] /\ t.dents = s.dents /\ t.offset = s.offset /\ t.dirty = s.dirty /\ t.state = s.state
      BY <2>6 DEF Streams
    <2>8. stream' = [stream EXCEPT ![p] = t]
      BY <1>2, <1>3, <1>9, <2>5, <2>6 DEF OpenEntry
    <2>9. stream'[p] = t /\ \A q \in Procs : q # p => stream'[q] = stream[q]
      BY <1>3, <2>8
    <2>10. s.state = "none" /\ s.dents = <<>>
      BY <1>3, <1>9, <2>5 DEF ListOK
    <2>11. ASSUME ~stray' PROVE fd_table'[p][t.fd].entry = k
      <3>1. next_fd[p] < FDS /\ next_fd[p] \in Descriptors
        BY <1>1, <1>3, <2>11, FdsAssumption DEF Open, Descriptors
      <3>2. PICK f : /\ f.entry = k /\ fd_table' = [fd_table EXCEPT ![p][next_fd[p]] = f]
        BY <1>1, <3>1 DEF Open
      <3> QED BY <1>3, <2>7, <3>1, <3>2
    <2>12. \/ \E j \in Entries : d.offset = HeaderAt[j] /\ Filled(t.dents, k, j)
           \/ d.offset >= HeaderAt[Root] /\ Filled(t.dents, k, Root)
      <3>1. Len(t.dents) = 0
        BY <2>7, <2>10
      <3>2. \A e \in Entries : ~(e < 1)
        BY <1>4
      <3>3. Filled(t.dents, k, 1)
        BY <3>1, <3>2 DEF Filled
      <3>4. HeaderAt[1] = 0
        BY <1>3, HeaderAtIs
      <3>5. CASE Len(Archive) = 0
        <4>1. Root = 1 /\ 0 >= 0
          BY <1>4, <3>5
        <4> QED BY <2>3, <3>3, <3>4, <4>1
      <3>6. CASE Len(Archive) # 0
        <4>1. 1 \in Entries
          BY <1>4, <3>6
        <4> QED BY <2>3, <3>3, <3>4, <4>1
      <3> QED BY <3>5, <3>6
    <2>13. ListOK(d, t, fd_table'[p][t.fd].entry, stray')
      BY <1>3, <1>4, <2>3, <2>5, <2>7, <2>10, <2>11, <2>12 DEF ListOK
    <2> QED BY <1>3, <1>6, <1>7, <2>4, <2>9, <2>13, ListStep
  <1> QED BY <1>5, <1>8, <1>9

(* One more header is looked at. *)
LEMMA FilledOn ==
    ASSUME Archive \in Archives, NEW dents \in Seq(Nat), NEW d, NEW j \in Entries,
           Filled(dents, d, j)
    PROVE  Filled(IF Listed(j, d) THEN Append(dents, j) ELSE dents, d, j + 1)
  <1>1. Len(dents) \in Nat /\ j \in Nat /\ Entries \subseteq Nat
    BY ArchiveIs
  <1>2. \A n \in 1..Len(dents) : dents[n] \in Nat
    BY <1>1
  <1>3. \A k \in Entries : k < j + 1 => k < j \/ k = j
    BY <1>1
  <1>4. CASE ~Listed(j, d)
    <2>1. \A n \in 1..Len(dents) : dents[n] \in Entries /\ dents[n] < j + 1 /\ Listed(dents[n], d)
      BY <1>1, <1>2 DEF Filled
    <2>2. \A k \in Entries : k < j + 1 /\ Listed(k, d) => \E n \in 1..Len(dents) : dents[n] = k
      BY <1>3, <1>4 DEF Filled
    <2>3. Filled(dents, d, j + 1)
      BY <2>1, <2>2 DEF Filled
    <2> QED BY <1>4, <2>3
  <1>5. CASE Listed(j, d)
    <2>1. PICK e : e = Append(dents, j)
      OBVIOUS
    <2>2. /\ Len(e) = Len(dents) + 1 /\ e[Len(dents) + 1] = j
          /\ \A n \in 1..Len(dents) : e[n] = dents[n]
      BY <1>1, <2>1
    <2>3. \A n \in 1..Len(e) : n \in 1..Len(dents) \/ n = Len(dents) + 1
      BY <1>1, <2>2
    <2>4. \A n \in 1..Len(dents) : dents[n] \in Entries /\ dents[n] < j + 1 /\ dents[n] < j /\ Listed(dents[n], d)
      BY <1>1, <1>2 DEF Filled
    <2>5. j < j + 1
      BY <1>1
    <2>6. \A n \in 1..Len(e) : e[n] \in Entries /\ e[n] < j + 1 /\ Listed(e[n], d)
      BY <1>5, <2>2, <2>3, <2>4, <2>5
    <2>7. \A k \in Entries : k < j + 1 /\ Listed(k, d) => \E n \in 1..Len(e) : e[n] = k
      <3> SUFFICES ASSUME NEW k \in Entries, k < j + 1, Listed(k, d) PROVE \E n \in 1..Len(e) : e[n] = k
        OBVIOUS
      <3>1. CASE k = j
        <4>1. Len(dents) + 1 \in 1..Len(e)
          BY <1>1, <2>2
        <4> QED BY <2>2, <3>1, <4>1
      <3>2. CASE k < j
        <4>1. PICK n \in 1..Len(dents) : dents[n] = k
          BY <3>2 DEF Filled
        <4>2. n \in 1..Len(e)
          BY <1>1, <2>2
        <4> QED BY <2>2, <4>1, <4>2
      <3> QED BY <1>3, <3>1, <3>2
    <2>8. ASSUME NEW n \in 1..(Len(e) - 1) PROVE e[n] < e[n + 1]
      <3>1. n \in 1..Len(dents)
        BY <1>1, <2>2
      <3>2. CASE n = Len(dents)
        BY <2>2, <2>4, <3>1, <3>2
      <3>3. CASE n # Len(dents)
        <4>1. n \in 1..(Len(dents) - 1) /\ n + 1 \in 1..Len(dents)
          BY <1>1, <3>1, <3>3
        <4>2. dents[n] < dents[n + 1]
          BY <4>1 DEF Filled
        <4> QED BY <2>2, <3>1, <4>1, <4>2
      <3> QED BY <3>2, <3>3
    <2>9. Filled(e, d, j + 1)
      BY <2>6, <2>7, <2>8 DEF Filled
    <2> QED BY <1>5, <2>1, <2>9
  <1> QED BY <1>4, <1>5

(* getdents looks at a header. *)
LEMMA ListFill ==
    ASSUME CallInv, ListInv, FilesInv, NEW p \in Procs, FillDents(p)
    PROVE  ListInv'
  <1>1. PICK c \in CallRecords : c = call[p]
    BY DEF CallInv, CallTypes
  <1>2. PICK s \in Streams : s = stream[p]
    BY DEF CallInv, CallTypes
  <1>3. PICK e : e = fd_table[p][s.fd].entry
    OBVIOUS
  <1>4. /\ CallTypes /\ Archive \in Archives /\ Stage(c.what, c.for) /\ c.for = "dents" /\ ~stray
        /\ call \in [Procs -> CallRecords] /\ stream \in [Procs -> Streams]
        /\ ListOK(c, s, e, stray) /\ UNCHANGED <<Archive, fd_table, stray>>
    BY <1>1, <1>2, <1>3 DEF FillDents, At, files, CallInv, CallTypes, CallRecords, ListInv
  <1>5. PICK k \in Entries :
          /\ AtEntry(p, k)
          /\ stream' = [stream EXCEPT ![p].dents = IF Listed(k, e) THEN Append(@, k) ELSE @]
          /\ call' = [call EXCEPT ![p] = Onward(p, k)]
    BY <1>2, <1>3 DEF FillDents
  <1>6. PICK d \in CallRecords : d = Onward(p, k)
    BY <1>4, CallForms
  <1>7. /\ d.what = c.what /\ d.for = "dents" /\ d.answer = c.answer
        /\ d.offset = c.offset + SizeOf(k) + BLOCK + tar_size_roundup(SizeOf(k))
    BY <1>1, <1>4, <1>6, CallForms
  <1>8. PICK dents : dents = IF Listed(k, e) THEN Append(s.dents, k) ELSE s.dents
    OBVIOUS
  <1>9. PICK t : t = [s EXCEPT !.dents = dents]
    OBVIOUS
  <1>10. t.fd = s.fd /\ t.dents = dents /\ t.offset = s.offset /\ t.dirty = s.dirty /\ t.state = s.state
    BY <1>9 DEF Streams
  <1>11. stream' = [stream EXCEPT ![p] = t]
    BY <1>2, <1>4, <1>5, <1>8, <1>9
  <1>12. /\ call'[p] = d /\ stream'[p] = t
         /\ \A q \in Procs : q # p => call'[q] = call[q] /\ stream'[q] = stream[q] /\ fd_table'[q] = fd_table[q]
    BY <1>4, <1>5, <1>6, <1>11
  <1>13. c.what = "opendir" /\ s.state = "none"
    BY <1>4 DEF Stage, ListOK
  <1>14. t.offset <= Len(t.dents)
    <2>1. s.dents \in Seq(Nat) /\ s.offset \in Nat /\ Len(s.dents) \in Nat /\ s.offset <= Len(s.dents)
      BY <1>4 DEF Streams, ListOK
    <2>2. k \in Nat
      BY <1>4, ArchiveIs
    <2>3. Len(dents) >= Len(s.dents) /\ Len(dents) \in Nat
      BY <1>8, <2>1, <2>2
    <2> QED BY <1>10, <2>1, <2>3
  <1>15. ASSUME AllPadded
         PROVE  /\ e = c.answer /\ c.answer # 0
                /\ \/ \E j \in Entries : d.offset = HeaderAt[j] /\ Filled(dents, c.answer, j)
                   \/ d.offset >= HeaderAt[Root] /\ Filled(dents, c.answer, Root)
    <2>1. /\ e = c.answer /\ c.answer # 0
          /\ \/ \E j \in Entries : c.offset = HeaderAt[j] /\ Filled(s.dents, c.answer, j)
             \/ c.offset >= HeaderAt[Root] /\ Filled(s.dents, c.answer, Root)
      BY <1>4, <1>15 DEF ListOK
    <2>2. /\ Len(Archive) \in Nat /\ Entries = 1..Len(Archive) /\ Root = Len(Archive) + 1
          /\ SizeOf(k) \in Nat /\ k \in Nat
      BY <1>4, ArchiveIs DEF Root
    <2>3. c.offset = HeaderAt[k] /\ c.offset \in Nat
      BY <1>1, <1>5 DEF AtEntry, CallRecords, CallFields
    <2>4. \A j \in 1..Root : j # k => HeaderAt[j] # HeaderAt[k]
      <3> SUFFICES ASSUME NEW j \in 1..Root, j # k PROVE HeaderAt[j] # HeaderAt[k]
        OBVIOUS
      <3>1. k \in 1..Root /\ (j < k \/ k < j)
        BY <2>2
      <3>2. HeaderAt[j] \in Nat /\ HeaderAt[k] \in Nat /\ (HeaderAt[j] < HeaderAt[k] \/ HeaderAt[k] < HeaderAt[j])
        BY <1>4, <3>1, HeaderAtIs
      <3> QED BY <3>2
    <2>5. HeaderAt[k] < HeaderAt[Root] /\ HeaderAt[k] \in Nat /\ HeaderAt[Root] \in Nat
      <3>1. k \in 1..Root /\ Root \in 1..Root /\ k < Root
        BY <2>2
      <3> QED BY <1>4, <3>1, HeaderAtIs
    <2>6. Filled(s.dents, c.answer, k)
      <3>1. ~(c.offset >= HeaderAt[Root])
        BY <2>3, <2>5
      <3>2. PICK j \in Entries : c.offset = HeaderAt[j] /\ Filled(s.dents, c.answer, j)
        BY <2>1, <3>1
      <3>3. j \in 1..Root
        BY <2>2
      <3> QED BY <2>3, <2>4, <3>2, <3>3
    <2>7. Filled(dents, c.answer, k + 1)
      <3>1. s.dents \in Seq(Nat)
        BY DEF Streams
      <3> QED BY <1>4, <1>8, <2>1, <2>6, <3>1, FilledOn
    <2>8. PICK b \in Nat : b = BLOCK * Blocks(SizeOf(k))
      <3>1. \A m, n \in Nat : m * n \in Nat
        OBVIOUS
      <3>2. Blocks(SizeOf(k)) \in Nat /\ BLOCK \in Nat
        BY <2>2, Rounding, BlockAssumption
      <3> QED BY <3>1, <3>2
    <2>9. PICK r \in Nat : r = tar_size_roundup(SizeOf(k))
      BY <2>2, Rounding
    <2>10. PICK z \in Nat : z = SizeOf(k)
      BY <2>2
    <2>11. HeaderAt[k + 1] = HeaderAt[k] + BLOCK + b /\ d.offset = HeaderAt[k] + z + BLOCK + r
      BY <1>4, <1>7, <2>3, <2>8, <2>9, <2>10, HeaderAtIs
    <2>12. z + r >= b /\ (z = 0 \/ z % BLOCK # 0 => z + r = b)
      BY <2>2, <2>8, <2>9, <2>10, Rounding
    <2>13. CASE k + 1 \in Entries
      <3>1. z = 0 \/ z % BLOCK # 0
        <4>1. PaddedBefore(k + 1)
          BY <1>15, <2>13 DEF AllPadded
        <4>2. k \in 1..((k + 1) - 1)
          BY <2>2
        <4> QED BY <2>10, <4>1, <4>2 DEF PaddedBefore
      <3>2. d.offset = HeaderAt[k + 1]
        BY <2>5, <2>11, <2>12, <3>1, BlockAssumption
      <3> QED BY <2>1, <2>7, <2>13, <3>2
    <2>14. CASE k + 1 \notin Entries
      <3>1. k + 1 = Root
        BY <2>2, <2>14
      <3>2. d.offset >= HeaderAt[Root]
        BY <2>5, <2>11, <2>12, <3>1, BlockAssumption
      <3> QED BY <2>1, <2>7, <3>1, <3>2
    <2> QED BY <2>13, <2>14
  <1>16. ListOK(d, t, e, stray)
    BY <1>7, <1>10, <1>13, <1>14, <1>15 DEF ListOK
  <1>17. fd_table'[p][t.fd].entry = e
    BY <1>3, <1>4, <1>10
  <1> QED BY <1>4, <1>12, <1>16, <1>17, ListStep

(* getdents has looked at all of them. *)
LEMMA ListEnd ==
    ASSUME CallInv, ListInv, FilesInv, NEW p \in Procs, DentsEnd(p)
    PROVE  ListInv'
  <1>1. PICK c \in CallRecords : c = call[p]
    BY DEF CallInv, CallTypes
  <1>2. PICK s \in Streams : s = stream[p]
    BY DEF CallInv, CallTypes
  <1>3. /\ CallTypes /\ Archive \in Archives /\ Stage(c.what, c.for) /\ c.for = "dents" /\ ~stray
        /\ call \in [Procs -> CallRecords] /\ stream \in [Procs -> Streams]
        /\ ListOK(c, s, fd_table[p][s.fd].entry, stray) /\ UNCHANGED <<Archive, fd_table, stray>>
        /\ c.offset >= HeaderAt[Root] /\ c.offset \in Nat /\ c.answer \in Nat
    BY <1>1, <1>2 DEF DentsEnd, At, AtEnd, Root, files, CallInv, CallTypes, CallRecords, CallFields, ListInv
  <1>4. PICK d \in CallRecords : d = Done(p, c.answer)
    BY <1>3, CallForms
  <1>5. d.what = c.what /\ d.for = "done" /\ d.answer = c.answer
    BY <1>1, <1>3, <1>4, CallForms
  <1>6. PICK t : t = [s EXCEPT !.state = "open"]
    OBVIOUS
  <1>7. t.fd = s.fd /\ t.dents = s.dents /\ t.offset = s.offset /\ t.dirty = s.dirty /\ t.state = "open"
    BY <1>6 DEF Streams
  <1>8. stream' = [stream EXCEPT ![p] = t] /\ call' = [call EXCEPT ![p] = d]
    BY <1>1, <1>2, <1>3, <1>4, <1>6 DEF DentsEnd
  <1>9. /\ call'[p] = d /\ stream'[p] = t
        /\ \A q \in Procs : q # p => call'[q] = call[q] /\ stream'[q] = stream[q] /\ fd_table'[q] = fd_table[q]
    BY <1>3, <1>8
  <1>10. ASSUME AllPadded PROVE c.answer # 0 /\ Filled(s.dents, c.answer, Root)
    <2>1. /\ c.answer # 0
          /\ \/ \E j \in Entries : c.offset = HeaderAt[j] /\ Filled(s.dents, c.answer, j)
             \/ c.offset >= HeaderAt[Root] /\ Filled(s.dents, c.answer, Root)
      BY <1>3, <1>10 DEF ListOK
    <2>2. \A j \in Entries : c.offset # HeaderAt[j]
      <3> SUFFICES ASSUME NEW j \in Entries PROVE c.offset # HeaderAt[j]
        OBVIOUS
      <3>1. j \in 1..Root /\ Root \in 1..Root /\ j < Root
        BY <1>3, ArchiveIs DEF Root
      <3>2. HeaderAt[j] \in Nat /\ HeaderAt[Root] \in Nat /\ HeaderAt[j] < HeaderAt[Root]
        BY <1>3, <3>1, HeaderAtIs
      <3> QED BY <1>3, <3>2
    <2> QED BY <2>1, <2>2
  <1>11. ListOK(d, t, fd_table'[p][t.fd].entry, stray')
    BY <1>3, <1>5, <1>7, <1>10 DEF ListOK
  <1> QED BY <1>3, <1>9, <1>11, ListStep

(* The steps of a process. *)
LEMMA ListKernel ==
    ASSUME CallInv, ListInv, FilesInv, NEW p \in Procs, Kernel(p)
    PROVE  ListInv'
  <1>1. PICK c \in CallRecords : c = call[p]
    BY DEF CallInv, CallTypes
  <1>2. /\ CallTypes /\ Archive \in Archives /\ Stage(c.what, c.for) /\ call \in [Procs -> CallRecords]
        /\ stray \in BOOLEAN
    BY <1>1 DEF CallInv, CallTypes, CallRecords
  <1>3. ASSUME path_merge(p) PROVE ListInv'
    <2>1. c.for = "merge" /\ c.what \in {"open", "execve", "chdir", "opendir"}
      BY <1>1, <1>2, <1>3 DEF path_merge, At, Stage, CallRecords, CallFields, Whats
    <2>2. PICK f \in Fors : /\ Writes(p, NextStep(p, f)) /\ Stage(c.what, f) /\ f # "dents"
      BY <1>1, <1>3, <2>1 DEF path_merge, Stage, Fors, Walks, Searches
    <2>3. PICK d \in CallRecords : d = NextStep(p, f)
      BY <1>1, <1>2, <2>2, CallForms
    <2>4. d.for = f /\ d.what = c.what
      BY <1>1, <1>2, <2>2, <2>3, CallForms
    <2> QED BY <1>1, <1>3, <2>1, <2>2, <2>3, <2>4, ListQuiet DEF path_merge
  <1>4. ASSUME AppendSlash(p) PROVE ListInv'
    <2>1. c.for = "slash" /\ c.what \in {"chdir", "opendir"}
      BY <1>1, <1>2, <1>4 DEF AppendSlash, At, Stage
    <2>2. PICK f \in Fors : /\ Writes(p, NextStep(p, f)) /\ Stage(c.what, f) /\ f # "dents"
      <3>1. PICK b \in BOOLEAN : Writes(p, NextStep(p, IF b THEN IF call[p].what = "chdir" THEN "copy_wd" ELSE "open_dir"
                                                       ELSE "search_dir"))
        BY <1>4 DEF AppendSlash
      <3> QED BY <1>1, <2>1, <3>1 DEF Stage, Fors, Walks, Searches
    <2>3. PICK d \in CallRecords : d = NextStep(p, f)
      BY <1>1, <1>2, <2>2, CallForms
    <2>4. d.for = f /\ d.what = c.what
      BY <1>1, <1>2, <2>2, <2>3, CallForms
    <2>5. UNCHANGED <<Archive, files, stream, stray>>
      BY <1>4 DEF AppendSlash
    <2> QED BY <1>1, <2>1, <2>2, <2>3, <2>4, <2>5, ListQuiet
  <1>5. ASSUME WalkOn(p) PROVE ListInv'
    <2>1. PICK k \in Entries : call' = [call EXCEPT ![p] = Onward(p, k)]
      BY <1>5 DEF WalkOn
    <2>2. c.for \in Walks /\ c.for # "dents" /\ c.for # "done"
      BY <1>1, <1>5 DEF WalkOn, Walking, Walks, Searches
    <2>3. PICK d \in CallRecords : d = Onward(p, k)
      BY <1>2, CallForms
    <2>4. d.for = c.for /\ d.what = c.what
      BY <1>1, <1>2, <2>3, CallForms
    <2> QED BY <1>1, <1>5, <2>1, <2>2, <2>3, <2>4, ListQuiet DEF WalkOn
  <1>6. ASSUME c.for # "done", c.for # "dents", Fails(p), UNCHANGED <<Archive, stream, files>>, ~stray PROVE ListInv'
    <2>1. PICK d \in CallRecords : d = Done(p, 0)
      BY <1>2, CallForms
    <2>2. d.for = "done" /\ d.what = c.what
      BY <1>1, <1>2, <2>1, CallForms
    <2>3. call' = [call EXCEPT ![p] = d]
      BY <1>6, <2>1 DEF Fails
    <2> QED BY <1>1, <1>6, <2>1, <2>2, <2>3, ListQuiet
  <1>7. ASSUME WalkFound(p) PROVE ListInv'
    <2>1. PICK k \in Entries :
            IF Accepted(p, k)
            THEN /\ call' = [call EXCEPT ![p] = [NextStep(p, AfterSearch(p)) EXCEPT !.answer = k]]
                 /\ UNCHANGED stray
            ELSE Fails(p)
      BY <1>7 DEF WalkFound
    <2>2. c.for \in Searches /\ c.for # "dents" /\ c.for # "done" /\ ~stray
      BY <1>1, <1>7 DEF WalkFound, Searches
    <2>3. CASE Accepted(p, k)
      <3>1. PICK f \in Fors : f = AfterSearch(p) /\ Stage(c.what, f) /\ f # "dents"
        <4>1. c.what \in {"open", "execve", "chdir", "opendir"}
          BY <1>2, <2>2 DEF Stage, Searches
        <4> QED BY <1>1, <4>1 DEF AfterSearch, Stage, Fors, Walks
      <3>2. k \in Nat
        BY <1>2, ArchiveIs
      <3>3. PICK d \in CallRecords : d = [NextStep(p, f) EXCEPT !.answer = k]
        BY <1>1, <1>2, <3>1, <3>2, CallForms
      <3>4. d.for = f /\ d.what = c.what
        BY <1>1, <1>2, <3>1, <3>2, <3>3, CallForms
      <3>5. call' = [call EXCEPT ![p] = d] /\ UNCHANGED stray
        BY <2>1, <2>3, <3>1, <3>3
      <3> QED BY <1>1, <1>7, <2>2, <3>1, <3>4, <3>5, ListQuiet DEF WalkFound
    <2>4. CASE ~Accepted(p, k)
      BY <1>6, <1>7, <2>1, <2>2, <2>4 DEF WalkFound
    <2> QED BY <2>3, <2>4
  <1>8. ASSUME WalkEnd(p) PROVE ListInv'
    <2>1. c.for # "dents" /\ c.for # "done" /\ ~stray
      BY <1>1, <1>8 DEF WalkEnd, Walking, Walks, Searches
    <2> QED BY <1>6, <1>8, <2>1 DEF WalkEnd
  <1>9. ASSUME WalkStray(p) PROVE ListInv'
    <2>1. ListOK(c, stream[p], fd_table[p][stream[p].fd].entry, stray)
      BY <1>1 DEF ListInv
    <2>2. UNCHANGED <<Archive, call, stream, fd_table>> /\ stray'
      BY <1>9 DEF WalkStray, files
    <2>3. ListOK(c, stream[p], fd_table[p][stream[p].fd].entry, stray')
      BY <2>1, <2>2 DEF ListOK
    <2> QED BY <1>1, <2>2, <2>3, ListStep
  <1>10. ASSUME CopyWd(p) PROVE ListInv'
    <2>1. c.for = "copy_wd"
      BY <1>1, <1>10 DEF CopyWd, At
    <2>2. PICK n \in Nat : n = IF c.answer = 0 THEN Root ELSE c.answer
      BY <1>2, ArchiveIs DEF CallRecords, CallFields
    <2>3. PICK d \in CallRecords : d = Done(p, n)
      BY <1>2, CallForms
    <2>4. d.for = "done" /\ d.what = c.what
      BY <1>1, <1>2, <2>3, CallForms
    <2>5. call' = [call EXCEPT ![p] = d]
      BY <1>1, <1>10, <2>2, <2>3 DEF CopyWd
    <2> QED BY <1>1, <1>10, <2>1, <2>4, <2>5, ListQuiet DEF CopyWd
  <1>11. ASSUME CopyPname(p) PROVE ListInv'
    <2>1. c.for = "copy_pname"
      BY <1>1, <1>11 DEF CopyPname, At
    <2>2. "map_file" \in Fors /\ Stage(c.what, "map_file")
      BY <1>2, <2>1 DEF Stage, Fors, Walks
    <2>3. PICK d \in CallRecords : d = NextStep(p, "map_file")
      BY <1>1, <1>2, <2>2, CallForms
    <2>4. d.for = "map_file" /\ d.what = c.what
      BY <1>1, <1>2, <2>2, <2>3, CallForms
    <2> QED BY <1>1, <1>11, <2>1, <2>3, <2>4, ListQuiet DEF CopyPname
  <1>12. ASSUME map_file(p) PROVE ListInv'
    <2>1. c.for = "map_file"
      BY <1>1, <1>12 DEF map_file, At
    <2>2. PICK k \in Entries : call' = [call EXCEPT ![p] = Done(p, IF Archive[k].elf THEN k ELSE 0)]
      BY <1>12 DEF map_file
    <2>3. PICK n \in Nat : n = IF Archive[k].elf THEN k ELSE 0
      BY <1>2, ArchiveIs
    <2>4. PICK d \in CallRecords : d = Done(p, n)
      BY <1>2, CallForms
    <2>5. d.for = "done" /\ d.what = c.what
      BY <1>1, <1>2, <2>4, CallForms
    <2>6. call' = [call EXCEPT ![p] = d]
      BY <2>2, <2>3, <2>4
    <2> QED BY <1>1, <1>12, <2>1, <2>5, <2>6, ListQuiet DEF map_file
  <1> QED BY <1>3, <1>4, <1>5, <1>7, <1>8, <1>9, <1>10, <1>11, <1>12, ListOpen, ListFill, ListEnd DEF Kernel
-----------------------------------------------------------------------------
(* The invariant of the file system. *)
FileInv == CallInv /\ FilesInv /\ ListInv

(* It holds before the first call. *)
LEMMA FileInit ==
    ASSUME Init
    PROVE  FileInv
  <1>1. PICK c : c = [what |-> "none", for |-> "done", path |-> Slash,
                      offset |-> 0, raced |-> FALSE, answer |-> 0]
    OBVIOUS
  <1>2. c.what = "none" /\ c.for = "done" /\ c \in CallRecords
    BY <1>1, PathFacts DEF CallRecords, CallFields, Whats, Fors, Stage
  <1>3. /\ call = [p \in Procs |-> c] /\ Archive \in Archives
        /\ abspath \in PathRecords /\ stray \in BOOLEAN
        /\ wd \in [Procs -> PathRecords] /\ pname \in [Procs -> PathRecords]
        /\ next_fd \in [Procs -> Nat] /\ \A p \in Procs : next_fd[p] = 3
    BY <1>1, PathFacts DEF Init
  <1>4. NoStream \in Streams /\ NoStream.offset = 0 /\ NoStream.dents = <<>> /\ NoStream.state = "none"
    BY DEF NoStream, Streams
  <1>5. stream = [p \in Procs |-> NoStream]
    BY DEF Init
  <1>6. CallTypes
    BY <1>2, <1>3, <1>4, <1>5 DEF CallTypes
  <1>7. \A q \in Procs : AskedPath(call[q]) /\ (~call[q].raced => Own(call[q], abspath, wd[q], pname[q]))
    <2>1. \A path, w, pn : Own(c, path, w, pn)
      BY <1>2 DEF Own, Lookups, Searches
    <2>2. AskedPath(c)
      BY <1>2 DEF AskedPath
    <2> QED BY <1>3, <2>1, <2>2
  <1>8. CallInv
    BY <1>6, <1>7 DEF CallInv
  <1>9. FilesInv
    <2>1. Closed \in OpenFiles /\ <<>> \in Seq(Bytes)
      BY DEF Closed, OpenFiles
    <2>2. FileOK(Closed, <<>>)
      BY DEF FileOK
    <2>3. /\ fd_table = [p \in Procs |-> [fd \in Descriptors |-> Closed]]
          /\ got = [p \in Procs |-> [fd \in Descriptors |-> <<>>]]
      BY DEF Init
    <2> QED BY <1>3, <2>1, <2>2, <2>3 DEF FilesInv
  <1>10. ListInv
    <2>1. \A entry : ListOK(c, NoStream, entry, stray)
      <3>1. 0 <= Len(NoStream.dents)
        BY <1>4
      <3> QED BY <1>2, <1>4, <3>1 DEF ListOK
    <2> QED BY <1>3, <1>5, <2>1 DEF ListInv
  <1> QED BY <1>8, <1>9, <1>10 DEF FileInv

(* The invariant of all that the system calls do to files. *)
THEOREM FileInvariant == Spec => []FileInv
  <1>1. Init => FileInv
    BY FileInit
  <1>2. FileInv /\ [Next]_vars => FileInv'
    <2> SUFFICES ASSUME FileInv, [Next]_vars PROVE FileInv'
      OBVIOUS
    <2>1. CallInv /\ CallTypes /\ FilesInv /\ ListInv
      BY DEF FileInv, CallInv
    <2>2. ASSUME NEW p \in Procs, Kernel(p) PROVE FileInv'
      BY <2>1, <2>2, CallKernel, FilesKernel, ListKernel DEF FileInv
    <2>3. ASSUME NEW p \in Procs, User(p) PROVE FileInv'
      BY <2>1, <2>3, CallUser, FilesUser, ListUser DEF FileInv
    <2>4. CASE UNCHANGED vars
      <3>1. CallTypes'
        BY <2>1, <2>4 DEF CallTypes, vars
      <3>2. CallInv'
        BY <2>1, <2>4, <3>1, CallSame DEF vars
      <3>3. FilesInv'
        BY <2>1, <2>4, FilesSame DEF vars
      <3>4. ListInv'
        BY <2>1, <2>4, ListSame DEF vars, ListInv
      <3> QED BY <3>2, <3>3, <3>4 DEF FileInv
    <2> QED BY <2>2, <2>3, <2>4 DEF Next, Stopped
  <1> QED BY <1>1, <1>2, PTL DEF Spec
-----------------------------------------------------------------------------
(* ReadsInOrder: what was read through a descriptor is the beginning of its   *)
(* file, up to the offset read_to_buffer keeps.                              *)
THEOREM ReadsInOrderAlways == Spec => []ReadsInOrder
  <1>1. FileInv => ReadsInOrder
    <2> SUFFICES ASSUME FileInv, NEW p \in Procs, NEW fd \in Descriptors,
                        NEW f, f = fd_table[p][fd], f # Closed
                 PROVE  /\ f.offset <= Len(Data(f.entry))
                        /\ got[p][fd] = SubSeq(Data(f.entry), 1, f.offset)
      BY DEF ReadsInOrder
    <2>1. Archive \in Archives /\ FileOK(f, got[p][fd]) /\ f \in OpenFiles
      BY DEF FileInv, CallInv, CallTypes, FilesInv
    <2>2. /\ f.size \in {0, Len(Data(f.entry))} /\ f.offset <= f.size
          /\ got[p][fd] = SubSeq(Data(f.entry), 1, f.offset)
      BY <2>1 DEF FileOK
    <2>3. f.size \in Nat /\ f.offset \in Nat /\ Len(Data(f.entry)) \in Nat
      BY <2>1, DataIs DEF OpenFiles
    <2> QED BY <2>2, <2>3
  <1> QED BY <1>1, FileInvariant, PTL

(* OwnPath: what a call that succeeds opens, enters or runs is named by its   *)
(* own path, unless another process's write to abspath fell into it.         *)
THEOREM OwnPathAlways == Spec => []OwnPath
  <1>1. FileInv => OwnPath
    <2> SUFFICES ASSUME FileInv, NEW p \in Procs, NEW c, c = call[p],
                        Returned(p), ~c.raced, c.answer # 0
                 PROVE  /\ Means(c, c.answer) \/ (MeansRoot(c) /\ c.answer = Root)
                        /\ c.what = "chdir" => wd[p] = Path(c.path.name, 1)
                        /\ c.what = "execve" => pname[p] = c.path
      BY DEF OwnPath
    <2>1. Own(c, abspath, wd[p], pname[p]) /\ c.for = "done" /\ c.what # "none"
      BY DEF FileInv, CallInv, Returned
    <2> QED BY <2>1 DEF Own, Answered
  <1> QED BY <1>1, FileInvariant, PTL

(* LookupFinds: do_open, do_chdir, do_execve and opendir find the entry they  *)
(* were given the path of, if no write to abspath and no full last block is   *)
(* in the way.                                                               *)
THEOREM LookupFindsAlways == Spec => []LookupFinds
  <1>1. FileInv => LookupFinds
    <2> SUFFICES ASSUME FileInv, NEW p \in Procs, NEW c, c = call[p],
                        Returned(p) \/ Lost(p), ~c.raced,
                        NEW k \in Entries, Means(c, k), PaddedBefore(k)
                 PROVE  c.answer = k
      BY DEF LookupFinds
    <2>1. Own(c, abspath, wd[p], pname[p]) /\ Archive \in Archives /\ CallInv
      BY DEF FileInv, CallInv, CallTypes
    <2>2. CASE Returned(p)
      BY <2>1, <2>2 DEF Returned, Own
    <2>3. CASE Lost(p) /\ c.for = "dents"
      <3>1. Answered(c, c.answer)
        BY <2>1, <2>3 DEF Own
      <3> QED BY <2>1, <3>1, MeansOne DEF Answered
    <2>4. CASE Lost(p) /\ c.for # "dents"
      <3>1. c.for \in Lookups /\ ~\E j \in Entries : AtEntry(p, j)
        BY <2>4 DEF Lost, Walks, Lookups
      <3>2. \E j \in 1..k : AtEntry(p, j)
        BY <2>1, <3>1, WalkFacts
      <3>3. \A j \in 1..k : j \in Entries
        BY <2>1, ArchiveIs
      <3> QED BY <3>1, <3>2, <3>3
    <2> QED BY <2>2, <2>3, <2>4
  <1> QED BY <1>1, FileInvariant, PTL

(* What _fill_dents_by_path lists is what is in the directory. *)
LEMMA ListedIs ==
    ASSUME Archive \in Archives, NEW c, c.what = "opendir", NEW d, Answered(c, d),
           NEW k \in Entries
    PROVE  Listed(k, d) <=> InDirectory(k, c.path)
  <1>1. /\ Len(Archive) \in Nat /\ Entries = 1..Len(Archive) /\ Root = Len(Archive) + 1
    BY ArchiveIs DEF Root
  <1>2. PICK n \in Seq(Names) : n = Archive[k].name /\ n # <<>>
    BY ArchiveIs
  <1>3. Len(n) \in Nat /\ Len(n) # 0
    BY <1>2
  <1>4. InDirectory(k, c.path) <=> n = c.path.name \/ SubSeq(n, 1, Len(n) - 1) = c.path.name
    BY <1>2 DEF InDirectory, Parent
  <1>5. SubSeq(n, 1, Len(n) - 1) \in Seq(Names) /\ Len(SubSeq(n, 1, Len(n) - 1)) = Len(n) - 1
    <2>1. PICK z \in Nat : z = Len(n) - 1
      BY <1>3
    <2>2. \A i \in 1..z : n[i] \in Names
      BY <1>3, <2>1
    <2>3. SubSeq(n, 1, z) \in Seq(Names) /\ Len(SubSeq(n, 1, z)) = IF 1 <= z THEN z - 1 + 1 ELSE 0
      BY <2>2, SubSeqProperties
    <2> QED BY <1>3, <2>1, <2>3
  <1>6. CASE MeansRoot(c) /\ d = Root
    <2>1. c.path.name = <<>> /\ d \notin Entries
      BY <1>1, <1>6 DEF MeansRoot
    <2>2. Listed(k, d) <=> Len(n) <= 1
      BY <1>2, <1>3, <1>6 DEF Listed, StartsWith, Depth
    <2>3. SubSeq(n, 1, Len(n) - 1) = <<>> <=> Len(n) - 1 = 0
      <3>1. \A m \in Seq(Names) : m = <<>> <=> Len(m) = 0
        OBVIOUS
      <3> QED BY <1>5, <3>1
    <2> QED BY <1>2, <1>3, <1>4, <2>1, <2>2, <2>3
  <1>7. CASE Means(c, d)
    <2>1. d \in Entries /\ d # Root /\ Archive[d].dir
      BY <1>1, <1>7 DEF Means
    <2>2. PICK m \in Seq(Names) : m = Archive[d].name /\ m = c.path.name
      BY <1>7, <2>1, ArchiveIs DEF Means
    <2>3. Len(m) \in Nat
      BY <2>2
    <2>4. Listed(k, d) <=> /\ Len(n) >= Len(m) /\ Len(n) <= Len(m) + 1
                           /\ SubSeq(n, 1, Len(m)) = m
                           /\ Archive[k].dir \/ n # m
      BY <1>2, <2>1, <2>2 DEF Listed, StartsWith, Depth
    <2>5. n = m => Archive[k].dir
      BY <1>2, <2>1, <2>2, ArchiveIs
    <2>6. SubSeq(n, 1, Len(n)) = n
      BY SubSeqFull
    <2>7. CASE Len(n) = Len(m)
      <3>1. Listed(k, d) <=> n = m
        BY <1>3, <2>3, <2>4, <2>5, <2>6, <2>7
      <3>2. SubSeq(n, 1, Len(n) - 1) # m
        BY <1>3, <1>5, <2>7
      <3> QED BY <1>4, <2>2, <3>1, <3>2
    <2>8. CASE Len(n) = Len(m) + 1
      <3>1. n # m /\ Len(n) - 1 = Len(m)
        BY <1>3, <2>3, <2>8
      <3>2. Len(n) >= Len(m) /\ Len(n) <= Len(m) + 1
        BY <2>3, <2>8
      <3>3. Listed(k, d) <=> SubSeq(n, 1, Len(n) - 1) = m
        BY <2>4, <3>1, <3>2
      <3> QED BY <1>4, <2>2, <3>1, <3>3
    <2>9. CASE Len(n) # Len(m) /\ Len(n) # Len(m) + 1
      <3>1. n # m /\ SubSeq(n, 1, Len(n) - 1) # m
        BY <1>3, <1>5, <2>3, <2>9
      <3>2. ~(Len(n) >= Len(m) /\ Len(n) <= Len(m) + 1)
        BY <1>3, <2>3, <2>9
      <3> QED BY <1>4, <2>2, <2>4, <3>1, <3>2
    <2> QED BY <2>7, <2>8, <2>9
  <1> QED BY <1>6, <1>7 DEF Answered

(* ListingExact: what readdir delivers before NULL is the working directory   *)
(* and what is in it, each entry once, in the archive's order.               *)
THEOREM ListingExactAlways == Spec => []ListingExact
  <1>1. FileInv => ListingExact
    <2> SUFFICES ASSUME FileInv, NEW p \in Procs, NEW s, s = stream[p], NEW c, c = call[p]
                 PROVE  /\ s.state = "junk" => s.dirty
                        /\ /\ s.state = "null" /\ c.what = "opendir" /\ ~c.raced
                           /\ \A k \in Entries : PaddedBefore(k)
                           => /\ s.offset = Len(s.dents)
                              /\ {s.dents[n] : n \in DOMAIN s.dents} =
                                    {k \in Entries : InDirectory(k, c.path)}
                              /\ \A n \in 1..(Len(s.dents) - 1) : s.dents[n] < s.dents[n + 1]
      BY DEF ListingExact
    <2>1. /\ Archive \in Archives /\ s \in Streams
          /\ ListOK(c, s, fd_table[p][s.fd].entry, stray)
          /\ ~c.raced => Own(c, abspath, wd[p], pname[p])
      BY DEF FileInv, CallInv, CallTypes, ListInv
    <2>2. s.state = "junk" => s.dirty
      BY <2>1 DEF ListOK
    <2>3. ASSUME s.state = "null", c.what = "opendir", ~c.raced, AllPadded
          PROVE  /\ s.offset = Len(s.dents)
                 /\ {s.dents[n] : n \in DOMAIN s.dents} = {k \in Entries : InDirectory(k, c.path)}
                 /\ \A n \in 1..(Len(s.dents) - 1) : s.dents[n] < s.dents[n + 1]
      <3>1. s.offset = Len(s.dents) /\ c.for = "done" /\ c.answer # 0 /\ Filled(s.dents, c.answer, Root)
        BY <2>1, <2>3 DEF ListOK
      <3>2. Answered(c, c.answer)
        BY <2>1, <2>3, <3>1 DEF Own
      <3>3. \A k \in Entries : (Listed(k, c.answer) <=> InDirectory(k, c.path)) /\ k < Root
        BY <2>1, <2>3, <3>2, ListedIs, ArchiveIs DEF Root
      <3>4. DOMAIN s.dents = 1..Len(s.dents)
        BY <2>1 DEF Streams
      <3>5. \A n \in DOMAIN s.dents : s.dents[n] \in Entries /\ InDirectory(s.dents[n], c.path)
        BY <3>1, <3>3, <3>4 DEF Filled
      <3>6. \A k \in Entries : InDirectory(k, c.path) => \E n \in DOMAIN s.dents : s.dents[n] = k
        BY <3>1, <3>3, <3>4 DEF Filled
      <3>7. {s.dents[n] : n \in DOMAIN s.dents} = {k \in Entries : InDirectory(k, c.path)}
        BY <3>5, <3>6
      <3> QED BY <3>1, <3>7 DEF Filled
    <2> QED BY <2>2, <2>3 DEF AllPadded
  <1> QED BY <1>1, FileInvariant, PTL
=============================================================================
