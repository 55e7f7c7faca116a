------------------------------ MODULE CowProofs ------------------------------
(***************************************************************************)
(* Proofs about module CowFork, for any number of processes, pages and       *)
(* frames: with one relative at a time, copy on write keeps the memory of    *)
(* parent and child apart.                                                   *)
(***************************************************************************)
EXTENDS CowFork, FiniteSetTheorems, FunctionTheorems, TLAPS

Entry == [frame : Nat, rw : BOOLEAN]
Tables == [Pids -> [Pages -> Entry]]

TypeInv ==
    /\ state \in [Pids -> {"none", "live", "killed", "gone"}]
    /\ ppid \in [Pids -> Pids \cup {NoPid}]
    /\ table \in Tables
    /\ cross \in [Pids -> Pids \cup {NoPid}]
    /\ content \in [Frames -> Nat]
    /\ used \in 0..MaxFrames
    /\ writing \in [Pids -> Pages \cup {NoPage}]
    /\ halted \in BOOLEAN
    /\ meant \in [Pids -> [Pages -> Nat]]

(* Frames are handed out before they are mapped. *)
FramesUsed(t, u) == \A p \in Pids, v \in Pages : t[p][v] = Absent \/ t[p][v].frame \in 1..u

(* A frame is mapped at one page only, and by two processes read-only. *)
Apart(t, L) ==
    \A p, q \in L, v, w \in Pages :
        (t[p][v] # Absent /\ t[q][w] # Absent /\ t[p][v].frame = t[q][w].frame) =>
            v = w /\ (p # q => ~t[p][v].rw)

(* With one relative at a time there is the shell and one living child, and  *)
(* each has the other in slot 509.                                           *)
OneChild ==
    /\ ppid[Shell] = NoPid /\ state[Shell] # "none"
    /\ \A p \in Pids \ {Shell} : state[p] = "none" \/ ppid[p] = Shell
    /\ \A p, q \in Live \ {Shell} : p = q
    /\ \A p \in Live \ {Shell} : cross[p] = Shell /\ cross[Shell] = p

CowInv ==
    /\ TypeInv
    /\ FramesUsed(table, used)
    /\ "relatives" \notin leaks => OneChild /\ Apart(table, Live)
    /\ MemoryIsPrivate

(* What CowAssumption and the definitions of the constants say. *)
LEMMA ConstantFacts ==
    /\ Shell \in Pids /\ NoPid \notin Pids /\ Absent \in Entry /\ MaxFrames \in Nat
    /\ Pids \subseteq Nat /\ Frames = 1..MaxFrames /\ Stack \in Pages /\ Stack \notin Low
  BY CowAssumption DEF Shell, Pids, NoPid, Absent, Entry, Frames

(* An entry made writable or read-only. *)
LEMMA EntryBits ==
    ASSUME NEW x \in Entry, NEW b \in BOOLEAN
    PROVE  /\ [x EXCEPT !.rw = b] = [frame |-> x.frame, rw |-> b]
           /\ [frame |-> x.frame, rw |-> b] \in Entry
           /\ [frame |-> x.frame, rw |-> b].frame = x.frame
  BY DEF Entry

(* What the updates of the page tables do, entry by entry. *)
LEMMA SetEntry ==
    ASSUME NEW t \in Tables, NEW p \in Pids, NEW v \in Pages, NEW e \in Entry
    PROVE  /\ [t EXCEPT ![p][v] = e] \in Tables
           /\ \A q \in Pids, w \in Pages :
                 [t EXCEPT ![p][v] = e][q][w] = IF q = p /\ w = v THEN e ELSE t[q][w]
  BY DEF Tables

(* cross_off_COW sets one bit in a mapped entry of the relative. *)
LEMMA CrossedOff ==
    ASSUME NEW t \in Tables, NEW p \in Pids, NEW v \in Pages, TypeInv
    PROVE  /\ cross_off_COW(t, p, v) \in Tables
           /\ \A q \in Pids, w \in Pages :
                 cross_off_COW(t, p, v)[q][w] =
                     IF q = cross[p] /\ w = v /\ t[q][w] # Absent
                     THEN [frame |-> t[q][w].frame, rw |-> TRUE] ELSE t[q][w]
  <1>1. cross[p] \in Pids \cup {NoPid} /\ NoPid \notin Pids
    BY ConstantFacts DEF TypeInv
  <1>2. CASE cross[p] = NoPid \/ t[cross[p]][v] = Absent
    BY <1>1, <1>2 DEF cross_off_COW
  <1>3. CASE cross[p] # NoPid /\ t[cross[p]][v] # Absent
    <2> DEFINE e == [frame |-> t[cross[p]][v].frame, rw |-> TRUE]
    <2>1. cross[p] \in Pids /\ t[cross[p]][v] \in Entry
      BY <1>1, <1>3 DEF Tables
    <2>2. e \in Entry
      BY <2>1, EntryBits
    <2>3. [t[cross[p]][v] EXCEPT !.rw = TRUE] = e
      BY <2>1, EntryBits
    <2>4. cross_off_COW(t, p, v) = [t EXCEPT ![cross[p]][v] = e]
      BY <1>3, <2>3 DEF cross_off_COW
    <2> HIDE DEF e
    <2>5. /\ [t EXCEPT ![cross[p]][v] = e] \in Tables
          /\ \A q \in Pids, w \in Pages :
                [t EXCEPT ![cross[p]][v] = e][q][w]
                    = IF q = cross[p] /\ w = v THEN e ELSE t[q][w]
      BY <2>1, <2>2, SetEntry
    <2>6. ASSUME NEW q \in Pids, NEW w \in Pages
          PROVE  cross_off_COW(t, p, v)[q][w] =
                     IF q = cross[p] /\ w = v /\ t[q][w] # Absent
                     THEN [frame |-> t[q][w].frame, rw |-> TRUE] ELSE t[q][w]
      <3>1. cross_off_COW(t, p, v)[q][w] = IF q = cross[p] /\ w = v THEN e ELSE t[q][w]
        BY <2>4, <2>5
      <3>2. CASE q = cross[p] /\ w = v
        BY <1>3, <3>1, <3>2 DEF e
      <3>3. CASE ~(q = cross[p] /\ w = v)
        BY <3>1, <3>3
      <3> QED BY <3>2, <3>3
    <2> QED BY <2>4, <2>5, <2>6
  <1> QED BY <1>2, <1>3

(* mark_COW gives both relatives the same read-only entries. *)
LEMMA Marked ==
    ASSUME NEW t \in Tables, NEW p \in Pids, NEW c \in Pids
    PROVE  /\ mark_COW(t, p, c) \in Tables
           /\ \A q \in Pids, w \in Pages :
                 mark_COW(t, p, c)[q][w] =
                     IF q \in {p, c} THEN [frame |-> t[p][w].frame, rw |-> FALSE] ELSE t[q][w]
  <1> DEFINE shared == [v \in Pages |-> [t[p][v] EXCEPT !.rw = FALSE]]
  <1>1. \A v \in Pages : t[p][v] \in Entry
    BY DEF Tables
  <1>2. \A v \in Pages : /\ shared[v] = [frame |-> t[p][v].frame, rw |-> FALSE]
                         /\ shared[v] \in Entry
    BY <1>1 DEF Entry
  <1>3. shared \in [Pages -> Entry]
    BY <1>2
  <1>4. mark_COW(t, p, c) = [t EXCEPT ![p] = shared, ![c] = shared]
    BY DEF mark_COW
  <1> HIDE DEF shared
  <1> QED BY <1>2, <1>3, <1>4 DEF Tables

(* A new frame, writable, in one entry. *)
LEMMA FreshFrame ==
    ASSUME NEW t \in Tables, NEW u \in Nat, NEW p \in Pids, NEW v \in Pages, NEW L \in SUBSET Pids,
           FramesUsed(t, u), Apart(t, L)
    PROVE  Apart([t EXCEPT ![p][v] = [frame |-> u + 1, rw |-> TRUE]], L)
  <1> DEFINE e == [frame |-> u + 1, rw |-> TRUE]
             s == [t EXCEPT ![p][v] = e]
  <1>1. e \in Entry /\ e.frame = u + 1
    BY DEF Entry
  <1> HIDE DEF e
  <1>2. /\ s \in Tables
        /\ \A q \in Pids, w \in Pages : s[q][w] = IF q = p /\ w = v THEN e ELSE t[q][w]
    BY <1>1, SetEntry
  <1>3. \A q \in Pids, w \in Pages : t[q][w] # Absent => t[q][w].frame # u + 1
    BY DEF FramesUsed
  <1> HIDE DEF s
  <1>4. ASSUME NEW q \in L, NEW r \in L, NEW w \in Pages, NEW x \in Pages,
               s[q][w] # Absent, s[r][x] # Absent, s[q][w].frame = s[r][x].frame
        PROVE  w = x /\ (q # r => ~s[q][w].rw)
    <2>1. q \in Pids /\ r \in Pids
      OBVIOUS
    <2>2. CASE q = p /\ w = v
      BY <1>1, <1>2, <1>3, <1>4, <2>1, <2>2
    <2>3. CASE r = p /\ x = v
      BY <1>1, <1>2, <1>3, <1>4, <2>1, <2>3
    <2>4. CASE ~(q = p /\ w = v) /\ ~(r = p /\ x = v)
      <3>1. s[q][w] = t[q][w] /\ s[r][x] = t[r][x]
        BY <1>2, <2>1, <2>4
      <3> QED BY <1>4, <3>1 DEF Apart
    <2> QED BY <2>2, <2>3, <2>4
  <1> QED BY <1>4 DEF Apart, s, e

(* The new frame counts as used from then on. *)
LEMMA FreshUsed ==
    ASSUME NEW t \in Tables, NEW u \in Nat, NEW p \in Pids, NEW v \in Pages, FramesUsed(t, u)
    PROVE  /\ [t EXCEPT ![p][v] = [frame |-> u + 1, rw |-> TRUE]] \in Tables
           /\ FramesUsed([t EXCEPT ![p][v] = [frame |-> u + 1, rw |-> TRUE]], u + 1)
  <1> DEFINE e == [frame |-> u + 1, rw |-> TRUE]
  <1>1. e \in Entry /\ e.frame \in 1..(u + 1)
    BY DEF Entry
  <1> HIDE DEF e
  <1>2. /\ [t EXCEPT ![p][v] = e] \in Tables
        /\ \A q \in Pids, w \in Pages :
              [t EXCEPT ![p][v] = e][q][w] = IF q = p /\ w = v THEN e ELSE t[q][w]
    BY <1>1, SetEntry
  <1>3. ASSUME NEW q \in Pids, NEW w \in Pages
        PROVE  \/ [t EXCEPT ![p][v] = e][q][w] = Absent
               \/ [t EXCEPT ![p][v] = e][q][w].frame \in 1..(u + 1)
    BY <1>1, <1>2 DEF FramesUsed
  <1> QED BY <1>2, <1>3 DEF FramesUsed, e

(* Crossing off is sound where no other living process maps the frame.       *)
LEMMA CrossedOffApart ==
    ASSUME TypeInv, NEW t \in Tables, NEW p \in Pids, NEW v \in Pages, NEW L \in SUBSET Pids,
           Apart(t, L),
           \A r \in L : (cross[p] \in L /\ r # cross[p] /\ t[r][v] # Absent
                           /\ t[cross[p]][v] # Absent) =>
                            t[r][v].frame # t[cross[p]][v].frame
    PROVE  Apart(cross_off_COW(t, p, v), L)
  <1> DEFINE s == cross_off_COW(t, p, v)
  <1>1. \A q \in Pids, w \in Pages :
            s[q][w] = IF q = cross[p] /\ w = v /\ t[q][w] # Absent
                      THEN [frame |-> t[q][w].frame, rw |-> TRUE] ELSE t[q][w]
    BY CrossedOff
  <1> HIDE DEF s
  <1>2. \A q \in L, w \in Pages : [frame |-> t[q][w].frame, rw |-> TRUE].frame = t[q][w].frame
    OBVIOUS
  <1>3. \A q \in L, w \in Pages :
            s[q][w] # Absent => t[q][w] # Absent /\ s[q][w].frame = t[q][w].frame
    <2> TAKE q \in L, w \in Pages
    <2>1. q \in Pids
      OBVIOUS
    <2>2. CASE q = cross[p] /\ w = v /\ t[q][w] # Absent
      BY <1>1, <1>2, <2>1, <2>2, ZenonT(30)
    <2>3. CASE ~(q = cross[p] /\ w = v /\ t[q][w] # Absent)
      BY <1>1, <2>1, <2>3
    <2> QED BY <2>2, <2>3
  <1>4. ASSUME NEW q \in L, NEW r \in L, NEW w \in Pages, NEW x \in Pages,
               s[q][w] # Absent, s[r][x] # Absent, s[q][w].frame = s[r][x].frame
        PROVE  w = x /\ (q # r => ~s[q][w].rw)
    <2>1. /\ t[q][w] # Absent /\ t[r][x] # Absent /\ t[q][w].frame = t[r][x].frame
      BY <1>3, <1>4
    <2>2. w = x /\ (q # r => ~t[q][w].rw)
      BY <2>1 DEF Apart
    <2>3. CASE q = cross[p] /\ w = v
      BY <2>1, <2>2, <2>3
    <2>4. CASE ~(q = cross[p] /\ w = v)
      BY <1>1, <2>2, <2>4
    <2> QED BY <2>2, <2>3, <2>4
  <1> QED BY <1>4 DEF Apart, s

(* Crossing off maps no frame that was not mapped. *)
LEMMA CrossedOffUsed ==
    ASSUME TypeInv, NEW t \in Tables, NEW u \in Nat, NEW p \in Pids, NEW v \in Pages,
           FramesUsed(t, u)
    PROVE  FramesUsed(cross_off_COW(t, p, v), u)
  <1>1. ASSUME NEW q \in Pids, NEW w \in Pages
        PROVE  \/ cross_off_COW(t, p, v)[q][w] = Absent
               \/ cross_off_COW(t, p, v)[q][w].frame \in 1..u
    <2> DEFINE s == cross_off_COW(t, p, v)
    <2>1. s[q][w] = IF q = cross[p] /\ w = v /\ t[q][w] # Absent
                    THEN [frame |-> t[q][w].frame, rw |-> TRUE] ELSE t[q][w]
      BY CrossedOff
    <2>2. t[q][w] = Absent \/ t[q][w].frame \in 1..u
      BY DEF FramesUsed
    <2> HIDE DEF s
    <2>3. s[q][w] = Absent \/ s[q][w].frame \in 1..u
      BY <2>1, <2>2
    <2> QED BY <2>3 DEF s
  <1> QED BY <1>1 DEF FramesUsed
-----------------------------------------------------------------------------
(* What a process reads through tables t from frames c. *)
ViewOf(t, c, p, v) == IF t[p][v] = Absent THEN Blank ELSE c[t[p][v].frame]

(* Tables s and frames d show what t shows of the frames, but x at v in p. *)
ShowsAt(t, s, d, p, v, x) ==
    \A q \in Live, w \in Pages :
        ViewOf(s, d, q, w) = IF q = p /\ w = v THEN x ELSE ViewOf(t, content, q, w)

(* A store through one entry is seen there and, where nobody else maps the   *)
(* frame, nowhere else.                                                      *)
LEMMA StoreSeen ==
    ASSUME NEW t \in Tables, NEW p \in Live, NEW v \in Pages, NEW x \in Nat,
           content \in [Frames -> Nat], used \in 0..MaxFrames,
           FramesUsed(t, used), t[p][v] # Absent,
           \A q \in Live, w \in Pages :
               (t[q][w] # Absent /\ t[q][w].frame = t[p][v].frame) => q = p /\ w = v
    PROVE  /\ [content EXCEPT ![t[p][v].frame] = x] \in [Frames -> Nat]
           /\ ShowsAt(t, t, [content EXCEPT ![t[p][v].frame] = x], p, v, x)
  <1>1. \A q \in Live, w \in Pages : t[q][w] # Absent => t[q][w].frame \in Frames
    BY ConstantFacts DEF FramesUsed, Live
  <1>2. t[p][v].frame \in Frames
    BY <1>1
  <1>3. ASSUME NEW q \in Live, NEW w \in Pages
        PROVE  ViewOf(t, [content EXCEPT ![t[p][v].frame] = x], q, w)
                   = IF q = p /\ w = v THEN x ELSE ViewOf(t, content, q, w)
    <2>1. CASE t[q][w] = Absent
      BY <2>1 DEF ViewOf
    <2>2. CASE q = p /\ w = v
      BY <1>2, <2>2 DEF ViewOf
    <2>3. CASE t[q][w] # Absent /\ ~(q = p /\ w = v)
      <3>1. t[q][w].frame # t[p][v].frame /\ t[q][w].frame \in Frames
        BY <1>1, <2>3
      <3> QED BY <1>2, <2>3, <3>1 DEF ViewOf
    <2> QED BY <2>1, <2>2, <2>3
  <1> QED BY <1>2, <1>3 DEF ShowsAt

(* What goes into a new frame is seen where it is mapped and nowhere else. *)
LEMMA FreshSeen ==
    ASSUME NEW t \in Tables, NEW p \in Pids, NEW v \in Pages, NEW x \in Nat,
           content \in [Frames -> Nat], used \in 0..MaxFrames, used < MaxFrames,
           FramesUsed(t, used)
    PROVE  /\ [content EXCEPT ![used + 1] = x] \in [Frames -> Nat]
           /\ ShowsAt(t, [t EXCEPT ![p][v] = [frame |-> used + 1, rw |-> TRUE]],
                      [content EXCEPT ![used + 1] = x], p, v, x)
  <1> DEFINE e == [frame |-> used + 1, rw |-> TRUE]
             s == [t EXCEPT ![p][v] = e]
             d == [content EXCEPT ![used + 1] = x]
  <1>1. e \in Entry /\ e.frame = used + 1 /\ e # Absent /\ used + 1 \in Frames
    BY ConstantFacts DEF Entry, Absent
  <1> HIDE DEF e
  <1>2. /\ s \in Tables
        /\ \A q \in Pids, w \in Pages : s[q][w] = IF q = p /\ w = v THEN e ELSE t[q][w]
    BY <1>1, SetEntry
  <1> HIDE DEF s
  <1>3. d \in [Frames -> Nat] /\ d[used + 1] = x /\ \A f \in 1..used : d[f] = content[f]
    BY <1>1, ConstantFacts
  <1> HIDE DEF d
  <1>4. ASSUME NEW q \in Pids, NEW w \in Pages
        PROVE  ViewOf(s, d, q, w) = IF q = p /\ w = v THEN x ELSE ViewOf(t, content, q, w)
    <2>1. CASE q = p /\ w = v
      BY <1>1, <1>2, <1>3, <2>1 DEF ViewOf
    <2>2. CASE ~(q = p /\ w = v)
      <3>1. s[q][w] = t[q][w] /\ (t[q][w] = Absent \/ t[q][w].frame \in 1..used)
        BY <1>2, <2>2 DEF FramesUsed
      <3> QED BY <1>3, <2>2, <3>1 DEF ViewOf
    <2> QED BY <2>1, <2>2
  <1>5. ShowsAt(t, s, d, p, v, x)
    BY <1>4 DEF ShowsAt, Live
  <1> QED BY <1>3, <1>5 DEF s, d, e

(* Crossing off changes nobody's memory. *)
LEMMA CrossedOffSeen ==
    ASSUME TypeInv, NEW t \in Tables, NEW c, NEW p \in Pids, NEW v \in Pages
    PROVE  \A q \in Pids, w \in Pages :
               ViewOf(cross_off_COW(t, p, v), c, q, w) = ViewOf(t, c, q, w)
  <1> TAKE q \in Pids, w \in Pages
  <1> DEFINE s == cross_off_COW(t, p, v)
  <1>1. s[q][w] = IF q = cross[p] /\ w = v /\ t[q][w] # Absent
                  THEN [frame |-> t[q][w].frame, rw |-> TRUE] ELSE t[q][w]
    BY CrossedOff
  <1> HIDE DEF s
  <1>2. CASE q = cross[p] /\ w = v /\ t[q][w] # Absent
    <2>1. s[q][w].frame = t[q][w].frame /\ s[q][w] # Absent
      BY <1>1, <1>2 DEF Absent
    <2> QED BY <1>2, <2>1 DEF ViewOf, s
  <1>3. CASE ~(q = cross[p] /\ w = v /\ t[q][w] # Absent)
    <2>1. s[q][w] = t[q][w]
      BY <1>1, <1>3
    <2> QED BY <2>1 DEF ViewOf, s
  <1> QED BY <1>2, <1>3
-----------------------------------------------------------------------------
(* At the start every page of the shell has a frame of its own. *)
LEMMA FirstFrames ==
    /\ FirstFrame \in [Pages -> 1..Cardinality(Pages)]
    /\ \A v, w \in Pages : FirstFrame[v] = FirstFrame[w] => v = w
  <1>1. ExistsBijection(1..Cardinality(Pages), Pages)
    BY CowAssumption, FS_CardinalityType
  <1>2. ExistsBijection(Pages, 1..Cardinality(Pages))
    BY <1>1, Fun_ExistsBijSymmetric
  <1>3. PICK f : f \in Bijection(Pages, 1..Cardinality(Pages))
    BY <1>2 DEF ExistsBijection
  <1>4. f \in [Pages -> 1..Cardinality(Pages)] /\ \A v, w \in Pages : f[v] = f[w] => v = w
    BY <1>3 DEF Bijection, Injection, IsInjective
  <1> QED BY <1>4 DEF FirstFrame

(* The shell starts with its own pages and no relative. *)
LEMMA InitiallyPrivate == Init => CowInv
  <1> SUFFICES ASSUME Init PROVE CowInv
    OBVIOUS
  <1> DEFINE n == Cardinality(Pages)
  <1>1. n \in 0..MaxFrames
    BY CowAssumption, FS_CardinalityType
  <1>2. \A p \in Pids, v \in Pages :
            table[p][v] = IF p = Shell THEN [frame |-> FirstFrame[v], rw |-> TRUE] ELSE Absent
    BY DEF Init
  <1>3. \A v \in Pages : FirstFrame[v] \in 1..n /\ FirstFrame[v] \in Nat
    BY <1>1, FirstFrames
  <1> HIDE DEF n
  <1> DEFINE First(v) == [frame |-> FirstFrame[v], rw |-> TRUE]
  <1>4. \A v \in Pages : First(v) \in Entry /\ First(v).frame = FirstFrame[v]
    BY <1>3 DEF Entry
  <1>5. \A p \in Pids, v \in Pages : table[p][v] = IF p = Shell THEN First(v) ELSE Absent
    BY <1>2
  <1> HIDE DEF First
  <1>6. table \in Tables
    <2>1. table = [p \in Pids |-> [v \in Pages |-> table[p][v]]]
      BY DEF Init
    <2>2. \A p \in Pids, v \in Pages : table[p][v] \in Entry
      BY <1>4, <1>5, ConstantFacts
    <2> QED BY <2>1, <2>2 DEF Tables
  <1>7. Live = {Shell}
    BY ConstantFacts DEF Init, Live
  <1>8. TypeInv
    BY <1>1, <1>6, ConstantFacts DEF Init, TypeInv, Blank, n
  <1>9. FramesUsed(table, used)
    BY <1>2, <1>3 DEF FramesUsed, Init, n
  <1>10. Apart(table, Live)
    BY <1>7, <1>4, <1>5, ConstantFacts, FirstFrames DEF Apart
  <1>11. OneChild
    BY <1>7, ConstantFacts DEF OneChild, Init
  <1>12. MemoryIsPrivate
    <2>1. \A v \in Pages : View(Shell, v) = Blank
      <3> TAKE v \in Pages
      <3>1. FirstFrame[v] \in Frames
        BY <1>1, <1>3, ConstantFacts
      <3>2. content[FirstFrame[v]] = Blank
        BY <3>1 DEF Init
      <3>3. table[Shell][v] = Absent \/ table[Shell][v].frame = FirstFrame[v]
        BY <1>4, <1>5, ConstantFacts
      <3> QED BY <3>2, <3>3 DEF View
    <2>2. \A v \in Pages : meant[Shell][v] = Blank
      BY ConstantFacts DEF Init
    <2> QED BY <1>7, <2>1, <2>2 DEF MemoryIsPrivate
  <1> QED BY <1>8, <1>9, <1>10, <1>11, <1>12 DEF CowInv
-----------------------------------------------------------------------------
(* MemoryIsPrivate in terms of ViewOf. *)
LEMMA PrivateMeans ==
    /\ MemoryIsPrivate <=>
          ((leaks = {} /\ ~halted) =>
              \A p \in Live, v \in Pages : ViewOf(table, content, p, v) = meant[p][v])
    /\ MemoryIsPrivate' <=>
          ((leaks' = {} /\ ~halted') =>
              \A p \in Live', v \in Pages : ViewOf(table', content', p, v) = meant'[p][v])
  BY DEF MemoryIsPrivate, View, ViewOf

(* A step that only ends processes or moves them to their next store. *)
LEMMA QuietStep ==
    ASSUME CowInv,
           UNCHANGED <<ppid, table, cross, content, used, halted, meant, leaks>>,
           state' \in [Pids -> {"none", "live", "killed", "gone"}],
           writing' \in [Pids -> Pages \cup {NoPage}],
           \A q \in Pids : state'[q] = "none" <=> state[q] = "none",
           \A q \in Pids : state'[q] = "live" => state[q] = "live"
    PROVE  CowInv'
  <1>1. Live' \subseteq Live /\ Live \subseteq Pids
    BY DEF Live
  <1>2. TypeInv'
    BY DEF CowInv, TypeInv
  <1>3. FramesUsed(table', used')
    BY DEF CowInv
  <1>4. ASSUME "relatives" \notin leaks' PROVE OneChild' /\ Apart(table', Live')
    <2>1. OneChild /\ Apart(table, Live)
      BY <1>4 DEF CowInv
    <2>2. OneChild'
      BY <1>1, <2>1, ConstantFacts DEF OneChild
    <2>3. Apart(table', Live')
      BY <1>1, <2>1 DEF Apart
    <2> QED BY <2>2, <2>3
  <1>5. MemoryIsPrivate'
    BY <1>1, PrivateMeans DEF CowInv
  <1>6. FramesUsed(table, used)' /\ ("relatives" \notin leaks => OneChild /\ Apart(table, Live))'
    BY <1>3, <1>4 DEF FramesUsed, Apart
  <1> QED BY <1>2, <1>5, <1>6 DEF CowInv

(* A step that only changes memory. *)
LEMMA MemoryStep ==
    ASSUME CowInv, UNCHANGED <<state, ppid, cross>>,
           writing' \in [Pids -> Pages \cup {NoPage}], halted' \in BOOLEAN,
           content' \in [Frames -> Nat], meant' \in [Pids -> [Pages -> Nat]],
           used' \in 0..MaxFrames, leaks \subseteq leaks',
           table' \in Tables, FramesUsed(table', used'),
           "relatives" \notin leaks' => Apart(table', Live),
           (leaks' = {} /\ ~halted') =>
               \A q \in Live, w \in Pages : ViewOf(table', content', q, w) = meant'[q][w]
    PROVE  CowInv'
  <1>1. Live' = Live
    BY DEF Live
  <1>2. TypeInv'
    BY DEF CowInv, TypeInv, Tables, Entry
  <1>3. ASSUME "relatives" \notin leaks' PROVE OneChild' /\ Apart(table', Live')
    <2>1. OneChild
      BY <1>3 DEF CowInv
    <2>2. OneChild'
      BY <1>1, <2>1 DEF OneChild
    <2> QED BY <1>1, <1>3, <2>2
  <1>4. MemoryIsPrivate'
    BY <1>1, PrivateMeans
  <1>5. FramesUsed(table, used)' /\ ("relatives" \notin leaks => OneChild /\ Apart(table, Live))'
    BY <1>3 DEF FramesUsed, Apart
  <1> QED BY <1>2, <1>4, <1>5 DEF CowInv

(* What the invariant says of the memory before a step, for short. *)
LEMMA Before ==
    ASSUME CowInv
    PROVE  /\ TypeInv /\ FramesUsed(table, used) /\ table \in Tables
           /\ content \in [Frames -> Nat] /\ meant \in [Pids -> [Pages -> Nat]]
           /\ used \in 0..MaxFrames /\ used \in Nat /\ Live \subseteq Pids
           /\ halted \in BOOLEAN /\ writing \in [Pids -> Pages \cup {NoPage}]
           /\ "relatives" \notin leaks => OneChild /\ Apart(table, Live)
           /\ leaks = {} => OneChild /\ Apart(table, Live)
           /\ (leaks = {} /\ ~halted) =>
                 \A q \in Live, w \in Pages : ViewOf(table, content, q, w) = meant[q][w]
  BY PrivateMeans, ConstantFacts, SMTT(30) DEF CowInv, TypeInv, Live

(* The page of a store, and that the process no longer waits for it. *)
LEMMA AtStore ==
    ASSUME CowInv, NEW p \in Pids, Runs(p), writing[p] # NoPage
    PROVE  /\ writing[p] \in Pages /\ p \in Live /\ ~halted /\ p \in Nat
           /\ [writing EXCEPT ![p] = NoPage] \in [Pids -> Pages \cup {NoPage}]
  BY ConstantFacts DEF Runs, CowInv, TypeInv

(* A store to a writable page. *)
LEMMA WriteStep ==
    ASSUME CowInv, NEW p \in Pids, Write(p)
    PROVE  CowInv'
  <1> DEFINE v == writing[p]
  <1>1. /\ v \in Pages /\ p \in Live /\ ~halted /\ p \in Nat
        /\ writing' \in [Pids -> Pages \cup {NoPage}]
    BY AtStore DEF Write
  <1>2. /\ UNCHANGED <<state, ppid, table, cross, used, halted, leaks>>
        /\ table[p][v].rw
        /\ content' = [content EXCEPT ![table[p][v].frame] = p]
        /\ meant' = [meant EXCEPT ![p][v] = p]
    BY DEF Write
  <1> HIDE DEF v
  <1>3. table[p][v] # Absent
    BY <1>2 DEF Absent
  <1>4. content' \in [Frames -> Nat] /\ meant' \in [Pids -> [Pages -> Nat]]
    <2>1. table[p][v].frame \in Nat
      BY <1>1, <1>3, Before DEF FramesUsed
    <2>2. content' \in [Frames -> Nat]
      BY <1>1, <1>2, <2>1, Before
    <2>3. meant' \in [Pids -> [Pages -> Nat]]
      BY <1>1, <1>2, Before
    <2> QED BY <2>2, <2>3
  <1>5. ASSUME leaks' = {} PROVE \A q \in Live, w \in Pages :
                                     ViewOf(table', content', q, w) = meant'[q][w]
    <2>1. leaks = {} /\ Apart(table, Live)
      BY <1>2, <1>5, Before
    <2>2. \A q \in Live, w \in Pages :
              (table[q][w] # Absent /\ table[q][w].frame = table[p][v].frame) => q = p /\ w = v
      BY <1>1, <1>2, <1>3, <2>1 DEF Apart
    <2>3. \A q \in Live, w \in Pages :
              ViewOf(table, content', q, w)
                  = IF q = p /\ w = v THEN p ELSE ViewOf(table, content, q, w)
      <3>1. /\ table \in Tables /\ content \in [Frames -> Nat] /\ used \in 0..MaxFrames
            /\ Live \in SUBSET Pids /\ FramesUsed(table, used)
        BY Before
      <3>2. \A q \in Live, w \in Pages :
                ViewOf(table, [content EXCEPT ![table[p][v].frame] = p], q, w)
                    = IF q = p /\ w = v THEN p ELSE ViewOf(table, content, q, w)
        <4>1. ShowsAt(table, table, [content EXCEPT ![table[p][v].frame] = p], p, v, p)
          BY <1>1, <1>3, <2>2, <3>1, StoreSeen
        <4> QED BY <4>1 DEF ShowsAt
      <3> QED BY <1>2, <3>2
    <2>4. \A q \in Live, w \in Pages : ViewOf(table, content, q, w) = meant[q][w]
      BY <1>1, <2>1, Before
    <2>5. \A q \in Live, w \in Pages :
              meant'[q][w] = IF q = p /\ w = v THEN p ELSE meant[q][w]
      BY <1>1, <1>2, Before
    <2>6. table' = table
      BY <1>2
    <2> QED BY <2>3, <2>4, <2>5, <2>6
  <1>6. "relatives" \notin leaks' => Apart(table', Live)
    BY <1>2, Before
  <1>7. table' \in Tables /\ FramesUsed(table', used') /\ used' \in 0..MaxFrames
        /\ halted' \in BOOLEAN /\ leaks \subseteq leaks'
    BY <1>2, Before
  <1> QED BY <1>1, <1>2, <1>4, <1>5, <1>6, <1>7, MemoryStep

(* The first store to a page. *)
LEMMA TouchStep ==
    ASSUME CowInv, NEW p \in Pids, Touch(p)
    PROVE  CowInv'
  <1> DEFINE v == writing[p]
  <1>1. v \in Pages /\ p \in Live /\ ~halted
    BY AtStore DEF Touch
  <1>2. /\ UNCHANGED <<state, ppid, cross, writing, halted, meant, leaks>>
        /\ table[p][v] = Absent
        /\ used < MaxFrames /\ used' = used + 1
        /\ content' = [content EXCEPT ![used + 1] = Blank]
        /\ table' = [table EXCEPT ![p][v] = [frame |-> used + 1, rw |-> TRUE]]
    BY DEF Touch, TakeFrame, FrameLeft
  <1> HIDE DEF v
  <1>3. used' \in 0..MaxFrames /\ used + 1 \in Frames /\ Blank \in Nat
    BY <1>2, Before, ConstantFacts DEF Blank
  <1>4. /\ content' \in [Frames -> Nat]
        /\ ShowsAt(table, table', content', p, v, Blank)
    <2>1. /\ table \in Tables /\ content \in [Frames -> Nat] /\ used \in 0..MaxFrames
          /\ FramesUsed(table, used)
      BY Before
    <2>2. /\ [content EXCEPT ![used + 1] = Blank] \in [Frames -> Nat]
          /\ ShowsAt(table, [table EXCEPT ![p][v] = [frame |-> used + 1, rw |-> TRUE]],
                     [content EXCEPT ![used + 1] = Blank], p, v, Blank)
      BY <1>1, <1>2, <1>3, <2>1, FreshSeen
    <2> QED BY <1>2, <2>2
  <1>5. table' \in Tables /\ FramesUsed(table', used')
    BY <1>1, <1>2, FreshUsed, Before
  <1>6. "relatives" \notin leaks' => Apart(table', Live)
    <2>1. Live \in SUBSET Pids /\ used \in Nat
      BY Before
    <2> QED BY <1>1, <1>2, <2>1, FreshFrame, Before
  <1>7. ViewOf(table, content, p, v) = Blank
    BY <1>2 DEF ViewOf
  <1>8. \A q \in Live, w \in Pages : ViewOf(table', content', q, w) = ViewOf(table, content, q, w)
    BY <1>4, <1>7 DEF ShowsAt
  <1> QED BY <1>2, <1>3, <1>4, <1>5, <1>6, <1>8, Before, MemoryStep

(* A store by the kernel through tables t, from which an exec may have taken *)
(* entries of p.                                                             *)
LEMMA KernelStep ==
    ASSUME CowInv, NEW p \in Pids, NEW v \in Pages, NEW t \in Tables, Runs(p),
           KernelStore(t, p, v), UNCHANGED <<state, ppid, cross, writing>>,
           \A q \in Pids, w \in Pages :
               t[q][w] = table[q][w] \/ (q = p /\ w # v /\ t[q][w] = Absent)
    PROVE  CowInv'
  <1>1. /\ p \in Live /\ ~halted /\ p \in Nat /\ Blank \in Nat
        /\ table \in Tables /\ content \in [Frames -> Nat] /\ used \in 0..MaxFrames
        /\ used \in Nat /\ meant \in [Pids -> [Pages -> Nat]]
        /\ FramesUsed(table, used) /\ Live \in SUBSET Pids
        /\ writing' \in [Pids -> Pages \cup {NoPage}]
    BY ConstantFacts, Before DEF Runs, Blank
  <1>2. FramesUsed(t, used) /\ ("relatives" \notin leaks => Apart(t, Live))
    <2>1. FramesUsed(t, used)
      BY <1>1 DEF FramesUsed
    <2>2. ASSUME "relatives" \notin leaks PROVE Apart(t, Live)
      <3>1. Apart(table, Live)
        BY <2>2, Before
      <3>2. \A q \in Live, w \in Pages : t[q][w] # Absent => t[q][w] = table[q][w]
        BY <1>1
      <3> QED BY <3>1, <3>2 DEF Apart
    <2> QED BY <2>1, <2>2
  <1>3. meant' = [meant EXCEPT ![p] = [w \in Pages |->
                    IF w = v THEN p ELSE IF t[p][w] = Absent THEN Blank ELSE meant[p][w]]]
    BY DEF KernelStore
  <1>4. /\ meant' \in [Pids -> [Pages -> Nat]]
        /\ \A q \in Live, w \in Pages :
              meant'[q][w] = IF q = p /\ w = v THEN p
                             ELSE IF q = p /\ t[p][w] = Absent THEN Blank ELSE meant[q][w]
    BY <1>1, <1>3
  <1>5. ASSUME leaks = {}
        PROVE  \A q \in Live, w \in Pages :
                   ~(q = p /\ w = v) => ViewOf(t, content, q, w) = meant'[q][w]
    <2> TAKE q \in Live, w \in Pages
    <2> HAVE ~(q = p /\ w = v)
    <2>1. ViewOf(table, content, q, w) = meant[q][w]
      BY <1>1, <1>5, Before
    <2>2. CASE q = p /\ t[q][w] = Absent
      BY <1>4, <2>2 DEF ViewOf
    <2>3. CASE ~(q = p /\ t[q][w] = Absent)
      <3>1. t[q][w] = table[q][w]
        BY <1>1, <2>3
      <3>2. ViewOf(t, content, q, w) = ViewOf(table, content, q, w)
        BY <3>1 DEF ViewOf
      <3>3. meant'[q][w] = meant[q][w]
        BY <1>4, <2>3
      <3> QED BY <2>1, <3>2, <3>3
    <2> QED BY <2>2, <2>3
  <1>6. CASE /\ t[p][v] = Absent
             /\ TakeFrame(p)
             /\ table' = [t EXCEPT ![p][v] = [frame |-> used + 1, rw |-> TRUE]]
             /\ UNCHANGED <<halted, leaks>>
    <2>1. /\ used < MaxFrames /\ used' = used + 1
          /\ content' = [content EXCEPT ![used + 1] = p]
      BY <1>6 DEF TakeFrame, FrameLeft
    <2>2. used' \in 0..MaxFrames /\ halted' \in BOOLEAN /\ leaks \subseteq leaks'
      BY <1>1, <1>6, <2>1, ConstantFacts, Before
    <2>3. table' \in Tables /\ FramesUsed(table', used')
      BY <1>1, <1>2, <1>6, <2>1, FreshUsed
    <2>4. "relatives" \notin leaks' => Apart(table', Live)
      BY <1>1, <1>2, <1>6, FreshFrame
    <2>5. /\ [content EXCEPT ![used + 1] = p] \in [Frames -> Nat]
          /\ ShowsAt(t, [t EXCEPT ![p][v] = [frame |-> used + 1, rw |-> TRUE]],
                     [content EXCEPT ![used + 1] = p], p, v, p)
      BY <1>1, <1>2, <2>1, FreshSeen
    <2>6. content' \in [Frames -> Nat] /\ ShowsAt(t, table', content', p, v, p)
      BY <1>6, <2>1, <2>5
    <2>7. leaks' = {} => \A q \in Live, w \in Pages :
                            ViewOf(table', content', q, w) = meant'[q][w]
      <3> SUFFICES ASSUME leaks' = {}, NEW q \in Live, NEW w \in Pages
                   PROVE  ViewOf(table', content', q, w) = meant'[q][w]
        OBVIOUS
      <3>1. ViewOf(table', content', q, w)
              = IF q = p /\ w = v THEN p ELSE ViewOf(t, content, q, w)
        BY <2>6 DEF ShowsAt
      <3>2. CASE q = p /\ w = v
        BY <1>4, <3>1, <3>2
      <3>3. CASE ~(q = p /\ w = v)
        <4>1. leaks = {}
          BY <1>6
        <4> QED BY <1>5, <3>1, <3>3, <4>1
      <3> QED BY <3>2, <3>3
    <2> QED BY <1>1, <1>4, <2>2, <2>3, <2>4, <2>6, <2>7, MemoryStep
  <1>7. CASE /\ t[p][v] # Absent
             /\ content' = [content EXCEPT ![t[p][v].frame] = p]
             /\ table' = t
             /\ leaks' = IF Sharers(p, v) = {} THEN leaks ELSE leaks \cup {"kernel"}
             /\ UNCHANGED <<used, halted>>
    <2>1. used' \in 0..MaxFrames /\ halted' \in BOOLEAN /\ leaks \subseteq leaks'
      BY <1>1, <1>7, Before
    <2>2. table' \in Tables /\ FramesUsed(table', used')
      BY <1>2, <1>7
    <2>3. "relatives" \notin leaks' => Apart(table', Live)
      BY <1>2, <1>7, <2>1
    <2>4. content' \in [Frames -> Nat]
      BY <1>1, <1>7
    <2>5. ASSUME leaks' = {}
          PROVE  \A q \in Live, w \in Pages : ViewOf(table', content', q, w) = meant'[q][w]
      <3>1. leaks = {} /\ Sharers(p, v) = {} /\ Apart(t, Live)
        BY <1>2, <1>7, <2>5
      <3>2. ASSUME NEW q \in Live, NEW w \in Pages, t[q][w] # Absent,
                   t[q][w].frame = t[p][v].frame
            PROVE  q = p /\ w = v
        <4>1. w = v
          BY <1>1, <1>7, <3>1, <3>2 DEF Apart
        <4>2. table[q][w] = t[q][w] /\ table[p][v] = t[p][v]
          BY <1>1, <3>2
        <4>3. q # p => q \in Sharers(p, v)
          BY <3>2, <4>2 DEF Sharers
        <4> QED BY <3>1, <4>1, <4>3
      <3>3. ShowsAt(t, t, [content EXCEPT ![t[p][v].frame] = p], p, v, p)
        <4>1. \A q \in Live, w \in Pages :
                  (t[q][w] # Absent /\ t[q][w].frame = t[p][v].frame) => q = p /\ w = v
          BY <3>2
        <4>2. /\ p \in Live /\ p \in Nat /\ content \in [Frames -> Nat]
              /\ used \in 0..MaxFrames /\ FramesUsed(t, used) /\ t[p][v] # Absent
          BY <1>1, <1>2, <1>7
        <4> QED BY <4>1, <4>2, StoreSeen
      <3>4. ShowsAt(t, table', content', p, v, p)
        BY <1>7, <3>3
      <3> QED BY <1>4, <1>5, <3>1, <3>4 DEF ShowsAt
    <2> QED BY <1>1, <1>4, <2>1, <2>2, <2>3, <2>4, <2>5, MemoryStep
  <1>8. CASE halted' = TRUE /\ table' = t /\ UNCHANGED <<content, used, leaks>>
    <2>1. /\ used' \in 0..MaxFrames /\ halted' \in BOOLEAN /\ leaks \subseteq leaks'
          /\ table' \in Tables /\ FramesUsed(table', used')
          /\ "relatives" \notin leaks' => Apart(table', Live)
          /\ content' \in [Frames -> Nat]
      BY <1>1, <1>2, <1>8
    <2> QED BY <1>1, <1>4, <1>8, <2>1, MemoryStep
  <1> QED BY <1>6, <1>7, <1>8 DEF KernelStore

(* Who may be the other process that maps a page crossed off for p: nobody   *)
(* but p.                                                                    *)
LEMMA OnlyRelative ==
    ASSUME TypeInv, OneChild, NEW p \in Live, cross[p] \in Live,
           NEW r \in Live, r # cross[p]
    PROVE  r = p /\ cross[p] # p
  <1>1. Live \subseteq Pids
    BY DEF Live
  <1>2. CASE p = Shell
    BY <1>1, <1>2 DEF OneChild
  <1>3. CASE p # Shell
    BY <1>1, <1>3 DEF OneChild
  <1> QED BY <1>2, <1>3

(* handle_COW, with a relative (a copy) and without one (no copy). *)
LEMMA WriteFaultStep ==
    ASSUME CowInv, NEW p \in Pids, WriteFault(p)
    PROVE  CowInv'
  <1> DEFINE v == writing[p]
             t == do_COW(table, p, v)
  <1>1. /\ v \in Pages /\ p \in Live /\ ~halted
        /\ TypeInv /\ table \in Tables /\ content \in [Frames -> Nat] /\ used \in 0..MaxFrames
        /\ used \in Nat /\ meant \in [Pids -> [Pages -> Nat]]
        /\ FramesUsed(table, used) /\ Live \in SUBSET Pids
    BY AtStore, Before DEF WriteFault
  <1>2. /\ UNCHANGED <<state, ppid, cross, writing, halted, meant, leaks>>
        /\ table[p][v] # Absent /\ handle_COW(p, v)
    BY DEF WriteFault
  <1>3. /\ writing' \in [Pids -> Pages \cup {NoPage}] /\ halted' \in BOOLEAN
        /\ meant' \in [Pids -> [Pages -> Nat]] /\ leaks \subseteq leaks'
    BY <1>2, Before
  <1>4. leaks = {} => \A q \in Live, w \in Pages :
                          ViewOf(table, content, q, w) = meant[q][w]
    BY <1>1, Before
  <1> HIDE DEF v, t
  <1>5. CASE /\ TakeFrame(content[table[p][v].frame])
             /\ table' = cross_off_COW(t, p, v)
    <2> DEFINE x == content[table[p][v].frame]
    <2>1. /\ used < MaxFrames /\ used' = used + 1
          /\ content' = [content EXCEPT ![used + 1] = x]
          /\ t = [table EXCEPT ![p][v] = [frame |-> used + 1, rw |-> TRUE]]
      BY <1>5 DEF TakeFrame, FrameLeft, do_COW, t
    <2>2. x = ViewOf(table, content, p, v) /\ x \in Nat
      <3>1. table[p][v].frame \in Frames
        BY <1>1, <1>2, ConstantFacts DEF FramesUsed
      <3> QED BY <1>1, <1>2, <3>1 DEF ViewOf
    <2> HIDE DEF x
    <2>3. t \in Tables /\ FramesUsed(t, used + 1)
      BY <1>1, <2>1, FreshUsed
    <2>4. /\ [content EXCEPT ![used + 1] = x] \in [Frames -> Nat]
          /\ ShowsAt(table, [table EXCEPT ![p][v] = [frame |-> used + 1, rw |-> TRUE]],
                     [content EXCEPT ![used + 1] = x], p, v, x)
      BY <1>1, <2>1, <2>2, FreshSeen
    <2>5. content' \in [Frames -> Nat] /\ ShowsAt(table, t, content', p, v, x)
      BY <2>1, <2>4
    <2>6. /\ table' \in Tables /\ FramesUsed(table', used') /\ used' \in 0..MaxFrames
      <3>1. cross_off_COW(t, p, v) \in Tables
        BY <1>1, <2>3, CrossedOff
      <3>2. FramesUsed(cross_off_COW(t, p, v), used + 1)
        BY <1>1, <2>3, CrossedOffUsed
      <3> QED BY <1>1, <1>5, <2>1, <3>1, <3>2, ConstantFacts
    <2>7. ASSUME "relatives" \notin leaks' PROVE Apart(table', Live)
      <3>1. OneChild /\ Apart(table, Live)
        BY <1>2, <2>7, Before
      <3>2. Apart(t, Live)
        BY <1>1, <2>1, <3>1, FreshFrame
      <3>3. ASSUME NEW r \in Live, cross[p] \in Live, r # cross[p], t[r][v] # Absent,
                   t[cross[p]][v] # Absent
            PROVE  t[r][v].frame # t[cross[p]][v].frame
        <4>1. r = p /\ cross[p] # p
          BY <1>1, <3>1, <3>3, OnlyRelative
        <4>2. [frame |-> used + 1, rw |-> TRUE] \in Entry
          BY <1>1 DEF Entry
        <4>3. t[p][v].frame = used + 1 /\ t[cross[p]][v] = table[cross[p]][v]
          BY <1>1, <2>1, <3>3, <4>1 DEF Tables
        <4>4. table[cross[p]][v].frame \in 1..used
          BY <1>1, <3>3, <4>3 DEF FramesUsed
        <4> QED BY <1>1, <4>1, <4>3, <4>4
      <3> QED BY <1>1, <1>5, <2>3, <3>2, <3>3, CrossedOffApart
    <2>8. \A q \in Live, w \in Pages :
              ViewOf(table', content', q, w) = ViewOf(table, content, q, w)
      <3>1. \A q \in Pids, w \in Pages :
                ViewOf(cross_off_COW(t, p, v), content', q, w) = ViewOf(t, content', q, w)
        BY <1>1, <2>3, CrossedOffSeen
      <3>2. \A q \in Live, w \in Pages :
                ViewOf(t, content', q, w) = ViewOf(table, content, q, w)
        BY <2>2, <2>5 DEF ShowsAt
      <3> QED BY <1>1, <1>5, <3>1, <3>2
    <2> QED BY <1>2, <1>3, <1>4, <2>5, <2>6, <2>7, <2>8, MemoryStep
  <1>6. CASE /\ ~RelativeFound(p)
             /\ table' = cross_off_COW(table, p, v)
             /\ UNCHANGED <<content, used>>
    <2>1. /\ table' \in Tables /\ FramesUsed(table', used') /\ used' \in 0..MaxFrames
          /\ content' \in [Frames -> Nat]
      BY <1>1, <1>6, CrossedOff, CrossedOffUsed
    <2>2. ASSUME "relatives" \notin leaks' PROVE Apart(table', Live)
      <3>1. OneChild /\ Apart(table, Live)
        BY <1>2, <2>2, Before
      <3>2. ASSUME cross[p] \in Live, cross[p] # p PROVE FALSE
        <4>1. cross[p] \in Pids /\ state[cross[p]] = "live" /\ p \in Pids
          BY <3>2 DEF Live
        <4>2. CASE p = Shell
          <5>1. ppid[cross[p]] = p /\ ppid[p] = NoPid /\ InQueue(cross[p])
            BY <3>1, <3>2, <4>1, <4>2 DEF OneChild, InQueue
          <5> QED BY <1>6, <4>1, <5>1 DEF RelativeFound
        <4>3. CASE p # Shell
          <5>1. ppid[p] = Shell /\ cross[p] = Shell /\ Shell # NoPid
            BY <1>1, <3>1, <4>1, <4>3, ConstantFacts DEF OneChild, Live
          <5>2. InQueue(ppid[p])
            BY <4>1, <5>1 DEF InQueue
          <5> QED BY <1>6, <5>1, <5>2 DEF RelativeFound
        <4> QED BY <4>2, <4>3
      <3>3. ASSUME NEW r \in Live, cross[p] \in Live, r # cross[p] PROVE FALSE
        BY <1>1, <3>1, <3>2, <3>3, OnlyRelative
      <3> QED BY <1>1, <1>6, <3>1, <3>3, CrossedOffApart
    <2>3. \A q \in Live, w \in Pages :
              ViewOf(table', content', q, w) = ViewOf(table, content, q, w)
      BY <1>1, <1>6, CrossedOffSeen
    <2> QED BY <1>2, <1>3, <1>4, <2>1, <2>2, <2>3, MemoryStep
  <1> QED BY <1>2, <1>5, <1>6 DEF handle_COW, t

(* The shell forks its only child. *)
LEMMA ForkStep ==
    ASSUME CowInv, NEW p \in Pids, Fork(p)
    PROVE  CowInv'
  <1>1. PICK c \in Pids :
           /\ InUser(p) /\ state[c] = "none"
           /\ state' = [state EXCEPT ![c] = "live"]
           /\ ppid' = [ppid EXCEPT ![c] = p]
           /\ cross' = [cross EXCEPT ![p] = c, ![c] = p]
           /\ table' = mark_COW(table, p, c)
           /\ meant' = [meant EXCEPT ![c] = meant[p]]
           /\ leaks' = IF ManyRelatives(p) THEN leaks \cup {"relatives"} ELSE leaks
           /\ UNCHANGED <<content, used, stores, writing, wp, halted>>
    BY DEF Fork
  <1>2. /\ state[p] = "live" /\ p # c /\ p \in Live /\ c \notin Live
        /\ TypeInv /\ table \in Tables /\ FramesUsed(table, used) /\ used \in Nat
    BY <1>1, Before DEF InUser, Runs, Live
  <1>3. /\ table' \in Tables
        /\ \A q \in Pids, w \in Pages :
              table'[q][w] = IF q \in {p, c} THEN [frame |-> table[p][w].frame, rw |-> FALSE]
                             ELSE table[q][w]
    BY <1>1, <1>2, Marked
  <1>4. Live' = Live \cup {c}
    BY <1>1, <1>2 DEF Live, TypeInv
  <1>5. \A q \in {p, c}, w \in Pages :
            /\ (table'[q][w] = Absent) <=> (table[p][w] = Absent)
            /\ table'[q][w].frame = table[p][w].frame /\ table'[q][w].rw = FALSE
    <2> TAKE q \in {p, c}, w \in Pages
    <2>1. table[p][w] = Absent \/ table[p][w].frame \in 1..used
      BY <1>2 DEF FramesUsed
    <2>2. table'[q][w] = [frame |-> table[p][w].frame, rw |-> FALSE]
      BY <1>3
    <2>3. table'[q][w] = Absent <=> table[p][w].frame = 0
      <3>1. table'[q][w].frame = table[p][w].frame /\ Absent.frame = 0
        BY <2>2 DEF Absent
      <3>2. table[p][w].frame = 0 => table'[q][w] = Absent
        BY <2>2 DEF Absent
      <3> QED BY <3>1, <3>2
    <2>4. table[p][w].frame = 0 <=> table[p][w] = Absent
      BY <1>2, <2>1 DEF Absent
    <2> QED BY <2>2, <2>3, <2>4
  <1>6. TypeInv'
    <2>1. /\ state' \in [Pids -> {"none", "live", "killed", "gone"}]
          /\ ppid' \in [Pids -> Pids \cup {NoPid}]
          /\ cross' \in [Pids -> Pids \cup {NoPid}]
      BY <1>1, <1>2 DEF TypeInv
    <2>2. meant' \in [Pids -> [Pages -> Nat]]
      BY <1>1, <1>2 DEF TypeInv
    <2> QED BY <1>1, <1>2, <1>3, <2>1, <2>2 DEF TypeInv, Tables, Entry
  <1>7. FramesUsed(table', used')
    <2> SUFFICES ASSUME NEW q \in Pids, NEW w \in Pages
                 PROVE  table'[q][w] = Absent \/ table'[q][w].frame \in 1..used
      BY <1>1 DEF FramesUsed
    <2>1. CASE q \in {p, c}
      BY <1>2, <1>5, <2>1 DEF FramesUsed
    <2>2. CASE q \notin {p, c}
      BY <1>2, <1>3, <2>2 DEF FramesUsed
    <2> QED BY <2>1, <2>2
  <1>8. ASSUME "relatives" \notin leaks'
        PROVE  /\ p = Shell /\ Live' = {p, c} /\ OneChild /\ Apart(table, Live)
               /\ leaks' = leaks /\ ppid[p] = NoPid
    <2>1. leaks' = leaks /\ ppid[p] = NoPid /\ \A q \in Live : ppid[q] # p
      BY <1>1, <1>8 DEF ManyRelatives
    <2>2. OneChild /\ Apart(table, Live)
      BY <1>8, <2>1, Before
    <2>3. p = Shell
      BY <1>2, <2>1, <2>2, ConstantFacts DEF OneChild
    <2>4. Live = {p}
      BY <1>2, <2>1, <2>2, <2>3 DEF OneChild, Live
    <2> QED BY <1>4, <2>1, <2>2, <2>3, <2>4
  <1>9. ASSUME "relatives" \notin leaks' PROVE OneChild' /\ Apart(table', Live')
    <2>1. OneChild'
      <3>1. ppid'[Shell] = NoPid /\ state'[Shell] # "none"
        BY <1>1, <1>2, <1>8, <1>9 DEF TypeInv
      <3>2. \A q \in Pids \ {Shell} : state'[q] = "none" \/ ppid'[q] = Shell
        BY <1>1, <1>2, <1>8, <1>9 DEF OneChild, TypeInv
      <3>3. cross'[c] = Shell /\ cross'[Shell] = c
        BY <1>1, <1>2, <1>8, <1>9 DEF TypeInv
      <3>4. Live' \ {Shell} = {c}
        BY <1>2, <1>8, <1>9
      <3> QED BY <3>1, <3>2, <3>3, <3>4 DEF OneChild
    <2>2. Apart(table', Live')
      <3>1. \A w, x \in Pages :
                (table[p][w] # Absent /\ table[p][x] # Absent
                    /\ table[p][w].frame = table[p][x].frame) => w = x
        BY <1>2, <1>8, <1>9 DEF Apart
      <3> QED BY <1>5, <1>8, <1>9, <3>1 DEF Apart
    <2> QED BY <2>1, <2>2
  <1>10. MemoryIsPrivate'
    <2> SUFFICES ASSUME leaks' = {}, ~halted', NEW q \in Live', NEW w \in Pages
                 PROVE  ViewOf(table', content', q, w) = meant'[q][w]
      BY PrivateMeans
    <2>1. leaks = {} /\ ~halted /\ q \in {p, c}
      BY <1>1, <1>8
    <2>2. ViewOf(table', content', q, w) = ViewOf(table, content, p, w)
      BY <1>1, <1>5, <2>1 DEF ViewOf
    <2>3. meant'[q][w] = meant[p][w]
      BY <1>1, <1>2, <2>1 DEF TypeInv
    <2>4. ViewOf(table, content, p, w) = meant[p][w]
      BY <1>2, <2>1, Before
    <2> QED BY <2>2, <2>3, <2>4
  <1>11. FramesUsed(table, used)' /\ ("relatives" \notin leaks => OneChild /\ Apart(table, Live))'
    BY <1>7, <1>9 DEF FramesUsed, Apart
  <1> QED BY <1>6, <1>10, <1>11 DEF CowInv

(* process_exec clears the program's entries and stores the arguments. *)
LEMMA ExecStep ==
    ASSUME CowInv, NEW p \in Pids, Exec(p)
    PROVE  CowInv'
  <1> DEFINE row == [v \in Pages |-> IF v \in Low THEN Absent ELSE table[p][v]]
             t == [table EXCEPT ![p] = row]
  <1>1. /\ KernelStore(t, p, Stack) /\ Runs(p)
        /\ UNCHANGED <<state, ppid, cross, writing>>
    BY DEF Exec, InUser
  <1>2. row \in [Pages -> Entry]
    BY Before, ConstantFacts DEF Tables
  <1>3. \A w \in Pages : row[w] = table[p][w] \/ (w # Stack /\ row[w] = Absent)
    BY ConstantFacts
  <1> HIDE DEF row
  <1>4. table \in Tables
    BY Before
  <1>5. t \in Tables /\ \A q \in Pids : t[q] = IF q = p THEN row ELSE table[q]
    BY <1>2, <1>4 DEF Tables
  <1> HIDE DEF t
  <1>6. \A q \in Pids, w \in Pages :
            t[q][w] = table[q][w] \/ (q = p /\ w # Stack /\ t[q][w] = Absent)
    BY <1>3, <1>5
  <1> QED BY <1>1, <1>5, <1>6, ConstantFacts, KernelStep

(* A store of read or wait4 goes through the tables as they are. *)
LEMMA KernelWriteStep ==
    ASSUME CowInv, NEW p \in Pids, NEW v \in Pages, KernelWrite(p, v)
    PROVE  CowInv'
  <1>1. /\ KernelStore(table, p, v) /\ Runs(p) /\ table \in Tables
        /\ UNCHANGED <<state, ppid, cross, writing>>
    BY Before DEF KernelWrite, InUser
  <1> QED BY <1>1, KernelStep

(* A process reaches a store, exits, is killed or leaves the queue. *)
LEMMA QuietActions ==
    ASSUME CowInv, NEW p \in Pids,
           \/ Exit(p) \/ Dequeue(p) \/ \E q \in Pids : Kill(p, q)
           \/ \E v \in Pages : StartWrite(p, v)
    PROVE  CowInv'
  <1>1. /\ state \in [Pids -> {"none", "live", "killed", "gone"}]
        /\ writing \in [Pids -> Pages \cup {NoPage}]
    BY DEF CowInv, TypeInv
  <1>2. ASSUME NEW q \in Pids, state[q] # "none", NEW s \in {"killed", "gone"},
               state' = [state EXCEPT ![q] = s],
               UNCHANGED <<ppid, table, cross, content, used, writing, halted, meant, leaks>>
        PROVE  CowInv'
    BY <1>1, <1>2, QuietStep
  <1>3. ASSUME NEW v \in Pages, StartWrite(p, v) PROVE CowInv'
    <2>1. /\ UNCHANGED <<state, ppid, table, cross, content, used, halted, meant, leaks>>
          /\ writing' = [writing EXCEPT ![p] = v]
      BY <1>3 DEF StartWrite
    <2> QED BY <1>1, <2>1, QuietStep
  <1>4. CASE Exit(p)
    BY <1>2, <1>4 DEF Exit, InUser, Runs, Live
  <1>5. CASE Dequeue(p)
    BY <1>2, <1>5 DEF Dequeue
  <1>6. ASSUME NEW q \in Pids, Kill(p, q) PROVE CowInv'
    BY <1>2, <1>6 DEF Kill, Live
  <1> QED BY <1>3, <1>4, <1>5, <1>6

(* CowInv holds in every reachable state. *)
LEMMA CowInvAlways == Spec => []CowInv
  <1>1. CowInv /\ [Next]_vars => CowInv'
    <2> SUFFICES ASSUME CowInv, [Next]_vars PROVE CowInv'
      OBVIOUS
    <2>1. ASSUME NEW p \in Pids, StoreStep(p) PROVE CowInv'
      BY <2>1, WriteStep, TouchStep, WriteFaultStep DEF StoreStep
    <2>2. CASE UNCHANGED vars
      <3>1. UNCHANGED <<state, writing, ppid, table, cross, content, used, halted, meant, leaks>>
        BY <2>2 DEF vars
      <3>2. /\ state \in [Pids -> {"none", "live", "killed", "gone"}]
            /\ writing \in [Pids -> Pages \cup {NoPage}]
        BY DEF CowInv, TypeInv
      <3> QED BY <3>1, <3>2, QuietStep
    <2> QED BY <2>1, <2>2, ForkStep, ExecStep, KernelWriteStep, QuietActions DEF Next
  <1> QED BY <1>1, InitiallyPrivate, PTL DEF Spec

(* For any number of pages, frames and forks: as long as nobody has more than *)
(* one relative at a time, handle_COW and cross_off_COW make a page writable *)
(* only where no other living process maps its frame.                        *)
THEOREM NoSharedWriterAlways == Spec => []NoSharedWriter
  <1>1. CowInv => NoSharedWriter
    <2> SUFFICES ASSUME CowInv, "relatives" \notin leaks,
                        NEW p \in Live, NEW v \in Pages, table[p][v].rw
                 PROVE  Sharers(p, v) = {}
      BY DEF NoSharedWriter
    <2>1. Apart(table, Live) /\ table[p][v] # Absent
      BY Before DEF Absent
    <2> QED BY <2>1 DEF Apart, Sharers
  <1> QED BY <1>1, CowInvAlways, PTL

(* Until one of the named leaks a process reads what it stored itself or had *)
(* at its fork, whatever its relative does.                                  *)
THEOREM MemoryIsPrivateAlways == Spec => []MemoryIsPrivate
  <1>1. CowInv => MemoryIsPrivate
    BY DEF CowInv
  <1> QED BY <1>1, CowInvAlways, PTL
=============================================================================
